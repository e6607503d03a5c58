---------------------------- MODULE UpdateEngine ----------------------------
(***************************************************************************)
(* Engine.Update and what it calls (tools/centroidx-manager/internal/      *)
(* update): fetch the release, download its package next to the checksum   *)
(* file, verify, move the package to its fixed name in TEMP, install,      *)
(* record which build that was.                                            *)
(*                                                                         *)
(* Every request, file operation and call into the installer is a step of  *)
(* its own.  Two managers may be at work (the one the application started  *)
(* to update itself and the version picker) and share TEMP, the install    *)
(* record and the machine.  The `main-latest` release is deleted and       *)
(* created anew for every build of the main branch, at the same URLs.      *)
(*                                                                         *)
(* GitHub, the file system's locks and the platform's installer are        *)
(* external.                                                               *)
(***************************************************************************)
EXTENDS PackageVersions, InstallOutcomes

CONSTANTS
  Runs,       \* the managers that may be at work
  MaxBuilds,  \* bound on the builds ever published
  Suffixed,   \* those whose version tag carries a build number, as 2026.8.23+2
  Attempts,   \* renameAttempts
  Mishaps,    \* what may go wrong in this instance, a subset of AllMishaps
  NoFile,     \* a path with nothing there; nothing installed; no record
  Damaged,    \* content that is no build: a truncated or altered download
  Undeletable \* what is left of a temporary file when its removal is refused

AllMishaps ==
  { "network",     \* a request fails, or delivers something else than the build
    "scanner",     \* Defender or AppX staging holds the package open
    "delete",      \* the temporary file cannot be removed: a scanner has it open
    "install",     \* the installer fails, and may have removed what was there
    "query",       \* the installed version cannot be read
    "save",        \* the install record cannot be written
    "launch",      \* the application cannot be started
    "close",       \* the window is closed, or power is lost, in mid-run
    "sideload",    \* somebody installs or removes the application without the manager
    "republish" }  \* main-latest is published anew while a run is under way

Builds == 1..MaxBuilds       \* in the order of publication
Newest == 0                  \* no version asked for: the channel decides
MainLatest == MaxBuilds + 1  \* the tag of the rolling release
Versions == Builds \cup {Newest, MainLatest}
Releases == [tag : Builds \cup {MainLatest}, build : Builds]
Channels == {"stable", "latest"}

ASSUME MaxBuildsAssumption == MaxBuilds \in Nat
ASSUME DatesAssumption == MaxBuilds <= MaxInt
ASSUME AttemptsAssumption == Attempts \in Nat \ {0}
ASSUME MishapsAssumption == Mishaps \subseteq AllMishaps
ASSUME ValuesAssumption ==
  /\ NoFile \notin Builds /\ Damaged \notin Builds /\ NoFile # Damaged
  /\ Undeletable \notin Builds \cup {NoFile, Damaged}

VARIABLES
  made,       \* the builds published so far
  tags,       \* those published under a version tag of their own
  rolling,    \* the build main-latest carries, NoFile while it is deleted
  payload,    \* the package at its fixed name in TEMP
  locked,     \* another program holds it open
  installed,  \* the build installed; its package version tells it apart
  record,     \* installed.json: the package version and the publish time
  pc,         \* per run: the next step
  run,        \* per run: the locals of the call, see Locals
  temp,       \* per run: the content of its temporary file
  result      \* per run: what the last Update returned

site == <<made, tags, rolling>>
machine == <<payload, locked, installed, record>>
vars == <<site, machine, pc, run, temp, result>>

NoRelease == [tag |-> MainLatest, build |-> NoFile]
NoRecord == [package |-> NoFile, published |-> NoFile]

Locals ==
  [ version  : Versions,                       \* the version and the channel
    channel  : Channels,                       \*   Update is called with
    seen     : Releases \cup {NoRelease},      \* the release the operator was shown
    info     : Releases \cup {NoRelease},      \* the release fetched by Update
    expected : Builds \cup {NoFile},           \* expectedHash, as the build it is the hash of
    attempt  : 0..Attempts - 1,                \* the renames that failed
    package  : Builds \cup {NoFile, Damaged} ] \* InstalledVersion after the install

Blank == [version |-> Newest, channel |-> "stable", seen |-> NoRelease, info |-> NoRelease,
          expected |-> NoFile, attempt |-> 0, package |-> NoFile]

Steps == {"shown", "fetch", "wait", "checksum", "download", "verify", "remove", "rename",
          "install", "clean", "query", "record", "launch"}

-----------------------------------------------------------------------------
(* The release site. *)

Listed == {[tag |-> b, build |-> b] : b \in tags}
            \cup {[tag |-> MainLatest, build |-> b] : b \in {rolling} \ {NoFile}}

\* Mutant: the first of the list, in whatever order it is.
FirstOf(S) == S

NewestOf(S) == {rel \in S : \A other \in S : other.build <= rel.build}

\* On the channel: `latest` is every release, `stable` leaves main-latest out.
Offered(ch) == {rel \in Listed : ch = "latest" \/ rel.tag # MainLatest}

\* Mutant: the newest on the channel, whatever is asked for.
NewestAnyhow(v, ch) == NewestOf(Offered(ch))

\* FetchReleaseInfo: the release asked for, or the newest on the channel.
Fetchable(v, ch) ==
  IF v # Newest THEN {rel \in Listed : rel.tag = v} ELSE NewestOf(Offered(ch))

\* The list the picker shows on a channel: `latest` is main-latest alone.
ListAllReleases(ch) == {rel \in Listed : rel.tag = MainLatest <=> ch = "latest"}

\* What the release's URLs deliver now.
Served(rel) == IF rel.tag = MainLatest THEN rolling ELSE rel.build

-----------------------------------------------------------------------------
(* The workflows date a version; here it is the day that tells two builds apart. *)

\* The tag of a release, without its "v".
TagVersion(b) == <<1, 1, IF b \in Suffixed THEN NotANumber ELSE b>>

\* The package has the build number for its last field; one of main begins with
\* zero, below every tagged one.
PackageVersion(b) ==
  IF b \in tags THEN <<1, 1, b, IF b \in Suffixed THEN 2 ELSE 1>> ELSE <<0, 1, 1, b>>

-----------------------------------------------------------------------------
Init ==
  /\ made = 0 /\ tags = {} /\ rolling = NoFile
  /\ payload = NoFile /\ locked = FALSE
  /\ installed = NoFile
  /\ record = NoRecord
  /\ pc = [r \in Runs |-> "idle"]
  /\ run = [r \in Runs |-> Blank]
  /\ temp = [r \in Runs |-> NoFile]
  /\ result = [r \in Runs |-> "none"]

Goto(r, step) == pc' = [pc EXCEPT ![r] = step]

\* The run goes on to the next step, with nothing else to report.
Continue(r, step) ==
  /\ Goto(r, step)
  /\ UNCHANGED result

\* Update returns.
Return(r, answer) ==
  /\ Goto(r, "idle")
  /\ run' = [run EXCEPT ![r] = Blank]
  /\ result' = [result EXCEPT ![r] = answer]

Fail(r) == Return(r, "error")

\* The window shows a release: the newest on the channel (runUpdateMode), or the
\* version selected (runPickerMode, or a version on the command line).  Whatever
\* an earlier run left in a temporary file is never looked at again.
Show(r, v, ch) ==
  /\ pc[r] = "idle"
  /\ \E rel \in Fetchable(v, ch) :
       run' = [run EXCEPT ![r] = [Blank EXCEPT !.version = v, !.channel = ch, !.seen = rel]]
  /\ Goto(r, "shown")
  /\ result' = [result EXCEPT ![r] = "none"]
  /\ temp' = [temp EXCEPT ![r] = NoFile]
  /\ UNCHANGED <<site, machine>>

\* The operator confirms, and Update fetches the release again.
Confirm(r) ==
  /\ pc[r] = "shown"
  /\ Continue(r, "fetch")
  /\ UNCHANGED <<site, machine, run, temp>>

Fetch(r) ==
  /\ pc[r] = "fetch"
  /\ LET found == Fetchable(run[r].version, run[r].channel)
     IN \/ \E rel \in found :
             /\ run' = [run EXCEPT ![r].info = rel]
             /\ Continue(r, "wait")
        \/ /\ found = {} \/ "network" \in Mishaps
           /\ Fail(r)
  /\ UNCHANGED <<site, machine, temp>>

\* WaitForPIDExit: up to a minute for the running application, which may also
\* not have exited by then.
WaitForPIDExit(r) ==
  /\ pc[r] = "wait"
  /\ Continue(r, "checksum")
  /\ UNCHANGED <<site, machine, run, temp>>

-----------------------------------------------------------------------------
(* DownloadAndVerify. *)

FetchExpectedHash(r) ==
  /\ pc[r] = "checksum"
  /\ \/ /\ Served(run[r].info) # NoFile
        /\ run' = [run EXCEPT ![r].expected = Served(run[r].info)]
        /\ Continue(r, "download")
     \/ /\ Served(run[r].info) = NoFile \/ "network" \in Mishaps
        /\ Fail(r)
  /\ UNCHANGED <<site, machine, temp>>

\* os.Remove(tmpPath); its outcome is ignored.
RemoveTemp(r) ==
  \E rest \in {NoFile} \cup {left \in {Undeletable} : "delete" \in Mishaps} :
    temp' = [temp EXCEPT ![r] = rest]

\* Mutant: a download that breaks off leaves its temporary file.
DownloadLeavesFile(r) ==
  /\ pc[r] = "download"
  /\ \/ Served(run[r].info) # NoFile /\ Continue(r, "verify") /\ UNCHANGED run
     \/ "network" \in Mishaps /\ Fail(r)
  /\ \E content \in {Served(run[r].info), Damaged} : temp' = [temp EXCEPT ![r] = content]
  /\ UNCHANGED <<site, machine>>

\* The package goes to a temporary file of the run's own, which is removed on a
\* failure.
Download(r) ==
  /\ pc[r] = "download"
  /\ \/ /\ Served(run[r].info) # NoFile
        /\ \E content \in {Served(run[r].info)} \cup {c \in {Damaged} : "network" \in Mishaps} :
             temp' = [temp EXCEPT ![r] = content]
        /\ Continue(r, "verify")
        /\ UNCHANGED run
     \/ /\ Served(run[r].info) = NoFile \/ "network" \in Mishaps
        /\ RemoveTemp(r)
        /\ Fail(r)
  /\ UNCHANGED <<site, machine>>

\* Mutant: the hash is not compared.
VerifyNothing(r) ==
  /\ pc[r] = "verify"
  /\ Continue(r, "remove")
  /\ UNCHANGED <<site, machine, run, temp>>

VerifyFile(r) ==
  /\ pc[r] = "verify"
  /\ \/ /\ temp[r] = run[r].expected
        /\ Continue(r, "remove")
        /\ UNCHANGED <<run, temp>>
     \/ /\ temp[r] # run[r].expected
        /\ RemoveTemp(r)
        /\ Fail(r)
  /\ UNCHANGED <<site, machine>>

\* os.Remove, which a program that holds the file open prevents.
RemovePayload(r, step) ==
  /\ payload' = IF locked THEN payload ELSE NoFile
  /\ Continue(r, step)
  /\ UNCHANGED <<site, locked, installed, record, run, temp>>

\* replaceFile: out of the way with the old package, as far as it goes ...
MakeWay(r) ==
  /\ pc[r] = "remove"
  /\ RemovePayload(r, "rename")

\* Another program holds one of the two files of the rename: the one in the way, or
\* the temporary file that was just written.
Held == locked \/ "scanner" \in Mishaps

\* Mutant: the attempts are not counted.
RenameForever(r) ==
  /\ pc[r] = "rename"
  /\ \/ /\ ~locked /\ payload' = temp[r] /\ temp' = [temp EXCEPT ![r] = NoFile]
        /\ Continue(r, "install")
     \/ Held /\ Continue(r, "remove") /\ UNCHANGED <<payload, temp>>
  /\ UNCHANGED <<site, locked, installed, record, run>>

\* ... and in with the new one, in a bounded number of attempts.
RenameFile(r) ==
  /\ pc[r] = "rename"
  /\ \/ /\ ~locked
        /\ payload' = temp[r]
        /\ temp' = [temp EXCEPT ![r] = NoFile]
        /\ Continue(r, "install")
        /\ UNCHANGED run
     \/ /\ Held
        /\ run[r].attempt + 1 < Attempts
        /\ run' = [run EXCEPT ![r].attempt = @ + 1]
        /\ Continue(r, "remove")
        /\ UNCHANGED <<payload, temp>>
     \/ /\ Held
        /\ run[r].attempt + 1 >= Attempts
        /\ RemoveTemp(r)
        /\ Fail(r)
        /\ UNCHANGED payload
  /\ UNCHANGED <<site, locked, installed, record>>

-----------------------------------------------------------------------------
(* From the verified package to the record of the build. *)

\* installer.Install of whatever lies at the path now, which may be nothing.  A
\* failure keeps the package.
Install(r) ==
  /\ pc[r] = "install"
  /\ \E o \in Outcomes(installed, payload, NoFile) :
       /\ installed' = o.left
       /\ \/ /\ o.answer = "ok" /\ payload # NoFile
             /\ Continue(r, "clean")
             /\ UNCHANGED run
          \/ /\ o.answer = "error" /\ (payload = NoFile \/ "install" \in Mishaps)
             /\ Fail(r)
  /\ UNCHANGED <<site, payload, locked, record, temp>>

Clean(r) ==
  /\ pc[r] = "clean"
  /\ RemovePayload(r, "query")

\* recordInstalledBuild: ask what is installed ...
InstalledVersion(r) ==
  /\ pc[r] = "query"
  /\ \E answer \in {installed} \cup {b \in {NoFile} : "query" \in Mishaps} :
       run' = [run EXCEPT ![r].package = answer]
  /\ Continue(r, "record")
  /\ UNCHANGED <<site, machine, temp>>

\* Mutant: dated with the release the operator was shown.
SaveRecordOfShown(r) ==
  /\ pc[r] = "record"
  /\ record' = [package |-> run[r].package, published |-> run[r].seen.build]
  /\ Continue(r, "launch")
  /\ UNCHANGED <<site, payload, locked, installed, run, temp>>

\* ... and date it with the release that was fetched.
SaveInstallRecord(r) ==
  /\ pc[r] = "record"
  /\ \/ record' = [package |-> run[r].package, published |-> run[r].info.build]
     \/ /\ "save" \in Mishaps
        /\ record' \in {record, NoRecord}
  /\ Continue(r, "launch")
  /\ UNCHANGED <<site, payload, locked, installed, run, temp>>

LaunchApp(r) ==
  /\ pc[r] = "launch"
  /\ \/ Return(r, "ok")
     \/ /\ "launch" \in Mishaps
        /\ Fail(r)
  /\ UNCHANGED <<site, machine, temp>>

-----------------------------------------------------------------------------
(* What the picker says about the installed build. *)

\* Mutant: any record is taken to describe it.
AnyRecord == record # NoRecord

\* The record is about the package that is installed now.
DescribesCurrentInstall == record.package # NoFile /\ record.package = installed

\* upgradeBanner: "A newer build is available".  Without a record the tag is
\* compared with the version of the package.
AnnouncesNewer(ch) ==
  \E rel \in NewestOf(ListAllReleases(ch)) :
    /\ installed # NoFile
    /\ IF DescribesCurrentInstall
         THEN rel.build > record.published
         ELSE ch = "stable" /\ ComparePackageVersions(TagVersion(rel.tag), PackageVersion(installed)) = 1

\* upgradeBanner: "Up to date".
SaysUpToDate(ch) ==
  \E rel \in NewestOf(ListAllReleases(ch)) :
    installed # NoFile /\ DescribesCurrentInstall /\ rel.build <= record.published

-----------------------------------------------------------------------------
(* Everybody else. *)

\* A build of a version tag.
PublishTag ==
  /\ made < MaxBuilds
  /\ made' = made + 1
  /\ tags' = tags \cup {made + 1}
  /\ UNCHANGED <<rolling, machine, pc, run, temp, result>>

Undisturbed == \A r \in Runs : pc[r] \in {"idle", "shown", "fetch"}

\* A build of the main branch: `gh release delete`, then `gh release create`.
DeleteRolling ==
  /\ "republish" \in Mishaps \/ Undisturbed
  /\ rolling' = NoFile
  /\ UNCHANGED <<made, tags, machine, pc, run, temp, result>>

CreateRolling ==
  /\ "republish" \in Mishaps \/ Undisturbed
  /\ rolling = NoFile
  /\ made < MaxBuilds
  /\ made' = made + 1
  /\ rolling' = made + 1
  /\ UNCHANGED <<tags, machine, pc, run, temp, result>>

Lock ==
  /\ "scanner" \in Mishaps
  /\ payload # NoFile
  /\ locked' = ~locked
  /\ UNCHANGED <<site, payload, installed, record, pc, run, temp, result>>

\* The manager dies; an install may break off, and a record that was being
\* written be cut short.
Close(r) ==
  /\ "close" \in Mishaps
  /\ pc[r] # "idle"
  /\ Goto(r, "idle")
  /\ run' = [run EXCEPT ![r] = Blank]
  /\ installed' \in IF pc[r] = "install" /\ payload # NoFile
                      THEN Halfway(installed, payload, NoFile) ELSE {installed}
  /\ record' \in {record} \cup {rec \in {NoRecord} : pc[r] = "record"}
  /\ UNCHANGED <<site, payload, locked, temp, result>>

\* Add-AppxPackage or an uninstall by hand, between two runs.
Sideload(b) ==
  /\ "sideload" \in Mishaps
  /\ \A r \in Runs : pc[r] = "idle"
  /\ installed' = b
  /\ UNCHANGED <<site, payload, locked, record, pc, run, temp, result>>

-----------------------------------------------------------------------------
Step(r) ==
  \/ Fetch(r) \/ WaitForPIDExit(r)
  \/ FetchExpectedHash(r) \/ Download(r) \/ VerifyFile(r)
  \/ MakeWay(r) \/ RenameFile(r)
  \/ Install(r) \/ Clean(r)
  \/ InstalledVersion(r) \/ SaveInstallRecord(r) \/ LaunchApp(r)

Next ==
  \/ \E r \in Runs :
       \/ \E v \in Versions, ch \in Channels : Show(r, v, ch)
       \/ Confirm(r)
       \/ Step(r)
       \/ Close(r)
  \/ PublishTag \/ DeleteRolling \/ CreateRolling
  \/ Lock
  \/ \E b \in Builds \cup {NoFile} : Sideload(b)

Spec == Init /\ [][Next]_vars

\* Requests, file operations and the installer return.
FairSpec == Spec /\ \A r \in Runs : WF_vars(Step(r))

-----------------------------------------------------------------------------
\* Type invariant.
TypeOK ==
  /\ made \in 0..MaxBuilds
  /\ tags \in SUBSET Builds
  /\ rolling \in Builds \cup {NoFile}
  /\ payload \in Builds \cup {NoFile, Damaged}
  /\ locked \in BOOLEAN
  /\ installed \in Builds \cup {NoFile, Damaged}
  /\ record \in [package : Builds \cup {NoFile, Damaged}, published : Builds \cup {NoFile}]
  /\ pc \in [Runs -> Steps \cup {"idle"}]
  /\ run \in [Runs -> Locals]
  /\ temp \in [Runs -> Builds \cup {NoFile, Damaged, Undeletable}]
  /\ result \in [Runs -> {"none", "ok", "error"}]

\* Whatever is delivered, and however two managers interleave on the shared path,
\* the package lying there and the application installed are builds whose
\* checksum was published (DownloadAndVerify).
OnlyVerified == Damaged \notin {payload, installed}

\* A record taken to describe the installed build gives that build's publish
\* time: otherwise it would "date the wrong build" (DescribesCurrentInstall).
RecordTellsTheTruth == DescribesCurrentInstall => record.published = installed

\* The banner announces a newer build only where the channel's list has one, and
\* says "Up to date" only where it has none: "is the newest build here newer than
\* what this station is running?" (upgradeBanner).  A build of main that has lost
\* its record is the exception: versions do not date it.
BannerTellsTheTruth ==
  \A ch \in Channels :
    /\ AnnouncesNewer(ch) /\ (DescribesCurrentInstall \/ installed \in tags)
         => \E rel \in ListAllReleases(ch) : rel.build > installed
    /\ SaysUpToDate(ch) => \A rel \in ListAllReleases(ch) : rel.build <= installed

\* ... and it misses none: "a fallback comparison still catches" a release newer
\* than the one installed (upgradeBanner) when there is no record, although tags
\* and packages have another number of fields.  A tag with a build number is the
\* exception: its day reads as zero.
BannerMissesNothing ==
  \A ch \in Channels : \A rel \in ListAllReleases(ch) :
    /\ DescribesCurrentInstall \/ (ch = "stable" /\ installed \in tags)
    /\ rel.build > installed
    /\ \A newest \in NewestOf(ListAllReleases(ch)) : newest.tag \notin Suffixed
    => AnnouncesNewer(ch)

\* The release is fetched again after the operator has read and confirmed one
\* (runUpdateMode): what is installed may be newer, and is never older, unless
\* main-latest was shown and has been deleted since.
NeverOlderThanShown ==
  \A r \in Runs :
    pc[r] = "clean" => 
      installed >= run[r].seen.build \/ (run[r].seen.tag = MainLatest /\ run[r].info.tag # MainLatest)

\* The version asked for is the one that has been installed.
InstallsWhatWasAsked ==
  \A r \in Runs : pc[r] = "clean" /\ run[r].version \in Builds => installed = run[r].version

\* "On checksum failure the temporary file is removed before returning the
\* error", and so it is on every other error (DownloadAndVerify): what an error
\* leaves is a file whose removal was tried and refused.
ErrorLeavesNoTempFile ==
  \A r \in Runs : pc[r] = "idle" /\ result[r] = "error" => temp[r] \in {NoFile, Undeletable}

\* An update ends, whoever holds the package open.
UpdateEnds == \A r \in Runs : pc[r] = "fetch" ~> pc[r] = "idle"

-----------------------------------------------------------------------------
(* Why one manager at a time installs and records what it fetched. *)

\* The release fetched delivers the same build for as long as the run lasts: a
\* version tag does, and main-latest does when it is left alone.
Steady(r) == run[r].info.tag # MainLatest \/ "republish" \notin Mishaps

\* The build is handed on from the release to its hash, the temporary file, the
\* payload, the machine and the record.
HandedOn(r, build) ==
  /\ Served(run[r].info) = build
  /\ pc[r] \in {"download", "verify", "remove", "rename"} => run[r].expected = build
  /\ pc[r] \in {"remove", "rename"} => temp[r] = build
  /\ pc[r] = "install" => payload = build
  /\ pc[r] \in {"clean", "query", "record"} => installed = build
  /\ pc[r] = "record" => run[r].package \in {NoFile, build}

FetchedBuildInv ==
  /\ "republish" \notin Mishaps => record.package \in {NoFile, record.published}
  /\ \A r \in Runs : pc[r] \in Steps \ {"shown", "fetch"} =>
       /\ run[r].info.tag \in {MainLatest, run[r].info.build}
       /\ run[r].version # Newest => run[r].info.tag = run[r].version
       /\ Steady(r) => HandedOn(r, run[r].info.build)

=============================================================================
