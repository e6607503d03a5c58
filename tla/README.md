# TLA+ models of the CentroidX version manager

This directory specifies, model-checks and proves things about
`tools/centroidx-manager`, the Go program that installs, updates, rolls back and
removes the CentroidX HMI on a station. It is the part of the repository whose
correctness depends most on orders of events nobody tests: goroutines that answer
late, PowerShell calls that fail one by one, power loss between two of them, two
managers on one TEMP folder, releases that are republished while they are being
downloaded. What it must not lose is the station's own configuration.

Paths below are relative to `src/tools/centroidx-manager/internal/` unless they
begin with `src/`.

## 1. Inventory

| component | state it keeps | operations | interacts with | what is hard | what makes it correct |
|---|---|---|---|---|---|
| Windows installer (`platform/installer.go`, `windows.go`) | the installed package, its data container, the copy in `%TEMP%\centroidx-package-data` | `installWindows`, `Uninstall(keepSettings)` | PowerShell (`Add-`, `Remove-`, `Get-AppxPackage`), called by the engine and the picker | any call fails; power loss between calls; the copying stops halfway; a query that fails is not told from an empty machine | settings survive; removed settings stay removed; a package is removed only for a publisher conflict |
| Certificate trust (`platform/installer.go` 481-760, `update/engine.go` 470-631, `main.go` 55-91) | two machine stores, the certificate file in TEMP | `TrustCertificate`, the elevated copy of the manager | wizard and update engine call it, in goroutines of their own | overlapping calls share one path; the elevated copy's outcome cannot be seen | success means trusted; one prompt at most |
| Picker and wizard (`ui/picker.go`, `wizard.go`) | `pickerState`, shared without a lock | channel switch, select, install, uninstall, wizard steps | goroutines for lists, trust, jobs | answers out of order; state read again after a wait; flags set and cleared by several goroutines | installs what was chosen; one job at a time; nothing after "Cancel"; the window always comes back |
| Update engine (`update/engine.go`, `download.go`, `checksum.go`, `installrecord.go`, `github/`) | temporary file, package at a fixed path, `installed.json` | `Update`, `DownloadAndVerify`, `replaceFile`, `recordInstalledBuild` | GitHub, the installer, the running application (`-wait-pid`) | `main-latest` is deleted and recreated; two managers; a scanner locks the file; crash between install and record | only verified builds are installed; the record dates the right build; an update ends |
| Portable install (`update/portable.go`, `portable_windows.go`) | a folder, its `CENTROIDX_VERSION` | `InstallPortable` | an elevated PowerShell | stops halfway; the elevated exit code means little; the elevated PowerShell outlives its manager | what the folder names is what it holds; success means unpacked |
| Update mode window (`ui/app.go`) | the release shown | fetch, confirm, update | update engine | the newest may change while the operator reads | installs what was shown |
| Version comparison, upgrade banner (`platform/msix_version.go`, `update/version.go`, `ui/picker.go` 195-251) | none | `ComparePackageVersions`, `upgradeBanner` | install record | two orders (version, publish time), two channels, a record that outlives its build | announces what is newer, and only that |
| PR picker (`ui/prs.go`, `github/pulls.go`) and the install modes (`ui/app.go` 103-168) | `prPickerState`, `appState` | list, select, install, uninstall | workflow artifacts, the three installers | an error path without a return; a busy flag several goroutines clear; a window closed in mid-job | one job at a time; the window knows what is installed; a success names the build that is installed |
| Linux and macOS installers (`platform/installer.go` 767-806, 997-1018, `linux.go`, `darwin.go`) | the installed application, mounted disk images | install, uninstall, launch | dpkg, hdiutil, rm, cp | each command fails, some halfway; a command outlives the manager | images are detached; what is reported is what is there |
| Manager extraction (`platform/extract_windows.go`, `src/tools/centroidx-manager/main_windows.go`) and the application's side of it (`src/packages/centroidx_upgrader/lib/src/manager_launcher.dart`, `src/lib/core/update_launch.dart`) | `%APPDATA%\centroidx\manager`: the manager, two staged files | `extractManagerFrom` at every start from the package; `ensureExtracted` at every press of Update | each other, the package, which may be replaced meanwhile | fixed temporary names; a guard by size; an unawaited press; processes killed while they write | a whole manager, and for an update the bundled one |
| Release workflows (`src/.github/workflows/main-prerelease.yml`) | the releases | delete and create `main-latest` | update engine | not atomic | |
| Everything else: the Flutter application (`src/centroid-hmi`, `src/lib`), the Dart packages (`src/packages`), the tool servers and scripts | their own | | the application starts the manager and writes settings into its container | | outside this project, see section 9 |

The hazards that follow from this inventory, each at its line and with the
properties that would catch it going wrong, are listed in `PROJECT.json`.

## 2. Modules

| module | models | abstract specification |
|---|---|---|
| `StationSettings` | what an operator is promised about a station's settings | is one |
| `InstallOutcomes` | what a call of the installer may come to, for whoever calls it | |
| `InstallerContract` | what the callers of the installer rely on | is one |
| `WindowsInstaller` | `installWindows`, `Uninstall` | implements `StationSettings` and `InstallerContract` |
| `CertificateTrust` | `trustCertificateInStores` and its callers | |
| `VersionPicker` | `picker.go`, `wizard.go` | its installs are those of `InstallerContract` |
| `UpdateEngine` | `Engine.Update` and what it calls, two managers; the picker's upgrade banner | its installs are those of `InstallerContract` |
| `PackageVersions` | `ComparePackageVersions`; extended by `UpdateEngine` for the banner | |
| `PortableInstall` | `Engine.InstallPortable` | |
| `PRPicker` | `prs.go`, `pulls.go`, the install modes of `app.go`, the Linux and macOS installers | |
| `ManagerExtract` | `extract_windows.go`, and `ensureExtracted` to `exit(0)` on the application's side | |
| `MC*` | symmetry and constants for TLC | |
| `*_proofs` | theorems about the module of that name | |

Mutants are kept beside the operator they change, each marked "Mutant:". They
model a plausible bug of that operator, are used by no specification, and show
that the property they are paired with in `PROJECT.json` depends on the code.

### How state and actions correspond to the code

*WindowsInstaller.* `pkg`, `live` and `backup` are what Windows and the disk hold:
the package, its data container, the copy. A folder maps each setting to the edit
that made it, so "an older copy" is a copy with smaller numbers. `pc` is the next
PowerShell call of the one call in progress; `fresh` and `saved` are the locals
`freshInstall` and `saved`. The save and restore scripts are one step to begin, one
per file, one to end, with a failure at any of them; a failed `Remove-Item` leaves
any part of the folder (`Leftovers`). `Add-AppxPackage` is modelled by its rules
(`Deployable`) and by the codes the code tells apart (`Refusals`). The manager has
one installer call at a time: `OneJobAtATime` of `VersionPicker` is why.

*InstallerContract* is the interface between the installer and its callers. A call
takes the package from the one it found through none to the one wanted, and answers;
`Outcomes` is the relation between what was found, what is left and the answer, and
`Halfway` what an interrupted call leaves. `WindowsInstaller` is proved to do nothing
else, and `UpdateEngine` and `VersionPicker` take their installs from the same two
operators. So an install that fails between the removal and the retry, and leaves no
package at all, is a step of both.

*CertificateTrust.* `file` is the certificate at its path in TEMP, which every call
writes on entry and removes on return; somebody may clear the stores between calls; `todo` is what a loop has yet to visit.
`Answers` is `certPresentScript`, which takes the thumbprint from the file and,
without one, may answer either way.

*VersionPicker.* One action per click and one per assignment of a goroutine that
another can see: `CheckChannel`, `ShowList` and `ShowRows` are the three moments of
the goroutine in `loadReleases`; `Work` and `Report` the two of an install. A
selection is a row number, 0 where the code has -1. `IsInstalled` answers no when its query
fails, at the start (`Init`) and after every install (`Report`). The operator clicks
whenever a button is drawn; what he has done is history the code does not keep: `wanted` is
the release the open wizard was opened for, `hasty` that a click came between two
assignments of a goroutine (`Midway`), `returned` that a channel was entered again while its
list was under way, `shown` and `loads` which request a list came from; `misled` is that
the last query failed to see the application.

*UpdateEngine.* `run[r]` holds the locals of one call of `Update`; `payload` is the
package at its fixed path, shared; a build stands for its bytes, its hash and its
package version, `Damaged` for bytes no build has. `Served` is what a release's URLs
deliver now, which for `main-latest` may be another build than the one fetched.
`Offered` and `ListAllReleases` are two ideas of a channel that the code keeps apart:
an update on `latest` takes the newest of all releases (`fetchLatestChannelRelease`),
the picker lists prereleases only. `AnnouncesNewer` and `SaysUpToDate` are the two
answers of `upgradeBanner`. The certificate step of `Update` changes nothing the
engine looks at again; `CertificateTrust` models it.

Builds are numbered in the order of publication, which is also the order of their
tags: the workflows date a version, and the model has one build a day. `TagVersion`
and `PackageVersion` are what `src/.github/workflows/tag.yml` and `windows.yml` stamp; a
build in `Suffixed` has a tag like `2026.8.23+2`.

*PackageVersions.* A version is the sequence of the texts between its dots, each a
number or `NotANumber`. `VersionFields` and `Below` are the two loops of
`msix_version.go`. `WindowsInstaller` takes versions for numbers, which
`PackageVersions_proofs` justifies: the comparison is a total preorder.

*PRPicker.* `os` is chosen once, so one module has the three systems. `job[j]` is a
goroutine of the window, or the one command of it that goes on after the manager was
closed (`Orphaned`). `prs` keeps for each listed pull request the workflows it has
artifacts of; `Best` is `pickBestArtifact`, with every order in which GitHub may list the
artifacts of one run. `app` is the application on the station: the build of a branch,
the given `File`, the `Former` one, or something `Partial` or `Merged`. `misled` is
history: the query at the start failed, or a command without a window has changed `app`
since.

*ManagerExtract.* `files` is the manager in its place and the two staged files; a file
is a build and the set of the portions it has, with gaps where another writer has
truncated it. A start of the manager (`Managers`) and a press of Update (`Calls`) are
actors with a program counter; `running` is a manager started from its place, which
Windows does not let be replaced. `clash`, `killed` and `disturbed` are history.

*PortableInstall.* `folder` says which build each file is from; `mark` is the
content of `CENTROIDX_VERSION`, which is the same for every build of `main-latest`. The
manager's install is `pc`, `build` and `todo`; `orphans` are the elevated PowerShells, or
the prompts for them, whose manager was closed, each in one of the `Shells`: they go on
unpacking and write their version at the end, whatever is installed meanwhile. An elevated
unpack that fails, or is declined, may or may not tell by its exit code (`GiveUp`). A
folder that is not writable to one manager may be to the next, started elevated. `alone`
says of each unpack that nobody else has written since it began, `named` that the folder
named the release beforehand.

## 3. Mishaps

What can go wrong is a parameter. `Mishaps` (and `CrashAt`) say which
failures an instance has; a guard `"save" \in Mishaps` enables that failure and
nothing else. Where the code withstands a failure, the passing runs have it. Where it
does not, one of two things is done. If the failure ends a promise for good, a history
variable says so from that step on and the property speaks of the time before: `lapse`
(`WindowsInstaller`), `hasty`, `returned` and `misled` (`VersionPicker`), `alone`, `named`
and `mixed` (`PortableInstall`), `misled` (`PRPicker`), `clash` and `killed`
(`ManagerExtract`). Otherwise the run leaves it out, and section 5 says what it does. The
lists are `AllMishaps` in the modules. `VersionPicker` has no list: every request, job and
query of it may fail at any time.

The promise about the settings ends (`lapse = "settings"`) when a package's version
cannot be read on a machine that had none and has a copy put aside, when a version query
fails to see a package that is there and a copy lies aside, when a save or a restore fails, when a setting is made while its container
is being copied or removed, when the package is uninstalled without the manager, and when
power is lost in a restore; the promise of a wipe ends (`"wipe"`) when a discard fails.
All of these are outcomes the code does not look at (`installer.go` 343-348, 459-464,
912-931, `windows.go` 86-88).

`UpdateEngine` has a mishap `delete`: the temporary file cannot be removed, because a
scanner has it open, and `download.go` (41, 53, 60) does not look at the outcome. What
stays is `Undeletable`. `ErrorLeavesNoTempFile` is about every other file: each error path
has to try. The comment "On checksum failure the temporary file is removed" (`download.go`
22-23) is true up to that.

## 4. Runs

All bounds are named constants used in the guards.

| run | result | shows | bounds and why they are enough |
|---|---|---|---|
| `Installer_all` | holds | the settings survive every history of installs, migrations and uninstalls until a mishap ends the promise (`StationSettings` is implemented), a wipe is final, an in-place upgrade leaves the container, an install removes only another publisher's package, a call does to the package what its callers rely on and answers truthfully (`InstallerContract` is implemented), calls return | every mishap, power loss at every step; 2 settings tell a partial copy from a whole one; 2 publishers and 2 versions give upgrade, repair, downgrade and migration; 2 edits: one before a copy, one after |
| `Installer_save` | violated | `KeptSettingsComeBack` | one mishap |
| `Trust_one` | holds | success can be believed, one prompt at most, calls return | one call at a time; two certificates: a station set up before, and a rotation |
| `Trust_shared_path` | violated | `SuccessMeansTrusted` | two calls, no mishap |
| `Picker_all` | holds | rows and details in range, jobs apart, a list shown is the last one asked for, the window says what is on the machine, loading and busy end | an operator who clicks at any moment; one release, 3 loads (one shown, its successor, a third in flight), 2 presses (a job, and one that would overlap it); lists of any length are the theorems' |
| `Picker_switch` | violated | `InstallsWhatWasChosen` | one release, 2 loads, one press |
| `Picker_cancel` | violated | `CancelMeansNoInstall` | one release, 2 presses: the button and the approval |
| `Picker_notes` | violated | `NotesAreTheSelections` | 2 releases, 2 loads |
| `Update_one` | holds | only verified builds reach the path and the machine, an error leaves no file that could be removed, record, banner (nothing false, nothing missed), what is installed is not older than what was shown, version asked for, an update ends | 3 builds: an older, a newer, one published in mid-run, the second with a build number in its tag; 4 attempts, as in the code; every mishap but `republish`. One manager: of the properties that hold for two, `OnlyVerified` and `ErrorLeavesNoTempFile`, the theorems are for any number |
| `Portable_broken` | holds | success means unpacked, the folder holds what it names, an install ends | 3 files: one in every build, one only in the first, one only later; 4 builds, two of them `main-latest`; every mishap; one PowerShell that has outlived its manager, beside the next install, then another; the theorems are for any number |
| `Prs_all` | holds | one job at a time, buttons offer what is there, success names what is installed, images are detached, lists and jobs end | each system; 2 pull requests on 2 branches; 2 windows one after the other; jobs and commands under way bounded by `MaxJobs`; every mishap |
| `Extract_all` | holds | the manager changes at once into the whole bundled one, the bundled one or a warning, self-healing, no temporary file left, presses end | 3 builds, two of one size; 2 managers and 2 presses, 2 of them at work at a time; 2 portions: "begun" and "half"; every mishap but `delete` |

The picker's runs, `Prs_all` and `Extract_all` set `CHECK_DEADLOCK FALSE`: with the
bounds used up and every goroutine done, a window nobody clicks in and a station nobody
updates stay as they are.

Each violated run is a disagreement between the code and something its comments or
labels say; `PROJECT.json` quotes the sentence. In short: an uninstall that keeps the
settings does not look at whether the copy was made; two calls for the certificate
take the file from under each other and then believe a check without a file; notes
are cached by row across lists; a change of channel behind the wizard makes it install
another release than the one it was opened for (it draws "Installing " without a version
by then, `wizard.go` 190); and a wizard that was cancelled during the approval installs
when the approval comes.

## 5. Outside the passing runs

What a passing run leaves out, it leaves out because the code does not withstand it.
To see it, give the run's `.cfg` the value named here; TLC prints the history.

| run | add | violated | how |
|---|---|---|---|
| `Installer_all` | `excused <- FALSE` in the instance of `StationSettings` | `KeepsSettings` | a setting made between the copy and the removal is lost; among others: an uninstall whose removal failed leaves a copy behind, a version query that fails is read as an empty machine, and the copy is restored over the live container (`installer.go` 343-348, 462-464); a restore that stops halfway leaves a container mixed of old and default settings, and the application runs on it (`installer.go` 922-931) |
| `Trust_one` | mishap `query` | `AsksOnlyOnce` | a store that gives no answer counts as one without the certificate: the operator of a station set up before is asked |
| `Picker_all` | the conjunct `~returned` dropped | `LastLoadIsShown`, `DrawsInRange` | a response is checked against the channel, not the request, so the older of two for one channel may come last (`picker.go` 130-132); it replaces the list while the list is drawn, and for a moment there are more releases than rows that can be clicked (`picker.go` 141-142, 486) |
| `Picker_all` | the conjunct `~hasty` dropped | `OneJobAtATime`, `LastLoadIsShown`, `DrawsInRange`, `ShowsWhatIsInstalled` | the flag is down between the approval and its install (`wizard.go` 149-160), and a channel may be changed between the check of a response and its use (`picker.go` 130-142); of two jobs that overlap, an uninstall may report last |
| `Picker_all` | the disjunct `misled` dropped | `ShowsWhatIsInstalled` | `IsInstalled` answers no when its query fails (`windows.go` 63-65) |
| `Update_one` | mishap `republish` | `RecordTellsTheTruth`, `BannerTellsTheTruth` | the release is fetched, then deleted and created anew; checksum and package are both the new build's and pass, the record carries the old publish time (`engine.go` 363-391, `main-prerelease.yml` 137) |
| `Update_one` | `Undeletable` dropped from `ErrorLeavesNoTempFile` | `ErrorLeavesNoTempFile` | the scanner that made the rename fail, or another, holds the temporary file when it is to be removed (`download.go` 41, 53, 60) |
| `Update_one` | a second manager | `InstallsWhatWasAsked` | the other's package is at the shared path by the time of the install |
| `Update_one` | `newest.tag \notin Suffixed` dropped | `BannerMissesNothing` | a release tagged `2026.8.23+2` is newer than the installed one of the 21st; without a record its tag is compared with the package, `23+2` reads as 0, and nothing is announced (`msix_version.go` 85-88, `ui/picker.go` 227), although the comparison is there so that "a fallback comparison still catches" it (`ui/picker.go` 204) |
| `Update_one` | the second disjunct of `NeverOlderThanShown` dropped | `NeverOlderThanShown` | on the latest channel `main-latest` is shown, then deleted for its next build; the fetch that follows finds the newest tagged release, which is older, and installs it (`ui/app.go` 245, `engine.go` 138-163) |
| `Portable_broken` | the disjunct `~writable /\ named` dropped | `SuccessMeansUnpacked` | the folder names the release from the last time, so an elevated unpack that was declined, or failed without a word, passes for done (`portable.go` 137-142) |
| `Portable_broken` | the conjunct `alone` dropped | `SuccessMeansUnpacked` | the manager is closed during an elevated unpack, which goes on; the next install is written over by it while it is under way |
| `Portable_broken` | the conjunct `~mixed` dropped | `MarkTellsTheTruth` | an unpack that stops leaves files of two builds under the old version (`portable.go` 147); the same of an unpack that goes on after its manager, and of two that overlap |
| `Prs_all` | `Merged` dropped from `SuccessIsTheBuild` | `SuccessIsTheBuild` | `rm -rf` of the old bundle stops midway, its outcome is not looked at, and `cp -R` merges the new bundle into what is left (`installer.go` 792-799) |
| `Prs_all` | `\ {None}` dropped from `ImagesAreDetached` | `ImagesAreDetached` | where the mount point is not found in what `hdiutil attach` prints it is taken for "": the install goes on to fail at the copy, the detach of "" detaches nothing, and the image stays mounted (`installer.go` 788-790, 997-1018, mishap `volume`); it stays as well when the window is closed first |
| `Extract_all` | `clash = "torn"` dropped | `ChangesAtOnce`, `BundledOrWarned` | one manager has closed its copy and not yet renamed it; another truncates the same temporary file and finds the disk full; the first renames the empty file into place (`extract_windows.go` 75 "copies src to dest atomically", 83-100) |
| `Extract_all` | mishap `delete`, its disjunct dropped | `TempIsRemoved` | a scanner holds the temporary file when it is to be removed |

Observations that no property states, because nothing in the code promises otherwise:

- Files of an older build that the newer one lacks stay in a portable folder
  (`portable.go` 147-150).
- The comment of `ListAllReleases` (`engine.go` 168-174) says that the latest channel
  lists the tagged releases too, in their position, where the code lists prereleases
  only. Two tags of one day compare as equal, and either may head the list.
- In the PR window a failed listing, or a pull request without a fitting artifact, is a
  page that stays until the window is closed (`prs.go` 85-90, 117-124), which is also
  what keeps a second job away.
- `pickBestArtifact` looks at names only: on Windows a portable zip or the manager may be
  taken for the package and fails to install; on macOS the manager's image is taken for
  the application's, and the installed application is removed before the copy fails
  (`prs.go` 297-322, `installer.go` 792-803); no workflow makes what the Linux installer
  wants. `fetchBranchArtifacts` ignores `platformAssetName`, and finds a fork's runs by
  the name of their branch alone.
- The folder `centroidx-pr-*` a job downloads to is not removed.
- Two presses of Update may each start a manager before the application exits
  (`src/packages/centroidx_upgrader/lib/src/manager_launcher.dart` 235-258).
- `runInstallMode` (`app.go` 171-208) has no caller.

## 6. Fairness

Weak fairness is assumed of steps that go on by themselves once begun: a PowerShell
call returns, an HTTP request ends, a file operation returns, a goroutine that is
ready runs, and Windows answers an approval prompt that the operator leaves alone.
The code has no wait of its own beyond these except `WaitForPIDExit` and the retries
of `replaceFile`, both bounded in the code. No fairness is assumed of an operator, of
the release site, of a scanner that holds a file, or of a mishap.
In `PRPicker` the listing and each job are fair on their own, in `ManagerExtract` each
press of Update; a manager inside the package is not, because nothing waits for it.
In `VersionPicker` each list request is fair on its own; the trust goroutine and the
jobs, of which a flag allows one, are fair as a group. In `PortableInstall` the
manager's own steps are fair, an unpack whose manager was closed is not: it may stay
waiting for its prompt.

## 7. Proofs

| theorem | states | under |
|---|---|---|
| `WindowsInstaller_proofs!TypeCorrect` | `[]TypeOK` | nothing |
| `...!InstallRemovesOnlyOnConflict` | `RemovesOnlyOnConflict` | nothing |
| `...!WipedSettingsStayGone` | `[]WipeIsFinal` | nothing |
| `...!InPlaceLeavesContainer` | `InPlaceKeepsContainer` | nothing |
| `...!CopyIsThereWhenNeeded` | `[]SettingsInv` | nothing |
| `...!InstallerKeepsSettings` | `KeepsSettings`, that is `Station!Spec` | nothing |
| `...!InstallerMeetsContract` | `MeetsContract`, that is `Contract!Spec` | nothing |
| `...!KeptSettingsComeBackOtherwise` | `[]KeptSettingsComeBack`, which `Installer_save` shows violated | no `save`, no `running` |
| `...!CallIsBounded` | a call ends within `10 + 2 * Cardinality(Settings)` of its own steps | finitely many settings |
| `CertificateTrust_proofs!TypeCorrect` | `[]TypeOK` | nothing |
| `...!CallKeepsItsCertificate` | `[]TrustInv`: the file is the call's own, the stores dealt with hold its certificate | one call at a time |
| `...!SuccessIsTrust` | `[]SuccessMeansTrusted` | one call at a time |
| `...!OnePromptAtMost` | `[]AsksOnlyOnce` | one call at a time, and queries answer |
| `...!CallIsBounded` | a call ends within 13 scripts | nothing |
| `VersionPicker_proofs!TypeCorrect` | `[]TypeOK` | nothing |
| `...!OneJobAtATimeHolds` | `[]OneJobAtATime` | nothing |
| `...!ShowsWhatIsInstalledHolds` | `[]ShowsWhatIsInstalled` | nothing |
| `...!LastLoadIsShownHolds` | `[]LastLoadIsShown` | nothing |
| `...!DrawsInRangeHolds` | `[]DrawsInRange` | nothing |
| `...!SomebodyIsAwaited` | `[](LoadAwaited /\ WorkAwaited)` | nothing |
| `UpdateEngine_proofs!TypeCorrect` | `[]TypeOK` | nothing, with any number of managers |
| `...!OnlyVerifiedIsInstalled` | `[]OnlyVerified` | nothing, with any number of managers |
| `...!ErrorTakesFileAlong` | `[]ErrorLeavesNoTempFile` | nothing, with any number of managers |
| `...!NotOlderIsInstalled` | `[]NeverOlderThanShown` | one manager, no republish in mid-run |
| `...!AskedIsInstalled` | `[]InstallsWhatWasAsked` | one manager |
| `...!RecordIsTrue` | `[]RecordTellsTheTruth` | one manager, no republish in mid-run |
| `...!BannerIsTrue` | `[]BannerTellsTheTruth` | one manager, no republish in mid-run |
| `...!BannerIsComplete` | `[]BannerMissesNothing` | one manager, no republish in mid-run |
| `...!UpdateIsBounded` | a confirmed update ends within `10 + 2 * Attempts` of its own steps | nothing, with any number of managers |
| `PackageVersions_proofs!CompareIsAntisymmetric`, `CompareIsTransitive` | the comparison of versions is a total preorder | nothing |
| `...!MainIsBelowReleases` | a build of main is below every tagged package | nothing |
| `PortableInstall_proofs!TypeCorrect` | `[]TypeOK` | nothing |
| `...!SuccessIsUnpacked` | `[]SuccessMeansUnpacked` | nothing, any number of orphaned unpacks |
| `...!FolderHoldsWhatItNames` | `[]MarkTellsTheTruth` | nothing, any number of orphaned unpacks |
| `...!InstallIsBounded` | an install ends within `4 + Cardinality(Files)` of its own steps | finitely many files |
| `PRPicker_proofs!TypeCorrect` | `[]TypeOK` | nothing |
| `...!OneJobAtATimeHolds` | `[]OneJobAtATime` | nothing |
| `...!OffersWhatIsThereHolds` | `[]OffersWhatIsThere` | nothing |
| `...!SuccessIsTheBuildHolds` | `[]SuccessIsTheBuild` | nothing |
| `...!ImagesAreDetachedHolds` | `[]ImagesAreDetached` | nothing |
| `...!JobIsBounded` | a job ends within eight of its own steps | nothing |
| `...!BusyForAJobHolds` | `[]BusyForAJob` | nothing |
| `ManagerExtract_proofs!TypeCorrect` | `[]TypeOK` | nothing |
| `...!SelfHealsHolds` | `[]SelfHeals` | nothing |
| `...!TempIsRemovedHolds` | `[]TempIsRemoved` | nothing |
| `...!DestIsWholeHolds` | `[]DestIsWhole` | nothing |
| `...!ChangesAtOnceHolds` | `ChangesAtOnce` | nothing |
| `...!BundledOrWarnedHolds` | `[]BundledOrWarned` | nothing |
| `...!CopyIsBounded` | a press of Update ends within `7 + Size[package]` of its own steps | nothing |

"Nothing" means every value of the constants, every mishap and an operator who clicks at
any moment; what a history variable excuses is part of the property (section 3).

Constants carry named assumptions in the module that declares them, as weak as the
proofs need (versions are naturals, `NoFile` is not a build, and so on).

*The settings survive.* `KeepsSettings` is a refinement: an installer step must be a
`Replace`, a `Wipe`, an `Edit`, an `Ask` or a stutter of `StationSettings` under the mapping
`CurrentSettings`, which reads a setting from the copy while no package is installed
or a restore is under way, and from the container otherwise. That is not inductive
by itself: the step that removes the package changes where a setting is read from,
so the copy has to equal the container by then. `SettingsInv` says so (complete copy
at `remove`, complete container at `consume`, agreement on the files already copied
in between), for as long as `lapse` is "none". The
proof shows it inductive and then maps each step; a step that ends the promise maps to
one that sets `excused`. A `Wipe` needs `asked`, which the mapping makes true only while
an uninstall with `keepSettings = false` is under way: a removal for a migration, or for
an uninstall that keeps the settings, has to be a `Replace`, which leaves them alone.

*A wipe is final.* `WipeIsFinal` speaks of the container and the copy at rest; its
strengthening adds that an uninstall that removes settings has no copy by the time it
removes the package, unless the discard failed.

*The contract.* `MeetsContract` maps every step of the PowerShell calls to a step of
`InstallerContract`. What it needs is where a call stands (`ProgressInv`): until
`Add-AppxPackage` or `Remove-AppxPackage` has done its part the package is the one found,
at the retry that one still or none, in a restore the one wanted, and "ok" is answered
only with that one in place. With the contract proved, what the theorems of `UpdateEngine`
and `VersionPicker` say under their installer (`InstallLeaves`, `CloseLeaves`,
`WorkLeaves`) they say under this one. The engine's record, for one, stays true although
the old package may be gone after an error, and although a manager that dies during the
call leaves the old package, none, or the new one without a record.

*Success is trust.* `TrustInv` carries, per loop, the stores already dealt with; it
needs the certificate file to be the call's own, which is what a second call takes
away.

*One job.* The flag alone is not inductive: it is down between an approval and the
install it was for. `OneAtWork` counts that moment in: jobs, approvals asked for and
approvals given are one at most together, and jobs or open approvals set the flag. A
click that starts something finds all three at zero, the third because the click
would be `hasty` otherwise. `PRPicker` has another reason: while a job of
its window is not over, the flag is set or the window shows an error page, which has no
buttons (`WorkInv`).

*The window and its lists.* `Fresh` says which request the window waits for: the one
for its channel, which is the last one sent, and while it is under way there is no list,
no row and no selection. `KnownInv` follows what the window says of the machine through
the one job at work: an installed application it does not show has been missed by the last
query (`misled`), and one it shows although it is gone is corrected by a job that has
still to report (`Noticed`). In the PR window `KnowsInv` does the same.

*A property that fails.* `KeptSettingsComeBack` is violated by the code, and the theorem
says by what: without a save script that stops and without an application that writes
meanwhile the copy is complete, all other mishaps and power loss included (`KeptInv`
follows the copy through the script).

*A success names what is installed.* What a job has put on the machine is its own build
until another command runs; in the PR window that is either its next job, which resets
the text, or the command of a manager that was closed, which `misled` records. A mounted
image belongs to the job between its attach and its detach (`ImagesInv`).

*The record is true.* `FetchedBuildInv` is a chain of custody: the build fetched is
the one hashed, downloaded, renamed into place, installed, asked for and recorded.
The banner follows from it: a record that describes the package installed gives that
package's publish time, so comparing publish times compares builds. It misses nothing
because without a record the tag is compared with the package, and their order is the
order of builds where the tag has no build number and the build installed is not one of
main. `ShownInv` carries the release the operator read to the one that is fetched:
tagged builds are never withdrawn, so the newest is not older. `TidyInv` says of each
step whether the run has a temporary file, and that what an error leaves is one whose
removal was refused. `OnlyVerified`
needs less and survives any interleaving: what lies at the fixed path was verified by
somebody.

*Unpacked.* What is not in `todo` is unpacked, as long as nobody else has written since
(`Unpacked`, and `OrphansUnpacked` for the PowerShells that have outlived their manager); so
when `todo` is empty the folder holds the build, and only then the version is written. An
elevated unpack that fails without a word comes to the confirmation all the same, and is
told apart there by the folder's version, which names the build by then only if it did
before (`NotYetNamed`, `Confirmed`). From the moment an unpack begins until it ends well
the folder may be `mixed`, whatever its version says, and so from the moment two overlap.

*The manager is whole.* What a staged file lacks, one who has it open is still to write
(`Covered`); all of them write the same build. A file can be renamed only when nobody has
it open; by then it lacks nothing, unless one who shared it was stopped while writing
(`clash = "torn"`; `Sole` says that before two have met there is nobody to share it). `HealInv` shows that an undisturbed press finds its
staged file free and its target not running, so that it does not warn. `ChangesAtOnce` is
the same argument for the step: the only step that changes what lies there is the rename,
and what it moves is all of the package's manager.

*How long it takes.* Of liveness the part that is a matter of steps is proved. Each
operation has a count of the steps before it (`StepsLeft`), bounded by the constants;
every step of its own lowers the count, and no step of anybody else raises it until the
next call begins, so that no retry, no fallback and no second process sends it back:
the engine's second attempt at the rename, the installer's removal and second
`Add-AppxPackage`, the certificate's elevated script after the plain one. The windows
that wait for such an operation wait for one that exists: `SomebodyIsAwaited` and
`BusyForAJob` say whom a flag is up for, which a late answer for another channel, a job of
a closed window or a failure could break.

## 8. Only model-checked

Liveness (`CallsReturn` of the installer and of the certificate, `NothingStaysBusy` of
the two pickers, `UpdateEnds`, `InstallEnds`, `CallsEnd`) rests on fairness and ENABLED,
which the prover does not handle; TLC checks it. The bounds on steps of section 7 are
proved; that an operation which has steps left can take one, and that it is taken, is
what TLC adds to them. Every other property of a passing run is
also proved. The type invariants of every module but `CertificateTrust` and
`PortableInstall` are proved and no run checks them again, nor `DestIsWhole`, which
follows from where it starts and `ChangesAtOnce`. What is proved
for one manager, or with an exception a history variable records, fails without it, as
section 5 shows. Of the properties that are violated, only `KeptSettingsComeBack` has a
theorem that says when it holds.

## 9. Not modelled

- Theme, progress bar, wording of errors, folder dialog, console handling: drawing
  and text that no property tells apart.
- The inside of PowerShell scripts and of `dpkg`, `hdiutil` and `cp` beyond what they
  read, write and report.
- A portable folder after a power loss: closing the manager is modelled, and the end of
  an elevated unpack at any file, which together are what a restart leaves if what was
  written is on the disk.
- Downloads are one step, with the bytes right or damaged; progress is left out.
- The Flutter application and the Dart packages, except the application's side of an
  update (`ManagerExtract`). With the rest of the manager they share only the data
  container (edits are `Configure`) and the process that has to exit
  (`WaitForPIDExit`). The operator interface, the field bus clients, the access control
  library, the MCP server, the video plugin and the profiler are programs of their own.
- The release workflows, except what they do to `main-latest` and which versions they
  stamp (`UpdateEngine`).
- `runUpdateMode` draws one page per state; what it shows, confirms and fetches is in
  `UpdateEngine`, its drawing is not.

## 10. Plan

1. Done: every part of the manager that keeps state, with its properties checked and,
   but for liveness, proved.
2. Done: composition of the installer with its callers, through `InstallerContract`.
3. `CertificateTrust` and the wizard stay apart: an approval that failed leaves an install
   Windows refuses, which is one of `InstallOutcomes`, so what the picker's properties
   say would not change.
4. The application's other side: settings written while the manager copies the
   container are edits of `WindowsInstaller`; the preference store that writes them
   could be a module of its own.
