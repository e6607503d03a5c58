-------------------------- MODULE WindowsInstaller --------------------------
(***************************************************************************)
(* The Windows installer of the version manager: installWindows and        *)
(* windowsInstaller.Uninstall (tools/centroidx-manager/internal/platform). *)
(*                                                                         *)
(* Removing an MSIX package removes its data container, where the station  *)
(* keeps its settings.  The installer therefore copies the container aside *)
(* before it removes a package and copies it back when it installs one on  *)
(* a machine without.  Each PowerShell call is a step of its own, the      *)
(* copying goes file by file, any call may fail, and the machine may lose  *)
(* power between two steps.                                                *)
(*                                                                         *)
(* Windows itself (Add-AppxPackage, Remove-AppxPackage, Get-AppxPackage)   *)
(* is external: it is modelled by the outcomes the code distinguishes.     *)
(***************************************************************************)
EXTENDS Integers

CONSTANTS
  Settings,    \* the files of the data container, one setting each
  Publishers,  \* the publishers a package may be signed by
  Versions,    \* package versions, as numbers
  MaxEdits,    \* bound on the number of settings edits
  Mishaps,     \* what may go wrong in this instance, a subset of AllMishaps
  CrashAt,     \* the steps at which the machine may lose power
  NoPackage,   \* Get-AppxPackage returns nothing
  NoFolder     \* a folder that does not exist

Packages == [version : Versions, publisher : Publishers]
Folders == [Settings -> 0..MaxEdits]

AllMishaps ==
  { "unreadable",  \* the version inside the package cannot be read
    "query",       \* Get-AppxPackage fails when asked for the installed version
    "publisher",   \* one of the two publishers cannot be read
    "deploy",      \* Add-AppxPackage fails for a reason of its own
    "remove",      \* Remove-AppxPackage fails
    "save",        \* the save script stops on an error
    "restore",     \* the restore script stops on an error
    "discard",     \* the discard script stops on an error
    "running",     \* the application is in use while the manager works
    "external" }   \* somebody uninstalls the package without the manager

SaveSteps == {"save", "saving"}
RestoreSteps == {"restore", "restoring", "consume"}
Steps == {"check", "add", "publisher", "discard", "remove", "retry"}
           \cup SaveSteps \cup RestoreSteps

ASSUME VersionsAssumption == Versions \subseteq Nat
ASSUME MaxEditsAssumption == MaxEdits \in Nat
ASSUME MishapsAssumption == Mishaps \subseteq AllMishaps
ASSUME CrashAtAssumption == CrashAt \subseteq Steps
ASSUME NoPackageAssumption == NoPackage \notin Packages
ASSUME NoFolderAssumption == NoFolder \notin [Settings -> Nat]

VARIABLES
  pkg,      \* the installed package
  live,     \* its data container
  backup,   \* %TEMP%\centroidx-package-data
  pc,       \* the next step of the call in progress, "idle" between calls
  kind,     \* the call: "install" or "uninstall"
  asset,    \* the package installWindows was given
  keep,     \* Uninstall's keepSettings
  fresh,    \* freshInstall in installWindows
  saved,    \* saved in installWindows
  todo,     \* files the running script has yet to copy
  result,   \* what the last call returned
  hadPkg,   \* history: what was installed when the call began
  hadLive,  \* history: the data container when the call began
  edits,    \* history: the edits made so far
  wiped,    \* history: the last edit made before the settings were removed on request
  lapse     \* history: "settings" once a mishap ended the promise about the settings,
            \* "wipe" once a copy could not be discarded

disk == <<pkg, live, backup>>
call == <<kind, asset, keep, hadPkg, hadLive>>
locals == <<fresh, saved, todo>>
history == <<edits, wiped, lapse>>
vars == <<disk, pc, call, locals, result, history>>

-----------------------------------------------------------------------------
(* Folders. *)

FileIn(folder, s) == IF folder = NoFolder THEN 0 ELSE folder[s]
HasFiles(folder) == \E s \in Settings : FileIn(folder, s) # 0
EmptyFolder == [s \in Settings |-> 0]
FilesOf(folder) == {s \in Settings : FileIn(folder, s) # 0}

\* What a delete of the folder leaves when it stops midway.
Leftovers(folder) ==
  IF folder = NoFolder THEN {NoFolder}
  ELSE {[s \in Settings |-> IF s \in gone THEN 0 ELSE folder[s]] : gone \in SUBSET Settings}

-----------------------------------------------------------------------------
Init ==
  /\ pkg = NoPackage /\ live = NoFolder /\ backup = NoFolder
  /\ pc = "idle" /\ kind = "none" /\ asset = NoPackage /\ keep = TRUE
  /\ hadPkg = NoPackage /\ hadLive = NoFolder
  /\ fresh = FALSE /\ saved = FALSE /\ todo = {}
  /\ result = "none"
  /\ edits = 0 /\ wiped = 0 /\ lapse = "none"

\* The call returns.
Return(r) ==
  /\ pc' = "idle"
  /\ result' = r

Goto(step) ==
  /\ pc' = step
  /\ UNCHANGED result

\* From here on nothing is promised about the settings.
Lapse == lapse' = IF lapse = "none" THEN "settings" ELSE lapse

\* A mishap with consequences only under some condition.
LapseIf(cond) == IF cond THEN Lapse ELSE UNCHANGED lapse

Begin(what, step) ==
  /\ pc = "idle"
  /\ pc' = step
  /\ kind' = what
  /\ hadPkg' = pkg
  /\ hadLive' = live
  /\ fresh' = FALSE
  /\ saved' = FALSE
  /\ result' = "none"
  /\ UNCHANGED <<disk, todo, history>>

\* installWindows(runner, a)
Install(a) ==
  /\ Begin("install", "check")
  /\ asset' = a
  /\ UNCHANGED keep

\* Mutant: only a migration puts the settings aside.
UninstallWithoutCopy(k) ==
  /\ Begin("uninstall", IF k THEN "remove" ELSE "discard")
  /\ keep' = k
  /\ UNCHANGED asset

\* Uninstall(keepSettings): put the container aside, or clear an older copy.
Uninstall(k) ==
  /\ Begin("uninstall", IF k THEN "save" ELSE "discard")
  /\ keep' = k
  /\ UNCHANGED asset

-----------------------------------------------------------------------------
(* installWindows up to the point where it may have to remove a package. *)

\* packageVersionCheck.  An answer it cannot get means "go ahead"; a query
\* that fails is not told apart from a machine with nothing installed.  Only where
\* a copy lies aside does it matter to the settings.
PackageVersionCheck ==
  /\ pc = "check"
  /\ \/ /\ "unreadable" \in Mishaps
        /\ fresh' = FALSE
        /\ LapseIf(pkg = NoPackage /\ HasFiles(backup))
        /\ Goto("add")
     \/ /\ pkg = NoPackage \/ "query" \in Mishaps
        /\ fresh' = TRUE
        /\ LapseIf(pkg # NoPackage /\ HasFiles(backup))
        /\ Goto("add")
     \/ /\ pkg # NoPackage
        /\ asset.version > pkg.version
        /\ fresh' = FALSE
        /\ Goto("add")
        /\ UNCHANGED lapse
     \/ /\ pkg # NoPackage
        /\ asset.version <= pkg.version
        /\ Return("error")
        /\ UNCHANGED <<fresh, lapse>>
  /\ UNCHANGED <<disk, call, saved, todo, edits, wiped>>

\* Windows deploys onto an empty machine, or over the same publisher's
\* package when the version is higher or the package is the very same.
Deployable ==
  pkg # NoPackage => pkg.publisher = asset.publisher /\ asset.version >= pkg.version

\* The codes Windows may refuse with.  A publisher conflict is 0x80073CF3, and
\* so are a missing dependency and a wrong architecture.
Refusals ==
  {code \in {"80073cf3", "80073cfb", "other"} :
     \/ "deploy" \in Mishaps
     \/ /\ pkg # NoPackage
        /\ \/ code = "80073cf3" /\ pkg.publisher # asset.publisher
           \/ code = "80073cfb" /\ pkg.publisher = asset.publisher /\ asset.version = pkg.version
           \/ code = "other" /\ pkg.publisher = asset.publisher /\ asset.version < pkg.version}

\* Mutant: the copy is restored after every install.
AddAndAlwaysRestore ==
  /\ pc = "add"
  /\ \/ Deployable /\ pkg' = asset /\ Goto("restore")
     \/ "80073cf3" \in Refusals /\ Goto("publisher") /\ UNCHANGED pkg
     \/ Refusals \ {"80073cf3"} # {} /\ Return("error") /\ UNCHANGED pkg
  /\ UNCHANGED <<live, backup, call, locals, history>>

\* Add-AppxPackage, first attempt.
AddAppxPackage ==
  /\ pc = "add"
  /\ \/ /\ Deployable
        /\ pkg' = asset
        /\ IF fresh THEN Goto("restore") ELSE Return("ok")
     \/ /\ "80073cf3" \in Refusals
        /\ Goto("publisher")
        /\ UNCHANGED pkg
     \/ /\ Refusals \ {"80073cf3"} # {}
        /\ Return("error")
        /\ UNCHANGED pkg
  /\ UNCHANGED <<live, backup, call, locals, history>>

\* Mutant: every 0x80073CF3 is taken for a conflict.
EveryRefusalIsAConflict ==
  /\ pc = "publisher"
  /\ Goto("save")
  /\ UNCHANGED <<disk, call, locals, history>>

\* publisherConflict: both publishers known, and different.
PublisherConflict ==
  /\ pc = "publisher"
  /\ \/ /\ pkg # NoPackage
        /\ pkg.publisher # asset.publisher
        /\ Goto("save")
     \/ /\ (pkg # NoPackage /\ "publisher" \notin Mishaps) => pkg.publisher = asset.publisher
        /\ Return("error")
  /\ UNCHANGED <<disk, call, locals, history>>

-----------------------------------------------------------------------------
(* savePackageData.  Whatever it reports, the caller goes on to remove. *)

SaveDone(ok) ==
  /\ saved' = ok
  /\ todo' = {}
  /\ Goto("remove")

\* No package or no container: nothing to save, and the older copy stays.
SaveNothing ==
  /\ pc = "save"
  /\ pkg = NoPackage \/ live = NoFolder
  /\ SaveDone(FALSE)
  /\ UNCHANGED <<disk, call, fresh, history>>

\* The older copy is removed before the new one is made.
SaveBegins ==
  /\ pc = "save"
  /\ pkg # NoPackage
  /\ live # NoFolder
  /\ backup' = EmptyFolder
  /\ todo' = FilesOf(live)
  /\ Goto("saving")
  /\ UNCHANGED <<pkg, live, call, fresh, saved, history>>

SaveFile(s) ==
  /\ pc = "saving"
  /\ s \in todo
  /\ backup' = [backup EXCEPT ![s] = FileIn(live, s)]
  /\ todo' = todo \ {s}
  /\ UNCHANGED <<pkg, live, pc, call, fresh, saved, result, history>>

SaveEnds ==
  /\ pc = "saving"
  /\ todo = {}
  /\ SaveDone(HasFiles(backup))
  /\ UNCHANGED <<disk, call, fresh, history>>

\* The script stops: on the delete of the older copy, or between two files.
SaveFails ==
  /\ "save" \in Mishaps
  /\ \/ /\ pc = "save"
        /\ pkg # NoPackage
        /\ live # NoFolder
        /\ backup' \in Leftovers(backup)
     \/ /\ pc = "saving"
        /\ UNCHANGED backup
  /\ SaveDone(FALSE)
  /\ Lapse
  /\ UNCHANGED <<pkg, live, call, fresh, edits, wiped>>

-----------------------------------------------------------------------------
(* Removing the package, on request or to make way for another publisher's. *)

\* Mutant: an uninstall that is to remove the settings forgets the older copy.
DiscardNothing ==
  /\ pc = "discard"
  /\ Goto("remove")
  /\ UNCHANGED <<disk, call, locals, history>>

\* discardPackageDataBackup; its outcome is ignored.
DiscardBackup ==
  /\ pc = "discard"
  /\ \/ backup' = NoFolder /\ UNCHANGED lapse
     \/ "discard" \in Mishaps /\ backup' \in Leftovers(backup) /\ lapse' = "wipe"
  /\ Goto("remove")
  /\ UNCHANGED <<pkg, live, call, locals, edits, wiped>>

\* Remove-AppxPackage takes the data container along.  A migration goes on
\* whether it worked or not.
RemoveAppxPackage ==
  /\ pc = "remove"
  /\ \/ /\ pkg' = NoPackage
        /\ live' = NoFolder
        /\ wiped' = IF kind = "uninstall" /\ ~keep THEN edits ELSE wiped
        /\ IF kind = "install" THEN Goto("retry") ELSE Return("ok")
     \/ /\ "remove" \in Mishaps
        /\ UNCHANGED <<pkg, live, wiped>>
        /\ IF kind = "install" THEN Goto("retry") ELSE Return("error")
  /\ UNCHANGED <<backup, call, locals, edits, lapse>>

\* Mutant: the migration is tried until Windows takes the package.
RetryUntilDeployed ==
  /\ pc = "retry"
  /\ \/ Deployable /\ pkg' = asset /\ (IF saved THEN Goto("restore") ELSE Return("ok"))
     \/ Refusals # {} /\ Goto("publisher") /\ UNCHANGED pkg
  /\ UNCHANGED <<live, backup, call, locals, history>>

\* Add-AppxPackage, after the removal.
RetryAddAppxPackage ==
  /\ pc = "retry"
  /\ \/ /\ Deployable
        /\ pkg' = asset
        /\ IF saved THEN Goto("restore") ELSE Return("ok")
     \/ /\ Refusals # {}
        /\ Return("error")
        /\ UNCHANGED pkg
  /\ UNCHANGED <<live, backup, call, locals, history>>

-----------------------------------------------------------------------------
(* restorePackageData.  Its outcome is ignored: the install has succeeded. *)

\* Mutant: a restore that goes wrong is reported as a failed install.
RestoreDoneOrFailed ==
  /\ todo' = {}
  /\ Return("ok") \/ Return("error")

RestoreDone ==
  /\ todo' = {}
  /\ Return("ok")

RestoreNothing ==
  /\ pc = "restore"
  /\ backup = NoFolder
  /\ RestoreDone
  /\ UNCHANGED <<disk, call, fresh, saved, history>>

RestoreBegins ==
  /\ pc = "restore"
  /\ backup # NoFolder
  /\ live' = IF live = NoFolder THEN EmptyFolder ELSE live
  /\ todo' = FilesOf(backup)
  /\ Goto("restoring")
  /\ UNCHANGED <<pkg, backup, call, fresh, saved, history>>

\* The saved copy wins over what is there.
RestoreFile(s) ==
  /\ pc = "restoring"
  /\ s \in todo
  /\ live' = [live EXCEPT ![s] = FileIn(backup, s)]
  /\ todo' = todo \ {s}
  /\ UNCHANGED <<pkg, backup, pc, call, fresh, saved, result, history>>

RestoreCopied ==
  /\ pc = "restoring"
  /\ todo = {}
  /\ Goto("consume")
  /\ UNCHANGED <<disk, call, locals, history>>

\* One shot: the copy is deleted by the install that restored it.
RestoreConsumes ==
  /\ pc = "consume"
  /\ backup' = NoFolder
  /\ RestoreDone
  /\ UNCHANGED <<pkg, live, call, fresh, saved, history>>

RestoreFails ==
  /\ "restore" \in Mishaps
  /\ pc \in RestoreSteps
  /\ backup' \in IF pc = "consume" THEN Leftovers(backup) ELSE {backup}
  /\ RestoreDone
  /\ Lapse
  /\ UNCHANGED <<pkg, live, call, fresh, saved, edits, wiped>>

-----------------------------------------------------------------------------
(* The application, the machine, and other programs. *)

\* The application saves a setting in its container; while the container is
\* copied or about to go, the change may be lost.
Configure(s) ==
  /\ pkg # NoPackage
  /\ pc = "idle" \/ "running" \in Mishaps
  /\ edits < MaxEdits
  /\ edits' = edits + 1
  /\ live' = [(IF live = NoFolder THEN EmptyFolder ELSE live) EXCEPT ![s] = edits + 1]
  /\ LapseIf(pc \in {"saving", "remove"} \cup RestoreSteps)
  /\ UNCHANGED <<pkg, backup, pc, call, locals, result, wiped>>

\* Power loss: the call is forgotten, the disk is as it is.  A copy half
\* restored stays half restored when the application is started before the
\* next install.
Crash ==
  /\ pc \in CrashAt
  /\ pc' = "idle"
  /\ kind' = "none"
  /\ todo' = {}
  /\ result' = "none"
  /\ LapseIf(pc \in RestoreSteps)
  /\ UNCHANGED <<disk, asset, keep, hadPkg, hadLive, fresh, saved, edits, wiped>>

\* Windows' own uninstall, which knows nothing of the copy.
ExternalUninstall ==
  /\ "external" \in Mishaps
  /\ pc = "idle"
  /\ pkg # NoPackage
  /\ pkg' = NoPackage
  /\ live' = NoFolder
  /\ Lapse
  /\ UNCHANGED <<backup, pc, call, locals, result, edits, wiped>>

-----------------------------------------------------------------------------
\* The steps of the call in progress.
Step ==
  \/ PackageVersionCheck \/ AddAppxPackage \/ PublisherConflict
  \/ SaveNothing \/ SaveBegins \/ SaveEnds \/ SaveFails
  \/ \E s \in Settings : SaveFile(s)
  \/ DiscardBackup \/ RemoveAppxPackage \/ RetryAddAppxPackage
  \/ RestoreNothing \/ RestoreBegins \/ RestoreCopied \/ RestoreConsumes \/ RestoreFails
  \/ \E s \in Settings : RestoreFile(s)

Next ==
  \/ \E a \in Packages : Install(a)
  \/ \E k \in BOOLEAN : Uninstall(k)
  \/ Step
  \/ \E s \in Settings : Configure(s)
  \/ Crash
  \/ ExternalUninstall

Spec == Init /\ [][Next]_vars

\* PowerShell returns from every call, so the goroutine that made it goes on.
FairSpec == Spec /\ WF_vars(Step)

-----------------------------------------------------------------------------
(* What the installer promises. *)

\* Type invariant.
TypeOK ==
  /\ pkg \in Packages \cup {NoPackage}
  /\ live \in Folders \cup {NoFolder}
  /\ backup \in Folders \cup {NoFolder}
  /\ pc \in Steps \cup {"idle"}
  /\ kind \in {"none", "install", "uninstall"}
  /\ asset \in Packages \cup {NoPackage}
  /\ keep \in BOOLEAN
  /\ hadPkg \in Packages \cup {NoPackage}
  /\ hadLive \in Folders \cup {NoFolder}
  /\ fresh \in BOOLEAN
  /\ saved \in BOOLEAN
  /\ todo \in SUBSET Settings
  /\ result \in {"none", "ok", "error"}
  /\ edits \in 0..MaxEdits
  /\ wiped \in 0..edits
  /\ lapse \in {"none", "settings", "wipe"}

\* An install removes the package it finds only when that package carries
\* another publisher than the one to be installed, whatever code Windows
\* refused with and whichever queries failed (publisherConflict).
RemovesOnlyOnConflict ==
  [][pc # "idle" /\ kind = "install" /\ pkg # NoPackage
       => pkg' # NoPackage \/ pkg.publisher # asset.publisher]_vars

\* An install over the same publisher's package, one its version query did not
\* miss, never writes into the data container: "what keeps a stale copy from being written over the live
\* container of an ordinary in-place upgrade" (installer.go:346).
InPlaceKeepsContainer ==
  [][/\ pc # "idle" /\ kind = "install"
     /\ hadPkg # NoPackage /\ hadPkg.publisher = asset.publisher /\ ~fresh
     => live' = live \/ edits' # edits]_vars

\* Settings the operator asked to have removed are gone from the container and
\* from the copy, and no later save, restore or crash brings one back
\* ("remove my settings" would be "undone by a copy nobody knew existed"), as
\* long as the copy could be discarded.
WipeIsFinal ==
  lapse # "wipe" => \A s \in Settings : \A folder \in {live, backup} :
    FileIn(folder, s) # 0 => FileIn(folder, s) > wiped

\* After an uninstall that was to keep the settings and that reported success,
\* every setting the station had is in the copy the next install restores.
KeptSettingsComeBack ==
  pc = "idle" /\ kind = "uninstall" /\ keep /\ result = "ok"
    => \A s \in FilesOf(hadLive) : FileIn(backup, s) = FileIn(hadLive, s)

\* Every call returns: no step waits for something that never comes, and the
\* copying ends.
CallsReturn == pc # "idle" ~> pc = "idle"

\* The settings as the operator will next see them: the copy is part of the
\* station while no package is installed and until the restore has ended.
RestoreDue == pkg = NoPackage \/ pc \in RestoreSteps
Current(s) == IF RestoreDue /\ FileIn(backup, s) # 0 THEN FileIn(backup, s) ELSE FileIn(live, s)
CurrentSettings == [s \in Settings |-> Current(s)]

\* An uninstall that is to take the settings along is under way.
WipeAsked == pc # "idle" /\ kind = "uninstall" /\ ~keep

Station == INSTANCE StationSettings
             WITH app <- pkg, asked <- WipeAsked, conf <- CurrentSettings, count <- edits,
                  excused <- lapse # "none"

\* The installer keeps the promise StationSettings states: through installs,
\* upgrades, migrations between publishers and uninstalls, the settings change
\* only when the operator edits them, or has asked for an uninstall that removes
\* them and while that uninstall lasts.  Failing deployments, removals and
\* publisher queries, failing version queries where no copy lies aside, and power
\* loss outside a restore, excuse nothing.
KeepsSettings == Station!Spec

\* The call under way, as its caller sees it.
Busy == pc # "idle"
Wanted == IF Busy /\ kind = "install" THEN asset ELSE NoPackage
Found == IF Busy THEN hadPkg ELSE NoPackage

Contract == INSTANCE InstallerContract
              WITH app <- pkg, busy <- Busy, wanted <- Wanted, found <- Found, answer <- result

\* Through migrations, failures and power loss the installer keeps to what its
\* callers are modelled to cope with: success means that the package asked for
\* is installed, or none after an uninstall, a failure leaves what was there or,
\* after an install, nothing (installWindows and Uninstall), and a call that
\* breaks off leaves one of the three.
MeetsContract == Contract!Spec

-----------------------------------------------------------------------------
(* Why the settings survive. *)

\* Which step belongs to which call.
StepOfCall ==
  /\ kind = "install" => asset \in Packages
  /\ pc \in {"check", "add", "publisher", "retry"} \cup RestoreSteps => kind = "install"
  /\ pc \in SaveSteps \cup {"remove"} => kind \in {"install", "uninstall"}
  /\ pc \in SaveSteps /\ kind = "uninstall" => keep
  /\ pc = "discard" => kind = "uninstall" /\ ~keep
  /\ pc \in SaveSteps \cup {"remove"} /\ kind = "install" => pkg # NoPackage
  /\ pc \in SaveSteps \cup {"remove", "retry"} /\ kind = "install" /\ pkg # NoPackage
       => pkg.publisher # asset.publisher
  /\ pc \in RestoreSteps => pkg # NoPackage

\* The copy is complete when the package goes, and complete in the container
\* when the copy goes; and a package that stays has its container, whatever
\* copy an interrupted call left behind.
CopyInv ==
  /\ StepOfCall
  /\ pkg = NoPackage => live = NoFolder
  /\ pc = "add" /\ HasFiles(backup) => (fresh <=> pkg = NoPackage)
  /\ pkg # NoPackage /\ pc \notin RestoreSteps /\ HasFiles(backup) => live # NoFolder
  /\ pc = "saving" =>
       /\ pkg # NoPackage /\ live # NoFolder /\ backup # NoFolder
       /\ \A s \in Settings \ todo : FileIn(backup, s) = FileIn(live, s)
  /\ pc = "remove" /\ kind = "uninstall" /\ ~keep => backup = NoFolder
  /\ pc = "remove" /\ (kind = "install" \/ keep) /\ pkg # NoPackage =>
       \A s \in Settings : FileIn(backup, s) = FileIn(live, s)
  /\ pc \in {"remove", "retry"} /\ kind = "install" => (saved <=> HasFiles(backup))
  /\ pc \in {"restoring", "consume"} =>
       /\ live # NoFolder /\ backup # NoFolder
       /\ todo \subseteq FilesOf(backup)
       /\ \A s \in Settings \ todo : FileIn(backup, s) \in {0, FileIn(live, s)}
  /\ pc = "consume" => todo = {}

\* How far a call has come is told by its next step.
ProgressInv ==
  /\ pc \in {"check", "add", "publisher", "save", "saving", "discard", "remove"} => pkg = hadPkg
  /\ pc = "retry" => pkg \in {hadPkg, NoPackage}
  /\ pc \in RestoreSteps => pkg = asset
  /\ pc \in {"check", "add", "publisher", "retry"} \cup RestoreSteps => kind = "install"
  /\ pc = "discard" => kind = "uninstall"
  /\ pc # "idle" => kind \in {"install", "uninstall"}
  /\ pc # "idle" /\ kind = "install" => asset \in Packages

\* So it is until a mishap spoils a copy, a query or an uninstall.
SettingsInv == lapse = "none" => CopyInv

=============================================================================
