----------------------- MODULE WindowsInstaller_proofs -----------------------
(***************************************************************************)
(* Proofs about WindowsInstaller, for any settings, publishers, versions   *)
(* and mishaps.                                                            *)
(***************************************************************************)
EXTENDS WindowsInstaller, FiniteSetTheorems, TLAPS

-----------------------------------------------------------------------------
(* Type correctness. *)

\* A file read from a folder is the number of an edit.
LEMMA FileInType ==
  ASSUME NEW folder \in Folders \cup {NoFolder}, NEW s \in Settings
  PROVE  FileIn(folder, s) \in 0..MaxEdits
BY MaxEditsAssumption DEF FileIn, Folders

\* What a failed delete leaves is still a folder.
LEMMA LeftoversType ==
  ASSUME NEW folder \in Folders \cup {NoFolder}, NEW left \in Leftovers(folder)
  PROVE  left \in Folders \cup {NoFolder}
BY MaxEditsAssumption DEF Leftovers, Folders

\* "There is no folder" is not a folder.
LEMMA NoFolderIsNoFolder == NoFolder \notin Folders
BY NoFolderAssumption, MaxEditsAssumption DEF Folders

\* A script that copies files has its source and its destination.
FoldersThere ==
  /\ pc = "saving" => backup # NoFolder
  /\ pc \in {"restoring", "consume"} => live # NoFolder /\ backup # NoFolder

TypeInv == TypeOK /\ FoldersThere

\* TypeInv is inductive.
LEMMA TypeInvInductive == Spec => []TypeInv
<1>1. Init => TypeInv
  <2> SUFFICES ASSUME Init PROVE TypeInv
    OBVIOUS
  <2>1. keep \in BOOLEAN /\ fresh \in BOOLEAN /\ saved \in BOOLEAN
    BY Zenon DEF Init
  <2>2. /\ pkg = NoPackage /\ live = NoFolder /\ backup = NoFolder
        /\ pc = "idle" /\ kind = "none" /\ asset = NoPackage
        /\ hadPkg = NoPackage /\ hadLive = NoFolder
        /\ todo = {} /\ result = "none" /\ edits = 0 /\ wiped = 0 /\ lapse = "none"
    BY Zenon DEF Init
  <2> QED
    BY <2>1, <2>2, MaxEditsAssumption DEF TypeInv, TypeOK, FoldersThere
<1>2. TypeInv /\ [Next]_vars => TypeInv'
  <2> SUFFICES ASSUME TypeInv, [Next]_vars PROVE TypeInv'
    OBVIOUS
  <2> USE MaxEditsAssumption, NoFolderIsNoFolder
      DEF TypeInv, FoldersThere, TypeOK, disk, call, locals, history, Return, Goto,
          Lapse, LapseIf, Steps, SaveSteps, RestoreSteps
  <2>1. ASSUME NEW a \in Packages, Install(a) PROVE TypeInv'
    BY <2>1 DEF Install, Begin
  <2>2. ASSUME NEW k \in BOOLEAN, Uninstall(k) PROVE TypeInv'
    BY <2>2 DEF Uninstall, Begin
  <2>3. CASE PackageVersionCheck
    <3>1. fresh' \in BOOLEAN
      BY <2>3, Zenon DEF PackageVersionCheck
    <3> QED
      BY <2>3, <3>1 DEF PackageVersionCheck
  <2>4. CASE AddAppxPackage
    BY <2>4 DEF AddAppxPackage
  <2>5. CASE PublisherConflict
    BY <2>5 DEF PublisherConflict
  <2>6. CASE SaveNothing
    <3>1. saved' \in BOOLEAN
      BY <2>6, Zenon DEF SaveNothing, SaveDone
    <3> QED
      BY <2>6, <3>1 DEF SaveNothing, SaveDone
  <2>7. CASE SaveBegins
    BY <2>7 DEF SaveBegins, EmptyFolder, Folders, FilesOf
  <2>8. CASE SaveEnds
    <3>1. saved' \in BOOLEAN
      BY <2>8, Zenon DEF SaveEnds, SaveDone, HasFiles
    <3>2. todo' = {} /\ UNCHANGED <<disk, call, fresh, result, history>> /\ pc' = "remove"
      BY <2>8, Zenon DEF SaveEnds, SaveDone
    <3> QED
      BY <3>1, <3>2
  <2>9. CASE SaveFails
    <3>1. backup' \in Folders \cup {NoFolder}
      BY <2>9, LeftoversType DEF SaveFails
    <3>2. /\ todo' = {} /\ pc' = "remove" /\ saved' = FALSE
          /\ UNCHANGED <<pkg, live, call, fresh, result, edits, wiped>>
      BY <2>9, Zenon DEF SaveFails, SaveDone
    <3>3. lapse' \in {"none", "settings", "wipe"}
      BY <2>9 DEF SaveFails
    <3> QED
      BY <3>1, <3>2, <3>3
  <2>10. ASSUME NEW s \in Settings, SaveFile(s) PROVE TypeInv'
    BY <2>10, FileInType DEF SaveFile, Folders
  <2>11. CASE DiscardBackup
    BY <2>11, LeftoversType DEF DiscardBackup
  <2>12. CASE RemoveAppxPackage
    BY <2>12 DEF RemoveAppxPackage
  <2>13. CASE RetryAddAppxPackage
    BY <2>13 DEF RetryAddAppxPackage
  <2>14. CASE RestoreNothing
    BY <2>14 DEF RestoreNothing, RestoreDone
  <2>15. CASE RestoreBegins
    BY <2>15 DEF RestoreBegins, EmptyFolder, Folders, FilesOf
  <2>16. CASE RestoreCopied
    BY <2>16 DEF RestoreCopied
  <2>17. CASE RestoreConsumes
    BY <2>17 DEF RestoreConsumes, RestoreDone
  <2>18. CASE RestoreFails
    BY <2>18, LeftoversType DEF RestoreFails, RestoreDone
  <2>19. ASSUME NEW s \in Settings, RestoreFile(s) PROVE TypeInv'
    BY <2>19, FileInType DEF RestoreFile, Folders
  <2>20. ASSUME NEW s \in Settings, Configure(s) PROVE TypeInv'
    BY <2>20 DEF Configure, EmptyFolder, Folders
  <2>21. CASE Crash
    BY <2>21 DEF Crash
  <2>22. CASE ExternalUninstall
    BY <2>22 DEF ExternalUninstall
  <2>23. CASE UNCHANGED vars
    BY <2>23 DEF vars
  <2> QED
    BY <2>1, <2>2, <2>3, <2>4, <2>5, <2>6, <2>7, <2>8, <2>9, <2>10, <2>11, <2>12, <2>13,
       <2>14, <2>15, <2>16, <2>17, <2>18, <2>19, <2>20, <2>21, <2>22, <2>23 DEF Next, Step
<1> QED
  BY <1>1, <1>2, PTL DEF Spec

\* Every variable keeps its type, whatever goes wrong.
THEOREM TypeCorrect == Spec => []TypeOK
<1>1. TypeInv => TypeOK
  BY DEF TypeInv
<1> QED
  BY <1>1, TypeInvInductive, PTL

-----------------------------------------------------------------------------
(* A package is removed to make way for another publisher's, or on request. *)

\* What an install knows when it comes to removing the installed package.
ConflictInv ==
  /\ kind = "install" => asset \in Packages
  /\ pc \in {"check", "add", "retry"} => kind = "install"
  /\ pc = "discard" => kind = "uninstall"
  /\ pc \in SaveSteps \cup {"remove"} /\ kind = "install" /\ pkg # NoPackage
       => pkg.publisher # asset.publisher

\* Theorem for RemovesOnlyOnConflict, for every set of mishaps.
THEOREM InstallRemovesOnlyOnConflict == Spec => RemovesOnlyOnConflict
<1> DEFINE Keeps == pc # "idle" /\ kind = "install" /\ pkg # NoPackage
                      => pkg' # NoPackage \/ pkg.publisher # asset.publisher
<1> USE NoPackageAssumption
    DEF ConflictInv, disk, call, locals, history, Return, Goto, SaveSteps, RestoreSteps, Steps
<1>1. Init => ConflictInv
  <2>1. Init => pc = "idle" /\ kind = "none"
    BY Zenon DEF Init
  <2> QED
    BY <2>1
<1>2. ConflictInv /\ [Next]_vars => ConflictInv' /\ Keeps
  <2> SUFFICES ASSUME ConflictInv, [Next]_vars PROVE ConflictInv' /\ Keeps
    OBVIOUS
  <2>1. ASSUME NEW a \in Packages, Install(a) PROVE ConflictInv' /\ Keeps
    BY <2>1 DEF Install, Begin
  <2>2. ASSUME NEW k \in BOOLEAN, Uninstall(k) PROVE ConflictInv' /\ Keeps
    BY <2>2 DEF Uninstall, Begin
  <2>3. CASE PackageVersionCheck
    <3>1. pc' \in {"add", "idle"} /\ pc = "check" /\ UNCHANGED <<disk, kind, asset>>
      BY <2>3 DEF PackageVersionCheck
    <3> QED
      BY <3>1
  <2>4. CASE AddAppxPackage
    BY <2>4 DEF AddAppxPackage
  <2>5. CASE PublisherConflict
    BY <2>5 DEF PublisherConflict
  <2>6. CASE SaveNothing \/ SaveBegins \/ SaveEnds \/ SaveFails
    BY <2>6 DEF SaveNothing, SaveBegins, SaveEnds, SaveFails, SaveDone
  <2>7. ASSUME NEW s \in Settings, SaveFile(s) \/ RestoreFile(s) PROVE ConflictInv' /\ Keeps
    BY <2>7 DEF SaveFile, RestoreFile
  <2>8. CASE DiscardBackup
    BY <2>8 DEF DiscardBackup
  <2>9. CASE RemoveAppxPackage
    BY <2>9 DEF RemoveAppxPackage
  <2>10. CASE RetryAddAppxPackage
    BY <2>10 DEF RetryAddAppxPackage
  <2>11. CASE RestoreNothing \/ RestoreBegins \/ RestoreCopied \/ RestoreConsumes \/ RestoreFails
    BY <2>11 DEF RestoreNothing, RestoreBegins, RestoreCopied, RestoreConsumes, RestoreFails, RestoreDone
  <2>12. ASSUME NEW s \in Settings, Configure(s) PROVE ConflictInv' /\ Keeps
    BY <2>12 DEF Configure
  <2>13. CASE Crash
    BY <2>13 DEF Crash
  <2>14. CASE ExternalUninstall
    BY <2>14 DEF ExternalUninstall
  <2>15. CASE UNCHANGED vars
    BY <2>15 DEF vars
  <2> QED
    BY <2>1, <2>2, <2>3, <2>4, <2>5, <2>6, <2>7, <2>8, <2>9, <2>10, <2>11, <2>12, <2>13,
       <2>14, <2>15 DEF Next, Step
<1> QED
  BY <1>1, <1>2, PTL DEF Spec, RemovesOnlyOnConflict

-----------------------------------------------------------------------------
(* An in-place upgrade leaves the data container alone. *)

\* An install that gets as far as a removal or a restore found no package of
\* the same publisher, or its version query missed it.
InPlaceInv ==
  kind = "install" /\ pc # "idle" =>
    \/ pc \in {"check", "add", "publisher"} /\ pkg = hadPkg
    \/ fresh /\ pc # "check"
    \/ hadPkg = NoPackage
    \/ hadPkg.publisher # asset.publisher

\* Theorem for InPlaceKeepsContainer, for every set of mishaps.
THEOREM InPlaceLeavesContainer == Spec => InPlaceKeepsContainer
<1> DEFINE Leaves == /\ pc # "idle" /\ kind = "install"
                     /\ hadPkg # NoPackage /\ hadPkg.publisher = asset.publisher /\ ~fresh
                     => live' = live \/ edits' # edits
<1> USE DEF InPlaceInv, disk, call, locals, history, Return, Goto, SaveSteps, RestoreSteps, Steps
<1>1. Init => InPlaceInv
  <2>1. Init => pc = "idle"
    BY Zenon DEF Init
  <2> QED
    BY <2>1
<1>2. TypeInv /\ InPlaceInv /\ [Next]_vars => InPlaceInv' /\ Leaves
  <2> SUFFICES ASSUME TypeInv, InPlaceInv, [Next]_vars PROVE InPlaceInv' /\ Leaves
    OBVIOUS
  <2>0. edits \in Nat
    BY MaxEditsAssumption DEF TypeInv, TypeOK
  <2>1. ASSUME NEW a \in Packages, Install(a) PROVE InPlaceInv' /\ Leaves
    BY <2>1 DEF Install, Begin
  <2>2. ASSUME NEW k \in BOOLEAN, Uninstall(k) PROVE InPlaceInv' /\ Leaves
    BY <2>2 DEF Uninstall, Begin
  <2>3. CASE PackageVersionCheck
    <3>1. /\ pc' \in {"add", "idle"} /\ pc = "check" /\ UNCHANGED <<disk, call>>
      BY <2>3, Zenon DEF PackageVersionCheck
    <3> QED
      BY <3>1
  <2>4. CASE AddAppxPackage
    BY <2>4 DEF AddAppxPackage
  <2>5. CASE PublisherConflict
    BY <2>5 DEF PublisherConflict
  <2>6. CASE SaveNothing \/ SaveBegins \/ SaveEnds \/ SaveFails
    BY <2>6 DEF SaveNothing, SaveBegins, SaveEnds, SaveFails, SaveDone
  <2>7. ASSUME NEW s \in Settings, SaveFile(s) \/ RestoreFile(s) PROVE InPlaceInv' /\ Leaves
    BY <2>7 DEF SaveFile, RestoreFile
  <2>8. CASE DiscardBackup
    BY <2>8 DEF DiscardBackup
  <2>9. CASE RemoveAppxPackage
    BY <2>9 DEF RemoveAppxPackage
  <2>10. CASE RetryAddAppxPackage
    BY <2>10 DEF RetryAddAppxPackage
  <2>11. CASE RestoreNothing \/ RestoreBegins \/ RestoreCopied \/ RestoreConsumes \/ RestoreFails
    BY <2>11 DEF RestoreNothing, RestoreBegins, RestoreCopied, RestoreConsumes, RestoreFails, RestoreDone
  <2>12. ASSUME NEW s \in Settings, Configure(s) PROVE InPlaceInv' /\ Leaves
    BY <2>0, <2>12 DEF Configure
  <2>13. CASE Crash
    BY <2>13 DEF Crash
  <2>14. CASE ExternalUninstall
    BY <2>14 DEF ExternalUninstall
  <2>15. CASE UNCHANGED vars
    BY <2>15 DEF vars
  <2> QED
    BY <2>1, <2>2, <2>3, <2>4, <2>5, <2>6, <2>7, <2>8, <2>9, <2>10, <2>11, <2>12, <2>13,
       <2>14, <2>15 DEF Next, Step
<1> QED
  BY <1>1, <1>2, TypeInvInductive, PTL DEF Spec, InPlaceKeepsContainer

-----------------------------------------------------------------------------
(* Settings removed on request stay removed. *)

\* A call that removes the settings has emptied the copy before it removes the
\* package, and does nothing else.
WipeInv ==
  /\ WipeIsFinal
  /\ kind = "uninstall" /\ ~keep => pc \in {"idle", "discard", "remove"}
  /\ kind = "uninstall" /\ ~keep /\ pc = "remove" => backup = NoFolder \/ lapse = "wipe"

\* Theorem for WipeIsFinal: it takes a discard that works, and nothing else.
THEOREM WipedSettingsStayGone == Spec => []WipeIsFinal
<1> USE MaxEditsAssumption, NoFolderIsNoFolder
    DEF WipeInv, disk, call, locals, history, Return, Goto, Lapse, LapseIf, SaveSteps, RestoreSteps
<1>1. Init => WipeInv
  <2>1. Init => pc = "idle" /\ kind = "none" /\ live = NoFolder /\ backup = NoFolder
    BY Zenon DEF Init
  <2> QED
    BY <2>1 DEF WipeIsFinal, FileIn
<1>2. TypeInv /\ WipeInv /\ [Next]_vars => WipeInv'
  <2> SUFFICES ASSUME TypeInv, WipeInv, [Next]_vars PROVE WipeInv'
    OBVIOUS
  <2>0. /\ live \in Folders \cup {NoFolder} /\ backup \in Folders \cup {NoFolder}
        /\ edits \in 0..MaxEdits /\ wiped \in 0..edits /\ FoldersThere
    BY DEF TypeInv, TypeOK
  <2> HIDE DEF TypeInv
  <2> USE <2>0
  <2>1. ASSUME NEW a \in Packages, Install(a) PROVE WipeInv'
    BY <2>1 DEF Install, Begin, WipeIsFinal, FileIn
  <2>2. ASSUME NEW k \in BOOLEAN, Uninstall(k) PROVE WipeInv'
    BY <2>2 DEF Uninstall, Begin, WipeIsFinal, FileIn
  <2>3. CASE PackageVersionCheck
    <3>1. /\ pc' \in {"add", "idle"} /\ pc = "check"
          /\ UNCHANGED <<live, backup, wiped, kind, keep>>
          /\ lapse = "wipe" => lapse' = "wipe"
      BY <2>3, Zenon DEF PackageVersionCheck
    <3> QED
      BY <3>1 DEF WipeIsFinal, FileIn
  <2>4. CASE AddAppxPackage \/ PublisherConflict \/ RetryAddAppxPackage
    BY <2>4 DEF AddAppxPackage, PublisherConflict, RetryAddAppxPackage, WipeIsFinal, FileIn
  <2>5. CASE SaveNothing \/ SaveEnds
    BY <2>5 DEF SaveNothing, SaveEnds, SaveDone, WipeIsFinal, FileIn
  <2>6. CASE SaveBegins
    BY <2>6 DEF SaveBegins, WipeIsFinal, FileIn, EmptyFolder
  <2>7. CASE SaveFails
    BY <2>7 DEF SaveFails, SaveDone, WipeIsFinal, FileIn, Leftovers, Folders
  <2>8. ASSUME NEW s \in Settings, SaveFile(s) PROVE WipeInv'
    BY <2>8 DEF SaveFile, WipeIsFinal, FileIn, Folders, FoldersThere
  <2>9. CASE DiscardBackup
    BY <2>9 DEF DiscardBackup, WipeIsFinal, FileIn
  <2>10. CASE RemoveAppxPackage
    BY <2>10 DEF RemoveAppxPackage, WipeIsFinal, FileIn
  <2>11. CASE RestoreNothing \/ RestoreCopied \/ RestoreConsumes
    BY <2>11 DEF RestoreNothing, RestoreCopied, RestoreConsumes, RestoreDone, WipeIsFinal, FileIn
  <2>12. CASE RestoreBegins
    BY <2>12 DEF RestoreBegins, WipeIsFinal, FileIn, EmptyFolder
  <2>13. CASE RestoreFails
    BY <2>13 DEF RestoreFails, RestoreDone, WipeIsFinal, FileIn, Leftovers, Folders
  <2>14. ASSUME NEW s \in Settings, RestoreFile(s) PROVE WipeInv'
    BY <2>14 DEF RestoreFile, WipeIsFinal, FileIn, Folders, FoldersThere
  <2>15. ASSUME NEW s \in Settings, Configure(s) PROVE WipeInv'
    BY <2>15 DEF Configure, WipeIsFinal, FileIn, EmptyFolder, Folders
  <2>16. CASE Crash
    BY <2>16 DEF Crash, WipeIsFinal, FileIn
  <2>17. CASE ExternalUninstall
    BY <2>17 DEF ExternalUninstall, WipeIsFinal, FileIn
  <2>18. CASE UNCHANGED vars
    BY <2>18 DEF vars, WipeIsFinal, FileIn
  <2> QED
    BY <2>1, <2>2, <2>3, <2>4, <2>5, <2>6, <2>7, <2>8, <2>9, <2>10, <2>11, <2>12, <2>13,
       <2>14, <2>15, <2>16, <2>17, <2>18 DEF Next, Step
<1> QED
  BY <1>1, <1>2, TypeInvInductive, PTL DEF Spec

-----------------------------------------------------------------------------
(* The settings survive. *)

\* The folder a script creates is a folder.
LEMMA EmptyFolderType == EmptyFolder \in Folders /\ \A s \in Settings : EmptyFolder[s] = 0
BY MaxEditsAssumption DEF EmptyFolder, Folders

\* A mishap that ends the promise has ended it for good.
LEMMA LapseStays ==
  ASSUME [Next]_vars, lapse' = "none" PROVE lapse = "none"
<1> USE DEF history, Lapse, LapseIf
<1>1. ASSUME NEW a \in Packages, Install(a) PROVE lapse = "none"
  BY <1>1 DEF Install, Begin
<1>2. ASSUME NEW k \in BOOLEAN, Uninstall(k) PROVE lapse = "none"
  BY <1>2 DEF Uninstall, Begin
<1>3. CASE Step
  BY <1>3 DEF Step, PackageVersionCheck, AddAppxPackage, PublisherConflict, SaveNothing,
     SaveBegins, SaveEnds, SaveFails, SaveFile, DiscardBackup, RemoveAppxPackage,
     RetryAddAppxPackage, RestoreNothing, RestoreBegins, RestoreCopied, RestoreConsumes,
     RestoreFails, RestoreFile
<1>4. CASE Crash \/ ExternalUninstall \/ \E s \in Settings : Configure(s)
  BY <1>4 DEF Crash, ExternalUninstall, Configure
<1>5. CASE UNCHANGED vars
  BY <1>5 DEF vars
<1> QED
  BY <1>1, <1>2, <1>3, <1>4, <1>5 DEF Next

\* Theorem for SettingsInv: until a mishap ends the promise, the copy put aside is
\* complete whenever the package goes, and the container whenever the copy goes.
THEOREM CopyIsThereWhenNeeded == Spec => []SettingsInv
<1>1. Init => SettingsInv
  <2>1. Init => /\ pc = "idle" /\ kind = "none"
                /\ pkg = NoPackage /\ live = NoFolder /\ backup = NoFolder
    BY Zenon DEF Init
  <2> QED
    BY <2>1 DEF SettingsInv, CopyInv, StepOfCall, SaveSteps, RestoreSteps, HasFiles, FileIn
<1>2. TypeInv /\ SettingsInv /\ [Next]_vars => SettingsInv'
  <2> SUFFICES ASSUME TypeInv, CopyInv, [Next]_vars, lapse' = "none", lapse = "none"
               PROVE  CopyInv'
    BY LapseStays DEF SettingsInv
  <2>0. /\ pkg \in Packages \cup {NoPackage}
        /\ live \in Folders \cup {NoFolder} /\ backup \in Folders \cup {NoFolder}
        /\ edits \in 0..MaxEdits /\ MaxEdits \in Nat
        /\ todo \subseteq Settings /\ keep \in BOOLEAN /\ fresh \in BOOLEAN /\ saved \in BOOLEAN
    BY MaxEditsAssumption DEF TypeInv, TypeOK
  <2> HIDE DEF TypeInv
  <2> USE <2>0, NoFolderIsNoFolder, NoPackageAssumption, EmptyFolderType
      DEF CopyInv, StepOfCall, disk, call, locals, history, Return, Goto, Lapse, LapseIf,
          SaveSteps, RestoreSteps
  <2>1. ASSUME NEW a \in Packages, Install(a) PROVE CopyInv'
    BY <2>1 DEF Install, Begin, HasFiles
  <2>2. ASSUME NEW k \in BOOLEAN, Uninstall(k) PROVE CopyInv'
    BY <2>2 DEF Uninstall, Begin, HasFiles
  <2>3. CASE PackageVersionCheck
    <3>2. /\ pc = "check" /\ UNCHANGED <<disk, call>>
          /\ pc' \in {"add", "idle"}
      BY <2>3, Zenon DEF PackageVersionCheck
    <3>3. pc' = "add" /\ HasFiles(backup) => (fresh' <=> pkg = NoPackage)
      BY <2>3 DEF PackageVersionCheck
    <3> QED
      BY <3>2, <3>3 DEF HasFiles
  <2>4. CASE AddAppxPackage
    BY <2>4 DEF AddAppxPackage, Deployable, HasFiles
  <2>5. CASE PublisherConflict
    BY <2>5 DEF PublisherConflict, HasFiles
  <2>6. CASE SaveNothing
    BY <2>6 DEF SaveNothing, SaveDone, HasFiles, FileIn
  <2>7. CASE SaveBegins
    <3>1. \A s \in Settings \ todo' : FileIn(backup', s) = FileIn(live', s)
      BY <2>7 DEF SaveBegins, FilesOf, FileIn
    <3> QED
      BY <2>7, <3>1 DEF SaveBegins
  <2>8. CASE SaveEnds
    BY <2>8 DEF SaveEnds, SaveDone, HasFiles
  <2>9. ASSUME NEW s \in Settings, SaveFile(s) PROVE CopyInv'
    BY <2>9 DEF SaveFile, HasFiles, FileIn, Folders
  <2>10. CASE SaveFails \/ RestoreFails \/ ExternalUninstall
    BY <2>10 DEF SaveFails, RestoreFails, ExternalUninstall
  <2>11. CASE DiscardBackup
    BY <2>11 DEF DiscardBackup, HasFiles, FileIn
  <2>12. CASE RemoveAppxPackage
    <3>1. /\ pc = "remove" /\ UNCHANGED <<backup, kind, asset, keep, fresh, saved, todo>>
          /\ (pc' = "retry" /\ kind = "install") \/ pc' = "idle"
          /\ (pkg' = NoPackage /\ live' = NoFolder) \/ UNCHANGED <<pkg, live>>
      BY <2>12, Zenon DEF RemoveAppxPackage
    <3>2. CASE pkg' = NoPackage /\ live' = NoFolder
      BY <3>1, <3>2 DEF HasFiles
    <3>3. CASE UNCHANGED <<pkg, live>>
      BY <3>1, <3>3 DEF HasFiles
    <3> QED
      BY <3>1, <3>2, <3>3
  <2>13. CASE RetryAddAppxPackage
    BY <2>13 DEF RetryAddAppxPackage, Deployable, HasFiles
  <2>14. CASE RestoreNothing \/ RestoreConsumes
    BY <2>14 DEF RestoreNothing, RestoreConsumes, RestoreDone, HasFiles, FileIn
  <2>15. CASE RestoreBegins
    <3>1. \A s \in Settings \ todo' : FileIn(backup', s) \in {0, FileIn(live', s)}
      BY <2>15 DEF RestoreBegins, FilesOf
    <3> QED
      BY <2>15, <3>1 DEF RestoreBegins
  <2>16. ASSUME NEW s \in Settings, RestoreFile(s) PROVE CopyInv'
    BY <2>16 DEF RestoreFile, HasFiles, FileIn, Folders
  <2>17. CASE RestoreCopied
    BY <2>17 DEF RestoreCopied, HasFiles
  <2>18. ASSUME NEW s \in Settings, Configure(s) PROVE CopyInv'
    <3>1. /\ pc \notin {"saving", "remove"} \cup RestoreSteps /\ pkg # NoPackage
          /\ UNCHANGED <<pkg, backup, pc, kind, asset, keep, fresh, saved, todo>>
      BY <2>18 DEF Configure
    <3>2. live' # NoFolder
      BY <2>18 DEF Configure, Folders
    <3> QED
      BY <3>1, <3>2 DEF HasFiles
  <2>19. CASE Crash
    BY <2>19 DEF Crash, HasFiles
  <2>20. CASE UNCHANGED vars
    BY <2>20 DEF vars, HasFiles
  <2> QED
    BY <2>1, <2>2, <2>3, <2>4, <2>5, <2>6, <2>7, <2>8, <2>9, <2>10, <2>11, <2>12, <2>13,
       <2>14, <2>15, <2>16, <2>17, <2>18, <2>19, <2>20 DEF Next, Step
<1> QED
  BY <1>1, <1>2, TypeInvInductive, PTL DEF Spec

\* Theorem for KeepsSettings: the installer implements StationSettings.  An edit is
\* an edit, a removal a wipe only under an uninstall that was asked to remove the settings, a
\* deployment or a removal a replacement, and all the copying is stuttering.
THEOREM InstallerKeepsSettings == Spec => KeepsSettings
<1>1. Init => Station!Init
  <2>1. Init => pc = "idle" /\ pkg = NoPackage /\ live = NoFolder /\ backup = NoFolder /\ edits = 0
                  /\ lapse = "none"
    BY Zenon DEF Init
  <2> QED
    BY <2>1 DEF WipeAsked, Station!Init, Station!Defaults, CurrentSettings, Current, FileIn
<1>2. TypeInv /\ TypeInv' /\ SettingsInv /\ SettingsInv' /\ [Next]_vars
        => [Station!Next]_(Station!vars)
  <2> SUFFICES ASSUME TypeInv, TypeInv', CopyInv, CopyInv', [Next]_vars,
                      lapse' = "none", lapse = "none"
               PROVE  [Station!Next]_(Station!vars)
    BY LapseStays DEF SettingsInv, Station!Next
  <2> DEFINE SameSettings == \A s \in Settings : Current(s)' = Current(s)
             Quiet == SameSettings /\ edits' = edits /\ (WipeAsked' => WipeAsked)
  <2>0. /\ pkg \in Packages \cup {NoPackage} /\ pkg' \in Packages \cup {NoPackage}
        /\ live \in Folders \cup {NoFolder} /\ backup \in Folders \cup {NoFolder}
        /\ edits \in 0..MaxEdits /\ MaxEdits \in Nat /\ todo \subseteq Settings
    BY MaxEditsAssumption DEF TypeInv, TypeOK
  <2>a. SUFFICES \/ SameSettings /\ edits' = edits /\ (WipeAsked' => WipeAsked)
                 \/ SameSettings /\ UNCHANGED <<edits, pkg>> /\ WipeAsked'
                 \/ \E s \in Settings : Station!Edit(s)
                 \/ Station!Wipe
    <3>1. SameSettings => CurrentSettings' = CurrentSettings
      BY DEF CurrentSettings
    <3>2. WipeAsked' \in BOOLEAN /\ WipeAsked \in BOOLEAN
      BY DEF WipeAsked
    <3> QED
      BY <2>0, <3>1, <3>2 DEF Station!Next, Station!Replace, Station!Ask, Station!vars
  <2> USE <2>0, NoFolderIsNoFolder, NoPackageAssumption
      DEF CopyInv, StepOfCall, disk, call, locals, history, Return, Goto, Lapse, LapseIf,
          SaveSteps, RestoreSteps, Current, RestoreDue, WipeAsked
  <2>1. ASSUME NEW a \in Packages, Install(a) PROVE Quiet
    BY <2>1 DEF Install, Begin
  <2>2. ASSUME NEW k \in BOOLEAN, Uninstall(k) PROVE Quiet \/ (SameSettings /\ UNCHANGED <<edits, pkg>> /\ WipeAsked')
    BY <2>2 DEF Uninstall, Begin
  <2>3. CASE PackageVersionCheck
    <3>1. /\ pc = "check" /\ pc' \in {"add", "idle"} /\ UNCHANGED <<pkg, live, backup, edits, kind, keep>>
      BY <2>3, Zenon DEF PackageVersionCheck
    <3> QED
      BY <3>1
  <2>4. CASE AddAppxPackage
    <3>1. /\ pc = "add" /\ UNCHANGED <<live, backup, edits, kind, keep>>
          /\ \/ Deployable /\ pkg' = asset /\ fresh /\ pc' = "restore"
             \/ Deployable /\ pkg' = asset /\ ~fresh /\ pc' = "idle"
             \/ UNCHANGED pkg /\ pc' \in {"publisher", "idle"}
      BY <2>4, Zenon DEF AddAppxPackage
    <3>2. ~HasFiles(backup) => \A s \in Settings : FileIn(backup, s) = 0
      BY DEF HasFiles
    <3>3. asset \in Packages /\ (WipeAsked' => WipeAsked)
      BY <3>1
    <3>4. CASE HasFiles(backup)
      BY <3>1, <3>3, <3>4 DEF FileIn
    <3>5. CASE ~HasFiles(backup)
      BY <3>1, <3>2, <3>3, <3>5 DEF FileIn
    <3> QED
      BY <3>4, <3>5
  <2>5. CASE PublisherConflict
    BY <2>5 DEF PublisherConflict
  <2>6. CASE SaveNothing \/ SaveBegins \/ SaveEnds
    BY <2>6 DEF SaveNothing, SaveBegins, SaveEnds, SaveDone
  <2>7. ASSUME NEW s \in Settings, SaveFile(s) PROVE Quiet
    BY <2>7 DEF SaveFile
  <2>8. CASE SaveFails \/ RestoreFails \/ ExternalUninstall
    BY <2>8 DEF SaveFails, RestoreFails, ExternalUninstall
  <2>9. CASE DiscardBackup
    <3>1. pc = "discard" /\ pc' = "remove" /\ backup' = NoFolder /\ UNCHANGED <<pkg, live, edits, kind, keep>>
      BY <2>9 DEF DiscardBackup
    <3>2. CASE pkg # NoPackage
      BY <3>1, <3>2
    <3>3. CASE pkg = NoPackage
      BY <3>1, <3>3 DEF Station!Wipe, Station!Defaults, CurrentSettings, FileIn
    <3> QED
      BY <3>2, <3>3
  <2>10. CASE RemoveAppxPackage
    <3>1. /\ pc = "remove" /\ UNCHANGED <<backup, edits, kind, keep>> /\ pc' \in {"retry", "idle"}
          /\ (pkg' = NoPackage /\ live' = NoFolder) \/ UNCHANGED <<pkg, live>>
      BY <2>10, Zenon DEF RemoveAppxPackage
    <3>2. CASE UNCHANGED <<pkg, live>>
      BY <3>1, <3>2
    <3>3. CASE pkg' = NoPackage /\ live' = NoFolder /\ pkg # NoPackage /\ (kind = "install" \/ keep)
      <4>1. \A s \in Settings : FileIn(backup, s) = FileIn(live, s)
        BY <3>1, <3>3
      <4> QED
        BY <3>1, <3>3, <4>1 DEF FileIn
    <3>4. CASE pkg' = NoPackage /\ live' = NoFolder /\ pkg = NoPackage
      BY <3>1, <3>4
    <3>5. CASE pkg' = NoPackage /\ live' = NoFolder /\ kind = "uninstall" /\ ~keep
      <4>1. backup' = NoFolder
        BY <3>1, <3>5
      <4> QED
        BY <3>1, <3>5, <4>1 DEF Station!Wipe, Station!Defaults, CurrentSettings, FileIn
    <3> QED
      BY <3>1, <3>2, <3>3, <3>4, <3>5
  <2>11. CASE RetryAddAppxPackage
    <3>1. /\ pc = "retry" /\ UNCHANGED <<live, backup, edits, kind, keep>>
          /\ \/ UNCHANGED pkg /\ pc' = "idle"
             \/ Deployable /\ pkg' = asset /\ saved /\ pc' = "restore"
             \/ Deployable /\ pkg' = asset /\ ~saved /\ pc' = "idle"
      BY <2>11, Zenon DEF RetryAddAppxPackage
    <3>4. Deployable => pkg = NoPackage
      BY <3>1 DEF Deployable
    <3>2. ~saved => \A s \in Settings : FileIn(backup, s) = 0
      BY <3>1 DEF HasFiles
    <3>3. pkg = NoPackage => \A s \in Settings : FileIn(live, s) = 0
      BY DEF FileIn
    <3> QED
      BY <3>1, <3>2, <3>3, <3>4 DEF FileIn
  <2>12. CASE RestoreNothing \/ RestoreCopied
    BY <2>12 DEF RestoreNothing, RestoreCopied, RestoreDone, FileIn
  <2>18. CASE RestoreBegins
    BY <2>18 DEF RestoreBegins, FileIn, EmptyFolder
  <2>13. ASSUME NEW f \in Settings, RestoreFile(f) PROVE Quiet
    <3>1. FileIn(backup, f) # 0
      BY <2>13 DEF RestoreFile, FilesOf
    <3>2. /\ pc = "restoring" /\ UNCHANGED <<pkg, backup, pc, edits, kind, keep>> /\ live # NoFolder
          /\ \A s \in Settings \ {f} : FileIn(live', s) = FileIn(live, s)
      BY <2>13 DEF RestoreFile, FileIn, Folders
    <3> QED
      BY <3>1, <3>2 DEF FileIn
  <2>14. CASE RestoreConsumes
    BY <2>14 DEF RestoreConsumes, RestoreDone, FileIn
  <2>15. ASSUME NEW s \in Settings, Configure(s) PROVE Station!Edit(s)
    <3>1. /\ pc \notin RestoreSteps /\ pkg # NoPackage
          /\ UNCHANGED <<pc, pkg, kind, keep>> /\ edits' = edits + 1
          /\ live' = [(IF live = NoFolder THEN EmptyFolder ELSE live) EXCEPT ![s] = edits + 1]
      BY <2>15 DEF Configure
    <3>2. \A t \in Settings : FileIn(live', t) = IF t = s THEN edits + 1 ELSE FileIn(live, t)
      BY <2>15, <3>1 DEF FileIn, Folders, EmptyFolder, Configure
    <3>3. CurrentSettings' = [CurrentSettings EXCEPT ![s] = edits + 1]
      BY <3>1, <3>2 DEF CurrentSettings
    <3> QED
      BY <3>1, <3>3 DEF Station!Edit
  <2>16. CASE Crash
    BY <2>16 DEF Crash
  <2>17. CASE UNCHANGED vars
    BY <2>17 DEF vars
  <2> QED
    BY <2>1, <2>2, <2>3, <2>4, <2>5, <2>6, <2>7, <2>8, <2>9, <2>10, <2>11, <2>12, <2>13,
       <2>14, <2>15, <2>16, <2>17, <2>18 DEF Next, Step
<1> QED
  BY <1>1, <1>2, TypeInvInductive, CopyIsThereWhenNeeded, PTL DEF Spec, KeepsSettings, Station!Spec

-----------------------------------------------------------------------------
(* The callers can rely on what the installer tells them. *)

\* ProgressInv is inductive.
LEMMA ProgressHolds == Spec => []ProgressInv
<1> USE DEF ProgressInv, disk, call, locals, history, Return, Goto, SaveSteps, RestoreSteps
<1>1. Init => ProgressInv
  <2>1. Init => pc = "idle"
    BY Zenon DEF Init
  <2> QED
    BY <2>1
<1>2. ProgressInv /\ [Next]_vars => ProgressInv'
  <2> SUFFICES ASSUME ProgressInv, [Next]_vars PROVE ProgressInv'
    OBVIOUS
  <2>1. ASSUME NEW a \in Packages, Install(a) PROVE ProgressInv'
    BY <2>1 DEF Install, Begin
  <2>2. ASSUME NEW k \in BOOLEAN, Uninstall(k) PROVE ProgressInv'
    BY <2>2 DEF Uninstall, Begin
  <2>3. CASE PackageVersionCheck
    <3>1. pc' \in {"add", "idle"} /\ pc = "check" /\ UNCHANGED <<disk, call>>
      BY <2>3, Zenon DEF PackageVersionCheck
    <3> QED
      BY <3>1
  <2>4. CASE AddAppxPackage \/ PublisherConflict \/ RetryAddAppxPackage
    BY <2>4 DEF AddAppxPackage, PublisherConflict, RetryAddAppxPackage
  <2>5. CASE SaveNothing \/ SaveBegins \/ SaveEnds \/ SaveFails \/ DiscardBackup
    BY <2>5 DEF SaveNothing, SaveBegins, SaveEnds, SaveFails, SaveDone, DiscardBackup
  <2>6. ASSUME NEW s \in Settings, SaveFile(s) \/ RestoreFile(s) PROVE ProgressInv'
    BY <2>6 DEF SaveFile, RestoreFile
  <2>7. CASE RemoveAppxPackage
    BY <2>7 DEF RemoveAppxPackage
  <2>8. CASE RestoreNothing \/ RestoreBegins \/ RestoreCopied \/ RestoreConsumes \/ RestoreFails
    BY <2>8 DEF RestoreNothing, RestoreBegins, RestoreCopied, RestoreConsumes, RestoreFails, RestoreDone
  <2>9. ASSUME NEW s \in Settings, Configure(s) PROVE ProgressInv'
    BY <2>9 DEF Configure
  <2>10. CASE Crash \/ ExternalUninstall
    BY <2>10 DEF Crash, ExternalUninstall
  <2>11. CASE UNCHANGED vars
    BY <2>11 DEF vars
  <2> QED
    BY <2>1, <2>2, <2>3, <2>4, <2>5, <2>6, <2>7, <2>8, <2>9, <2>10, <2>11 DEF Next, Step
<1> QED
  BY <1>1, <1>2, PTL DEF Spec

\* Theorem for MeetsContract: the installer implements InstallerContract.  A call
\* begins and returns as one there; the copying is stuttering, a removal and a
\* deployment are work, and so is the second attempt of a migration.
THEOREM InstallerMeetsContract == Spec => MeetsContract
<1>1. Init => Contract!Init
  BY Zenon DEF Init, Contract!Init, Busy, Wanted, Found
<1>2. TypeInv /\ ProgressInv /\ [Next]_vars => [Contract!Next]_(Contract!vars)
  <2> SUFFICES ASSUME TypeInv, ProgressInv, [Next]_vars
               PROVE  [Contract!Next]_(Contract!vars)
    OBVIOUS
  <2> DEFINE Goal == \/ Contract!Begin \/ Contract!Work \/ Contract!Return
                     \/ Contract!Interrupted \/ Contract!Elsewhere \/ UNCHANGED Contract!vars
  <2>0. pkg \in Packages \cup {NoPackage} /\ asset \in Packages \cup {NoPackage}
    BY DEF TypeInv, TypeOK
  <2> HIDE DEF TypeInv
  <2> USE <2>0, NoPackageAssumption
      DEF ProgressInv, Busy, Wanted, Found, Contract!vars, Contract!Onward, Contract!Over,
          disk, call, locals, history, Return, Goto, SaveSteps, RestoreSteps
  <2> DEFINE Moves == \/ pkg' = pkg
                      \/ pkg = hadPkg /\ pkg' \in {NoPackage, Wanted}
                      \/ pkg = NoPackage /\ pkg' = Wanted
             Answers == \/ result' = "ok" /\ pkg' = Wanted
                        \/ result' = "error" /\ pkg' = hadPkg
                        \/ result' = "error" /\ pkg' = NoPackage /\ Wanted # NoPackage
  <2>w. ASSUME pc # "idle", pc' # "idle", Moves,
               kind' = kind, asset' = asset, hadPkg' = hadPkg, result' = result
        PROVE  Goal
    BY <2>w DEF Contract!Work
  <2>r. ASSUME pc # "idle", pc' = "idle", Moves, Answers PROVE Goal
    <3>1. [answer |-> result', left |-> pkg'] \in Contract!Outcomes(Found, Wanted, NoPackage)
      BY <2>r DEF Contract!Outcomes
    <3> QED
      BY <2>r, <3>1 DEF Contract!Return
  <2> HIDE DEF Goal
  <2>1. ASSUME NEW a \in Packages, Install(a) PROVE Goal
    BY <2>1 DEF Install, Begin, Contract!Begin, Goal
  <2>2. ASSUME NEW k \in BOOLEAN, Uninstall(k) PROVE Goal
    BY <2>2 DEF Uninstall, Begin, Contract!Begin, Goal
  <2>3. ASSUME PackageVersionCheck PROVE Goal
    <3>1. /\ pc = "check" /\ UNCHANGED <<disk, call>>
          /\ \/ pc' = "add" /\ result' = result
             \/ pc' = "idle" /\ result' = "error"
      BY <2>3, Zenon DEF PackageVersionCheck
    <3> QED
      BY <3>1, <2>w, <2>r
  <2>4. ASSUME AddAppxPackage \/ PublisherConflict \/ RetryAddAppxPackage PROVE Goal
    BY <2>4, <2>w, <2>r DEF AddAppxPackage, PublisherConflict, RetryAddAppxPackage
  <2>5. ASSUME SaveNothing \/ SaveBegins \/ SaveEnds \/ SaveFails \/ DiscardBackup PROVE Goal
    BY <2>5, <2>w DEF SaveNothing, SaveBegins, SaveEnds, SaveFails, SaveDone, DiscardBackup
  <2>6. ASSUME NEW s \in Settings, SaveFile(s) \/ RestoreFile(s) PROVE Goal
    BY <2>6, <2>w DEF SaveFile, RestoreFile
  <2>7. ASSUME RemoveAppxPackage PROVE Goal
    BY <2>7, <2>w, <2>r DEF RemoveAppxPackage
  <2>8. ASSUME RestoreNothing \/ RestoreConsumes \/ RestoreFails PROVE Goal
    <3>1. /\ pc \in RestoreSteps /\ pc' = "idle" /\ result' = "ok"
          /\ pkg' = pkg /\ kind' = kind /\ asset' = asset
      BY <2>8 DEF RestoreNothing, RestoreConsumes, RestoreFails, RestoreDone
    <3> QED
      BY <3>1, <2>r
  <2>9. ASSUME RestoreBegins \/ RestoreCopied PROVE Goal
    <3>1. /\ pc \in RestoreSteps /\ pc' \in RestoreSteps
          /\ pkg' = pkg /\ kind' = kind /\ asset' = asset /\ hadPkg' = hadPkg /\ result' = result
      BY <2>9 DEF RestoreBegins, RestoreCopied
    <3> QED
      BY <3>1, <2>w
  <2>10. ASSUME NEW s \in Settings, Configure(s) PROVE Goal
    BY <2>10 DEF Configure, Goal
  <2>11. ASSUME Crash PROVE Goal
    BY <2>11, CrashAtAssumption DEF Crash, Contract!Interrupted, Contract!Halfway, Goal, Steps
  <2>12. ASSUME ExternalUninstall PROVE Goal
    BY <2>12 DEF ExternalUninstall, Contract!Elsewhere, Goal
  <2>13. ASSUME UNCHANGED vars PROVE Goal
    BY <2>13 DEF vars, Goal
  <2>14. Goal
    BY <2>1, <2>2, <2>3, <2>4, <2>5, <2>6, <2>7, <2>8, <2>9, <2>10, <2>11, <2>12, <2>13 DEF Next, Step
  <2> QED
    BY <2>14 DEF Goal, Contract!Next
<1> QED
  BY <1>1, <1>2, TypeInvInductive, ProgressHolds, PTL DEF Spec, MeetsContract, Contract!Spec

-----------------------------------------------------------------------------
(* An uninstall that keeps the settings. *)

Keeping == kind = "uninstall" /\ keep

\* The copy is made of the container as it was when the call began, file by file, and
\* the package goes when all of it is there.
KeptInv ==
  /\ pkg = NoPackage => live = NoFolder
  /\ pc = "discard" => ~Keeping
  /\ Keeping /\ pc \in {"save", "saving", "remove"} => live = hadLive
  /\ Keeping /\ pc \in {"saving", "remove"} =>
       \A s \in FilesOf(live) \ todo : FileIn(backup, s) = FileIn(live, s)
  /\ pc = "saving" => live # NoFolder /\ backup # NoFolder
  /\ pc \notin {"saving", "restoring"} => todo = {}
  /\ KeptSettingsComeBack

\* An uninstall that reports success has kept all settings, unless the save went wrong
\* or the application saved a setting meanwhile: those two mishaps are the only ways to
\* what the run Installer_save shows (windowsInstaller.Uninstall).
THEOREM KeptSettingsComeBackOtherwise ==
  Mishaps \cap {"save", "running"} = {} => (Spec => []KeptSettingsComeBack)
<1> SUFFICES ASSUME "save" \notin Mishaps, "running" \notin Mishaps
             PROVE  Spec => []KeptSettingsComeBack
  OBVIOUS
<1> USE NoFolderIsNoFolder
    DEF Keeping, disk, call, locals, history, Return, Goto, SaveSteps, RestoreSteps
<1>1. Init => KeptInv
  <2>1. Init => pc = "idle" /\ kind = "none" /\ live = NoFolder /\ todo = {}
    BY Zenon DEF Init
  <2> QED
    BY <2>1 DEF KeptInv, KeptSettingsComeBack
<1>2. TypeInv /\ ProgressInv /\ KeptInv /\ [Next]_vars => KeptInv'
  <2> SUFFICES ASSUME TypeInv, ProgressInv, KeptInv, [Next]_vars PROVE KeptInv'
    OBVIOUS
  <2>0. /\ live \in Folders \cup {NoFolder} /\ backup \in Folders \cup {NoFolder}
        /\ todo \subseteq Settings
        /\ pc \in {"check", "add", "publisher", "retry", "restore", "restoring", "consume"}
             => kind = "install" /\ asset # NoPackage
        /\ pc \in {"restore", "restoring", "consume"} => pkg # NoPackage
    BY NoPackageAssumption DEF TypeInv, TypeOK, ProgressInv
  <2>1. ASSUME NEW a \in Packages, Install(a) PROVE KeptInv'
    BY <2>1 DEF Install, Begin, KeptInv, KeptSettingsComeBack
  <2>2. ASSUME NEW k \in BOOLEAN, Uninstall(k) PROVE KeptInv'
    BY <2>2 DEF Uninstall, Begin, KeptInv, KeptSettingsComeBack
  <2>3. CASE PackageVersionCheck
    BY <2>3 DEF PackageVersionCheck, KeptInv, KeptSettingsComeBack
  <2>4. CASE AddAppxPackage
    BY <2>0, <2>4 DEF AddAppxPackage, KeptInv, KeptSettingsComeBack
  <2>5. CASE PublisherConflict
    BY <2>0, <2>5 DEF PublisherConflict, KeptInv, KeptSettingsComeBack
  <2>6. CASE SaveNothing
    BY <2>6 DEF SaveNothing, SaveDone, KeptInv, KeptSettingsComeBack, FilesOf, FileIn
  <2>7. CASE SaveBegins
    BY <2>7, EmptyFolderType DEF SaveBegins, KeptInv, KeptSettingsComeBack
  <2>8. ASSUME NEW s \in Settings, SaveFile(s) PROVE KeptInv'
    BY <2>0, <2>8 DEF SaveFile, KeptInv, KeptSettingsComeBack, FileIn, FilesOf, Folders
  <2>9. CASE SaveEnds
    BY <2>9 DEF SaveEnds, SaveDone, KeptInv, KeptSettingsComeBack
  <2>10. ~SaveFails
    BY DEF SaveFails
  <2>11. CASE DiscardBackup
    BY <2>11 DEF DiscardBackup, KeptInv, KeptSettingsComeBack
  <2>12. CASE RemoveAppxPackage
    BY <2>12 DEF RemoveAppxPackage, KeptInv, KeptSettingsComeBack
  <2>13. CASE RetryAddAppxPackage
    BY <2>0, <2>13 DEF RetryAddAppxPackage, KeptInv, KeptSettingsComeBack
  <2>14. CASE RestoreNothing \/ RestoreBegins \/ RestoreCopied \/ RestoreConsumes \/ RestoreFails
    BY <2>0, <2>14 DEF RestoreNothing, RestoreBegins, RestoreCopied, RestoreConsumes, RestoreFails,
                 RestoreDone, KeptInv, KeptSettingsComeBack
  <2>15. ASSUME NEW s \in Settings, RestoreFile(s) PROVE KeptInv'
    BY <2>0, <2>15 DEF RestoreFile, KeptInv, KeptSettingsComeBack
  <2>16. ASSUME NEW s \in Settings, Configure(s) PROVE KeptInv'
    BY <2>16 DEF Configure, KeptInv, KeptSettingsComeBack
  <2>17. CASE Crash
    BY <2>17 DEF Crash, KeptInv, KeptSettingsComeBack
  <2>18. CASE ExternalUninstall
    BY <2>18 DEF ExternalUninstall, KeptInv, KeptSettingsComeBack
  <2>19. CASE UNCHANGED vars
    BY <2>19 DEF vars, KeptInv, KeptSettingsComeBack, FilesOf, FileIn
  <2> QED
    BY <2>1, <2>2, <2>3, <2>4, <2>5, <2>6, <2>7, <2>8, <2>9, <2>10, <2>11, <2>12, <2>13, <2>14,
       <2>15, <2>16, <2>17, <2>18, <2>19 DEF Next, Step
<1>3. KeptInv => KeptSettingsComeBack
  BY DEF KeptInv
<1> QED
  BY <1>1, <1>2, <1>3, TypeInvInductive, ProgressHolds, PTL DEF Spec

-----------------------------------------------------------------------------
(* How long a call takes. *)

\* The steps that may follow on each: one for every file that is left to be copied, and
\* one for the step itself.
Place ==
  [idle |-> 0, consume |-> 1, restoring |-> 2, restore |-> 3, retry |-> 4, remove |-> 5,
   discard |-> 6, saving |-> 6, save |-> 7, publisher |-> 8, add |-> 9, check |-> 10]

\* What of the settings has yet to be restored, and to be saved.
ToRestore ==
  IF pc \in {"idle", "consume"} THEN 0
  ELSE IF pc = "restoring" THEN Cardinality(todo) ELSE Cardinality(Settings)
ToSave ==
  IF pc \in {"save", "publisher", "add", "check"} THEN Cardinality(Settings)
  ELSE IF pc = "saving" THEN Cardinality(todo) ELSE 0

StepsLeft == Place[pc] + ToRestore + ToSave

\* A container has finitely many files, and one that is copied is one less.
LEMMA SettingsAreCounted ==
  ASSUME IsFiniteSet(Settings), NEW S \in SUBSET Settings
  PROVE  /\ Cardinality(Settings) \in Nat
         /\ Cardinality(S) \in 0..Cardinality(Settings)
         /\ \A s \in S : Cardinality(S \ {s}) = Cardinality(S) - 1
<1>1. IsFiniteSet(S) /\ Cardinality(S) <= Cardinality(Settings)
  BY FS_Subset
<1>2. Cardinality(S) \in Nat /\ Cardinality(Settings) \in Nat
  BY <1>1, FS_CardinalityType
<1>3. ASSUME NEW s \in S PROVE Cardinality(S \ {s}) = Cardinality(S) - 1
  BY <1>1, FS_RemoveElement
<1> QED
  BY <1>1, <1>2, <1>3

\* A call is over within ten steps and two for each setting, one to save it and one to
\* restore it: every step brings the end nearer, the migration is tried once, and nothing
\* the application or somebody else does puts it off (installWindows, Uninstall).
THEOREM CallIsBounded ==
  IsFiniteSet(Settings) =>
    (Spec => /\ [](StepsLeft \in 0..(10 + 2 * Cardinality(Settings)))
             /\ [][/\ Step => StepsLeft' < StepsLeft
                   /\ pc # "idle" => StepsLeft' <= StepsLeft]_vars)
<1> SUFFICES ASSUME IsFiniteSet(Settings)
             PROVE  Spec => /\ [](StepsLeft \in 0..(10 + 2 * Cardinality(Settings)))
                            /\ [][/\ Step => StepsLeft' < StepsLeft
                                  /\ pc # "idle" => StepsLeft' <= StepsLeft]_vars
  OBVIOUS
<1> DEFINE Bounded == StepsLeft \in 0..(10 + 2 * Cardinality(Settings))
           Nearer == StepsLeft' < StepsLeft /\ StepsLeft' <= StepsLeft
           Onward == /\ Step => StepsLeft' < StepsLeft
                     /\ pc # "idle" => StepsLeft' <= StepsLeft
<1>1. TypeOK => Bounded
  <2> SUFFICES ASSUME TypeOK PROVE Bounded
    OBVIOUS
  <2>1. Cardinality(todo) \in 0..Cardinality(Settings) /\ Cardinality(Settings) \in Nat
    BY SettingsAreCounted DEF TypeOK
  <2> QED
    BY <2>1 DEF TypeOK, Steps, SaveSteps, RestoreSteps, StepsLeft, ToRestore, ToSave, Place
<1>2. TypeOK /\ Step => Nearer
  <2> SUFFICES ASSUME TypeOK, Step PROVE Nearer
    OBVIOUS
  <2>0. /\ Cardinality(Settings) \in Nat /\ Cardinality(todo) \in 0..Cardinality(Settings)
        /\ \A s \in todo : Cardinality(todo \ {s}) = Cardinality(todo) - 1
        /\ \A folder : Cardinality(FilesOf(folder)) \in 0..Cardinality(Settings)
    BY SettingsAreCounted DEF TypeOK, FilesOf
  <2> USE <2>0 DEF StepsLeft, ToRestore, ToSave, Place, Return, Goto, SaveDone, RestoreDone,
                   RestoreSteps
  <2>1. CASE PackageVersionCheck
    BY <2>1 DEF PackageVersionCheck
  <2>2. CASE AddAppxPackage
    BY <2>2 DEF AddAppxPackage
  <2>3. CASE PublisherConflict
    BY <2>3 DEF PublisherConflict
  <2>4. CASE SaveNothing
    BY <2>4 DEF SaveNothing
  <2>5. CASE SaveBegins
    BY <2>5 DEF SaveBegins
  <2>6. CASE SaveEnds
    BY <2>6 DEF SaveEnds
  <2>7. CASE SaveFails
    BY <2>7 DEF SaveFails
  <2>8. ASSUME NEW s \in Settings, SaveFile(s) PROVE Nearer
    BY <2>8 DEF SaveFile
  <2>9. CASE DiscardBackup
    BY <2>9 DEF DiscardBackup
  <2>10. CASE RemoveAppxPackage
    BY <2>10 DEF RemoveAppxPackage
  <2>11. CASE RetryAddAppxPackage
    BY <2>11 DEF RetryAddAppxPackage
  <2>12. CASE RestoreNothing
    BY <2>12 DEF RestoreNothing
  <2>13. CASE RestoreBegins
    BY <2>13 DEF RestoreBegins
  <2>14. CASE RestoreCopied
    BY <2>14 DEF RestoreCopied
  <2>15. CASE RestoreConsumes
    BY <2>15 DEF RestoreConsumes
  <2>16. CASE RestoreFails
    BY <2>16 DEF RestoreFails
  <2>17. ASSUME NEW s \in Settings, RestoreFile(s) PROVE Nearer
    BY <2>17 DEF RestoreFile
  <2> QED
    BY <2>1, <2>2, <2>3, <2>4, <2>5, <2>6, <2>7, <2>8, <2>9,
       <2>10, <2>11, <2>12, <2>13, <2>14, <2>15, <2>16, <2>17 DEF Step
<1>3. ASSUME TypeOK, Next, ~Step PROVE pc # "idle" => StepsLeft' <= StepsLeft
  <2>0. StepsLeft \in Nat
    BY <1>1, <1>3, SettingsAreCounted DEF TypeOK
  <2>1. ASSUME pc' = pc, todo' = todo PROVE StepsLeft' <= StepsLeft
    BY <2>0, <2>1 DEF StepsLeft, ToRestore, ToSave
  <2>2. ASSUME pc' = "idle" PROVE StepsLeft' <= StepsLeft
    BY <2>0, <2>2 DEF StepsLeft, ToRestore, ToSave, Place
  <2>3. \A a \in Packages : Install(a) => pc = "idle"
    BY DEF Install, Begin
  <2>4. \A k \in BOOLEAN : Uninstall(k) => pc = "idle"
    BY DEF Uninstall, Begin
  <2>5. ASSUME NEW s \in Settings, Configure(s) PROVE StepsLeft' <= StepsLeft
    BY <2>1, <2>5 DEF Configure, locals
  <2>6. ASSUME Crash PROVE StepsLeft' <= StepsLeft
    BY <2>2, <2>6 DEF Crash
  <2>7. ASSUME ExternalUninstall PROVE StepsLeft' <= StepsLeft
    BY <2>1, <2>7 DEF ExternalUninstall, locals
  <2> QED
    BY <1>3, <2>3, <2>4, <2>5, <2>6, <2>7, Zenon DEF Next
<1>4. TypeOK /\ [Next]_vars => [Onward]_vars
  BY <1>2, <1>3
<1> QED
  BY <1>1, <1>4, TypeCorrect, PTL DEF Spec

=============================================================================
