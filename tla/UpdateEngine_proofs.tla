------------------------- MODULE UpdateEngine_proofs -------------------------
(***************************************************************************)
(* Proofs about UpdateEngine, for any number of builds and of attempts.    *)
(***************************************************************************)
EXTENDS UpdateEngine, PackageVersions_proofs, WellFoundedInduction, TLAPS

\* What the payload's integrity stands on: the hash comes from the release, and
\* a temporary file that is about to be renamed has that hash.
Verified ==
  /\ tags \in SUBSET Builds
  /\ rolling \in Builds \cup {NoFile}
  /\ made \in Nat /\ made <= MaxBuilds
  /\ pc \in [Runs -> Steps \cup {"idle"}]
  /\ run \in [Runs -> Locals]
  /\ DOMAIN temp = Runs
  /\ payload \in Builds \cup {NoFile}
  /\ installed \in Builds \cup {NoFile}
  /\ \A r \in Runs :
       /\ pc[r] \in {"download", "verify"} => run[r].expected \in Builds
       /\ pc[r] \in {"remove", "rename"} => temp[r] \in Builds

\* A release that can be fetched is one, whatever is asked for.
LEMMA FetchableIsListed ==
  ASSUME NEW v, NEW ch, NEW rel \in Fetchable(v, ch)
  PROVE  rel \in Listed
BY Zenon DEF Fetchable, NewestOf, Offered

LEMMA ListedIsRelease ==
  ASSUME tags \in SUBSET Builds, rolling \in Builds \cup {NoFile}, NEW rel \in Listed
  PROVE  rel \in Releases
BY DEF Listed, Releases

\* What a release delivers is a build, or nothing.
LEMMA ServedIsBuild ==
  ASSUME NEW rel \in Releases \cup {NoRelease}, rolling \in Builds \cup {NoFile}
  PROVE  Served(rel) \in Builds \cup {NoFile}
BY MaxBuildsAssumption DEF Served, Releases, NoRelease, MainLatest, Builds

LEMMA BlankIsLocals == Blank \in Locals
BY MaxBuildsAssumption, AttemptsAssumption
DEF Blank, Locals, Versions, Channels, NoRelease, Newest

\* A file that is removed, as far as it goes.
LEMMA RemovePayloadLeaves ==
  ASSUME NEW r, NEW step, RemovePayload(r, step)
  PROVE  /\ payload' \in {payload, NoFile}
         /\ pc' = [pc EXCEPT ![r] = step]
         /\ UNCHANGED <<made, tags, rolling, installed, record, run, temp>>
<1>1. payload' = IF locked THEN payload ELSE NoFile
  BY Zenon DEF RemovePayload
<1>2. payload' \in {payload, NoFile}
  BY <1>1, Zenon
<1> QED
  BY <1>2 DEF RemovePayload, Continue, Goto, site

\* What an install comes to, as InstallOutcomes promises, ...
LEMMA InstallLeaves ==
  ASSUME NEW r, Install(r)
  PROVE  /\ pc[r] = "install"
         /\ UNCHANGED <<made, tags, rolling, payload, record, temp>>
         /\ \/ payload # NoFile /\ installed' = payload /\ Continue(r, "clean") /\ UNCHANGED run
            \/ installed' \in {installed, NoFile} /\ Fail(r)
<1>1. PICK o \in Outcomes(installed, payload, NoFile) :
        /\ installed' = o.left
        /\ \/ /\ o.answer = "ok" /\ payload # NoFile
              /\ Continue(r, "clean")
              /\ UNCHANGED run
           \/ o.answer = "error" /\ Fail(r)
  BY Zenon DEF Install
<1>2. \/ o.answer = "ok" /\ o.left = payload
      \/ o.answer = "error" /\ o.left \in {installed, NoFile}
  BY DEF Outcomes
<1> QED
  BY <1>1, <1>2 DEF Install, site

\* ... and what one that breaks off does.
LEMMA CloseLeaves ==
  ASSUME NEW r, Close(r) PROVE installed' \in {installed, NoFile, payload}
BY DEF Close, Halfway

\* Verified is inductive.
LEMMA VerifiedInductive == Spec => []Verified
<1>1. Init => Verified
  BY BlankIsLocals, MaxBuildsAssumption DEF Init, Verified, Steps
<1>2. Verified /\ [Next]_vars => Verified'
  <2> SUFFICES ASSUME Verified, [Next]_vars PROVE Verified'
    OBVIOUS
  <2> USE ValuesAssumption, BlankIsLocals
      DEF Verified, Goto, Continue, Return, Fail, Steps, site, machine
  <2>1. ASSUME NEW r \in Runs, NEW v \in Versions, NEW ch \in Channels, Show(r, v, ch)
        PROVE Verified'
    <3>1. PICK rel \in Fetchable(v, ch) :
             run' = [run EXCEPT ![r] = [Blank EXCEPT !.version = v, !.channel = ch, !.seen = rel]]
      BY <2>1, Zenon DEF Show
    <3>2. rel \in Releases
      BY <3>1, FetchableIsListed, ListedIsRelease
    <3>3. run' \in [Runs -> Locals]
      BY <3>1, <3>2 DEF Locals, Blank
    <3> QED
      BY <2>1, <3>3 DEF Show
  <2>2. ASSUME NEW r \in Runs, Confirm(r) PROVE Verified'
    BY <2>2 DEF Confirm
  <2>3. ASSUME NEW r \in Runs, Fetch(r) PROVE Verified'
    <3>1. run' \in [Runs -> Locals]
      <4>1. \/ \E rel \in Fetchable(run[r].version, run[r].channel) :
                 run' = [run EXCEPT ![r].info = rel]
            \/ run' = [run EXCEPT ![r] = Blank]
        BY <2>3, Zenon DEF Fetch
      <4>2. ASSUME NEW rel \in Fetchable(run[r].version, run[r].channel),
                   run' = [run EXCEPT ![r].info = rel]
            PROVE run' \in [Runs -> Locals]
        <5>1. rel \in Releases
          BY <4>2, FetchableIsListed, ListedIsRelease
        <5> QED
          BY <4>2, <5>1 DEF Locals
      <4> QED
        BY <4>1, <4>2
    <3>2. \A q \in Runs \ {r} : run'[q] = run[q]
      BY <2>3, Zenon DEF Fetch
    <3>3. pc' = [pc EXCEPT ![r] = "wait"] \/ pc' = [pc EXCEPT ![r] = "idle"]
      BY <2>3, Zenon DEF Fetch
    <3>4. UNCHANGED <<site, machine, temp>>
      BY <2>3, Zenon DEF Fetch
    <3> QED
      BY <3>1, <3>2, <3>3, <3>4
  <2>4. ASSUME NEW r \in Runs, WaitForPIDExit(r) PROVE Verified'
    BY <2>4 DEF WaitForPIDExit
  <2>5. ASSUME NEW r \in Runs, FetchExpectedHash(r) PROVE Verified'
    <3>1. Served(run[r].info) \in Builds \cup {NoFile}
      BY ServedIsBuild DEF Locals
    <3>2. CASE /\ Served(run[r].info) # NoFile
               /\ run' = [run EXCEPT ![r].expected = Served(run[r].info)]
               /\ Continue(r, "download")
      <4>1. run' \in [Runs -> Locals] /\ run'[r].expected \in Builds
        BY <3>1, <3>2 DEF Locals
      <4>2. UNCHANGED <<site, machine, temp>>
        BY <2>5, Zenon DEF FetchExpectedHash
      <4> QED
        BY <3>2, <4>1, <4>2
    <3>3. CASE Fail(r)
      BY <2>5, <3>3 DEF FetchExpectedHash
    <3> QED
      BY <2>5, <3>2, <3>3 DEF FetchExpectedHash
  <2>6. ASSUME NEW r \in Runs, Download(r) PROVE Verified'
    BY <2>6 DEF Download, RemoveTemp
  <2>7. ASSUME NEW r \in Runs, VerifyFile(r) PROVE Verified'
    BY <2>7 DEF VerifyFile, RemoveTemp
  <2>8. ASSUME NEW r \in Runs, MakeWay(r) PROVE Verified'
    BY <2>8, RemovePayloadLeaves DEF MakeWay
  <2>9. ASSUME NEW r \in Runs, RenameFile(r) PROVE Verified'
    <3>1. CASE /\ payload' = temp[r]
               /\ temp' = [temp EXCEPT ![r] = NoFile]
               /\ Continue(r, "install")
               /\ UNCHANGED run
      BY <2>9, <3>1 DEF RenameFile
    <3>2. CASE /\ run[r].attempt + 1 < Attempts
               /\ run' = [run EXCEPT ![r].attempt = @ + 1]
               /\ Continue(r, "remove")
               /\ UNCHANGED <<payload, temp>>
      <4>1. run' \in [Runs -> Locals]
        BY <3>2, AttemptsAssumption DEF Locals
      <4>2. UNCHANGED <<site, installed>>
        BY <2>9, Zenon DEF RenameFile
      <4> QED
        BY <2>9, <3>2, <4>1, <4>2 DEF RenameFile
    <3>3. CASE Fail(r) /\ UNCHANGED payload
      BY <2>9, <3>3 DEF RenameFile, RemoveTemp
    <3> QED
      BY <2>9, <3>1, <3>2, <3>3 DEF RenameFile
  <2>10. ASSUME NEW r \in Runs, Install(r) PROVE Verified'
    BY <2>10, InstallLeaves DEF Install
  <2>11. ASSUME NEW r \in Runs, Clean(r) PROVE Verified'
    BY <2>11, RemovePayloadLeaves DEF Clean
  <2>12. ASSUME NEW r \in Runs, InstalledVersion(r) PROVE Verified'
    BY <2>12 DEF InstalledVersion, Locals
  <2>13. ASSUME NEW r \in Runs, SaveInstallRecord(r) PROVE Verified'
    BY <2>13 DEF SaveInstallRecord
  <2>14. ASSUME NEW r \in Runs, LaunchApp(r) PROVE Verified'
    BY <2>14 DEF LaunchApp
  <2>15. ASSUME NEW r \in Runs, Close(r) PROVE Verified'
    BY <2>15, CloseLeaves DEF Close
  <2>16. CASE PublishTag
    BY <2>16, MaxBuildsAssumption DEF PublishTag, Builds
  <2>17. CASE DeleteRolling
    BY <2>17 DEF DeleteRolling
  <2>18. CASE CreateRolling
    BY <2>18, MaxBuildsAssumption DEF CreateRolling, Builds
  <2>19. CASE Lock
    BY <2>19 DEF Lock
  <2>20. ASSUME NEW b \in Builds \cup {NoFile}, Sideload(b) PROVE Verified'
    BY <2>20 DEF Sideload
  <2>21. CASE UNCHANGED vars
    BY <2>21 DEF vars
  <2> QED
    BY <2>1, <2>2, <2>3, <2>4, <2>5, <2>6, <2>7, <2>8, <2>9, <2>10, <2>11, <2>12, <2>13,
       <2>14, <2>15, <2>16, <2>17, <2>18, <2>19, <2>20, <2>21 DEF Next, Step
<1> QED
  BY <1>1, <1>2, PTL DEF Spec

\* The types of what Verified leaves open.
FileTypes ==
  /\ locked \in BOOLEAN
  /\ record \in [package : Builds \cup {NoFile, Damaged}, published : Builds \cup {NoFile}]
  /\ temp \in [Runs -> Builds \cup {NoFile, Damaged, Undeletable}]
  /\ result \in [Runs -> {"none", "ok", "error"}]

\* Theorem for TypeOK: every variable keeps its type, for any number of managers
\* and under every mishap.
THEOREM TypeCorrect == Spec => []TypeOK
<1>1. Init => FileTypes
  <2> SUFFICES ASSUME Init PROVE FileTypes
    OBVIOUS
  <2>1. locked = FALSE
    BY DEF Init
  <2>2. record = NoRecord /\ temp = [r \in Runs |-> NoFile] /\ result = [r \in Runs |-> "none"]
    BY DEF Init
  <2> QED
    BY <2>1, <2>2 DEF FileTypes, NoRecord
<1>2. Verified /\ FileTypes /\ [Next]_vars => FileTypes'
  <2> SUFFICES ASSUME Verified, FileTypes, [Next]_vars PROVE FileTypes'
    OBVIOUS
  <2>0. run \in [Runs -> Locals] /\ pc \in [Runs -> Steps \cup {"idle"}]
        /\ rolling \in Builds \cup {NoFile}
    BY DEF Verified
  <2> USE <2>0 DEF FileTypes, Goto, Continue, Return, Fail, Steps, machine
  <2>1. ASSUME NEW r \in Runs, NEW v \in Versions, NEW ch \in Channels, Show(r, v, ch)
        PROVE FileTypes'
    BY <2>1 DEF Show
  <2>2. ASSUME NEW r \in Runs, Confirm(r) PROVE FileTypes'
    BY <2>2 DEF Confirm
  <2>3. ASSUME NEW r \in Runs, Fetch(r) PROVE FileTypes'
    BY <2>3 DEF Fetch
  <2>4. ASSUME NEW r \in Runs, WaitForPIDExit(r) PROVE FileTypes'
    BY <2>4 DEF WaitForPIDExit
  <2>5. ASSUME NEW r \in Runs, FetchExpectedHash(r) PROVE FileTypes'
    BY <2>5 DEF FetchExpectedHash
  <2>6. ASSUME NEW r \in Runs, Download(r) PROVE FileTypes'
    <3>1. Served(run[r].info) \in Builds \cup {NoFile}
      BY ServedIsBuild DEF Locals
    <3> QED
      BY <2>6, <3>1 DEF Download, RemoveTemp
  <2>7. ASSUME NEW r \in Runs, VerifyFile(r) PROVE FileTypes'
    BY <2>7 DEF VerifyFile, RemoveTemp
  <2>8. ASSUME NEW r \in Runs, MakeWay(r) PROVE FileTypes'
    BY <2>8 DEF MakeWay, RemovePayload
  <2>9. ASSUME NEW r \in Runs, RenameFile(r) PROVE FileTypes'
    BY <2>9 DEF RenameFile, RemoveTemp
  <2>10. ASSUME NEW r \in Runs, Install(r) PROVE FileTypes'
    BY <2>10 DEF Install
  <2>11. ASSUME NEW r \in Runs, Clean(r) PROVE FileTypes'
    BY <2>11 DEF Clean, RemovePayload
  <2>12. ASSUME NEW r \in Runs, InstalledVersion(r) PROVE FileTypes'
    BY <2>12 DEF InstalledVersion
  <2>13. ASSUME NEW r \in Runs, SaveInstallRecord(r) PROVE FileTypes'
    BY <2>13 DEF SaveInstallRecord, Locals, Releases, NoRelease, NoRecord
  <2>14. ASSUME NEW r \in Runs, LaunchApp(r) PROVE FileTypes'
    BY <2>14 DEF LaunchApp
  <2>15. ASSUME NEW r \in Runs, Close(r) PROVE FileTypes'
    BY <2>15 DEF Close, NoRecord
  <2>16. CASE PublishTag \/ DeleteRolling \/ CreateRolling \/ Lock
    BY <2>16 DEF PublishTag, DeleteRolling, CreateRolling, Lock
  <2>17. ASSUME NEW b \in Builds \cup {NoFile}, Sideload(b) PROVE FileTypes'
    BY <2>17 DEF Sideload
  <2>18. CASE UNCHANGED vars
    BY <2>18 DEF vars
  <2> QED
    BY <2>1, <2>2, <2>3, <2>4, <2>5, <2>6, <2>7, <2>8, <2>9, <2>10, <2>11, <2>12, <2>13,
       <2>14, <2>15, <2>16, <2>17, <2>18 DEF Next, Step
<1>3. Verified /\ FileTypes => TypeOK
  BY MaxBuildsAssumption DEF Verified, FileTypes, TypeOK
<1> QED
  BY <1>1, <1>2, <1>3, VerifiedInductive, PTL DEF Spec

-----------------------------------------------------------------------------
\* Theorem for OnlyVerified: no download that does not have its published hash
\* is ever installed, for any number of managers sharing the path and under
\* every mishap.
THEOREM OnlyVerifiedIsInstalled == Spec => []OnlyVerified
<1>1. Verified => OnlyVerified
  BY ValuesAssumption DEF Verified, OnlyVerified
<1> QED
  BY <1>1, VerifiedInductive, PTL

-----------------------------------------------------------------------------
\* A listed release is a version tag's own build, or main-latest's.
LEMMA ListedServes ==
  ASSUME tags \in SUBSET Builds, rolling \in Builds \cup {NoFile}, NEW rel \in Listed
  PROVE  /\ rel \in Releases
         /\ rel.tag \in {MainLatest, rel.build}
         /\ Served(rel) = rel.build
BY MaxBuildsAssumption DEF Listed, Served, Releases, MainLatest, Builds

LEMMA FetchableIsAsked ==
  ASSUME NEW v, v # Newest, NEW ch, NEW rel \in Fetchable(v, ch)
  PROVE  rel.tag = v
BY Zenon DEF Fetchable, NewestOf, Offered

\* With one manager at work, FetchedBuildInv is inductive.
LEMMA FetchedBuildInductive ==
  ASSUME NEW only, Runs = {only}
  PROVE  Spec => []FetchedBuildInv
<1>1. Init => FetchedBuildInv
  BY DEF Init, FetchedBuildInv, Steps, NoRecord
<1>2. Verified /\ FetchedBuildInv /\ [Next]_vars => FetchedBuildInv'
  <2> SUFFICES ASSUME Verified, FetchedBuildInv, [Next]_vars PROVE FetchedBuildInv'
    OBVIOUS
  <2> USE ValuesAssumption, MaxBuildsAssumption
      DEF FetchedBuildInv, Steady, HandedOn, Served, Steps, Goto, Continue, Return, Fail,
          site, machine
  <2>0. /\ run \in [Runs -> Locals] /\ pc \in [Runs -> Steps \cup {"idle"}] /\ DOMAIN temp = Runs
        /\ tags \in SUBSET Builds /\ rolling \in Builds \cup {NoFile}
    BY DEF Verified
  <2>1. ASSUME NEW v \in Versions, NEW ch \in Channels, Show(only, v, ch) PROVE FetchedBuildInv'
    BY <2>0, <2>1 DEF Show
  <2>2. CASE Confirm(only)
    BY <2>0, <2>2 DEF Confirm
  <2>3. CASE Fetch(only)
    <3>1. CASE Fail(only)
      BY <2>0, <2>3, <3>1 DEF Fetch
    <3>2. CASE \E rel \in Fetchable(run[only].version, run[only].channel) :
                 /\ run' = [run EXCEPT ![only].info = rel]
                 /\ Continue(only, "wait")
      <4>1. PICK rel \in Fetchable(run[only].version, run[only].channel) :
                 /\ run' = [run EXCEPT ![only].info = rel]
                 /\ Continue(only, "wait")
        BY <3>2
      <4>2. /\ rel.tag \in {MainLatest, rel.build}
            /\ Served(rel) = rel.build
        BY <2>0, <4>1, FetchableIsListed, ListedServes
      <4>3. run[only].version # Newest => rel.tag = run[only].version
        BY <4>1, FetchableIsAsked
      <4>4. run'[only].info = rel /\ run'[only].version = run[only].version
        BY <2>0, <4>1 DEF Locals
      <4>5. UNCHANGED <<tags, rolling, record>>
        BY <2>3, Zenon DEF Fetch
      <4> QED
        BY <2>0, <4>1, <4>2, <4>3, <4>4, <4>5
    <3> QED
      BY <2>3, <3>1, <3>2 DEF Fetch
  <2>4. CASE WaitForPIDExit(only)
    BY <2>0, <2>4 DEF WaitForPIDExit
  <2>5. CASE FetchExpectedHash(only)
    BY <2>0, <2>5 DEF FetchExpectedHash, Locals
  <2>6. CASE Download(only)
    BY <2>0, <2>6 DEF Download
  <2>7. CASE VerifyFile(only)
    BY <2>0, <2>7 DEF VerifyFile
  <2>8. CASE MakeWay(only)
    BY <2>0, <2>8, RemovePayloadLeaves DEF MakeWay
  <2>9. CASE RenameFile(only)
    BY <2>0, <2>9 DEF RenameFile, Locals
  <2>10. CASE Install(only)
    BY <2>0, <2>10, InstallLeaves DEF Install
  <2>11. CASE Clean(only)
    BY <2>0, <2>11, RemovePayloadLeaves DEF Clean
  <2>12. CASE InstalledVersion(only)
    BY <2>0, <2>12 DEF InstalledVersion, Locals
  <2>13. CASE SaveInstallRecord(only)
    BY <2>0, <2>13 DEF SaveInstallRecord, NoRecord
  <2>14. CASE LaunchApp(only)
    BY <2>0, <2>14 DEF LaunchApp
  <2>15. CASE Close(only)
    BY <2>0, <2>15 DEF Close, NoRecord
  <2>16. CASE PublishTag
    BY <2>0, <2>16 DEF PublishTag
  <2>17. CASE DeleteRolling
    BY <2>0, <2>17 DEF DeleteRolling, Undisturbed
  <2>18. CASE CreateRolling
    BY <2>0, <2>18 DEF CreateRolling, Undisturbed
  <2>19. CASE Lock
    BY <2>0, <2>19 DEF Lock
  <2>20. ASSUME NEW b \in Builds \cup {NoFile}, Sideload(b) PROVE FetchedBuildInv'
    BY <2>0, <2>20 DEF Sideload
  <2>21. CASE UNCHANGED vars
    BY <2>0, <2>21 DEF vars
  <2> QED
    BY <2>1, <2>2, <2>3, <2>4, <2>5, <2>6, <2>7, <2>8, <2>9, <2>10, <2>11, <2>12, <2>13,
       <2>14, <2>15, <2>16, <2>17, <2>18, <2>19, <2>20, <2>21 DEF Next, Step
<1> QED
  BY <1>1, <1>2, VerifiedInductive, PTL DEF Spec

\* Theorem for InstallsWhatWasAsked: one manager at a time installs the version
\* it was asked for, under every mishap.
THEOREM AskedIsInstalled ==
  ASSUME NEW only, Runs = {only}
  PROVE  Spec => []InstallsWhatWasAsked
<1>1. FetchedBuildInv => InstallsWhatWasAsked
  BY MaxBuildsAssumption
  DEF FetchedBuildInv, InstallsWhatWasAsked, Steady, HandedOn, Steps, Builds, Newest, MainLatest
<1> QED
  BY <1>1, FetchedBuildInductive, PTL

\* Theorem for RecordTellsTheTruth: one manager at a time, with main-latest left
\* alone while it works, never leaves a record that dates the wrong build,
\* whatever fails, whenever it dies and whoever installs in between.
THEOREM RecordIsTrue ==
  ASSUME NEW only, Runs = {only}, "republish" \notin Mishaps
  PROVE  Spec => []RecordTellsTheTruth
<1>1. FetchedBuildInv => RecordTellsTheTruth
  BY DEF FetchedBuildInv, RecordTellsTheTruth, DescribesCurrentInstall
<1> QED
  BY <1>1, FetchedBuildInductive, PTL

\* Between a tag and the package of a tag the day decides; a tag with a build
\* number reads as day zero.
LEMMA TagAgainstPackage ==
  ASSUME tags \in SUBSET Builds, NEW b \in Builds, NEW i \in tags
  PROVE  ComparePackageVersions(TagVersion(b), PackageVersion(i)) = 1 <=> b \notin Suffixed /\ b > i
<1> DEFINE ft == VersionFields(TagVersion(b))
           fp == VersionFields(PackageVersion(i))
<1>1. b \in 1..MaxInt /\ i \in 1..MaxInt /\ NotANumber \notin 0..MaxInt
  BY MaxBuildsAssumption, MaxIntAssumption, DatesAssumption, NotANumberAssumption DEF Builds
<1>2. /\ ft[1] = 1 /\ ft[2] = 1 /\ ft[3] = (IF b \in Suffixed THEN 0 ELSE b) /\ ft[4] = 0
      /\ fp[1] = 1 /\ fp[2] = 1 /\ fp[3] = i
  BY <1>1, MaxIntAssumption DEF VersionFields, TagVersion, PackageVersion
<1>3. ft \in [1..4 -> Nat] /\ fp \in [1..4 -> Nat]
  BY FieldsType
<1> HIDE DEF ft, fp
<1>4. Below(fp, ft) <=> fp[3] < ft[3]
  BY <1>2, <1>3 DEF Below
<1>5. Below(fp, ft) => ~Below(ft, fp)
  BY <1>3, BelowIsAsymmetric
<1>6. ComparePackageVersions(TagVersion(b), PackageVersion(i)) = 1 <=> Below(fp, ft)
  BY <1>5 DEF ComparePackageVersions, ft, fp
<1> QED
  BY <1>1, <1>2, <1>4, <1>6

\* The banner's tags are those of builds: main-latest is not compared.
LEMMA StableTagsAreBuilds ==
  ASSUME Verified, NEW rel \in ListAllReleases("stable")
  PROVE  rel.tag = rel.build /\ rel.build \in Builds
BY DEF ListAllReleases, Verified, Listed

\* Theorem for BannerTellsTheTruth: what the banner says from the record, or from
\* the tag where there is none, it says of the installed build.
THEOREM BannerIsTrue ==
  ASSUME NEW only, Runs = {only}, "republish" \notin Mishaps
  PROVE  Spec => []BannerTellsTheTruth
<1>1. Verified /\ RecordTellsTheTruth => BannerTellsTheTruth
  <2> SUFFICES ASSUME Verified, RecordTellsTheTruth, NEW ch \in Channels
               PROVE  /\ AnnouncesNewer(ch) /\ (DescribesCurrentInstall \/ installed \in tags)
                           => \E rel \in ListAllReleases(ch) : rel.build > installed
                      /\ SaysUpToDate(ch) => \A rel \in ListAllReleases(ch) : rel.build <= installed
    BY DEF BannerTellsTheTruth
  <2>1. ASSUME AnnouncesNewer(ch), DescribesCurrentInstall \/ installed \in tags
        PROVE  \E rel \in ListAllReleases(ch) : rel.build > installed
    <3>1. PICK rel \in NewestOf(ListAllReleases(ch)) :
            IF DescribesCurrentInstall
              THEN rel.build > record.published
              ELSE ch = "stable" /\ ComparePackageVersions(TagVersion(rel.tag), PackageVersion(installed)) = 1
      BY <2>1, Zenon DEF AnnouncesNewer
    <3>2. rel \in ListAllReleases(ch)
      BY <3>1, Zenon DEF NewestOf
    <3>3. CASE DescribesCurrentInstall
      BY <3>1, <3>2, <3>3 DEF RecordTellsTheTruth
    <3>4. CASE ~DescribesCurrentInstall
      <4>1. rel.tag = rel.build /\ rel.build \in Builds
        BY <3>1, <3>2, <3>4, StableTagsAreBuilds
      <4> QED
        BY <2>1, <3>1, <3>2, <3>4, <4>1, TagAgainstPackage DEF Verified
    <3> QED
      BY <3>3, <3>4
  <2>2. ASSUME SaysUpToDate(ch), NEW other \in ListAllReleases(ch)
        PROVE  other.build <= installed
    <3>1. PICK rel \in NewestOf(ListAllReleases(ch)) :
            DescribesCurrentInstall /\ rel.build <= record.published
      BY <2>2, Zenon DEF SaysUpToDate
    <3>2. rel \in ListAllReleases(ch) /\ other.build <= rel.build
      BY <2>2, <3>1, Zenon DEF NewestOf
    <3>3. rel \in Releases /\ other \in Releases
      BY <2>2, <3>2, ListedIsRelease DEF ListAllReleases, Verified
    <3>4. record.published = installed /\ installed \in Builds
      BY <3>1 DEF RecordTellsTheTruth, DescribesCurrentInstall, Verified
    <3> QED
      BY <3>1, <3>2, <3>3, <3>4, MaxBuildsAssumption DEF Releases, Builds
  <2> QED
    BY <2>1, <2>2
<1> QED
  BY <1>1, VerifiedInductive, RecordIsTrue, PTL

-----------------------------------------------------------------------------
\* Among releases that are listed one is the newest.
LEMMA NewestExists ==
  ASSUME Verified, NEW ch, NEW rel \in ListAllReleases(ch)
  PROVE  \E newest \in NewestOf(ListAllReleases(ch)) : newest.build >= rel.build
<1> DEFINE Age(other) == MaxBuilds - other.build
           Ages == {Age(other) : other \in ListAllReleases(ch)}
<1>1. \A other \in ListAllReleases(ch) : other.build \in Builds
  BY ListedIsRelease DEF ListAllReleases, Verified, Releases
<1>2. Ages \subseteq Nat /\ Ages # {}
  BY <1>1, MaxBuildsAssumption DEF Builds
<1>3. PICK age \in Ages : \A younger \in Ages : ~(<<younger, age>> \in OpToRel(<, Nat))
  <2> HIDE DEF Ages
  <2> QED
    BY <1>2, NatLessThanWellFounded, WFMin
<1>4. PICK newest \in ListAllReleases(ch) : age = Age(newest)
  BY <1>3
<1>5. ASSUME NEW other \in ListAllReleases(ch)
      PROVE  other.build <= newest.build
  <2>1. Age(other) \in Ages /\ Age(other) \in Nat /\ age \in Nat
    BY <1>2
  <2>2. ~(Age(other) < age)
    BY <1>3, <2>1 DEF OpToRel
  <2> QED
    BY <1>1, <1>4, <2>1, <2>2, MaxBuildsAssumption DEF Builds
<1> QED
  BY <1>1, <1>4, <1>5, MaxBuildsAssumption DEF NewestOf, Builds

\* Theorem for BannerMissesNothing: from the record, or from the tag where none
\* describes the installed build, every newer release is announced, but for a
\* tag with a build number.
THEOREM BannerIsComplete ==
  ASSUME NEW only, Runs = {only}, "republish" \notin Mishaps
  PROVE  Spec => []BannerMissesNothing
<1>1. Verified /\ RecordTellsTheTruth => BannerMissesNothing
  <2> SUFFICES ASSUME Verified, RecordTellsTheTruth,
                      NEW ch \in Channels, NEW rel \in ListAllReleases(ch),
                      DescribesCurrentInstall \/ (ch = "stable" /\ installed \in tags),
                      rel.build > installed,
                      \A newest \in NewestOf(ListAllReleases(ch)) : newest.tag \notin Suffixed
               PROVE  AnnouncesNewer(ch)
    BY DEF BannerMissesNothing
  <2>1. PICK newest \in NewestOf(ListAllReleases(ch)) : newest.build >= rel.build
    BY NewestExists
  <2>2. newest \in ListAllReleases(ch)
    BY <2>1, Zenon DEF NewestOf
  <2>3. newest.build \in Builds /\ rel.build \in Builds
    BY <2>2, ListedIsRelease DEF ListAllReleases, Verified, Releases
  <2>4. installed \in Builds
    BY ValuesAssumption DEF Verified, DescribesCurrentInstall, RecordTellsTheTruth
  <2>5. newest.build > installed
    BY <2>1, <2>3, <2>4, MaxBuildsAssumption DEF Builds
  <2>6. CASE DescribesCurrentInstall
    BY <2>1, <2>4, <2>5, <2>6, ValuesAssumption DEF AnnouncesNewer, RecordTellsTheTruth
  <2>7. CASE ~DescribesCurrentInstall
    <3>1. ch = "stable" /\ installed \in tags
      BY <2>7
    <3>2. newest.tag = newest.build /\ newest.build \in Builds
      BY <2>2, <3>1, StableTagsAreBuilds
    <3>3. newest.tag \notin Suffixed
      BY <2>1
    <3>4. ComparePackageVersions(TagVersion(newest.tag), PackageVersion(installed)) = 1
      BY <2>5, <3>1, <3>2, <3>3, TagAgainstPackage DEF Verified
    <3> QED
      BY <2>1, <2>4, <2>7, <3>1, <3>4, ValuesAssumption DEF AnnouncesNewer
  <2> QED
    BY <2>6, <2>7
<1> QED
  BY <1>1, VerifiedInductive, RecordIsTrue, PTL

-----------------------------------------------------------------------------
\* Where a temporary file may lie while a manager works, and what it reports
\* before it is done.
TidyInv ==
  /\ DOMAIN result = Runs
  /\ \A r \in Runs :
       /\ pc[r] \notin {"idle", "verify", "remove", "rename"} => temp[r] = NoFile
       /\ pc[r] = "idle" /\ result[r] = "error" => temp[r] \in {NoFile, Undeletable}
       /\ pc[r] # "idle" => result[r] = "none"

\* Theorem for ErrorLeavesNoTempFile: an update that reports an error leaves no
\* temporary file but one whose removal was tried and refused, for any number of
\* managers and under every mishap.
THEOREM ErrorTakesFileAlong == Spec => []ErrorLeavesNoTempFile
<1>1. Init => TidyInv
  BY DEF Init, TidyInv
<1>2. Verified /\ TidyInv /\ [Next]_vars => TidyInv'
  <2> SUFFICES ASSUME Verified, TidyInv, [Next]_vars PROVE TidyInv'
    OBVIOUS
  <2>0. pc \in [Runs -> Steps \cup {"idle"}] /\ DOMAIN temp = Runs
    BY DEF Verified
  <2> USE <2>0 DEF TidyInv, Goto, Continue, Return, Fail, Steps
  <2>1. ASSUME NEW r \in Runs, NEW v \in Versions, NEW ch \in Channels, Show(r, v, ch)
        PROVE TidyInv'
    BY <2>1 DEF Show
  <2>2. ASSUME NEW r \in Runs, Confirm(r) PROVE TidyInv'
    BY <2>2 DEF Confirm
  <2>3. ASSUME NEW r \in Runs, Fetch(r) PROVE TidyInv'
    BY <2>3 DEF Fetch
  <2>4. ASSUME NEW r \in Runs, WaitForPIDExit(r) PROVE TidyInv'
    BY <2>4 DEF WaitForPIDExit
  <2>5. ASSUME NEW r \in Runs, FetchExpectedHash(r) PROVE TidyInv'
    BY <2>5 DEF FetchExpectedHash
  <2>6. ASSUME NEW r \in Runs, Download(r) PROVE TidyInv'
    BY <2>6 DEF Download, RemoveTemp
  <2>7. ASSUME NEW r \in Runs, VerifyFile(r) PROVE TidyInv'
    BY <2>7 DEF VerifyFile, RemoveTemp
  <2>8. ASSUME NEW r \in Runs, MakeWay(r) PROVE TidyInv'
    BY <2>8 DEF MakeWay, RemovePayload
  <2>9. ASSUME NEW r \in Runs, RenameFile(r) PROVE TidyInv'
    BY <2>9 DEF RenameFile, RemoveTemp
  <2>10. ASSUME NEW r \in Runs, Install(r) PROVE TidyInv'
    BY <2>10 DEF Install
  <2>11. ASSUME NEW r \in Runs, Clean(r) PROVE TidyInv'
    BY <2>11 DEF Clean, RemovePayload
  <2>12. ASSUME NEW r \in Runs, InstalledVersion(r) PROVE TidyInv'
    BY <2>12 DEF InstalledVersion
  <2>13. ASSUME NEW r \in Runs, SaveInstallRecord(r) PROVE TidyInv'
    BY <2>13 DEF SaveInstallRecord
  <2>14. ASSUME NEW r \in Runs, LaunchApp(r) PROVE TidyInv'
    BY <2>14 DEF LaunchApp
  <2>15. ASSUME NEW r \in Runs, Close(r) PROVE TidyInv'
    BY <2>15 DEF Close
  <2>16. CASE UNCHANGED <<pc, temp, result>>
    BY <2>16
  <2>17. CASE PublishTag \/ DeleteRolling \/ CreateRolling \/ Lock
    BY <2>16, <2>17 DEF PublishTag, DeleteRolling, CreateRolling, Lock
  <2>18. ASSUME NEW b \in Builds \cup {NoFile}, Sideload(b) PROVE TidyInv'
    BY <2>16, <2>18 DEF Sideload
  <2>19. CASE UNCHANGED vars
    BY <2>16, <2>19 DEF vars
  <2> QED
    BY <2>1, <2>2, <2>3, <2>4, <2>5, <2>6, <2>7, <2>8, <2>9, <2>10, <2>11, <2>12, <2>13,
       <2>14, <2>15, <2>17, <2>18, <2>19 DEF Next, Step
<1>3. TidyInv => ErrorLeavesNoTempFile
  BY DEF TidyInv, ErrorLeavesNoTempFile
<1> QED
  BY <1>1, <1>2, <1>3, VerifiedInductive, PTL DEF Spec

-----------------------------------------------------------------------------
\* Nothing is listed that has not been published.
MadeInv ==
  /\ \A b \in tags : b <= made
  /\ rolling # NoFile => rolling <= made

\* What remains of the release the operator was shown: a version tag stays,
\* main-latest is replaced by newer builds only.
StillThere(v, ch, rel) ==
  /\ rel.build \in Builds /\ rel.build <= made
  /\ rel.tag # MainLatest => rel.tag = rel.build /\ rel.build \in tags
  /\ rel.tag = MainLatest /\ rolling # NoFile => rolling >= rel.build
  /\ v # Newest => rel.tag = v
  /\ v = Newest /\ rel.tag = MainLatest => ch = "latest"

NotOlder(info, seen) ==
  info.build >= seen.build \/ (seen.tag = MainLatest /\ info.tag # MainLatest)

ShownInv ==
  /\ MadeInv
  /\ \A r \in Runs :
       /\ pc[r] # "idle" => StillThere(run[r].version, run[r].channel, run[r].seen)
       /\ pc[r] \in Steps \ {"shown", "fetch"} => NotOlder(run[r].info, run[r].seen)

\* A release that is shown is there.
LEMMA ShownIsThere ==
  ASSUME Verified, MadeInv, NEW v, NEW ch \in Channels, NEW rel \in Fetchable(v, ch)
  PROVE  StillThere(v, ch, rel)
<1>1. rel \in Listed
  BY FetchableIsListed
<1>2. /\ rel.build \in Builds /\ rel.build <= made
      /\ rel.tag # MainLatest => rel.tag = rel.build /\ rel.build \in tags
      /\ rel.tag = MainLatest /\ rolling # NoFile => rolling >= rel.build
  BY <1>1, MaxBuildsAssumption DEF Listed, Verified, MadeInv, Builds, MainLatest
<1>3. v # Newest => rel.tag = v
  BY FetchableIsAsked
<1>4. v = Newest /\ rel.tag = MainLatest => ch = "latest"
  BY Zenon DEF Fetchable, NewestOf, Offered
<1> QED
  BY <1>2, <1>3, <1>4 DEF StillThere

\* A release that is fetched is not older than one that is still there.
LEMMA FetchedIsNotOlder ==
  ASSUME Verified, NEW v, NEW ch, NEW seen, StillThere(v, ch, seen), NEW rel \in Fetchable(v, ch)
  PROVE  NotOlder(rel, seen)
<1>1. rel \in Listed /\ rel.tag \in {MainLatest, rel.build} /\ Served(rel) = rel.build
  BY FetchableIsListed, ListedServes DEF Verified
<1>2. rel.build \in Builds /\ seen.build \in Builds
  BY <1>1, ListedIsRelease DEF Releases, StillThere, Verified
<1>3. CASE seen.tag = MainLatest
  <2>1. CASE rel.tag = MainLatest
    <3>1. rolling = rel.build
      BY <1>1, <2>1 DEF Served
    <3> QED
      BY <1>2, <1>3, <3>1, ValuesAssumption DEF StillThere, NotOlder
  <2> QED
    BY <1>3, <2>1 DEF NotOlder
<1>4. CASE seen.tag # MainLatest
  <2>1. seen.tag = seen.build /\ seen.build \in tags
    BY <1>4 DEF StillThere
  <2>2. CASE v # Newest
    <3>1. rel.tag = seen.build
      BY <2>1, <2>2, FetchableIsAsked DEF StillThere
    <3>2. rel.tag = rel.build
      BY <1>1, <1>2, <3>1, MaxBuildsAssumption DEF MainLatest, Builds
    <3> QED
      BY <1>2, <3>1, <3>2, MaxBuildsAssumption DEF NotOlder, Builds
  <2>3. CASE v = Newest
    <3> DEFINE shown == [tag |-> seen.build, build |-> seen.build]
    <3>1. shown \in Listed /\ shown.tag # MainLatest /\ shown.build = seen.build
      BY <1>2, <2>1, MaxBuildsAssumption DEF Listed, MainLatest, Builds
    <3>2. shown \in Offered(ch)
      BY <3>1, Zenon DEF Offered
    <3>3. rel \in NewestOf(Offered(ch))
      BY <2>3, Zenon DEF Fetchable
    <3>4. shown.build <= rel.build
      BY <3>2, <3>3, Zenon DEF NewestOf
    <3> QED
      BY <1>2, <3>1, <3>4, MaxBuildsAssumption DEF NotOlder, Builds
  <2> QED
    BY <2>2, <2>3
<1> QED
  BY <1>3, <1>4

\* ShownInv is inductive.
LEMMA ShownInductive == Spec => []ShownInv
<1>1. Init => ShownInv
  BY DEF Init, ShownInv, MadeInv, Steps
<1>2. Verified /\ ShownInv /\ [Next]_vars => ShownInv'
  <2> SUFFICES ASSUME Verified, ShownInv, [Next]_vars PROVE ShownInv'
    OBVIOUS
  <2>0. run \in [Runs -> Locals] /\ pc \in [Runs -> Steps \cup {"idle"}]
    BY DEF Verified
  <2>a. ASSUME UNCHANGED site, NEW r \in Runs, NEW step \in Steps \cup {"idle"},
               pc' = [pc EXCEPT ![r] = step],
               \A q \in Runs \ {r} : run'[q] = run[q],
               step # "idle" => StillThere(run'[r].version, run'[r].channel, run'[r].seen),
               step \in Steps \ {"shown", "fetch"} => NotOlder(run'[r].info, run'[r].seen)
        PROVE  ShownInv'
    BY <2>0, <2>a DEF ShownInv, MadeInv, StillThere, NotOlder, site
  <2>b. ASSUME UNCHANGED site, NEW r \in Runs, NEW step \in Steps \cup {"idle"},
               pc[r] # "idle",
               pc' = [pc EXCEPT ![r] = step],
               step \in {"idle", "shown", "fetch"} \/ pc[r] \in Steps \ {"shown", "fetch"},
               \A q \in Runs \ {r} : run'[q] = run[q],
               step = "idle" \/ /\ run'[r].version = run[r].version /\ run'[r].channel = run[r].channel
                                /\ run'[r].seen = run[r].seen /\ run'[r].info = run[r].info
        PROVE  ShownInv'
    <3>1. step # "idle" => StillThere(run'[r].version, run'[r].channel, run'[r].seen)
      BY <2>b, Zenon DEF ShownInv
    <3>2. step \in Steps \ {"shown", "fetch"} => NotOlder(run'[r].info, run'[r].seen)
      <4>1. pc[r] \in Steps \ {"shown", "fetch"} => NotOlder(run[r].info, run[r].seen)
        BY DEF ShownInv
      <4> QED
        BY <2>b, <4>1 DEF Steps
    <3> QED
      BY <2>a, <2>b, <3>1, <3>2
  <2> USE <2>0 DEF Goto, Continue, Return, Fail, Steps
  <2>1. ASSUME NEW r \in Runs, NEW v \in Versions, NEW ch \in Channels, Show(r, v, ch)
        PROVE ShownInv'
    <3>1. PICK rel \in Fetchable(v, ch) :
             run' = [run EXCEPT ![r] = [Blank EXCEPT !.version = v, !.channel = ch, !.seen = rel]]
      BY <2>1, Zenon DEF Show
    <3>2. run'[r].version = v /\ run'[r].channel = ch /\ run'[r].seen = rel
      BY <3>1 DEF Blank
    <3>3. StillThere(v, ch, rel)
      BY <3>1, ShownIsThere DEF ShownInv
    <3> QED
      BY <2>1, <2>a, <3>1, <3>2, <3>3 DEF Show
  <2>2. ASSUME NEW r \in Runs, Confirm(r) PROVE ShownInv'
    BY <2>2, <2>b DEF Confirm
  <2>3. ASSUME NEW r \in Runs, Fetch(r) PROVE ShownInv'
    <3>1. CASE Fail(r)
      BY <2>3, <2>b, <3>1 DEF Fetch
    <3>2. CASE \E rel \in Fetchable(run[r].version, run[r].channel) :
                 run' = [run EXCEPT ![r].info = rel] /\ Continue(r, "wait")
      <4>1. PICK rel \in Fetchable(run[r].version, run[r].channel) :
                 run' = [run EXCEPT ![r].info = rel] /\ Continue(r, "wait")
        BY <3>2
      <4>2. /\ run'[r].info = rel /\ run'[r].seen = run[r].seen
            /\ run'[r].version = run[r].version /\ run'[r].channel = run[r].channel
        BY <4>1 DEF Locals
      <4>3. StillThere(run[r].version, run[r].channel, run[r].seen)
        BY <2>3 DEF ShownInv, Fetch
      <4>4. NotOlder(rel, run[r].seen)
        BY <4>1, <4>3, FetchedIsNotOlder
      <4>5. UNCHANGED site
        BY <2>3, Zenon DEF Fetch
      <4> QED
        BY <2>a, <4>1, <4>2, <4>3, <4>4, <4>5
    <3> QED
      BY <2>3, <3>1, <3>2, Zenon DEF Fetch
  <2>4. ASSUME NEW r \in Runs, WaitForPIDExit(r) PROVE ShownInv'
    BY <2>4, <2>b DEF WaitForPIDExit
  <2>5. ASSUME NEW r \in Runs, FetchExpectedHash(r) PROVE ShownInv'
    BY <2>5, <2>b DEF FetchExpectedHash, Locals
  <2>6. ASSUME NEW r \in Runs, Download(r) PROVE ShownInv'
    BY <2>6, <2>b DEF Download
  <2>7. ASSUME NEW r \in Runs, VerifyFile(r) PROVE ShownInv'
    BY <2>7, <2>b DEF VerifyFile
  <2>8. ASSUME NEW r \in Runs, MakeWay(r) PROVE ShownInv'
    BY <2>8, <2>b DEF MakeWay, RemovePayload
  <2>9. ASSUME NEW r \in Runs, RenameFile(r) PROVE ShownInv'
    BY <2>9, <2>b DEF RenameFile, Locals
  <2>10. ASSUME NEW r \in Runs, Install(r) PROVE ShownInv'
    BY <2>10, <2>b DEF Install
  <2>11. ASSUME NEW r \in Runs, Clean(r) PROVE ShownInv'
    BY <2>11, <2>b DEF Clean, RemovePayload
  <2>12. ASSUME NEW r \in Runs, InstalledVersion(r) PROVE ShownInv'
    <3>1. PICK answer : run' = [run EXCEPT ![r].package = answer]
      BY <2>12, Zenon DEF InstalledVersion
    <3>2. UNCHANGED site /\ pc[r] = "query" /\ pc' = [pc EXCEPT ![r] = "record"]
      BY <2>12, Zenon DEF InstalledVersion
    <3> QED
      BY <2>b, <3>1, <3>2 DEF Locals
  <2>13. ASSUME NEW r \in Runs, SaveInstallRecord(r) PROVE ShownInv'
    BY <2>13, <2>b DEF SaveInstallRecord
  <2>14. ASSUME NEW r \in Runs, LaunchApp(r) PROVE ShownInv'
    BY <2>14, <2>b DEF LaunchApp
  <2>15. ASSUME NEW r \in Runs, Close(r) PROVE ShownInv'
    BY <2>15, <2>b DEF Close
  <2>16. CASE PublishTag \/ DeleteRolling \/ CreateRolling
    <3>1. UNCHANGED <<pc, run>> /\ made' >= made /\ tags \subseteq tags' /\ made \in Nat /\ made' \in Nat
      BY <2>16 DEF PublishTag, DeleteRolling, CreateRolling, Verified
    <3>2. \/ rolling' \in {rolling, NoFile} /\ tags' \subseteq tags \cup {made'}
          \/ rolling' = made' /\ made' = made + 1 /\ tags' = tags
      BY <2>16, <3>1 DEF PublishTag, DeleteRolling, CreateRolling
    <3>3. /\ tags \in SUBSET (1..MaxBuilds) /\ rolling \in (1..MaxBuilds) \cup {NoFile}
          /\ MadeInv
      BY DEF ShownInv, Verified, Builds
    <3>4. MadeInv'
      BY <3>3, <3>1, <3>2, MaxBuildsAssumption DEF MadeInv
    <3>5. ASSUME NEW v, NEW ch, NEW rel, StillThere(v, ch, rel) PROVE StillThere(v, ch, rel)'
      <4>1. rel.build \in Nat /\ rel.build <= made'
        BY <3>3, <3>1, <3>5, MaxBuildsAssumption DEF StillThere, Builds
      <4>2. rolling' # NoFile /\ rel.tag = MainLatest => rolling' >= rel.build
        <5>1. rolling # NoFile /\ rel.tag = MainLatest => rolling >= rel.build
          BY <3>5 DEF StillThere
        <5>2. rolling' \in {rolling, NoFile} \/ rolling' = made'
          BY <3>2
        <5> QED
          BY <3>3, <4>1, <5>1, <5>2
      <4> QED
        BY <3>1, <3>5, <4>1, <4>2 DEF StillThere
    <3> QED
      BY <3>1, <3>4, <3>5 DEF ShownInv
  <2>17. CASE UNCHANGED <<site, pc, run>>
    BY <2>17 DEF ShownInv, MadeInv, StillThere, site
  <2>18. CASE Lock
    BY <2>17, <2>18 DEF Lock
  <2>19. ASSUME NEW b \in Builds \cup {NoFile}, Sideload(b) PROVE ShownInv'
    BY <2>17, <2>19 DEF Sideload
  <2>20. CASE UNCHANGED vars
    BY <2>17, <2>20 DEF vars
  <2> QED
    BY <2>1, <2>2, <2>3, <2>4, <2>5, <2>6, <2>7, <2>8, <2>9, <2>10, <2>11, <2>12, <2>13,
       <2>14, <2>15, <2>16, <2>18, <2>19, <2>20 DEF Next, Step
<1> QED
  BY <1>1, <1>2, VerifiedInductive, PTL DEF Spec

\* Theorem for NeverOlderThanShown: with main-latest left alone while it works,
\* one manager at a time installs nothing older than the operator confirmed,
\* unless main-latest was shown and is gone.
THEOREM NotOlderIsInstalled ==
  ASSUME NEW only, Runs = {only}, "republish" \notin Mishaps
  PROVE  Spec => []NeverOlderThanShown
<1>1. FetchedBuildInv /\ ShownInv => NeverOlderThanShown
  BY DEF FetchedBuildInv, Steady, HandedOn, ShownInv, NotOlder, NeverOlderThanShown, Steps
<1> QED
  BY <1>1, FetchedBuildInductive, ShownInductive, PTL

-----------------------------------------------------------------------------
(* How long an update takes. *)

\* The steps that may follow on each: one a step, and every rename that is still
\* allowed with the removal before it.
Place ==
  [idle |-> 0, launch |-> 1, record |-> 2, query |-> 3, clean |-> 4, install |-> 5,
   rename |-> 6, remove |-> 7, verify |-> 6, download |-> 7, checksum |-> 8, wait |-> 9,
   fetch |-> 10, shown |-> 11]

Remaining(step, attempt) ==
  Place[step] + (IF step \in {"rename", "remove"} THEN 2 * (Attempts - 1 - attempt)
                 ELSE IF Place[step] > 5 THEN 2 * Attempts ELSE 0)

StepsLeft(r) == Remaining(pc[r], run[r].attempt)

\* It is a number, which an attempt lowers.
LEMMA RemainingIsBounded ==
  ASSUME NEW step \in Steps \cup {"idle"}, NEW attempt \in 0..Attempts - 1
  PROVE  Remaining(step, attempt) \in 0..(11 + 2 * Attempts)
BY AttemptsAssumption DEF Remaining, Place, Steps

\* A step of one run is felt by no other.
LEMMA StepIsItsOwn ==
  ASSUME NEW r \in Runs, Step(r), NEW q \in Runs \ {r},
         pc \in [Runs -> Steps \cup {"idle"}], run \in [Runs -> Locals]
  PROVE  pc'[q] = pc[q] /\ run'[q] = run[q]
<1> USE DEF Continue, Return, Fail, Goto
<1>1. CASE Fetch(r)
  BY <1>1, Zenon DEF Fetch
<1>2. CASE WaitForPIDExit(r)
  BY <1>2 DEF WaitForPIDExit
<1>3. CASE FetchExpectedHash(r)
  BY <1>3 DEF FetchExpectedHash
<1>4. CASE Download(r)
  BY <1>4 DEF Download
<1>5. CASE VerifyFile(r)
  BY <1>5 DEF VerifyFile
<1>6. CASE MakeWay(r)
  BY <1>6, RemovePayloadLeaves DEF MakeWay
<1>7. CASE RenameFile(r)
  BY <1>7 DEF RenameFile
<1>8. CASE Install(r)
  BY <1>8, InstallLeaves
<1>9. CASE Clean(r)
  BY <1>9, RemovePayloadLeaves DEF Clean
<1>10. CASE InstalledVersion(r)
  BY <1>10 DEF InstalledVersion
<1>11. CASE SaveInstallRecord(r)
  BY <1>11 DEF SaveInstallRecord
<1>12. CASE LaunchApp(r)
  BY <1>12 DEF LaunchApp
<1> QED
  BY <1>1, <1>2, <1>3, <1>4, <1>5, <1>6, <1>7, <1>8, <1>9, <1>10, <1>11, <1>12 DEF Step

\* Every step brings the end nearer.
LEMMA StepComesNearer ==
  ASSUME NEW r \in Runs, Step(r), pc \in [Runs -> Steps \cup {"idle"}], run \in [Runs -> Locals]
  PROVE  StepsLeft(r)' < StepsLeft(r) /\ StepsLeft(r)' <= StepsLeft(r)
<1>0. run[r].attempt \in 0..Attempts - 1
  BY DEF Locals
<1> USE <1>0, AttemptsAssumption DEF StepsLeft, Place, Remaining, Continue, Return, Fail, Goto
<1>1. CASE Fetch(r)
  <2>1. pc[r] = "fetch" /\ pc'[r] \in {"wait", "idle"}
    BY <1>1, Zenon DEF Fetch
  <2> QED
    BY <2>1
<1>2. CASE WaitForPIDExit(r)
  BY <1>2 DEF WaitForPIDExit
<1>3. CASE FetchExpectedHash(r)
  BY <1>3 DEF FetchExpectedHash
<1>4. CASE Download(r)
  BY <1>4 DEF Download
<1>5. CASE VerifyFile(r)
  BY <1>5 DEF VerifyFile
<1>6. CASE MakeWay(r)
  BY <1>6, RemovePayloadLeaves DEF MakeWay
<1>7. CASE RenameFile(r)
  <2>1. pc[r] = "rename"
    BY <1>7 DEF RenameFile
  <2>2. \/ pc'[r] \in {"install", "idle"}
        \/ pc'[r] = "remove" /\ run'[r].attempt = run[r].attempt + 1
    BY <1>7 DEF RenameFile, Locals
  <2> QED
    BY <2>1, <2>2
<1>8. CASE Install(r)
  BY <1>8, InstallLeaves
<1>9. CASE Clean(r)
  BY <1>9, RemovePayloadLeaves DEF Clean
<1>10. CASE InstalledVersion(r)
  BY <1>10 DEF InstalledVersion
<1>11. CASE SaveInstallRecord(r)
  BY <1>11 DEF SaveInstallRecord
<1>12. CASE LaunchApp(r)
  BY <1>12 DEF LaunchApp
<1> QED
  BY <1>1, <1>2, <1>3, <1>4, <1>5, <1>6, <1>7, <1>8, <1>9, <1>10, <1>11, <1>12 DEF Step

\* Once confirmed, an update is over within 10 + 2 * Attempts steps of its own: each
\* brings the end nearer, and nothing that another manager, a scanner or the site does
\* puts it off (Engine.Update, replaceFile).
THEOREM UpdateIsBounded ==
  Spec => /\ [](\A r \in Runs : StepsLeft(r) \in 0..(11 + 2 * Attempts))
          /\ [][\A r \in Runs :
                  /\ Step(r) => StepsLeft(r)' < StepsLeft(r)
                  /\ pc[r] # "idle" => StepsLeft(r)' <= StepsLeft(r)]_vars
<1> DEFINE Bounded == \A r \in Runs : StepsLeft(r) \in 0..(11 + 2 * Attempts)
           Nearer == \A r \in Runs :
                       /\ Step(r) => StepsLeft(r)' < StepsLeft(r)
                       /\ pc[r] # "idle" => StepsLeft(r)' <= StepsLeft(r)
<1>1. TypeOK => Bounded
  BY RemainingIsBounded DEF TypeOK, Locals, StepsLeft
<1>2. TypeOK /\ [Next]_vars => [Nearer]_vars
  <2> SUFFICES ASSUME TypeOK, Next, NEW q \in Runs
               PROVE  /\ Step(q) => StepsLeft(q)' < StepsLeft(q)
                      /\ pc[q] # "idle" => StepsLeft(q)' <= StepsLeft(q)
    BY Zenon
  <2>0. pc \in [Runs -> Steps \cup {"idle"}] /\ run \in [Runs -> Locals]
    BY DEF TypeOK
  <2>1. Step(q) => StepsLeft(q)' < StepsLeft(q)
    BY <2>0, StepComesNearer
  <2>2. StepsLeft(q) \in Nat
    BY <2>0, RemainingIsBounded DEF StepsLeft, Locals
  <2>3. ASSUME pc'[q] = pc[q], run'[q] = run[q] PROVE StepsLeft(q)' <= StepsLeft(q)
    BY <2>2, <2>3 DEF StepsLeft
  <2>4. ASSUME pc'[q] = "idle" PROVE StepsLeft(q)' <= StepsLeft(q)
    BY <2>2, <2>4 DEF StepsLeft, Place, Remaining
  <2>5. ASSUME NEW r \in Runs, Step(r) PROVE StepsLeft(q)' <= StepsLeft(q)
    <3>1. CASE r = q
      BY <2>0, <2>5, <3>1, StepComesNearer
    <3>2. CASE r # q
      <4>1. pc'[q] = pc[q] /\ run'[q] = run[q]
        BY <2>0, <2>5, <3>2, StepIsItsOwn
      <4> QED
        BY <2>3, <4>1
    <3> QED
      BY <3>1, <3>2
  <2>6. ASSUME pc[q] # "idle", NEW r \in Runs, NEW v \in Versions, NEW ch \in Channels, Show(r, v, ch)
        PROVE StepsLeft(q)' <= StepsLeft(q)
    <3>1. pc'[q] = pc[q] /\ run'[q] = run[q]
      BY <2>0, <2>6, Zenon DEF Show, Goto
    <3> QED
      BY <2>3, <3>1
  <2>7. ASSUME NEW r \in Runs, Confirm(r) PROVE StepsLeft(q)' <= StepsLeft(q)
    <3>1. pc[r] = "shown" /\ pc' = [pc EXCEPT ![r] = "fetch"] /\ run' = run
      BY <2>7 DEF Confirm, Continue, Goto
    <3>2. CASE q = r
      <4>1. pc[q] = "shown" /\ pc'[q] = "fetch"
        BY <2>0, <3>1, <3>2
      <4> QED
        BY <4>1, AttemptsAssumption DEF StepsLeft, Place, Remaining
    <3>3. CASE q # r
      BY <2>0, <2>3, <3>1, <3>3
    <3> QED
      BY <3>2, <3>3
  <2>8. ASSUME NEW r \in Runs, Close(r) PROVE StepsLeft(q)' <= StepsLeft(q)
    <3>1. pc'[q] = "idle" \/ (pc'[q] = pc[q] /\ run'[q] = run[q])
      BY <2>0, <2>8 DEF Close, Goto
    <3> QED
      BY <2>3, <2>4, <3>1
  <2>9. ASSUME pc' = pc, run' = run PROVE StepsLeft(q)' <= StepsLeft(q)
    BY <2>3, <2>9
  <2>10. ASSUME PublishTag \/ DeleteRolling \/ CreateRolling \/ Lock
         PROVE StepsLeft(q)' <= StepsLeft(q)
    BY <2>9, <2>10 DEF PublishTag, DeleteRolling, CreateRolling, Lock
  <2>11. ASSUME NEW b \in Builds \cup {NoFile}, Sideload(b) PROVE StepsLeft(q)' <= StepsLeft(q)
    BY <2>9, <2>11 DEF Sideload
  <2> QED
    BY <2>1, <2>5, <2>6, <2>7, <2>8, <2>10, <2>11, Zenon DEF Next
<1> QED
  BY <1>1, <1>2, TypeCorrect, PTL DEF Spec

=============================================================================
