------------------------ MODULE PortableInstall_proofs ------------------------
(***************************************************************************)
(* Proofs about PortableInstall, for any files, builds and contents, and   *)
(* any number of PowerShells that outlive their managers.                  *)
(*                                                                         *)
(* All of them hold under every mishap: success means that the files are   *)
(* there, the folder holds what it names, and an install ends.             *)
(***************************************************************************)
EXTENDS PortableInstall, FiniteSetTheorems, TLAPS

USE DEF Builds, MainLatest, Torn

\* The orphans are orphans at work on builds.
OrphansAtWork ==
  /\ orphans \in [Shells -> Orphans]
  /\ \A s \in Shells : orphans[s].phase # "gone" => orphans[s].build \in Builds

\* The build in hand is a build, as an orphan's is, and what came of it is not known.
Types ==
  /\ TypeOK
  /\ pc # "idle" => build \in Builds /\ result = "none"
  /\ OrphansAtWork

\* An unpack that has been alone has unpacked what it has taken off its list: the
\* manager's, and one without a manager.
Unpacked ==
  pc \in {"approve", "unpack"} /\ alone =>
    \A f \in Contents[build] \ todo : folder[f] = build
OrphansUnpacked ==
  \A s \in Shells : orphans[s].alone =>
    \A f \in Contents[orphans[s].build] \ orphans[s].todo : folder[f] = orphans[s].build

\* The folder does not come to name the build in hand before its unpack is over.
NotYetNamed ==
  pc \in {"approve", "unpack"} /\ alone /\ ~named => mark # Version(build)

\* The build in hand is all there when its install comes to be confirmed, or the
\* elevated unpack has failed without a word, and the folder will tell.
Confirmed ==
  pc = "confirm" /\ alone =>
    \/ Holds(build)
    \/ ~writable /\ (named \/ mark # Version(build))

\* Of the install in hand, and of all.
InHand == Unpacked /\ NotYetNamed /\ Confirmed /\ SuccessMeansUnpacked
IInv == Types /\ InHand /\ OrphansUnpacked /\ MarkTellsTheTruth

-----------------------------------------------------------------------------
\* What an unpack that breaks off leaves is of its type.
LEMMA BreakOffTypes ==
  ASSUME TypeOK, NEW left \in SUBSET Files, BreakOff(left)
  PROVE  /\ folder' \in [Files -> Builds \cup {NoFile, Torn}]
         /\ mark' \in {mark, NoFile}
         /\ mixed' \in BOOLEAN
BY DEF BreakOff, Put, disk, TypeOK

\* An orphan that is disturbed is an orphan, and no longer alone.
LEMMA DisturbedOrphan ==
  ASSUME NEW o \in Orphans
  PROVE  /\ Disturbed(o) \in Orphans
         /\ Disturbed(o).alone = FALSE
         /\ Disturbed(o).phase = o.phase /\ Disturbed(o).build = o.build
BY DEF Orphans, Disturbed

\* The manager's unpack leaves the orphans orphans.
LEMMA ByManagerTypes ==
  ASSUME OrphansAtWork, ByManager PROVE OrphansAtWork'
BY DisturbedOrphan DEF ByManager, OrphansAtWork

\* An orphan that writes leaves the manager's own state alone.
LEMMA ByOrphanTypes ==
  ASSUME OrphansAtWork, NEW s \in Shells, NEW next \in Orphans, ByOrphan(s, next),
         next.phase # "gone" => next.build \in Builds
  PROVE  /\ OrphansAtWork'
         /\ alone' = FALSE
         /\ UNCHANGED <<writable, pc, build, todo, result, named>>
BY DisturbedOrphan DEF ByOrphan, OrphansAtWork, local

\* Every state has its type: no run of the installer, and no PowerShell it left
\* behind, leaves a file or a version that no build wrote.
LEMMA TypesInductive ==
  /\ Init => Types
  /\ Types /\ [Next]_vars => Types'
<1>1. Init => Types
  <2>1. NoOrphan \in Orphans /\ NoOrphan.phase = "gone"
    BY DEF Orphans, NoOrphan
  <2> QED
    BY <2>1 DEF Init, TypeOK, Types, OrphansAtWork
<1>2. ASSUME Types, [Next]_vars PROVE Types'
  <2> USE Types DEF Types, TypeOK, OrphansAtWork
  <2>1. ASSUME NEW b \in Builds, InstallPortable(b) PROVE Types'
    BY <2>1 DEF InstallPortable, disk
  <2>2. CASE Probe
    BY <2>2, ContentsAssumption DEF Probe, disk
  <2>3. CASE Approve
    BY <2>3 DEF Approve, GiveUp, Fail, Return, disk
  <2>4. ASSUME NEW f \in Files, UnpackFile(f) PROVE Types'
    <3>1. OrphansAtWork'
      BY <2>4, ByManagerTypes DEF UnpackFile
    <3> QED
      BY <2>4, <3>1 DEF UnpackFile, Put, ByManager
  <2>5. CASE UnpackFails
    <3>1. /\ OrphansAtWork'
          /\ folder' \in [Files -> Builds \cup {NoFile, Torn}]
          /\ mark' \in {mark, NoFile}
          /\ mixed' \in BOOLEAN
      BY <2>5, ByManagerTypes, BreakOffTypes DEF UnpackFails
    <3> QED
      BY <2>5, <3>1 DEF UnpackFails, ByManager, GiveUp, Fail, Return
  <2>6. CASE WriteVersion
    <3>1. OrphansAtWork'
      BY <2>6, ByManagerTypes DEF WriteVersion
    <3> QED
      BY <2>6, <3>1 DEF WriteVersion, PutVersion, Version, ByManager
  <2>7. CASE Confirm
    BY <2>7 DEF Confirm, Return, disk
  <2>8. CASE Close
    <3>1. CASE pc = "unpack" /\ BreakOff(todo) /\ ByManager
      <4>1. /\ OrphansAtWork'
            /\ folder' \in [Files -> Builds \cup {NoFile, Torn}]
            /\ mark' \in {mark, NoFile}
            /\ mixed' \in BOOLEAN
        BY <3>1, ByManagerTypes, BreakOffTypes
      <4> QED
        BY <2>8, <3>1, <4>1 DEF Close, ByManager, Return
    <3>2. CASE UNCHANGED <<disk, writable, orphans, named, alone>>
      BY <2>8, <3>2 DEF Close, Return, disk
    <3> QED
      BY <2>8, <3>1, <3>2 DEF Close
  <2>9. ASSUME NEW s \in Shells, Abandon(s) PROVE Types'
    <3>1. [phase |-> pc, build |-> build, todo |-> todo, alone |-> alone] \in Orphans
      BY <2>9 DEF Abandon, Orphans
    <3> QED
      BY <2>9, <3>1 DEF Abandon, Return, disk
  <2>10. ASSUME NEW s \in Shells, OrphanStep(s) PROVE Types'
    <3>1. CASE OrphanApproved(s)
      <4>1. OrphansAtWork'
        <5>1. CASE orphans' = [orphans EXCEPT ![s].phase = "unpack"]
          <6> DEFINE next == [orphans[s] EXCEPT !.phase = "unpack"]
          <6>1. next \in Orphans /\ next.build = orphans[s].build
            BY DEF Orphans
          <6>2. orphans' = [orphans EXCEPT ![s] = next]
            BY <5>1
          <6>3. orphans[s].build \in Builds
            BY <3>1 DEF OrphanApproved
          <6> HIDE DEF next
          <6> QED
            BY <6>1, <6>2, <6>3
        <5>2. CASE orphans' = [orphans EXCEPT ![s] = NoOrphan]
          <6>1. NoOrphan \in Orphans /\ NoOrphan.phase = "gone"
            BY DEF Orphans, NoOrphan
          <6> QED
            BY <5>2, <6>1
        <5> QED
          BY <3>1, <5>1, <5>2 DEF OrphanApproved
      <4> QED
        BY <3>1, <4>1 DEF OrphanApproved, disk, local
    <3>2. ASSUME NEW f \in Files, OrphanUnpackFile(s, f) PROVE Types'
      <4> DEFINE next == [orphans[s] EXCEPT !.todo = @ \ {f}]
      <4>1. orphans[s].build \in Builds /\ next \in Orphans /\ next.build = orphans[s].build
        BY <3>2 DEF OrphanUnpackFile, Orphans, OrphansAtWork
      <4>2. ByOrphan(s, next)
        BY <3>2 DEF OrphanUnpackFile
      <4>3. /\ OrphansAtWork'
            /\ alone' = FALSE
            /\ UNCHANGED <<writable, pc, build, todo, result, named>>
        BY <4>1, <4>2, ByOrphanTypes
      <4> QED
        BY <3>2, <4>1, <4>3 DEF OrphanUnpackFile, Put
    <3>3. CASE OrphanFails(s)
      <4>1. NoOrphan \in Orphans /\ NoOrphan.phase = "gone"
        BY DEF Orphans, NoOrphan
      <4>2. /\ OrphansAtWork'
            /\ alone' = FALSE
            /\ UNCHANGED <<writable, pc, build, todo, result, named>>
        BY <3>3, <4>1, ByOrphanTypes DEF OrphanFails
      <4>3. /\ folder' \in [Files -> Builds \cup {NoFile, Torn}]
            /\ mark' \in {mark, NoFile}
            /\ mixed' \in BOOLEAN
        BY <3>3, BreakOffTypes DEF OrphanFails, OrphansAtWork, Orphans
      <4> QED
        BY <4>2, <4>3
    <3>4. CASE OrphanWriteVersion(s)
      <4>1. NoOrphan \in Orphans /\ NoOrphan.phase = "gone"
        BY DEF Orphans, NoOrphan
      <4>2. /\ OrphansAtWork'
            /\ alone' = FALSE
            /\ UNCHANGED <<writable, pc, build, todo, result, named>>
        BY <3>4, <4>1, ByOrphanTypes DEF OrphanWriteVersion
      <4>3. orphans[s].build \in Builds
        BY <3>4 DEF OrphanWriteVersion, OrphansAtWork
      <4> QED
        BY <3>4, <4>2, <4>3 DEF OrphanWriteVersion, PutVersion, Version
    <3> QED
      BY <2>10, <3>1, <3>2, <3>3, <3>4 DEF OrphanStep
  <2>11. CASE UNCHANGED vars
    BY <2>11 DEF vars, disk, local
  <2> QED
    BY <1>2, <2>1, <2>2, <2>3, <2>4, <2>5, <2>6, <2>7, <2>8, <2>9, <2>10, <2>11
    DEF Next, Step
<1> QED
  BY <1>1, <1>2

\* Type correctness of the portable install.
THEOREM TypeCorrect == Spec => []TypeOK
<1>1. Init => Types
  BY TypesInductive
<1>2. Types /\ [Next]_vars => Types'
  BY TypesInductive
<1>3. Types => TypeOK
  BY DEF Types
<1> QED
  BY <1>1, <1>2, <1>3, PTL DEF Spec

-----------------------------------------------------------------------------
\* An unpack that has been disturbed by the manager is not alone any more.
LEMMA ByManagerDisturbs ==
  ASSUME Types, ByManager PROVE \A s \in Shells : orphans'[s].alone = FALSE
BY DisturbedOrphan DEF ByManager, Types, OrphansAtWork

\* Nor is one disturbed by another orphan, whatever becomes of that one.
LEMMA ByOrphanDisturbs ==
  ASSUME Types, NEW s \in Shells, NEW next, ByOrphan(s, next)
  PROVE  /\ orphans'[s] = next
         /\ \A t \in Shells \ {s} : orphans'[t].alone = FALSE
         /\ alone' = FALSE /\ UNCHANGED <<writable, pc, build, todo, result, named>>
BY DisturbedOrphan DEF ByOrphan, Types, OrphansAtWork, local

\* What an unpack breaks off in is no folder another could take for its own, and a
\* version it breaks off names nothing.
LEMMA BreakOffMixes ==
  ASSUME NEW left \in SUBSET Files, BreakOff(left), MarkTellsTheTruth
  PROVE  MarkTellsTheTruth' /\ mark' \in {mark, NoFile}
<1>1. CASE UNCHANGED disk
  BY <1>1 DEF MarkTellsTheTruth, Holds, disk
<1>2. ASSUME NEW f \in left, Put(f, Torn) PROVE MarkTellsTheTruth' /\ mark' \in {mark, NoFile}
  BY <1>2 DEF Put, MarkTellsTheTruth
<1>3. CASE mark' = NoFile
  BY <1>3 DEF MarkTellsTheTruth
<1> QED
  BY <1>1, <1>2, <1>3 DEF BreakOff

\* The version of a build is none of the things a folder without one shows.
LEMMA VersionIsANumber ==
  ASSUME NEW b \in Builds PROVE Version(b) \in Int /\ Version(b) # NoFile
BY NoFileAssumption DEF Version

\* A version that is put there by an unpack that has been alone, with nothing left on
\* its list, tells the truth; one put there by another is no settled one.
LEMMA PutVersionIsTrue ==
  ASSUME NEW b \in Builds, NEW undisturbed \in BOOLEAN, PutVersion(b, undisturbed),
         undisturbed => Holds(b)
  PROVE  MarkTellsTheTruth' /\ (undisturbed => Holds(b)')
<1>1. CASE undisturbed
  <2>1. Holds(b)'
    BY <1>1 DEF PutVersion, Holds
  <2>2. mark' = Version(b)
    BY DEF PutVersion
  <2> QED
    BY <2>1, <2>2 DEF MarkTellsTheTruth, Version
<1>2. CASE ~undisturbed
  BY <1>2 DEF PutVersion, MarkTellsTheTruth
<1> QED
  BY <1>1, <1>2

\* Where the manager has just been disturbed there is nothing to say of its install.
LEMMA DisturbedInHand == ~alone' => InHand'
BY DEF InHand, Unpacked, NotYetNamed, Confirmed, SuccessMeansUnpacked

\* Where the folder stays as it is, so does what it names, and what an orphan that
\* is what it was has unpacked.
LEMMA SameFolderSameTruth ==
  ASSUME IInv, UNCHANGED disk
  PROVE  /\ MarkTellsTheTruth'
         /\ UNCHANGED orphans => OrphansUnpacked'
BY DEF IInv, MarkTellsTheTruth, OrphansUnpacked, Holds, disk

\* The invariant under each step: what the manager does.
LEMMA ManagerKeepsIInv ==
  ASSUME IInv, Types', Step \/ Close PROVE IInv'
<1> SUFFICES InHand' /\ OrphansUnpacked' /\ MarkTellsTheTruth'
  BY DEF IInv
<1>a. ByManager => OrphansUnpacked'
  BY ByManagerDisturbs DEF IInv, OrphansUnpacked
<1>b. UNCHANGED <<disk, orphans>> => OrphansUnpacked' /\ MarkTellsTheTruth'
  BY SameFolderSameTruth
<1> USE DEF InHand, Unpacked, NotYetNamed, Confirmed, SuccessMeansUnpacked, Holds
<1>1. CASE Probe
  <2>1. build' = build /\ mark' = mark /\ todo' = Contents[build] /\ result' = "none"
    BY <1>1 DEF IInv, Types, Probe, disk
  <2>2. pc' \in {"unpack", "approve"}
    BY <1>1, Zenon DEF Probe
  <2>3. named' = (mark = Version(build))
    BY <1>1 DEF Probe
  <2>4. NotYetNamed'
    BY <2>1, <2>3, Zenon DEF Version
  <2>5. InHand'
    BY <2>1, <2>2, <2>4
  <2> QED
    BY <2>5, <1>1, <1>b DEF Probe
<1>2. CASE Approve
  <2>1. InHand'
    BY <1>2 DEF IInv, Types, Approve, GiveUp, Fail, Return, disk
  <2> QED
    BY <2>1, <1>2, <1>b DEF Approve
<1>3. ASSUME NEW f \in Files, UnpackFile(f)
      PROVE InHand' /\ OrphansUnpacked' /\ MarkTellsTheTruth'
  <2>1. InHand'
    BY <1>3 DEF IInv, Types, TypeOK, UnpackFile, Put, ByManager
  <2>2. MarkTellsTheTruth'
    BY <1>3 DEF UnpackFile, Put, MarkTellsTheTruth
  <2> QED
    BY <2>1, <2>2, <1>3, <1>a DEF UnpackFile
<1>4. CASE UnpackFails
  <2>1. /\ MarkTellsTheTruth'
        /\ mark' \in {mark, NoFile}
        /\ build \in Builds /\ result = "none"
    BY <1>4, BreakOffMixes DEF UnpackFails, IInv, Types, TypeOK
  <2>2. Version(build) # NoFile
    BY <2>1, VersionIsANumber
  <2>3. InHand'
    BY <1>4, <2>1, <2>2 DEF IInv, UnpackFails, GiveUp, Fail, Return, ByManager
  <2> QED
    BY <2>1, <2>3, <1>4, <1>a DEF UnpackFails
<1>5. CASE WriteVersion
  <2>1. build \in Builds /\ alone \in BOOLEAN /\ result = "none"
    BY <1>5 DEF IInv, Types, TypeOK, WriteVersion
  <2>2. alone => Holds(build)
    BY <1>5 DEF IInv, WriteVersion
  <2>3. MarkTellsTheTruth' /\ (alone => Holds(build)')
    BY <1>5, <2>1, <2>2, PutVersionIsTrue DEF WriteVersion
  <2>4. InHand'
    BY <1>5, <2>1, <2>3 DEF WriteVersion, ByManager
  <2> QED
    BY <2>3, <2>4, <1>5, <1>a DEF WriteVersion
<1>6. CASE Confirm
  <2>1. InHand'
    BY <1>6 DEF IInv, Types, Confirm, Return, disk
  <2> QED
    BY <2>1, <1>6, <1>b DEF Confirm
<1>7. CASE Close
  <2>1. InHand'
    BY <1>7 DEF Close, Return
  <2>2. CASE pc = "unpack" /\ BreakOff(todo) /\ ByManager
    BY <2>1, <2>2, <1>a, BreakOffMixes DEF IInv, Types, TypeOK
  <2>3. CASE UNCHANGED <<disk, writable, orphans, named, alone>>
    BY <2>1, <2>3, <1>b
  <2> QED
    BY <1>7, <2>2, <2>3 DEF Close
<1> QED
  BY <1>1, <1>2, <1>3, <1>4, <1>5, <1>6, <1>7 DEF Step

\* And what an orphan does, and a manager that becomes one.
LEMMA OrphanKeepsIInv ==
  ASSUME IInv, Types', NEW s \in Shells, Abandon(s) \/ OrphanStep(s) PROVE IInv'
<1> SUFFICES InHand' /\ OrphansUnpacked' /\ MarkTellsTheTruth'
  BY DEF IInv
<1>0. IInv /\ Types /\ TypeOK /\ OrphansAtWork
  BY DEF IInv, Types
<1>1. CASE Abandon(s)
  <2> DEFINE next == [phase |-> pc, build |-> build, todo |-> todo, alone |-> alone]
  <2>1. ~alone' /\ UNCHANGED disk /\ pc \in {"approve", "unpack"}
    BY <1>1 DEF Abandon
  <2>2. orphans' = [orphans EXCEPT ![s] = next]
    BY <1>1 DEF Abandon
  <2>3. next.alone = alone /\ next.build = build /\ next.todo = todo
    OBVIOUS
  <2> HIDE DEF next
  <2>4. OrphansUnpacked'
    BY <1>0, <2>1, <2>2, <2>3 DEF IInv, InHand, Unpacked, OrphansUnpacked, OrphansAtWork, disk
  <2> QED
    BY <2>1, <2>4, DisturbedInHand, SameFolderSameTruth
<1>2. CASE OrphanApproved(s)
  <2>1. InHand'
    BY <1>0, <1>2 DEF OrphanApproved, local, disk, IInv, InHand, Unpacked, NotYetNamed,
      Confirmed, SuccessMeansUnpacked, Holds
  <2>2. OrphansUnpacked'
    <3>1. CASE orphans' = [orphans EXCEPT ![s].phase = "unpack"]
      <4> DEFINE next == [orphans[s] EXCEPT !.phase = "unpack"]
      <4>1. /\ next.alone = orphans[s].alone /\ next.build = orphans[s].build
            /\ next.todo = orphans[s].todo
        BY <1>0 DEF OrphansAtWork, Orphans
      <4>2. orphans' = [orphans EXCEPT ![s] = next]
        BY <3>1
      <4> HIDE DEF next
      <4> QED
        BY <1>0, <1>2, <4>1, <4>2
        DEF IInv, OrphansUnpacked, OrphansAtWork, OrphanApproved, disk
    <3>2. CASE orphans' = [orphans EXCEPT ![s] = NoOrphan]
      <4>1. NoOrphan.alone = FALSE
        BY DEF NoOrphan
      <4> QED
        BY <1>0, <1>2, <3>2, <4>1
        DEF IInv, OrphansUnpacked, OrphansAtWork, OrphanApproved, disk
    <3> QED
      BY <1>2, <3>1, <3>2 DEF OrphanApproved
  <2> QED
    BY <1>2, <2>1, <2>2, SameFolderSameTruth DEF OrphanApproved
<1>3. ASSUME NEW f \in Files, OrphanUnpackFile(s, f)
      PROVE InHand' /\ OrphansUnpacked' /\ MarkTellsTheTruth'
  <2> DEFINE next == [orphans[s] EXCEPT !.todo = @ \ {f}]
  <2>1. /\ next.alone = orphans[s].alone /\ next.build = orphans[s].build
        /\ next.todo = orphans[s].todo \ {f}
    BY <1>0 DEF OrphansAtWork, Orphans
  <2>2. ByOrphan(s, next)
    BY <1>3 DEF OrphanUnpackFile
  <2> HIDE DEF next
  <2>3. /\ orphans'[s] = next
        /\ \A t \in Shells \ {s} : orphans'[t].alone = FALSE
        /\ ~alone'
    BY <1>0, <2>2, ByOrphanDisturbs
  <2>4. OrphansUnpacked'
    BY <1>0, <1>3, <2>1, <2>3 DEF IInv, TypeOK, OrphansUnpacked, OrphanUnpackFile, Put
  <2>5. MarkTellsTheTruth'
    BY <1>3 DEF OrphanUnpackFile, Put, MarkTellsTheTruth
  <2> QED
    BY <2>3, <2>4, <2>5, DisturbedInHand
<1>4. CASE OrphanFails(s) \/ OrphanWriteVersion(s)
  <2>0. NoOrphan.alone = FALSE
    BY DEF NoOrphan
  <2>1. ByOrphan(s, NoOrphan)
    BY <1>4 DEF OrphanFails, OrphanWriteVersion
  <2>2. (\A t \in Shells : orphans'[t].alone = FALSE) /\ ~alone'
    BY <1>0, <2>0, <2>1, ByOrphanDisturbs
  <2>3. MarkTellsTheTruth'
    <3>1. CASE OrphanFails(s)
      BY <1>0, <3>1, BreakOffMixes DEF OrphanFails, IInv, OrphansAtWork, Orphans
    <3>2. CASE OrphanWriteVersion(s)
      <4>1. /\ orphans[s].build \in Builds /\ orphans[s].alone \in BOOLEAN
            /\ orphans[s].todo = {}
        BY <1>0, <3>2 DEF OrphanWriteVersion, OrphansAtWork, Orphans
      <4>2. orphans[s].alone => Holds(orphans[s].build)
        BY <1>0, <4>1 DEF IInv, OrphansUnpacked, Holds
      <4> QED
        BY <3>2, <4>1, <4>2, PutVersionIsTrue DEF OrphanWriteVersion
    <3> QED
      BY <1>4, <3>1, <3>2
  <2> QED
    BY <2>2, <2>3, DisturbedInHand DEF OrphansUnpacked
<1> QED
  BY <1>1, <1>2, <1>3, <1>4 DEF OrphanStep

\* The inductive invariant: nobody disturbs an unpack without it being known.
LEMMA IInvInductive ==
  /\ Init => IInv
  /\ IInv /\ [Next]_vars => IInv'
<1>1. Init => IInv
  <2>1. NoOrphan.alone = FALSE
    BY DEF NoOrphan
  <2> QED
    BY <2>1, TypesInductive DEF IInv, InHand, Init, Unpacked, OrphansUnpacked, NotYetNamed,
      Confirmed, SuccessMeansUnpacked, MarkTellsTheTruth
<1>2. ASSUME IInv, [Next]_vars PROVE IInv'
  <2>0. Types'
    BY <1>2, TypesInductive DEF IInv
  <2>1. ASSUME NEW b \in Builds, InstallPortable(b) PROVE IInv'
    <3>1. InHand'
      BY <2>1 DEF InstallPortable, InHand, Unpacked, NotYetNamed, Confirmed,
        SuccessMeansUnpacked
    <3> QED
      BY <1>2, <2>0, <2>1, <3>1, SameFolderSameTruth DEF InstallPortable, IInv
  <2>2. CASE UNCHANGED vars
    <3>1. InHand'
      BY <1>2, <2>2 DEF vars, local, disk, IInv, InHand, Unpacked, NotYetNamed, Confirmed,
        SuccessMeansUnpacked, Holds
    <3> QED
      BY <1>2, <2>0, <2>2, <3>1, SameFolderSameTruth DEF vars, IInv
  <2> QED
    BY <1>2, <2>0, <2>1, <2>2, ManagerKeepsIInv, OrphanKeepsIInv DEF Next
<1> QED
  BY <1>1, <1>2

\* SuccessMeansUnpacked: an install that returns nil has put the release's files
\* in the folder, though an elevated unpack may fail without a word; unless another
\* unpack has written there meanwhile, or the folder named the release already.
THEOREM SuccessIsUnpacked == Spec => []SuccessMeansUnpacked
<1>1. IInv => SuccessMeansUnpacked
  BY DEF IInv, InHand
<1> QED
  BY <1>1, IInvInductive, PTL DEF Spec

\* MarkTellsTheTruth: what CENTROIDX_VERSION names is in the folder, whichever unpack
\* wrote it, a manager's or an orphan's, unless one stopped short or two overlapped.
THEOREM FolderHoldsWhatItNames == Spec => []MarkTellsTheTruth
<1>1. IInv => MarkTellsTheTruth
  BY DEF IInv
<1> QED
  BY <1>1, IInvInductive, PTL DEF Spec

-----------------------------------------------------------------------------
(* How long an install takes. *)

\* The steps that may follow on each: one for every file that is left, and one for the
\* step itself.
Place == [idle |-> 0, confirm |-> 1, unpack |-> 2, approve |-> 3, probe |-> 4]

StepsLeft == Place[pc] + (IF pc = "unpack" THEN Cardinality(todo)
                          ELSE IF pc \in {"approve", "probe"} THEN Cardinality(Files) ELSE 0)

\* A zip has finitely many files, and one that is unpacked is one less.
LEMMA FilesAreCounted ==
  ASSUME IsFiniteSet(Files), NEW S \in SUBSET Files
  PROVE  /\ Cardinality(Files) \in Nat
         /\ Cardinality(S) \in 0..Cardinality(Files)
         /\ \A f \in S : Cardinality(S \ {f}) = Cardinality(S) - 1
<1>1. IsFiniteSet(S) /\ Cardinality(S) <= Cardinality(Files)
  BY FS_Subset
<1>2. Cardinality(S) \in Nat /\ Cardinality(Files) \in Nat
  BY <1>1, FS_CardinalityType
<1>3. ASSUME NEW f \in S PROVE Cardinality(S \ {f}) = Cardinality(S) - 1
  BY <1>1, FS_RemoveElement
<1> QED
  BY <1>1, <1>2, <1>3

\* An install is over within four steps and one for each file: every step brings the end
\* nearer, and nothing puts it off, an unpack without its manager no more than the
\* window being closed (InstallPortable).
THEOREM InstallIsBounded ==
  IsFiniteSet(Files) =>
    (Spec => /\ [](StepsLeft \in 0..(4 + Cardinality(Files)))
             /\ [][/\ Step => StepsLeft' < StepsLeft
                   /\ pc # "idle" => StepsLeft' <= StepsLeft]_vars)
<1> SUFFICES ASSUME IsFiniteSet(Files)
             PROVE  Spec => /\ [](StepsLeft \in 0..(4 + Cardinality(Files)))
                            /\ [][/\ Step => StepsLeft' < StepsLeft
                                  /\ pc # "idle" => StepsLeft' <= StepsLeft]_vars
  OBVIOUS
<1> DEFINE Nearer == StepsLeft' < StepsLeft /\ StepsLeft' <= StepsLeft
           Bounded == StepsLeft \in 0..(4 + Cardinality(Files))
           Onward == /\ Step => StepsLeft' < StepsLeft
                     /\ pc # "idle" => StepsLeft' <= StepsLeft
<1>1. TypeOK => Bounded
  <2> SUFFICES ASSUME TypeOK PROVE StepsLeft \in 0..(4 + Cardinality(Files))
    OBVIOUS
  <2>1. Cardinality(todo) \in 0..Cardinality(Files) /\ Cardinality(Files) \in Nat
    BY FilesAreCounted DEF TypeOK
  <2> QED
    BY <2>1 DEF TypeOK, StepsLeft, Place
<1>2. Types /\ Step => Nearer
  <2> SUFFICES ASSUME Types, Step PROVE Nearer
    OBVIOUS
  <2>0. /\ Cardinality(Files) \in Nat /\ Cardinality(todo) \in 0..Cardinality(Files)
        /\ \A f \in todo : Cardinality(todo \ {f}) = Cardinality(todo) - 1
    BY FilesAreCounted DEF Types, TypeOK
  <2> USE <2>0 DEF StepsLeft, Place, Return, Fail
  <2>1. CASE Probe
    <3>1. pc = "probe" /\ pc' \in {"unpack", "approve"}
      BY <2>1, Zenon DEF Probe
    <3>2. todo' \in SUBSET Files
      BY <2>1, <3>1, ContentsAssumption DEF Probe, Types
    <3>3. Cardinality(todo') \in 0..Cardinality(Files)
      BY <3>2, FilesAreCounted
    <3> QED
      BY <3>1, <3>3
  <2>2. CASE Approve
    BY <2>2 DEF Approve, GiveUp
  <2>3. ASSUME NEW f \in Files, UnpackFile(f) PROVE Nearer
    <3>1. f \in todo /\ todo' = todo \ {f} /\ pc = "unpack" /\ pc' = pc
      BY <2>3 DEF UnpackFile
    <3> QED
      BY <3>1
  <2>4. CASE UnpackFails
    BY <2>4 DEF UnpackFails, GiveUp
  <2>5. CASE WriteVersion
    BY <2>5 DEF WriteVersion
  <2>6. CASE Confirm
    BY <2>6 DEF Confirm
  <2> QED
    BY <2>1, <2>2, <2>3, <2>4, <2>5, <2>6 DEF Step
<1>3. TypeOK /\ pc' = "idle" => StepsLeft' <= StepsLeft
  <2>1. TypeOK => StepsLeft \in Nat
    BY <1>1, FilesAreCounted
  <2> QED
    BY <2>1 DEF StepsLeft, Place
<1>4. Types /\ [Next]_vars => [Onward]_vars
  <2>1. \A b \in Builds : InstallPortable(b) => pc = "idle"
    BY DEF InstallPortable
  <2>2. Types /\ Step => Onward
    BY <1>2, Zenon
  <2>3. \A s \in Shells : Abandon(s) => pc' = "idle"
    BY DEF Abandon, Return
  <2>4. Close => pc' = "idle"
    BY DEF Close, Return
  <2>5. \A s \in Shells : OrphanStep(s) => StepsLeft' = StepsLeft
    BY DEF OrphanStep, OrphanApproved, OrphanUnpackFile, OrphanFails, OrphanWriteVersion,
      ByOrphan, local, StepsLeft
  <2>6. TypeOK => StepsLeft \in Int
    BY <1>1, FilesAreCounted
  <2>7. ASSUME Types, Next, ~Step, pc # "idle" PROVE StepsLeft' <= StepsLeft
    <3>1. TypeOK
      BY <2>7 DEF Types
    <3>2. CASE pc' = "idle"
      BY <1>3, <3>1, <3>2
    <3>3. CASE StepsLeft' = StepsLeft
      BY <2>6, <3>1, <3>3
    <3> QED
      BY <2>1, <2>3, <2>4, <2>5, <2>7, <3>2, <3>3 DEF Next
  <2> QED
    BY <2>2, <2>7, Zenon
<1>5. Init => Types
  BY TypesInductive
<1>6. Types /\ [Next]_vars => Types'
  BY TypesInductive
<1> QED
  BY <1>1, <1>4, <1>5, <1>6, TypeCorrect, PTL DEF Spec

=============================================================================
