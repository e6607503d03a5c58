----------------------- MODULE ManagerExtract_proofs -----------------------
(***************************************************************************)
(* Proofs about ManagerExtract, for any builds and sizes, any number of    *)
(* starts and calls, and under every mishap.                               *)
(***************************************************************************)
EXTENDS ManagerExtract, TLAPS

\* An open file is there, and is of the package's build: an upgrade stops
\* whoever has one open.
OpenInv ==
  \A p \in Actors :
    /\ pc[p] = "write" => files[Staging(p)] # None /\ files[Staging(p)].build = package
    /\ pc[p] # "write" => at[p] = 0

FilesOK ==
  /\ files \in [{"dest", "tmp", "new"} -> [build : Builds, has : SUBSET Nat] \cup {None}]
  /\ \A f \in {"dest", "tmp", "new"} :
       files[f] # None => files[f].has \subseteq 1..Size[files[f].build]

\* Types, without the files.
RestOK ==
  /\ package \in Builds
  /\ app \in BOOLEAN /\ running \in BOOLEAN
  /\ pc \in [Actors -> {"off", "match", "usable", "create", "write", "rename",
                        "remove", "delete", "launch", "handOff"}]
  /\ at \in [Actors -> Nat] /\ \A p \in Actors : at[p] < Size[package]
  /\ usable \subseteq Calls /\ warned \subseteq Calls /\ disturbed \subseteq Calls
  /\ clash \in {"no", "met", "torn"} /\ killed \in BOOLEAN

LEMMA StagingIsName ==
  ASSUME NEW p
  PROVE  Staging(p) \in {"tmp", "new"}
BY DEF Staging

\* What each operation on the files leaves, whoever does it.
LEMMA CreateOpens ==
  ASSUME FilesOK, RestOK, NEW p \in Actors, Create(p)
  PROVE  FilesOK' /\ files'[Staging(p)] # None /\ files'[Staging(p)].build = package
<1> DEFINE new == [build |-> package, has |-> {}]
<1>1. new \in [build : Builds, has : SUBSET Nat] /\ new # None
  <2>1. package \in Builds
    BY DEF RestOK
  <2> QED
    BY <2>1, NoneAssumption
<1>2. files' = [files EXCEPT ![Staging(p)] = new]
  BY DEF Create
<1> QED
  BY <1>1, <1>2, StagingIsName DEF FilesOK

LEMMA PortionWritten ==
  ASSUME FilesOK, RestOK, OpenInv, NEW p \in Actors, pc[p] = "write", WritePortion(p)
  PROVE  /\ FilesOK'
         /\ files'[Staging(p)] # None
         /\ files'[Staging(p)].build = package
         /\ files'[Staging(p)].has = files[Staging(p)].has \cup {at[p] + 1}
         /\ \A f \in {"dest", "tmp", "new"} \ {Staging(p)} : files'[f] = files[f]
<1> DEFINE old == files[Staging(p)]
           new == [old EXCEPT !.has = @ \cup {at[p] + 1}]
<1>1. /\ old \in [build : Builds, has : SUBSET Nat]
      /\ old.build = package /\ old.has \subseteq 1..Size[package]
      /\ package \in Builds
  BY StagingIsName DEF FilesOK, OpenInv, RestOK
<1>2. at[p] + 1 \in 1..Size[package]
  BY <1>1, SizeAssumption DEF RestOK
<1>3. /\ new \in [build : Builds, has : SUBSET Nat]
      /\ new.build = package /\ new.has = old.has \cup {at[p] + 1}
      /\ new.has \subseteq 1..Size[package]
  BY <1>1, <1>2
<1>4. new # None
  <2>1. new = [build |-> package, has |-> new.has]
    BY <1>3
  <2> QED
    BY <1>1, <1>3, <2>1, NoneAssumption
<1>5. files' = [files EXCEPT ![Staging(p)] = new]
  BY DEF WritePortion
<1> QED
  BY <1>3, <1>4, <1>5, StagingIsName DEF FilesOK

LEMMA MovedOK ==
  ASSUME FilesOK, NEW p \in Actors, Moved(p)
  PROVE  FilesOK' /\ files'["dest"] = files[Staging(p)] /\ files'[Staging(p)] = None
         /\ \A q \in Actors : Staging(q) # Staging(p) => files'[Staging(q)] = files[Staging(q)]
BY StagingIsName DEF FilesOK, Moved

LEMMA RemovedOK ==
  ASSUME FilesOK, NEW p \in Actors, Removed(p)
  PROVE  /\ FilesOK' /\ files'["dest"] = files["dest"]
         /\ \A q \in Actors :
              \/ files'[Staging(q)] = files[Staging(q)]
              \/ Staging(q) = Staging(p) /\ ~Held(p) /\ files'[Staging(q)] = None
BY StagingIsName DEF FilesOK, Removed

\* How far each has written, after a step that writes the next portion.
LEMMA PortionCounted ==
  ASSUME RestOK, OpenInv, NEW p \in Actors, WritePortion(p)
  PROVE  /\ at' \in [Actors -> Nat] /\ \A q \in Actors : at'[q] < Size[package]
         /\ pc' \in [Actors -> {"off", "match", "usable", "create", "write", "rename",
                                "remove", "delete", "launch", "handOff"}]
         /\ pc'[p] \in {"write", "rename"}
         /\ pc'[p] = "write" => at'[p] = at[p] + 1
         /\ pc'[p] = "rename" => at'[p] = 0 /\ at[p] + 1 = Size[package]
         /\ \A q \in Actors \ {p} : pc'[q] = pc[q] /\ at'[q] = at[q]
BY SizeAssumption DEF RestOK, WritePortion

\* ... and after one that stops somebody.
LEMMA StoppedCounted ==
  ASSUME RestOK, NEW who, Stopped(who)
  PROVE  /\ at' \in [Actors -> Nat]
         /\ \A q \in Actors : at'[q] = IF q \in who THEN 0 ELSE at[q]
         /\ clash' \in {"no", "met", "torn"}
BY DEF RestOK, Stopped

LEMMA GoneLeaves ==
  ASSUME RestOK, OpenInv, UNCHANGED files, NEW who, Gone(who),
         package' \in Builds, who = Actors \/ package' = package,
         app' \in BOOLEAN, running' \in BOOLEAN
  PROVE  RestOK' /\ OpenInv'
<1>1. /\ pc' \in [Actors -> {"off", "match", "usable", "create", "write", "rename",
                             "remove", "delete", "launch", "handOff"}]
      /\ \A q \in Actors : pc'[q] = IF q \in who THEN "off" ELSE pc[q]
  BY DEF RestOK, Gone
<1>2. /\ at' \in [Actors -> Nat]
      /\ \A q \in Actors : at'[q] = IF q \in who THEN 0 ELSE at[q]
      /\ clash' \in {"no", "met", "torn"}
  BY StoppedCounted DEF Gone
<1>3. \A q \in Actors : at'[q] < Size[package']
  BY <1>2, SizeAssumption DEF RestOK
<1>4. /\ usable' \subseteq Calls /\ warned' \subseteq Calls /\ disturbed' \subseteq Calls
      /\ killed' \in BOOLEAN
  <2>1. usable' \subseteq Calls /\ warned' \subseteq Calls /\ disturbed' \subseteq Calls
    BY DEF RestOK, Gone
  <2>2. killed' = (killed \/ \E p \in who \cap Managers : pc[p] # "off")
    BY Zenon DEF Gone
  <2> QED
    BY <2>1, <2>2, Zenon
<1>5. RestOK'
  BY <1>1, <1>2, <1>3, <1>4 DEF RestOK
<1>6. OpenInv'
  BY <1>1, <1>2 DEF OpenInv
<1> QED
  BY <1>5, <1>6

\* Types is inductive.
Types == FilesOK /\ RestOK /\ OpenInv

LEMMA TypesInductive == Spec => []Types
<1>1. Init => Types
  <2> SUFFICES ASSUME Init PROVE Types
    OBVIOUS
  <2>1. FilesOK
    <3>1. \A b \in Builds : Whole(b) \in [build : Builds, has : SUBSET Nat]
                            /\ Whole(b).has \subseteq 1..Size[Whole(b).build]
      BY SizeAssumption DEF Whole
    <3>2. PICK d \in {None} \cup {Whole(b) : b \in Builds} :
            files = [dest |-> d, tmp |-> None, new |-> None]
      BY DEF Init
    <3> QED
      BY <3>1, <3>2 DEF FilesOK
  <2>2. RestOK
    <3>1. app \in BOOLEAN /\ running \in BOOLEAN /\ killed \in BOOLEAN
      BY Zenon DEF Init
    <3>2. /\ package \in Builds
          /\ pc = [p \in Actors |-> "off"] /\ at = [p \in Actors |-> 0]
          /\ usable = {} /\ warned = {} /\ disturbed = {} /\ clash = "no"
      BY Zenon DEF Init
    <3> QED
      BY <3>1, <3>2, SizeAssumption DEF RestOK
  <2>3. OpenInv
    BY DEF Init, OpenInv
  <2> QED
    BY <2>1, <2>2, <2>3 DEF Types
<1>2. Types /\ [Next]_vars => Types'
  <2> SUFFICES ASSUME Types, [Next]_vars PROVE Types'
    OBVIOUS
  <2>0. FilesOK /\ RestOK /\ OpenInv
    BY DEF Types
  <2> USE <2>0 DEF Types, Actors, Goto, station, call, history
  <2>1. ASSUME NEW m \in Managers, ExtractManager(m) PROVE Types'
    <3>1. /\ pc[m] = "off" /\ pc' = [pc EXCEPT ![m] = "create"]
          /\ UNCHANGED <<files, station, at, call, history>>
      BY <2>1 DEF ExtractManager, Free
    <3>2. RestOK'
      BY <3>1 DEF RestOK
    <3> QED
      BY <3>1, <3>2 DEF FilesOK, RestOK, OpenInv
  <2>2. ASSUME NEW m \in Managers, CreateTemp(m) PROVE Types'
    <3>1. CASE Create(m) /\ Goto(m, "write") /\ killed' = FALSE
      <4>1. FilesOK' /\ files'[Staging(m)] # None /\ files'[Staging(m)].build = package
        BY <3>1, CreateOpens
      <4>2. RestOK'
        BY <2>2, <3>1 DEF CreateTemp, Create, RestOK
      <4>3. OpenInv'
        BY <2>2, <3>1, <4>1, StagingIsName DEF CreateTemp, Create, OpenInv, RestOK, FilesOK
      <4> QED
        BY <4>1, <4>2, <4>3
    <3>2. CASE Goto(m, "off") /\ UNCHANGED <<files, clash, killed>>
      BY <2>2, <3>2 DEF CreateTemp, FilesOK, RestOK, OpenInv
    <3> QED
      BY <2>2, <3>1, <3>2 DEF CreateTemp
  <2>3. ASSUME NEW p \in Actors, CopyPortion(p) \/ WriteStaged(p) PROVE Types'
    <3>1. pc[p] = "write" /\ WritePortion(p) /\ UNCHANGED <<station, call, history>>
      BY <2>3 DEF CopyPortion, WriteStaged
    <3>2. RestOK'
      BY <3>1, PortionCounted DEF RestOK
    <3>3. OpenInv'
      BY <3>1, PortionCounted, PortionWritten, StagingIsName DEF OpenInv
    <3> QED
      BY <3>1, <3>2, <3>3, PortionWritten
  <2>4. ASSUME NEW p \in Actors, CopyFails(p) \/ WriteFails(p) PROVE Types'
    <3>1. /\ Stopped({p})
          /\ pc' = [pc EXCEPT ![p] = "remove"] \/ pc' = [pc EXCEPT ![p] = "delete"]
          /\ disturbed' \subseteq disturbed \cup Calls
          /\ UNCHANGED <<files, station, call, killed>>
      BY <2>4 DEF CopyFails, WriteFails, Disturb
    <3>2. FilesOK'
      BY <3>1 DEF FilesOK
    <3>3. RestOK'
      BY <3>1, StoppedCounted, SizeAssumption DEF RestOK
    <3>4. OpenInv'
      BY <3>1, StoppedCounted DEF RestOK, OpenInv
    <3> QED
      BY <3>2, <3>3, <3>4
  <2>5. ASSUME NEW m \in Managers, RenameTemp(m) PROVE Types'
    <3>1. FilesOK' /\ \A q \in Actors : pc[q] = "write" => files'[Staging(q)] = files[Staging(q)]
      <4>1. CASE Movable(m) /\ Moved(m)
        BY <4>1, <2>5, MovedOK DEF Movable, Held, IsOpen, RenameTemp
      <4>2. CASE UNCHANGED files
        BY <4>2 DEF FilesOK
      <4> QED
        BY <2>5, <4>1, <4>2 DEF RenameTemp
    <3> QED
      BY <2>5, <3>1 DEF RenameTemp, RestOK, OpenInv
  <2>6. ASSUME NEW m \in Managers, RemoveTemp(m) PROVE Types'
    <3>1. FilesOK' /\ \A q \in Actors : pc[q] = "write" => files'[Staging(q)] = files[Staging(q)]
      BY <2>6, RemovedOK DEF RemoveTemp, Held, IsOpen
    <3> QED
      BY <2>6, <3>1 DEF RemoveTemp, RestOK, OpenInv
  <2>7. ASSUME NEW m \in Managers, ManagerDies(m) PROVE Types'
    BY <2>7, GoneLeaves DEF ManagerDies, RestOK, FilesOK
  <2>8. ASSUME NEW c \in Calls, Press(c) PROVE Types'
    BY <2>8 DEF Press, Free, FilesOK, RestOK, OpenInv
  <2>9. ASSUME NEW c \in Calls, MatchesBundle(c) \/ HasUsableBinary(c) PROVE Types'
    BY <2>9 DEF MatchesBundle, HasUsableBinary, FilesOK, RestOK, OpenInv
  <2>10. ASSUME NEW c \in Calls, CreateStaged(c) PROVE Types'
    <3>1. CASE Create(c) /\ Goto(c, "write") /\ UNCHANGED disturbed
      <4>1. FilesOK' /\ files'[Staging(c)] # None /\ files'[Staging(c)].build = package
        BY <3>1, CreateOpens
      <4>2. RestOK'
        BY <2>10, <3>1 DEF CreateStaged, Create, RestOK
      <4>3. OpenInv'
        BY <2>10, <3>1, <4>1, StagingIsName DEF CreateStaged, Create, OpenInv, RestOK, FilesOK
      <4> QED
        BY <4>1, <4>2, <4>3
    <3>2. CASE Goto(c, "delete") /\ Disturb(c) /\ UNCHANGED <<files, clash>>
      BY <2>10, <3>2 DEF CreateStaged, Disturb, FilesOK, RestOK, OpenInv
    <3> QED
      BY <2>10, <3>1, <3>2 DEF CreateStaged
  <2>11. ASSUME NEW c \in Calls, RenameStaged(c) PROVE Types'
    <3>1. FilesOK' /\ \A q \in Actors : pc[q] = "write" => files'[Staging(q)] = files[Staging(q)]
      <4>1. CASE Movable(c) /\ Moved(c)
        BY <4>1, <2>11, MovedOK DEF Movable, Held, IsOpen, RenameStaged
      <4>2. CASE UNCHANGED files
        BY <4>2 DEF FilesOK
      <4> QED
        BY <2>11, <4>1, <4>2 DEF RenameStaged
    <3> QED
      BY <2>11, <3>1 DEF RenameStaged, Disturb, RestOK, OpenInv
  <2>12. ASSUME NEW c \in Calls, DeleteStaged(c) PROVE Types'
    <3>1. FilesOK' /\ \A q \in Actors : pc[q] = "write" => files'[Staging(q)] = files[Staging(q)]
      BY <2>12, RemovedOK DEF DeleteStaged, Held, IsOpen
    <3> QED
      BY <2>12, <3>1 DEF DeleteStaged, End, RestOK, OpenInv
  <2>13. ASSUME NEW c \in Calls, StartProcess(c) PROVE Types'
    BY <2>13 DEF StartProcess, End, FilesOK, RestOK, OpenInv
  <2>14. CASE AppDies \/ \E c \in Calls : HandOff(c)
    BY <2>14, GoneLeaves DEF AppDies, HandOff, RestOK, FilesOK
  <2>15. ASSUME NEW b \in Builds, Upgrade(b) PROVE Types'
    BY <2>15, GoneLeaves DEF Upgrade, RestOK, FilesOK
  <2>16. CASE StartApp \/ ManagerExits \/ UNCHANGED vars
    BY <2>16 DEF StartApp, ManagerExits, vars, FilesOK, RestOK, OpenInv
  <2> QED
    BY <2>1, <2>2, <2>3, <2>4, <2>5, <2>6, <2>7, <2>8, <2>9, <2>10, <2>11, <2>12, <2>13,
       <2>14, <2>15, <2>16 DEF Next, ManagerStep, CallStep
<1> QED
  BY <1>1, <1>2, PTL DEF Spec

\* Theorem for TypeOK: every variable keeps its type, and no staged file is
\* longer than the build it is of.
THEOREM TypeCorrect == Spec => []TypeOK
<1>1. Types => TypeOK
  BY DEF Types, FilesOK, RestOK, TypeOK
<1> QED
  BY <1>1, TypesInductive, PTL

-----------------------------------------------------------------------------
\* Whether a call that warns met something: it fails undisturbed only when
\* nothing holds the staged file it has written.
HealInv ==
  /\ warned \subseteq disturbed
  /\ \A c \in Calls :
       /\ pc[c] = "delete" => c \in disturbed
       /\ pc[c] \notin {"off", "handOff"} /\ running => c \in disturbed
       /\ \A d \in Calls \ {c} : pc[c] # "off" /\ pc[d] # "off" => c \in disturbed
       /\ pc[c] = "rename" /\ c \notin disturbed => files["new"] # None

LEMMA ManagersKeepNew ==
  ASSUME FilesOK, NEW m \in Managers,
         Create(m) \/ WritePortion(m) \/ Moved(m) \/ Removed(m) \/ UNCHANGED files
  PROVE  files'["new"] = files["new"]
<1>1. Staging(m) = "tmp"
  BY DEF Staging
<1> QED
  BY <1>1 DEF FilesOK, Create, WritePortion, Moved, Removed

\* Theorem for SelfHeals: a call warns only when it met a mishap, another call
\* or a running manager, whatever was left behind.
THEOREM SelfHealsHolds == Spec => []SelfHeals
<1>1. Init => HealInv
  <2> SUFFICES ASSUME Init PROVE HealInv
    OBVIOUS
  <2>1. running = FALSE /\ warned = {} /\ \A c \in Calls : pc[c] = "off"
    BY DEF Init, Actors
  <2> QED
    BY <2>1 DEF HealInv
<1>2. Types /\ HealInv /\ [Next]_vars => HealInv'
  <2> SUFFICES ASSUME Types, HealInv, [Next]_vars PROVE HealInv'
    OBVIOUS
  <2>0. FilesOK /\ RestOK /\ OpenInv
    BY DEF Types
  <2>a. \A p \in Actors : Staging(p) = IF p \in Managers THEN "tmp" ELSE "new"
    BY DEF Staging
  <2>b. \A c \in Calls : c \in Actors /\ c \notin Managers /\ Staging(c) = "new"
    BY ActorAssumption DEF Actors, Staging
  <2>c. pc \in [Actors -> {"off", "match", "usable", "create", "write", "rename",
                           "remove", "delete", "launch", "handOff"}]
    BY <2>0 DEF RestOK
  <2> USE <2>b, <2>c DEF Goto, station, call, history
  <2>1. ASSUME NEW m \in Managers, ExtractManager(m) \/ ManagerStep(m) PROVE HealInv'
    <3>1. /\ UNCHANGED <<running, warned, disturbed>>
          /\ \A c \in Calls : pc'[c] = pc[c]
          /\ Create(m) \/ WritePortion(m) \/ Moved(m) \/ Removed(m) \/ UNCHANGED files
      BY <2>1 DEF ExtractManager, ManagerStep, CreateTemp, CopyPortion, CopyFails, RenameTemp,
                  RemoveTemp, WritePortion
    <3>2. files'["new"] = files["new"]
      BY <2>0, <3>1, ManagersKeepNew
    <3> QED
      BY <3>1, <3>2 DEF HealInv
  <2>2. ASSUME NEW who, Gone(who), who = Calls \/ who = Actors \/ who \cap Calls = {},
               UNCHANGED <<files, running>>
        PROVE HealInv'
    BY <2>2 DEF Gone, HealInv, Actors
  <2>3. ASSUME NEW c \in Calls, Press(c) PROVE HealInv'
    <3>1. /\ pc[c] = "off" /\ pc' = [pc EXCEPT ![c] = "match"]
          /\ UNCHANGED <<files, running, warned>>
          /\ disturbed \subseteq disturbed'
          /\ \A d \in Calls \ {c} : pc[d] # "off" => d \in disturbed'
          /\ running \/ (\E d \in Calls \ {c} : pc[d] # "off") => c \in disturbed'
      BY <2>3 DEF Press, Free
    <3> QED
      BY <3>1 DEF HealInv
  <2>4. ASSUME NEW c \in Calls, MatchesBundle(c) \/ HasUsableBinary(c) PROVE HealInv'
    BY <2>4 DEF MatchesBundle, HasUsableBinary, HealInv
  <2>5. ASSUME NEW c \in Calls, CreateStaged(c) PROVE HealInv'
    BY <2>0, <2>5 DEF CreateStaged, Create, Disturb, HealInv, FilesOK
  <2>6. ASSUME NEW c \in Calls, WriteStaged(c) PROVE HealInv'
    BY <2>0, <2>6, PortionWritten, PortionCounted DEF WriteStaged, HealInv
  <2>7. ASSUME NEW c \in Calls, WriteFails(c) PROVE HealInv'
    BY <2>7 DEF WriteFails, Disturb, HealInv
  <2>8. ASSUME NEW c \in Calls, RenameStaged(c) PROVE HealInv'
    <3>1. CASE Moved(c) /\ Goto(c, "launch") /\ UNCHANGED disturbed
      BY <2>0, <2>8, <3>1 DEF RenameStaged, HealInv
    <3>2. CASE ~Movable(c) /\ Goto(c, "delete") /\ UNCHANGED <<files, disturbed>>
      <4>1. Held(c) => \E d \in Calls \ {c} : pc[d] # "off"
        BY <2>a DEF Held, IsOpen, Actors
      <4>2. c \in disturbed
        BY <2>8, <3>2, <4>1 DEF RenameStaged, Movable, HealInv
      <4> QED
        BY <2>8, <3>2, <4>2 DEF RenameStaged, HealInv
    <3>3. CASE Goto(c, "delete") /\ Disturb(c) /\ UNCHANGED files
      BY <2>8, <3>3 DEF RenameStaged, Disturb, HealInv
    <3> QED
      BY <2>8, <3>1, <3>2, <3>3 DEF RenameStaged
  <2>9. ASSUME NEW c \in Calls, DeleteStaged(c) PROVE HealInv'
    BY <2>9, <2>0 DEF DeleteStaged, End, HealInv, Removed, FilesOK
  <2>10. ASSUME NEW c \in Calls, StartProcess(c) PROVE HealInv'
    BY <2>10 DEF StartProcess, End, HealInv
  <2>11. CASE StartApp \/ ManagerExits \/ UNCHANGED vars
    BY <2>11 DEF StartApp, ManagerExits, vars, HealInv
  <2>12. CASE AppDies \/ \E c \in Calls : HandOff(c)
    BY <2>2, <2>12 DEF AppDies, HandOff
  <2>13. ASSUME NEW b \in Builds, Upgrade(b) PROVE HealInv'
    BY <2>2, <2>13 DEF Upgrade
  <2>14. ASSUME NEW m \in Managers, ManagerDies(m) PROVE HealInv'
    BY <2>2, <2>14, ActorAssumption DEF ManagerDies
  <2> QED
    BY <2>1, <2>3, <2>4, <2>5, <2>6, <2>7, <2>8, <2>9, <2>10, <2>11, <2>12, <2>13, <2>14
       DEF Next, CallStep
<1>3. HealInv => SelfHeals
  BY DEF HealInv, SelfHeals
<1> QED
  BY <1>1, <1>2, <1>3, TypesInductive, PTL DEF Spec

-----------------------------------------------------------------------------
\* Somebody is left to remove the temporary file.
TempInv ==
  \/ files["tmp"] = None \/ killed \/ "delete" \in Mishaps
  \/ \E m \in Managers : pc[m] \in {"write", "rename", "remove"}

\* Theorem for TempIsRemoved: when no manager is copying, only one that was
\* killed can have left its temporary file, or a scanner that held it.
THEOREM TempIsRemovedHolds == Spec => []TempIsRemoved
<1>1. Init => TempInv
  BY DEF Init, TempInv
<1>2. Types /\ TempInv /\ [Next]_vars => TempInv'
  <2> SUFFICES ASSUME Types, TempInv, [Next]_vars PROVE TempInv'
    OBVIOUS
  <2>0. FilesOK /\ RestOK /\ OpenInv
    BY DEF Types
  <2>a. \A p \in Actors : p \in Managers <=> Staging(p) = "tmp"
    BY DEF Staging
  <2>c. pc \in [Actors -> {"off", "match", "usable", "create", "write", "rename",
                           "remove", "delete", "launch", "handOff"}]
    BY <2>0 DEF RestOK
  <2>d. \A m \in Managers : m \in Actors /\ m \notin Calls
    BY ActorAssumption DEF Actors
  <2> USE <2>a, <2>c, <2>d DEF Goto, station, call, history
  <2>1. ASSUME NEW m \in Managers, ExtractManager(m) PROVE TempInv'
    BY <2>1 DEF ExtractManager, Free, TempInv
  <2>2. ASSUME NEW m \in Managers, CreateTemp(m) PROVE TempInv'
    BY <2>2 DEF CreateTemp, TempInv
  <2>3. ASSUME NEW m \in Managers, CopyPortion(m) PROVE TempInv'
    BY <2>0, <2>3, PortionCounted DEF CopyPortion, TempInv
  <2>4. ASSUME NEW m \in Managers, CopyFails(m) \/ RenameTemp(m) PROVE TempInv'
    BY <2>4 DEF CopyFails, RenameTemp, TempInv
  <2>5. ASSUME NEW m \in Managers, RemoveTemp(m) PROVE TempInv'
    <3>1. CASE Held(m)
      <4>1. PICK q \in Actors \ {m} : Staging(q) = Staging(m) /\ pc[q] = "write"
        BY <3>1 DEF Held, IsOpen
      <4>2. q \in Managers /\ pc'[q] = "write"
        BY <2>5, <4>1 DEF RemoveTemp
      <4> QED
        BY <4>2 DEF TempInv
    <3>2. CASE files' = [files EXCEPT ![Staging(m)] = None]
      BY <2>0, <3>2 DEF TempInv, FilesOK
    <3>3. CASE "delete" \in Mishaps
      BY <3>3 DEF TempInv
    <3> QED
      BY <2>5, <3>1, <3>2, <3>3 DEF RemoveTemp, Removed
  <2>6. ASSUME NEW who, Gone(who), UNCHANGED files PROVE TempInv'
    <3>1. killed' = (killed \/ \E p \in who \cap Managers : pc[p] # "off")
      BY <2>6, Zenon DEF Gone
    <3>2. \A q \in Actors : pc'[q] = IF q \in who THEN "off" ELSE pc[q]
      BY <2>6 DEF Gone
    <3>3. CASE killed'
      BY <3>3 DEF TempInv
    <3>4. CASE ~killed'
      <4>1. ~killed /\ \A p \in who \cap Managers : pc[p] = "off"
        BY <3>1, <3>4, Zenon
      <4> QED
        BY <2>6, <3>2, <4>1 DEF TempInv
    <3> QED
      BY <3>3, <3>4
  <2>7. CASE AppDies \/ (\E c \in Calls : HandOff(c)) \/ (\E m \in Managers : ManagerDies(m))
             \/ \E b \in Builds : Upgrade(b)
    BY <2>6, <2>7 DEF AppDies, HandOff, ManagerDies, Upgrade
  <2>8. ASSUME NEW c \in Calls, Press(c) \/ CallStep(c), ~HandOff(c) PROVE TempInv'
    <3>1. /\ files'["tmp"] = files["tmp"] /\ killed' = killed
          /\ \A m \in Managers : pc'[m] = pc[m]
      <4>1. Staging(c) = "new"
        BY <2>8 DEF Staging
      <4> QED
        BY <2>0, <2>8, <4>1 DEF Press, CallStep, MatchesBundle, HasUsableBinary, CreateStaged, WriteStaged,
          WriteFails, RenameStaged, DeleteStaged, StartProcess, End, Create, WritePortion, Moved,
          Removed, FilesOK
    <3> QED
      BY <3>1, Zenon DEF TempInv
  <2>9. CASE StartApp \/ ManagerExits \/ UNCHANGED vars
    BY <2>9 DEF StartApp, ManagerExits, vars, TempInv
  <2> QED
    BY <2>1, <2>2, <2>3, <2>4, <2>5, <2>7, <2>8, <2>9 DEF Next, ManagerStep
<1>3. TempInv => TempIsRemoved
  BY DEF TempInv, TempIsRemoved
<1> QED
  BY <1>1, <1>2, <1>3, TypesInductive, PTL DEF Spec

-----------------------------------------------------------------------------
\* Who has staged a copy, or is still at it.
AtWork(p) == pc[p] \in {"write", "rename"}

\* Nobody has met another on a staged file.
Sole ==
  clash = "no" => \A p, q \in Actors : Staging(p) = Staging(q) /\ AtWork(p) /\ AtWork(q) => p = q

\* What a staged file lacks, one who has it open is still to write, however
\* many have truncated it: all of them write the same.
Covered ==
  \A p \in Actors : AtWork(p) /\ files[Staging(p)] # None =>
    /\ files[Staging(p)].build = package
    /\ \A i \in 1..Size[package] :
         \/ i \in files[Staging(p)].has
         \/ \E q \in Actors : Staging(q) = Staging(p) /\ pc[q] = "write" /\ at[q] < i

WholeInv ==
  clash # "torn" =>
    /\ Sole /\ Covered
    /\ Dest # None => IsWhole(Dest)
    /\ \A c \in Calls : pc[c] \in {"launch", "handOff"} /\ c \notin warned => Dest = Whole(package)

\* What is moved into its place is all of the package's build.
LEMMA MovedIsWhole ==
  ASSUME Types, Covered, NEW p \in Actors, pc[p] = "rename", Movable(p)
  PROVE  files[Staging(p)] = Whole(package)
<1> DEFINE file == files[Staging(p)]
<1>1. /\ file \in [build : Builds, has : SUBSET Nat] /\ file.has \subseteq 1..Size[file.build]
      /\ file # None
  BY StagingIsName DEF Types, FilesOK, Movable
<1>2. /\ file.build = package
      /\ \A i \in 1..Size[package] :
           \/ i \in file.has
           \/ \E q \in Actors : Staging(q) = Staging(p) /\ pc[q] = "write" /\ at[q] < i
  BY <1>1 DEF Covered, AtWork
<1>3. \A q \in Actors : ~(Staging(q) = Staging(p) /\ pc[q] = "write")
  BY DEF Movable, Held, IsOpen
<1>4. file.has = 1..Size[package]
  BY <1>1, <1>2, <1>3
<1> QED
  BY <1>1, <1>2, <1>4 DEF Whole

\* A file that is created anew is all of it still to be written.
LEMMA CreateKeepsCover ==
  ASSUME Types, Sole, Covered, clash # "torn",
         NEW p \in Actors, pc[p] = "create", Create(p), pc' = [pc EXCEPT ![p] = "write"],
         UNCHANGED <<package, at>>
  PROVE  Sole' /\ Covered' /\ files'["dest"] = files["dest"]
<1>0. /\ pc \in [Actors -> {"off", "match", "usable", "create", "write", "rename",
                            "remove", "delete", "launch", "handOff"}]
      /\ FilesOK /\ at[p] = 0
  BY DEF Types, RestOK, OpenInv
<1>1. Sole'
  <2> SUFFICES ASSUME clash' = "no", NEW q \in Actors, NEW r \in Actors,
                      Staging(q) = Staging(r), AtWork(q)', AtWork(r)'
               PROVE  q = r
    BY DEF Sole, Staging
  <2>1. clash = "no" /\ \A d \in Actors \ {p} : Staging(d) = Staging(p) => ~AtWork(d)
    BY DEF Create, AtWork
  <2> QED
    BY <1>0, <2>1 DEF Sole, AtWork
<1>2. Covered'
  <2> SUFFICES ASSUME NEW q \in Actors, AtWork(q)', files'[Staging(q)] # None
               PROVE  /\ files'[Staging(q)].build = package
                      /\ \A i \in 1..Size[package] :
                           \/ i \in files'[Staging(q)].has
                           \/ \E d \in Actors : Staging(d) = Staging(q) /\ pc'[d] = "write" /\ at[d] < i
    BY DEF Covered, Staging
  <2>1. CASE Staging(q) = Staging(p)
    <3>1. files'[Staging(q)] = [build |-> package, has |-> {}]
      BY <1>0, <2>1, StagingIsName DEF Create, FilesOK
    <3>2. \A i \in 1..Size[package] : at[p] < i
      BY <1>0
    <3> QED
      BY <1>0, <2>1, <3>1, <3>2
  <2>2. CASE Staging(q) # Staging(p)
    <3>1. files'[Staging(q)] = files[Staging(q)] /\ q # p
      BY <1>0, <2>2, StagingIsName DEF Create, FilesOK
    <3>2. AtWork(q)
      BY <1>0, <3>1 DEF AtWork
    <3>3. \A d \in Actors : Staging(d) = Staging(q) /\ pc[d] = "write" => pc'[d] = "write"
      BY <1>0
    <3> QED
      BY <3>1, <3>2, <3>3 DEF Covered
  <2> QED
    BY <2>1, <2>2
<1> QED
  BY <1>0, <1>1, <1>2, StagingIsName DEF Create, FilesOK

LEMMA PortionKeepsCover ==
  ASSUME Types, Sole, Covered,
         NEW p \in Actors, pc[p] = "write", WritePortion(p), UNCHANGED <<package, clash>>
  PROVE  Sole' /\ Covered' /\ files'["dest"] = files["dest"]
<1>0. /\ FilesOK /\ RestOK /\ OpenInv /\ Size[package] \in Nat /\ at \in [Actors -> Nat]
  BY SizeAssumption DEF Types, RestOK
<1>1. /\ pc'[p] \in {"write", "rename"}
      /\ pc'[p] = "write" => at'[p] = at[p] + 1
      /\ pc'[p] = "rename" => at[p] + 1 = Size[package]
      /\ \A q \in Actors \ {p} : pc'[q] = pc[q] /\ at'[q] = at[q]
  BY <1>0, PortionCounted
<1>2. /\ files'[Staging(p)].build = package
      /\ files'[Staging(p)].has = files[Staging(p)].has \cup {at[p] + 1}
      /\ \A f \in {"dest", "tmp", "new"} \ {Staging(p)} : files'[f] = files[f]
      /\ files[Staging(p)] # None
  BY <1>0, PortionWritten DEF OpenInv
<1>3. \A q \in Actors : AtWork(q)' = AtWork(q)
  BY <1>1 DEF AtWork
<1>4. Sole'
  BY <1>3 DEF Sole, Staging
<1>5. Covered'
  <2> SUFFICES ASSUME NEW q \in Actors, AtWork(q), files'[Staging(q)] # None
               PROVE  /\ files'[Staging(q)].build = package
                      /\ \A i \in 1..Size[package] :
                           \/ i \in files'[Staging(q)].has
                           \/ \E d \in Actors : Staging(d) = Staging(q) /\ pc'[d] = "write" /\ at'[d] < i
    BY <1>3 DEF Covered, Staging
  <2>1. files[Staging(q)] # None
    BY <1>2, StagingIsName
  <2>2. /\ files[Staging(q)].build = package
        /\ files'[Staging(q)].build = package
        /\ files[Staging(q)].has \subseteq files'[Staging(q)].has
        /\ Staging(q) = Staging(p) => at[p] + 1 \in files'[Staging(q)].has
    BY <1>2, <2>1, StagingIsName DEF Covered
  <2>3. ASSUME NEW i \in 1..Size[package], i \notin files'[Staging(q)].has
        PROVE  \E d \in Actors : Staging(d) = Staging(q) /\ pc'[d] = "write" /\ at'[d] < i
    <3>1. PICK d \in Actors : Staging(d) = Staging(q) /\ pc[d] = "write" /\ at[d] < i
      BY <2>1, <2>2, <2>3 DEF Covered
    <3>2. CASE d = p
      <4>1. i # at[p] + 1
        BY <2>2, <2>3, <3>1, <3>2
      <4>2. pc'[p] = "write" /\ at'[p] < i
        BY <1>0, <1>1, <3>1, <3>2, <4>1
      <4> QED
        BY <3>1, <3>2, <4>2
    <3>3. CASE d # p
      BY <1>1, <3>1, <3>3
    <3> QED
      BY <3>2, <3>3
  <2> QED
    BY <2>2, <2>3
<1> QED
  BY <1>2, <1>4, <1>5, StagingIsName

\* Whoever is stopped with a file open was alone with it, or the file is torn.
LEMMA StopKeepsCover ==
  ASSUME Types, Sole, Covered, NEW who, Stopped(who), clash' # "torn",
         \A q \in Actors : IF q \in who THEN ~AtWork(q)' ELSE pc'[q] = pc[q],
         UNCHANGED <<files, package>>
  PROVE  Sole' /\ Covered'
<1>1. \A q \in Actors \ who : at'[q] = at[q]
  BY StoppedCounted DEF Types
<1>2. clash' \in {clash, "torn"} /\ ~(clash = "met" /\ \E p \in who : IsOpen(p))
  BY DEF Stopped
<1>3. Sole'
  BY <1>2 DEF Sole, AtWork, Staging
<1>4. ASSUME NEW q \in Actors, AtWork(q)', NEW d \in Actors, Staging(d) = Staging(q), pc[d] = "write"
      PROVE  d \notin who
  <2> SUFFICES ASSUME d \in who PROVE FALSE
    OBVIOUS
  <2>1. clash = "no"
    BY <1>2, <1>4 DEF IsOpen, Types, RestOK
  <2>2. q \notin who /\ AtWork(q) /\ AtWork(d)
    BY <1>4 DEF AtWork
  <2> QED
    BY <1>4, <2>1, <2>2 DEF Sole
<1>5. Covered'
  <2> SUFFICES ASSUME NEW q \in Actors, AtWork(q)', files[Staging(q)] # None
               PROVE  /\ files[Staging(q)].build = package
                      /\ \A i \in 1..Size[package] :
                           \/ i \in files[Staging(q)].has
                           \/ \E d \in Actors : Staging(d) = Staging(q) /\ pc'[d] = "write" /\ at'[d] < i
    BY DEF Covered, Staging
  <2>1. AtWork(q)
    BY DEF AtWork
  <2>2. /\ files[Staging(q)].build = package
        /\ \A i \in 1..Size[package] :
             \/ i \in files[Staging(q)].has
             \/ \E d \in Actors : Staging(d) = Staging(q) /\ pc[d] = "write" /\ at[d] < i
    BY <2>1 DEF Covered
  <2>3. \A d \in Actors : Staging(d) = Staging(q) /\ pc[d] = "write" => pc'[d] = "write" /\ at'[d] = at[d]
    BY <1>1, <1>4
  <2> QED
    BY <2>2, <2>3
<1> QED
  BY <1>3, <1>5

\* Nobody else notices when somebody who has nothing open goes on, or takes the
\* staged file away.
LEMMA OthersKeepCover ==
  ASSUME Types, Sole, Covered, NEW p \in Actors, pc[p] # "write", ~AtWork(p)',
         \A q \in Actors \ {p} : pc'[q] = pc[q],
         \A q \in Actors : files'[Staging(q)] \in {files[Staging(q)], None},
         UNCHANGED <<package, at, clash>>
  PROVE  Sole' /\ Covered'
<1>1. \A q \in Actors : AtWork(q)' => AtWork(q) /\ q # p
  BY DEF AtWork
<1>2. Sole'
  BY <1>1 DEF Sole, Staging
<1>3. Covered'
  <2> SUFFICES ASSUME NEW q \in Actors, AtWork(q)', files'[Staging(q)] # None
               PROVE  /\ files'[Staging(q)].build = package
                      /\ \A i \in 1..Size[package] :
                           \/ i \in files'[Staging(q)].has
                           \/ \E d \in Actors : Staging(d) = Staging(q) /\ pc'[d] = "write" /\ at[d] < i
    BY DEF Covered, Staging
  <2>1. files'[Staging(q)] = files[Staging(q)] /\ AtWork(q)
    BY <1>1
  <2>2. \A d \in Actors : pc[d] = "write" => pc'[d] = "write"
    OBVIOUS
  <2> QED
    BY <2>1, <2>2 DEF Covered
<1> QED
  BY <1>2, <1>3

\* WholeInv is inductive.
LEMMA WholeInductive == Spec => []WholeInv
<1>1. Init => WholeInv
  <2> SUFFICES ASSUME Init PROVE WholeInv
    OBVIOUS
  <2>1. \A p \in Actors : pc[p] = "off"
    BY DEF Init
  <2>2. Dest # None => IsWhole(Dest)
    BY DEF Init, Dest, IsWhole, Whole
  <2> QED
    BY <2>1, <2>2 DEF WholeInv, Sole, Covered, AtWork, Actors
<1>2. Types /\ WholeInv /\ [Next]_vars => WholeInv'
  <2> SUFFICES ASSUME Types, WholeInv, [Next]_vars, clash' # "torn"
               PROVE  /\ Sole' /\ Covered'
                      /\ Dest' # None => IsWhole(Dest)'
                      /\ \A c \in Calls : pc'[c] \in {"launch", "handOff"} /\ c \notin warned' =>
                           Dest' = Whole(package')
    BY DEF WholeInv, Whole
  <2> DEFINE Goal == /\ Sole' /\ Covered'
                     /\ Dest' # None => IsWhole(Dest)'
                     /\ \A c \in Calls : pc'[c] \in {"launch", "handOff"} /\ c \notin warned' =>
                          Dest' = Whole(package')
  <2>0. /\ FilesOK /\ RestOK /\ OpenInv
        /\ pc \in [Actors -> {"off", "match", "usable", "create", "write", "rename",
                              "remove", "delete", "launch", "handOff"}]
        /\ \A c \in Calls : c \in Actors /\ c \notin Managers
        /\ \A m \in Managers : m \in Actors /\ m \notin Calls
    BY ActorAssumption DEF Types, RestOK, Actors
  <2> HIDE DEF Goal
  <2> USE <2>0 DEF Goto, station, call, history
  <2>a. clash # "torn" => /\ Sole /\ Covered
                          /\ Dest # None => IsWhole(Dest)
                          /\ \A c \in Calls : pc[c] \in {"launch", "handOff"} /\ c \notin warned =>
                               Dest = Whole(package)
    BY DEF WholeInv
  <2>b. ASSUME clash # "torn", Sole', Covered', files'["dest"] = files["dest"], UNCHANGED package,
               \A c \in Calls : pc'[c] \in {"launch", "handOff"} /\ c \notin warned' =>
                 (pc[c] \in {"launch", "handOff"} /\ c \notin warned) \/ Dest = Whole(package)
        PROVE  Goal
    BY <2>a, <2>b DEF Goal, Dest, IsWhole, Whole
  <2>c. ASSUME NEW p \in Actors, pc[p] # "write", ~AtWork(p)',
               \A q \in Actors \ {p} : pc'[q] = pc[q],
               \A q \in Actors : files'[Staging(q)] \in {files[Staging(q)], None},
               files'["dest"] = files["dest"],
               UNCHANGED <<package, at, clash>>,
               \A c \in Calls \ {p} : c \notin warned' => c \notin warned,
               p \in Calls /\ pc'[p] \in {"launch", "handOff"} /\ p \notin warned' =>
                 (pc[p] \in {"launch", "handOff"} /\ p \notin warned) \/ Dest = Whole(package)
        PROVE  Goal
    <3>1. Sole' /\ Covered'
      BY <2>a, <2>c, OthersKeepCover
    <3> QED
      BY <2>b, <2>c, <3>1
  <2>d. ASSUME NEW who, Stopped(who), UNCHANGED <<files, package>>,
               \A q \in Actors : IF q \in who THEN pc'[q] \in {"off", "remove", "delete"} ELSE pc'[q] = pc[q],
               \A c \in Calls \ who : c \notin warned' => c \notin warned
        PROVE  Goal
    <3>1. clash # "torn"
      BY <2>d DEF Stopped
    <3>2. Sole' /\ Covered'
      BY <2>a, <2>d, <3>1, StopKeepsCover DEF AtWork
    <3> QED
      BY <2>b, <2>d, <3>1, <3>2
  <2>1. ASSUME NEW m \in Managers, ExtractManager(m) PROVE Goal
    BY <2>1, <2>c DEF ExtractManager, Free, AtWork
  <2>2. ASSUME NEW p \in Actors, CreateTemp(p) \/ CreateStaged(p) PROVE Goal
    <3>1. pc[p] = "create" /\ UNCHANGED <<package, at, warned>>
      BY <2>2 DEF CreateTemp, CreateStaged
    <3>2. CASE Create(p) /\ pc' = [pc EXCEPT ![p] = "write"]
      <4>1. clash # "torn"
        BY <3>2 DEF Create
      <4>2. Sole' /\ Covered' /\ files'["dest"] = files["dest"]
        BY <2>a, <3>1, <3>2, <4>1, CreateKeepsCover
      <4> QED
        BY <2>b, <3>1, <3>2, <4>1, <4>2
    <3>3. CASE /\ UNCHANGED <<files, clash>>
               /\ pc' = [pc EXCEPT ![p] = "off"] \/ pc' = [pc EXCEPT ![p] = "delete"]
      BY <2>c, <3>1, <3>3 DEF AtWork
    <3> QED
      BY <2>2, <3>2, <3>3 DEF CreateTemp, CreateStaged
  <2>3. ASSUME NEW p \in Actors, CopyPortion(p) \/ WriteStaged(p) PROVE Goal
    <3>1. pc[p] = "write" /\ WritePortion(p) /\ UNCHANGED <<package, clash, warned>>
      BY <2>3 DEF CopyPortion, WriteStaged
    <3>2. Sole' /\ Covered' /\ files'["dest"] = files["dest"]
      BY <2>a, <3>1, PortionKeepsCover
    <3> QED
      BY <2>b, <3>1, <3>2, PortionCounted
  <2>4. ASSUME NEW p \in Actors, CopyFails(p) \/ WriteFails(p) PROVE Goal
    <3>1. /\ Stopped({p}) /\ UNCHANGED <<files, package, warned>>
          /\ pc' = [pc EXCEPT ![p] = "remove"] \/ pc' = [pc EXCEPT ![p] = "delete"]
      BY <2>4 DEF CopyFails, WriteFails
    <3> QED
      BY <2>d, <3>1
  <2>5. ASSUME NEW p \in Actors, pc[p] = "rename", Movable(p), Moved(p),
               NEW step \in {"remove", "launch"}, pc' = [pc EXCEPT ![p] = step],
               UNCHANGED <<package, at, clash, warned>>
        PROVE  Goal
    <3>1. files[Staging(p)] = Whole(package)
      BY <2>a, <2>5, MovedIsWhole
    <3>2. /\ files'["dest"] = Whole(package)
          /\ \A q \in Actors : files'[Staging(q)] \in {files[Staging(q)], None}
      BY <2>5, <3>1, MovedOK
    <3>3. Sole' /\ Covered'
      BY <2>a, <2>5, <3>2, OthersKeepCover DEF AtWork
    <3> QED
      BY <2>5, <3>2, <3>3 DEF Goal, Dest, IsWhole, Whole
  <2>6. ASSUME NEW m \in Managers, RenameTemp(m) PROVE Goal
    BY <2>6, <2>c, <2>5 DEF RenameTemp, AtWork
  <2>7. ASSUME NEW p \in Actors, RemoveTemp(p) \/ DeleteStaged(p) PROVE Goal
    <3>1. /\ files'["dest"] = files["dest"]
          /\ \A q \in Actors : files'[Staging(q)] \in {files[Staging(q)], None}
      BY <2>7, RemovedOK DEF RemoveTemp, DeleteStaged
    <3> QED
      BY <2>7, <2>c, <3>1 DEF RemoveTemp, DeleteStaged, End, AtWork
  <2>8. ASSUME NEW c \in Calls, Press(c) PROVE Goal
    BY <2>8, <2>c DEF Press, Free, AtWork
  <2>9. ASSUME NEW c \in Calls, MatchesBundle(c) \/ HasUsableBinary(c) PROVE Goal
    BY <2>9, <2>c DEF MatchesBundle, HasUsableBinary, AtWork
  <2>10. ASSUME NEW c \in Calls, RenameStaged(c) PROVE Goal
    BY <2>10, <2>c, <2>5 DEF RenameStaged, AtWork
  <2>11. ASSUME NEW c \in Calls, StartProcess(c) PROVE Goal
    BY <2>11, <2>c DEF StartProcess, End, AtWork
  <2>12. ASSUME NEW who, Gone(who), UNCHANGED <<files, package>> PROVE Goal
    BY <2>12, <2>d DEF Gone
  <2>13. ASSUME AppDies \/ (\E c \in Calls : HandOff(c)) \/ \E m \in Managers : ManagerDies(m)
         PROVE  Goal
    BY <2>12, <2>13 DEF AppDies, HandOff, ManagerDies
  <2>14. ASSUME NEW b \in Builds, Upgrade(b) PROVE Goal
    <3>1. clash # "torn" /\ UNCHANGED files /\ \A p \in Actors : pc'[p] = "off"
      BY <2>14 DEF Upgrade, Gone, Stopped
    <3> QED
      BY <2>a, <3>1 DEF Goal, Sole, Covered, AtWork, Dest, IsWhole
  <2>15. ASSUME StartApp \/ ManagerExits \/ UNCHANGED vars PROVE Goal
    <3>1. UNCHANGED <<files, package, pc, at, warned, clash>>
      BY <2>15 DEF StartApp, ManagerExits, vars
    <3>2. Sole' /\ Covered'
      BY <2>a, <3>1 DEF Sole, Covered, AtWork, Staging
    <3> QED
      BY <2>b, <3>1, <3>2
  <2>16. Goal
    BY <2>1, <2>2, <2>3, <2>4, <2>6, <2>7, <2>8, <2>9, <2>10, <2>11, <2>13, <2>14, <2>15
       DEF Next, ManagerStep, CallStep
  <2> QED
    BY <2>16 DEF Goal
<1> QED
  BY <1>1, <1>2, TypesInductive, PTL DEF Spec

\* Theorem for DestIsWhole: the manager in its place is all of some build, unless
\* somebody was stopped while writing a file he shared.
THEOREM DestIsWholeHolds == Spec => []DestIsWhole
<1>1. WholeInv => DestIsWhole
  BY DEF WholeInv, DestIsWhole
<1> QED
  BY <1>1, WholeInductive, PTL

\* Theorem for ChangesAtOnce: what comes into the manager's place is all of the
\* package installed by then, under the same condition.  Only a rename touches
\* that place, and by then the staged file lacks nothing (MovedIsWhole).
THEOREM ChangesAtOnceHolds == Spec => ChangesAtOnce
<1>1. Types /\ WholeInv /\ [Next]_vars
        => (Dest' # Dest => Dest' = Whole(package) \/ clash = "torn")
  <2> SUFFICES ASSUME Types, WholeInv, [Next]_vars, clash # "torn", Dest' # Dest
               PROVE  Dest' = Whole(package)
    OBVIOUS
  <2>1. FilesOK /\ RestOK /\ OpenInv /\ Covered
    BY DEF Types, WholeInv
  <2>2. ASSUME NEW p \in Actors, pc[p] = "rename", Movable(p), Moved(p)
        PROVE  Dest' = Whole(package)
    BY <2>1, <2>2, MovedIsWhole, MovedOK DEF Dest
  <2>3. ASSUME NEW p \in Actors, Create(p) \/ Removed(p) \/ (pc[p] = "write" /\ WritePortion(p))
        PROVE  Dest' = Dest
    BY <2>1, <2>3, RemovedOK, PortionWritten, StagingIsName DEF Create, Dest, FilesOK
  <2>4. ASSUME NEW m \in Managers, ExtractManager(m) \/ ManagerStep(m) \/ ManagerDies(m)
        PROVE  Dest' = Whole(package)
    BY <2>2, <2>3, <2>4 DEF ExtractManager, ManagerStep, CreateTemp, CopyPortion, CopyFails,
       RenameTemp, RemoveTemp, ManagerDies, Dest, Actors
  <2>5. ASSUME NEW c \in Calls, Press(c) \/ CallStep(c) PROVE Dest' = Whole(package)
    BY <2>2, <2>3, <2>5 DEF Press, CallStep, MatchesBundle, HasUsableBinary, CreateStaged,
       WriteStaged, WriteFails, RenameStaged, DeleteStaged, StartProcess, HandOff, Dest, Actors
  <2>6. CASE StartApp \/ ManagerExits \/ AppDies \/ (\E b \in Builds : Upgrade(b)) \/ UNCHANGED vars
    BY <2>6 DEF StartApp, ManagerExits, AppDies, Upgrade, vars, Dest
  <2> QED
    BY <2>4, <2>5, <2>6 DEF Next
<1> QED
  BY <1>1, TypesInductive, WholeInductive, PTL DEF Spec, ChangesAtOnce

\* Theorem for BundledOrWarned: a call that does not warn starts the build the
\* application bundles, under the same condition.
THEOREM BundledOrWarnedHolds == Spec => []BundledOrWarned
<1>1. WholeInv => BundledOrWarned
  BY DEF WholeInv, BundledOrWarned
<1> QED
  BY <1>1, WholeInductive, PTL

-----------------------------------------------------------------------------
(* How long a copy and a call take. *)

\* The steps that may follow on each: one for every portion that is left to be written,
\* and one for the step itself.
Place ==
  [off |-> 0, remove |-> 1, handOff |-> 1, launch |-> 2, delete |-> 3, rename |-> 4,
   write |-> 4, create |-> 5, usable |-> 6, match |-> 7]

Portions(p) ==
  IF pc[p] \in {"match", "usable", "create"} THEN Size[package]
  ELSE IF pc[p] = "write" THEN Size[package] - at[p] ELSE 0

StepsLeft(p) == Place[pc[p]] + Portions(p)

OwnStep(p) == (p \in Managers /\ ManagerStep(p)) \/ (p \in Calls /\ CallStep(p))

LEMMA SizeIsPositive ==
  ASSUME RestOK
  PROVE  Size[package] \in Nat \ {0} /\ \A p \in Actors : at[p] \in 0..Size[package] - 1
BY SizeAssumption DEF RestOK

\* A portion that is written brings the end nearer, ...
LEMMA PortionIsLess ==
  ASSUME RestOK, OpenInv, NEW p \in Actors, pc[p] = "write", WritePortion(p), package' = package
  PROVE  StepsLeft(p)' < StepsLeft(p) /\ StepsLeft(p)' <= StepsLeft(p)
<1>1. Size[package] \in Nat /\ at[p] \in 0..Size[package] - 1
  BY SizeIsPositive
<1>2. \/ pc'[p] = "write" /\ at'[p] = at[p] + 1
      \/ pc'[p] = "rename"
  BY PortionCounted
<1> QED
  BY <1>1, <1>2 DEF StepsLeft, Portions, Place

\* ... and so does every step.
LEMMA StepComesNearer ==
  ASSUME RestOK, OpenInv, NEW p \in Actors, OwnStep(p)
  PROVE  StepsLeft(p)' < StepsLeft(p) /\ StepsLeft(p)' <= StepsLeft(p)
<1> USE SizeIsPositive DEF RestOK, StepsLeft, Portions, Place, Goto, Actors, station, call, history
<1>1. CASE CreateTemp(p)
  BY <1>1 DEF CreateTemp, Create
<1>2. CASE CopyPortion(p)
  <2>1. pc[p] = "write" /\ WritePortion(p) /\ package' = package
    BY <1>2 DEF CopyPortion
  <2> QED
    BY <2>1, PortionIsLess
<1>3. CASE CopyFails(p)
  BY <1>3, StoppedCounted DEF CopyFails
<1>4. CASE RenameTemp(p)
  BY <1>4 DEF RenameTemp
<1>5. CASE RemoveTemp(p)
  BY <1>5 DEF RemoveTemp
<1>6. CASE MatchesBundle(p)
  BY <1>6 DEF MatchesBundle
<1>7. CASE HasUsableBinary(p)
  BY <1>7 DEF HasUsableBinary
<1>8. CASE CreateStaged(p)
  BY <1>8 DEF CreateStaged, Create, Disturb
<1>9. CASE WriteStaged(p)
  <2>1. pc[p] = "write" /\ WritePortion(p) /\ package' = package
    BY <1>9 DEF WriteStaged
  <2> QED
    BY <2>1, PortionIsLess
<1>10. CASE WriteFails(p)
  BY <1>10, StoppedCounted DEF WriteFails, Disturb
<1>11. CASE RenameStaged(p)
  BY <1>11 DEF RenameStaged
<1>12. CASE DeleteStaged(p)
  BY <1>12 DEF DeleteStaged, End
<1>13. CASE StartProcess(p)
  BY <1>13 DEF StartProcess, End
<1>14. CASE p \in Calls /\ HandOff(p)
  BY <1>14, StoppedCounted DEF HandOff, Gone
<1> QED
  BY <1>1, <1>2, <1>3, <1>4, <1>5, <1>6, <1>7, <1>8, <1>9, <1>10,
     <1>11, <1>12, <1>13, <1>14 DEF OwnStep, ManagerStep, CallStep

\* A step of one is felt by no other, unless it ends the application.
LEMMA OthersGoOn ==
  ASSUME RestOK, OpenInv, NEW p \in Actors, OwnStep(p), NEW q \in Actors \ {p}
  PROVE  package' = package /\ ((pc'[q] = pc[q] /\ at'[q] = at[q]) \/ pc'[q] = "off")
<1> USE DEF RestOK, Goto, Actors, station, call, history
<1>1. CASE CreateTemp(p)
  BY <1>1 DEF CreateTemp, Create
<1>2. CASE CopyPortion(p)
  BY <1>2, PortionCounted DEF CopyPortion
<1>3. CASE CopyFails(p)
  BY <1>3, StoppedCounted DEF CopyFails
<1>4. CASE RenameTemp(p)
  BY <1>4 DEF RenameTemp
<1>5. CASE RemoveTemp(p)
  BY <1>5 DEF RemoveTemp
<1>6. CASE MatchesBundle(p)
  BY <1>6 DEF MatchesBundle
<1>7. CASE HasUsableBinary(p)
  BY <1>7 DEF HasUsableBinary
<1>8. CASE CreateStaged(p)
  BY <1>8 DEF CreateStaged, Create, Disturb
<1>9. CASE WriteStaged(p)
  BY <1>9, PortionCounted DEF WriteStaged
<1>10. CASE WriteFails(p)
  BY <1>10, StoppedCounted DEF WriteFails, Disturb
<1>11. CASE RenameStaged(p)
  BY <1>11 DEF RenameStaged
<1>12. CASE DeleteStaged(p)
  BY <1>12 DEF DeleteStaged, End
<1>13. CASE StartProcess(p)
  BY <1>13 DEF StartProcess, End
<1>14. CASE p \in Calls /\ HandOff(p)
  BY <1>14, StoppedCounted DEF HandOff, Gone
<1> QED
  BY <1>1, <1>2, <1>3, <1>4, <1>5, <1>6, <1>7, <1>8, <1>9, <1>10,
     <1>11, <1>12, <1>13, <1>14 DEF OwnStep, ManagerStep, CallStep

\* A press of Update, or a start inside the package, is over within seven steps and one
\* for each portion of the manager: every step brings the end nearer, and nothing the
\* others do, no crash and no upgrade puts it off (startManagerUpdate, ensureExtracted,
\* extractManagerFrom).
THEOREM CopyIsBounded ==
  Spec => /\ [](\A p \in Actors : StepsLeft(p) \in 0..(7 + Size[package]))
          /\ [][\A p \in Actors :
                  /\ OwnStep(p) => StepsLeft(p)' < StepsLeft(p)
                  /\ pc[p] # "off" => StepsLeft(p)' <= StepsLeft(p)]_vars
<1> DEFINE Bounded == \A p \in Actors : StepsLeft(p) \in 0..(7 + Size[package])
           Nearer == \A p \in Actors :
                       /\ OwnStep(p) => StepsLeft(p)' < StepsLeft(p)
                       /\ pc[p] # "off" => StepsLeft(p)' <= StepsLeft(p)
<1>1. Types => Bounded
  BY SizeIsPositive DEF Types, RestOK, StepsLeft, Portions, Place
<1>2. Types /\ [Next]_vars => [Nearer]_vars
  <2> SUFFICES ASSUME Types, Next, NEW q \in Actors
               PROVE  /\ OwnStep(q) => StepsLeft(q)' < StepsLeft(q)
                      /\ pc[q] # "off" => StepsLeft(q)' <= StepsLeft(q)
    BY Zenon
  <2>0. /\ RestOK /\ OpenInv /\ StepsLeft(q) \in Nat
        /\ pc \in [Actors -> {"off", "match", "usable", "create", "write", "rename",
                              "remove", "delete", "launch", "handOff"}]
    BY <1>1, SizeIsPositive DEF Types, RestOK
  <2>1. OwnStep(q) => StepsLeft(q)' < StepsLeft(q)
    BY <2>0, StepComesNearer
  <2>2. ASSUME package' = package, pc'[q] = pc[q], at'[q] = at[q]
        PROVE  StepsLeft(q)' <= StepsLeft(q)
    BY <2>0, <2>2 DEF StepsLeft, Portions
  <2>3. ASSUME pc'[q] = "off" PROVE StepsLeft(q)' <= StepsLeft(q)
    BY <2>0, <2>3 DEF StepsLeft, Portions, Place
  <2>4. ASSUME NEW p \in Actors, OwnStep(p) PROVE StepsLeft(q)' <= StepsLeft(q)
    <3>1. CASE p = q
      BY <2>0, <2>4, <3>1, StepComesNearer
    <3>2. CASE p # q
      BY <2>0, <2>2, <2>3, <2>4, <3>2, OthersGoOn
    <3> QED
      BY <3>1, <3>2
  <2>5. ASSUME pc[q] # "off", NEW m \in Managers, ExtractManager(m)
        PROVE StepsLeft(q)' <= StepsLeft(q)
    BY <2>0, <2>2, <2>5 DEF ExtractManager, Free, Goto, station
  <2>6. ASSUME pc[q] # "off", NEW c \in Calls, Press(c) PROVE StepsLeft(q)' <= StepsLeft(q)
    BY <2>0, <2>2, <2>6 DEF Press, Free, Goto, station
  <2>7. ASSUME NEW who, package' = package \/ who = Actors, Gone(who)
        PROVE  StepsLeft(q)' <= StepsLeft(q)
    <3>1. pc'[q] = IF q \in who THEN "off" ELSE pc[q]
      BY <2>7 DEF Gone
    <3>2. at'[q] = IF q \in who THEN 0 ELSE at[q]
      BY <2>0, <2>7, StoppedCounted DEF Gone
    <3> QED
      BY <2>2, <2>3, <2>7, <3>1, <3>2
  <2>8. ASSUME NEW m \in Managers, ManagerDies(m) PROVE StepsLeft(q)' <= StepsLeft(q)
    BY <2>7, <2>8 DEF ManagerDies, station
  <2>9. ASSUME AppDies PROVE StepsLeft(q)' <= StepsLeft(q)
    BY <2>7, <2>9 DEF AppDies
  <2>10. ASSUME NEW b \in Builds, Upgrade(b) PROVE StepsLeft(q)' <= StepsLeft(q)
    BY <2>7, <2>10 DEF Upgrade
  <2>11. ASSUME StartApp \/ ManagerExits PROVE StepsLeft(q)' <= StepsLeft(q)
    BY <2>2, <2>11 DEF StartApp, ManagerExits
  <2>12. \A m \in Managers : m \in Actors
    BY DEF Actors
  <2>13. \A c \in Calls : c \in Actors
    BY DEF Actors
  <2> QED
    BY <2>1, <2>4, <2>5, <2>6, <2>8, <2>9, <2>10, <2>11, <2>12, <2>13, Zenon DEF Next, OwnStep
<1> QED
  BY <1>1, <1>2, TypesInductive, PTL DEF Spec

=============================================================================
