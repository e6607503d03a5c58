--------------------------- MODULE PRPicker_proofs ---------------------------
(***************************************************************************)
(* Proofs about PRPicker, for any pull requests, workflow runs, number of  *)
(* jobs and windows, and mishaps.                                          *)
(***************************************************************************)
EXTENDS PRPicker, TLAPS

-----------------------------------------------------------------------------
(* What a step of a job does to the jobs. *)

JobRecords ==
  [pc : Steps \cup {"idle"}, art : Artifacts \cup {None}, pr : PRs \cup {None},
   mount : {"", "/Volumes/CentroidX"}, result : {"ok", "error"}, for : 0..MaxWindows]

\* The part of the type the other proofs need.
JobsThere == job \in [Jobs -> JobRecords] /\ windows \in 0..MaxWindows

\* An idle job is a job.
LEMMA IdleType == Idle \in JobRecords /\ Idle.pc = "idle"
BY BoundsAssumption DEF JobRecords, Idle

\* What the step of a job may turn it into.
Moves(j) ==
  {Idle} \cup
  {r \in JobRecords : /\ Awaited(j) /\ r.pc \in Steps
                      /\ r.for = job[j].for /\ r.art = job[j].art /\ r.pr = job[j].pr}

\* Then, ThenFail and their like turn a job into one of these.
LEMMA ThenShape ==
  ASSUME JobsThere, NEW j \in Jobs, NEW step \in Steps, Then(j, step) \/ ThenFail(j, step)
  PROVE  \E r \in Moves(j) : job' = [job EXCEPT ![j] = r]
<1>1. job[j] \in JobRecords
  BY DEF JobsThere
<1>2. CASE ~Awaited(j)
  BY <1>2 DEF Then, ThenFail, Moves
<1>3. CASE Awaited(j)
  <2>1. PICK r \in {[job[j] EXCEPT !.pc = step], [job[j] EXCEPT !.pc = step, !.result = "error"]} :
          job' = [job EXCEPT ![j] = r]
    BY <1>3 DEF Then, ThenFail
  <2>2. r \in JobRecords /\ r.pc = step /\ r.for = job[j].for /\ r.art = job[j].art /\ r.pr = job[j].pr
    <3>1. CASE r = [job[j] EXCEPT !.pc = step]
      BY <1>1, <3>1 DEF JobRecords
    <3>2. CASE r = [job[j] EXCEPT !.pc = step, !.result = "error"]
      BY <1>1, <3>2 DEF JobRecords
    <3> QED
      BY <2>1, <3>1, <3>2
  <2> QED
    BY <1>3, <2>1, <2>2 DEF Moves
<1> QED
  BY <1>2, <1>3

\* A step of a job turns it into one of these, and ends its busy time only at
\* the very end.
LEMMA StepShape ==
  ASSUME JobsThere, NEW j \in Jobs, JobStep(j)
  PROVE  /\ UNCHANGED <<os, mode, windows, loading, prs, selected>>
         /\ job[j].pc # "idle"
         /\ \E r \in Moves(j) : job' = [job EXCEPT ![j] = r]
         /\ installing' = installing \/ (job[j].pc = "clear" /\ job' = [job EXCEPT ![j] = Idle])
         /\ mode = "prs" /\ err => err'
<1>0. job[j] \in JobRecords
  BY DEF JobsThere
<1>1. InstallStep \in Steps /\ Installed \in Steps /\ {"report", "clear", "cp", "rm", "detach"} \subseteq Steps
  BY DEF InstallStep, Installed, Steps, Commands
<1>2. CASE Download(j) \/ Package(j) \/ RemoveOldBundle(j) \/ CopyBundle(j) \/ Detach(j)
             \/ Remove(j) \/ Launch(j) \/ Report(j)
  <2>1. PICK step \in Steps : Then(j, step) \/ ThenFail(j, step)
    BY <1>1, <1>2 DEF Download, Package, RemoveOldBundle, CopyBundle, Detach, Remove, Launch, Report
  <2>2. \E r \in Moves(j) : job' = [job EXCEPT ![j] = r]
    BY <2>1, ThenShape
  <2>3. /\ UNCHANGED <<os, mode, windows, loading, prs, selected, installing>>
        /\ job[j].pc # "idle" /\ (mode = "prs" /\ err => err')
    BY <1>2, Zenon DEF Download, Package, RemoveOldBundle, CopyBundle, Detach, Remove, Launch, Report, window, At
  <2> QED
    BY <2>2, <2>3
<1>3. CASE Clear(j) \/ ReportInstall(j)
  BY <1>3 DEF Clear, ReportInstall, At, Moves
<1>4. CASE Attach(j)
  <2>1. /\ UNCHANGED <<os, mode, windows, loading, prs, selected, installing, err>>
        /\ job[j].pc # "idle"
    BY <1>4 DEF Attach, MountPoints, window, At
  <2>2. CASE ThenFail(j, "report")
    BY <1>1, <2>1, <2>2, ThenShape
  <2>3. CASE \E m \in {"", "/Volumes/CentroidX"} :
               job' = [job EXCEPT ![j] =
                         IF Awaited(j) THEN [@ EXCEPT !.pc = "rm", !.mount = m] ELSE Idle]
    <3>1. PICK m \in {"", "/Volumes/CentroidX"} :
               job' = [job EXCEPT ![j] =
                         IF Awaited(j) THEN [job[j] EXCEPT !.pc = "rm", !.mount = m] ELSE Idle]
      BY <2>3
    <3>2. LET r == [job[j] EXCEPT !.pc = "rm", !.mount = m]
          IN  r \in JobRecords /\ r.pc = "rm" /\ r.for = job[j].for /\ r.art = job[j].art /\ r.pr = job[j].pr
      BY <1>0, <1>1 DEF JobRecords
    <3> QED
      BY <1>1, <2>1, <3>1, <3>2 DEF Moves
  <2>4. ThenFail(j, "report") \/
        \E m \in {"", "/Volumes/CentroidX"} :
               job' = [job EXCEPT ![j] =
                         IF Awaited(j) THEN [@ EXCEPT !.pc = "rm", !.mount = m] ELSE Idle]
    BY <1>4 DEF Attach, MountPoints
  <2> QED
    BY <2>2, <2>3, <2>4
<1> QED
  BY <1>2, <1>3, <1>4 DEF JobStep

-----------------------------------------------------------------------------
(* The type. *)

\* A job is started where nobody is at work.
LEMMA StartShape ==
  ASSUME JobsThere, NEW j \in Jobs, NEW win \in 0..MaxWindows, NEW step \in Steps,
         NEW art \in Artifacts \cup {None}, NEW pr \in PRs \cup {None}, Start(j, win, step, art, pr)
  PROVE  /\ job[j].pc = "idle"
         /\ job' \in [Jobs -> JobRecords]
         /\ \A i \in Jobs \ {j} : job'[i] = job[i]
         /\ job'[j] = [pc |-> step, art |-> art, pr |-> pr, mount |-> "", result |-> "ok", for |-> win]
<1>1. [pc |-> step, art |-> art, pr |-> pr, mount |-> "", result |-> "ok", for |-> win] \in JobRecords
  BY DEF JobRecords
<1> QED
  BY <1>1 DEF JobsThere, Start

\* The truth values of the type invariant, and the rest of it, with what makes
\* it inductive: nothing is selected before there is a list.
Truths ==
  /\ loading \in BOOLEAN /\ err \in BOOLEAN /\ installing \in BOOLEAN
  /\ isInstalled \in BOOLEAN /\ done \in BOOLEAN /\ misled \in BOOLEAN

Others ==
  /\ JobsThere
  /\ os \in Systems
  /\ mode \in {"closed", "prs", "file"}
  /\ DOMAIN prs \subseteq PRs
  /\ selected \in DOMAIN prs \cup {None}
  /\ mode = "closed" \/ loading => selected = None
  /\ said \in PRs \cup {None}
  /\ app \in Apps
  /\ mounted \subseteq Jobs \cup {None}

LEMMA TypeParts == Truths /\ Others => TypeOK
BY DEF TypeOK, Truths, Others, JobsThere, JobRecords

\* The artifacts a pull request is offered with are artifacts.
LEMMA BestIsAnArtifact ==
  ASSUME os \in Systems, NEW runs PROVE Best(runs) \subseteq Artifacts \cup {None}
<1>1. Named \subseteq Artifacts
  <2>1. 1 \in 1..3 /\ 2 \in 1..3 /\ 3 \in 1..3
    OBVIOUS
  <2>2. Uploads[1] \cup Uploads[2] \cup Uploads[3] \cup {"deb"} \subseteq Artifacts
    BY <2>1 DEF Artifacts
  <2>3. /\ Uploads[1] = {"cert", "msix", "portable"} /\ Uploads[2] = {"dmg"}
        /\ Uploads[3] = {"managerExe", "managerBinary", "managerDmg"}
    BY DEF Uploads
  <2>4. Named \subseteq {"msix", "portable", "managerExe", "dmg", "managerDmg", "managerBinary", "deb"}
    BY DEF Named, Systems
  <2>5. {"msix", "portable", "managerExe", "dmg", "managerDmg", "managerBinary", "deb"}
        \subseteq Uploads[1] \cup Uploads[2] \cup Uploads[3] \cup {"deb"}
    BY <2>3
  <2> QED
    BY <2>2, <2>4, <2>5
<1> QED
  BY <1>1 DEF Best

LEMMA TypeInductive == Spec => [](Truths /\ Others)
<1>1. Init => Truths /\ Others
  <2> SUFFICES ASSUME Init PROVE Truths /\ Others
    OBVIOUS
  <2>1. Truths
    BY Zenon DEF Init, Truths
  <2>2. job = [j \in Jobs |-> Idle]
    BY Zenon DEF Init
  <2>3. Others
    BY <2>2, IdleType, BoundsAssumption DEF Init, Others, JobsThere, NoList, Apps
  <2> QED
    BY <2>1, <2>3
<1>2. (Truths /\ Others) /\ [Next]_vars => (Truths /\ Others)'
  <2> SUFFICES ASSUME Truths, Others, [Next]_vars PROVE Truths' /\ Others'
    OBVIOUS
  <2>0. JobsThere /\ windows \in 0..MaxWindows /\ MaxWindows \in Nat
        /\ \A j \in Jobs : job[j] \in JobRecords
    BY BoundsAssumption DEF Others, JobsThere
  <2>1. CASE RunPRPickerMode
    <3>1. isInstalled' \in BOOLEAN /\ misled' \in BOOLEAN
      BY <2>1, Zenon DEF RunPRPickerMode, IsInstalled
    <3>2. Truths'
      BY <2>1, <3>1, Zenon DEF Truths, RunPRPickerMode, Open
    <3> QED
      BY <2>0, <2>1, <3>2 DEF RunPRPickerMode, IsInstalled, Open, machine, Others, JobsThere
  <2>2. ASSUME NEW j \in Jobs, NEW step \in {InstallStep, "download"}, NEW art \in Artifacts,
               RunInstallMode(j, step, art)
        PROVE  Truths' /\ Others'
    <3>1. Truths'
      BY <2>2, Zenon DEF Truths, RunInstallMode, Open
    <3>2. windows' = windows + 1 /\ windows' \in 0..MaxWindows /\ Start(j, windows + 1, step, art, None)
      BY <2>0, <2>2 DEF RunInstallMode, Open
    <3>3. step \in Steps
      BY DEF InstallStep, Steps, Commands
    <3>4. JobsThere'
      BY <2>0, <3>2, <3>3, StartShape DEF JobsThere
    <3> QED
      BY <2>2, <3>1, <3>4 DEF RunInstallMode, Open, machine, Others
  <2>3. CASE Listed
    <3>1. Truths'
      BY <2>3, Zenon DEF Truths, Listed
    <3>2. prs' = prs \/ DOMAIN prs' \subseteq PRs
      BY <2>3 DEF Listed, Listings
    <3>3. selected = None /\ selected' = None
      BY <2>3, Zenon DEF Listed, Others
    <3> QED
      BY <2>3, <3>1, <3>2, <3>3 DEF Listed, machine, Others, JobsThere
  <2>4. ASSUME NEW p \in PRs, Select(p) PROVE Truths' /\ Others'
    <3>1. Truths'
      BY <2>4, Zenon DEF Truths, Select
    <3> QED
      BY <2>4, <3>1 DEF Select, Drawn, machine, Others, JobsThere
  <2>5. ASSUME NEW j \in Jobs, PressUninstall(j) \/ PressInstall(j) PROVE Truths' /\ Others'
    <3>1. Truths'
      BY <2>5, Zenon DEF Truths, PressUninstall, PressInstall, ButtonsDrawn
    <3>2. PICK step \in Steps, art \in Artifacts \cup {None}, pr \in PRs \cup {None} :
            Start(j, windows, step, art, pr)
      BY <2>5, BestIsAnArtifact DEF PressUninstall, PressInstall, ButtonsDrawn, Others, Steps, Commands
    <3>3. JobsThere'
      BY <2>0, <2>5, <3>2, StartShape DEF JobsThere, PressUninstall, PressInstall, ButtonsDrawn
    <3> QED
      BY <2>5, <3>1, <3>3 DEF PressUninstall, PressInstall, ButtonsDrawn, machine, Others
  <2>6. ASSUME NEW j \in Jobs, JobStep(j) PROVE Truths' /\ Others'
    <3>1. PICK r \in Moves(j) : job' = [job EXCEPT ![j] = r]
      BY <2>0, <2>6, StepShape
    <3>2. r \in JobRecords
      BY <3>1, IdleType DEF Moves
    <3>3. JobsThere' /\ UNCHANGED <<os, mode, windows, loading, prs, selected>>
      BY <2>0, <2>6, <3>1, <3>2, StepShape DEF JobsThere
    <3>4. Truths'
      BY <2>6, Zenon DEF Truths, JobStep, Download, Package, Attach, MountPoints, RemoveOldBundle, CopyBundle,
         Detach, Remove, Launch, Report, Clear, ReportInstall, Noted, window, machine
    <3>5. said' \in PRs \cup {None}
      BY <2>0, <2>6 DEF Others, JobRecords, JobStep, Download, Package, Attach, MountPoints, RemoveOldBundle, CopyBundle,
         Detach, Remove, Launch, Report, Clear, ReportInstall, window, machine
    <3>6. Build(j) \in Apps
      BY <2>0, BranchAssumption DEF Build, JobRecords, Apps
    <3>7. app' \in Apps
      BY <2>6, <3>6 DEF Others, Apps, JobStep, Download, Package, Attach, MountPoints, RemoveOldBundle, CopyBundle,
         Detach, Remove, Launch, Report, Clear, ReportInstall, machine
    <3>8. mounted' \subseteq Jobs \cup {None}
      BY <2>6 DEF Others, JobStep, Download, Package, Attach, MountPoints, RemoveOldBundle, CopyBundle,
         Detach, Remove, Launch, Report, Clear, ReportInstall, machine
    <3> QED
      BY <3>3, <3>4, <3>5, <3>7, <3>8 DEF Others
  <2>7. CASE Close
    <3>1. Truths'
      BY <2>7, Zenon DEF Truths, Close
    <3>2. job' = [j \in Jobs |-> IF job[j].pc \in Commands THEN job[j] ELSE Idle]
      BY <2>7 DEF Close
    <3>3. JobsThere'
      BY <2>0, <2>7, <3>2, IdleType DEF JobsThere, Close
    <3>4. mounted' \subseteq Jobs \cup {None}
      BY <2>7 DEF Close, Others
    <3> QED
      BY <2>7, <3>1, <3>3, <3>4 DEF Close, Others, NoList
  <2>8. CASE UNCHANGED vars
    BY <2>8 DEF vars, window, machine, Truths, Others, JobsThere
  <2> QED
    BY <2>1, <2>2, <2>3, <2>4, <2>5, <2>6, <2>7, <2>8 DEF Next
<1> QED
  BY <1>1, <1>2, PTL DEF Spec

\* Theorem for the type invariant.
THEOREM TypeCorrect == Spec => []TypeOK
BY TypeInductive, TypeParts, PTL

-----------------------------------------------------------------------------
(* One job at a time. *)

\* Whoever is at work in a window of pull requests keeps its buttons away, be
\* it by the flag or by an error; what is left of earlier windows is commands.
WorkInv ==
  /\ JobsThere
  /\ mode # "closed" => windows \in 1..MaxWindows
  /\ \A j \in Jobs : job[j].pc # "idle" =>
       /\ Awaited(j) \/ job[j].pc \in Commands
       /\ job[j].for \in 1..windows
       /\ Awaited(j) /\ mode = "prs" => installing \/ err
  /\ OneJobAtATime

\* WorkInv is inductive.
LEMMA WorkInvInductive == Spec => []WorkInv
<1>1. Init => WorkInv
  <2> SUFFICES ASSUME Init PROVE WorkInv
    OBVIOUS
  <2>1. job = [j \in Jobs |-> Idle] /\ windows = 0
    BY Zenon DEF Init
  <2>2. \A j \in Jobs : job[j] = Idle
    BY <2>1
  <2>3. JobsThere /\ mode = "closed"
    BY <2>1, IdleType, BoundsAssumption DEF JobsThere, Init
  <2> QED
    BY <2>2, <2>3, IdleType DEF WorkInv, OneJobAtATime, Working
<1>2. Others /\ WorkInv /\ [Next]_vars => WorkInv'
  <2> SUFFICES ASSUME Others, WorkInv, [Next]_vars PROVE WorkInv'
    OBVIOUS
  <2>0. JobsThere /\ windows \in 0..MaxWindows /\ MaxWindows \in Nat
        /\ \A j \in Jobs : job[j] \in JobRecords /\ job[j].for \in 0..MaxWindows
    BY BoundsAssumption DEF WorkInv, JobsThere, JobRecords
  <2>1. CASE RunPRPickerMode
    <3>1. windows' = windows + 1 /\ windows < MaxWindows /\ mode = "closed" /\ job' = job
      BY <2>1 DEF RunPRPickerMode, IsInstalled, Open
    <3> QED
      BY <2>0, <3>1 DEF WorkInv, OneJobAtATime, Working, Awaited, JobsThere
  <2>2. ASSUME NEW j \in Jobs, NEW step \in {InstallStep, "download"}, NEW art \in Artifacts,
               RunInstallMode(j, step, art)
        PROVE  WorkInv'
    <3>1. /\ windows' = windows + 1 /\ windows < MaxWindows /\ mode = "closed" /\ mode' = "file"
          /\ Start(j, windows + 1, step, art, None)
      BY <2>2 DEF RunInstallMode, Open
    <3>2. step \in Steps
      BY DEF InstallStep, Steps, Commands
    <3>3. /\ job' \in [Jobs -> JobRecords] /\ \A i \in Jobs \ {j} : job'[i] = job[i]
          /\ job'[j].for = windows + 1
      <4>1. windows + 1 \in 0..MaxWindows
        BY <2>0, <3>1
      <4>2. job' = [job EXCEPT ![j] = [pc |-> step, art |-> art, pr |-> None, mount |-> "",
                                       result |-> "ok", for |-> windows + 1]]
        BY <3>1 DEF Start
      <4>3. [pc |-> step, art |-> art, pr |-> None, mount |-> "", result |-> "ok",
             for |-> windows + 1] \in JobRecords
        BY <3>2, <4>1 DEF JobRecords
      <4> QED
        BY <2>0, <4>2, <4>3 DEF JobsThere
    <3>4. \A i \in Jobs : job[i].pc # "idle" => job[i].pc \in Commands /\ job[i].for \in 1..windows
      BY <3>1 DEF WorkInv, Awaited
    <3>5. JobsThere' /\ windows' \in 1..MaxWindows
      BY <2>0, <3>1, <3>3 DEF JobsThere
    <3>6. \A i \in Jobs \ {j} : job'[i].pc # "idle" =>
              job'[i].pc \in Commands /\ job'[i].for \in 1..windows' /\ ~Awaited(i)'
      BY <2>0, <3>1, <3>3, <3>4 DEF Awaited
    <3>7. Awaited(j)' /\ job'[j].for \in 1..windows'
      BY <2>0, <3>1, <3>3 DEF Awaited
    <3> QED
      BY <3>1, <3>5, <3>6, <3>7 DEF WorkInv, OneJobAtATime, Working
  <2>3. CASE Listed
    BY <2>0, <2>3 DEF Listed, WorkInv, OneJobAtATime, Working, Awaited, JobsThere
  <2>4. ASSUME NEW p \in PRs, Select(p) PROVE WorkInv'
    BY <2>0, <2>4 DEF Select, WorkInv, OneJobAtATime, Working, Awaited, JobsThere
  <2>5. ASSUME NEW j \in Jobs, PressUninstall(j) \/ PressInstall(j) PROVE WorkInv'
    <3>1. PICK step \in Steps, art \in Artifacts \cup {None}, pr \in PRs \cup {None} :
            Start(j, windows, step, art, pr)
      BY <2>5, BestIsAnArtifact DEF PressUninstall, PressInstall, ButtonsDrawn, Others, Steps, Commands
    <3>2. /\ mode = "prs" /\ mode' = "prs" /\ ~err /\ ~installing /\ windows' = windows
          /\ installing' \/ err'
      BY <2>5 DEF PressUninstall, PressInstall, ButtonsDrawn, Drawn
    <3>3. \A i \in Jobs : ~Working(i)
      BY <3>2 DEF WorkInv, Working
    <3>4. /\ job' \in [Jobs -> JobRecords] /\ \A i \in Jobs \ {j} : job'[i] = job[i]
          /\ job'[j].for = windows
      <4>1. job' = [job EXCEPT ![j] = [pc |-> step, art |-> art, pr |-> pr, mount |-> "",
                                       result |-> "ok", for |-> windows]]
        BY <3>1 DEF Start
      <4>2. [pc |-> step, art |-> art, pr |-> pr, mount |-> "", result |-> "ok",
             for |-> windows] \in JobRecords
        BY <2>0 DEF JobRecords
      <4> QED
        BY <2>0, <4>1, <4>2 DEF JobsThere
    <3>5. windows \in 1..MaxWindows
      BY <3>2 DEF WorkInv
    <3> QED
      BY <2>0, <3>2, <3>3, <3>4, <3>5 DEF WorkInv, OneJobAtATime, Working, Awaited, JobsThere
  <2>6. ASSUME NEW j \in Jobs, JobStep(j) PROVE WorkInv'
    <3>1. PICK r \in Moves(j) : job' = [job EXCEPT ![j] = r]
      BY <2>0, <2>6, StepShape
    <3>2. r \in JobRecords /\ r.for \in 0..MaxWindows
      BY <3>1, IdleType DEF Moves, JobRecords
    <3>3. /\ UNCHANGED <<mode, windows>> /\ job[j].pc # "idle"
          /\ installing' = installing \/ (job[j].pc = "clear" /\ job' = [job EXCEPT ![j] = Idle])
          /\ mode = "prs" /\ err => err'
      BY <2>0, <2>6, StepShape
    <3>4. JobsThere' /\ (mode # "closed" => windows \in 1..MaxWindows)
      BY <2>0, <3>1, <3>2, <3>3 DEF JobsThere, WorkInv
    <3>6. CASE r = Idle
      <4>1. job'[j].pc = "idle" /\ \A i \in Jobs \ {j} : job'[i] = job[i]
        BY <2>0, <3>1, <3>6, IdleType DEF JobsThere
      <4>2. installing' = installing \/ Awaited(j)
        BY <3>3 DEF WorkInv, Commands
      <4>3. \A i \in Jobs \ {j} : Awaited(j) => ~Working(i)
        BY <3>3 DEF WorkInv, OneJobAtATime, Working
      <4> QED
        BY <2>0, <3>3, <3>4, <4>1, <4>2, <4>3 DEF WorkInv, OneJobAtATime, Working, Awaited
    <3>7. CASE r # Idle
      <4>1. /\ Awaited(j) /\ job'[j] = r /\ r.for = job[j].for
            /\ \A i \in Jobs \ {j} : job'[i] = job[i]
        BY <2>0, <3>1, <3>7 DEF Moves, JobsThere
      <4>2. installing' = installing
        BY <2>0, <3>3, <3>7, <4>1 DEF JobsThere
      <4>3. mode' = mode /\ windows' = windows
        BY <3>3
      <4>4. \A i \in Jobs : job'[i].for = job[i].for
        BY <4>1
      <4>5. \A i \in Jobs : /\ job'[i].pc # "idle" => job[i].pc # "idle"
                            /\ job'[i].pc = job[i].pc \/ Awaited(i)
        BY <3>3, <4>1
      <4>6. ASSUME NEW i \in Jobs, Working(i)' PROVE Working(i)
        BY <4>3, <4>4, <4>6, <4>5 DEF Working, Awaited
      <4>7. OneJobAtATime'
        BY <4>6 DEF WorkInv, OneJobAtATime
      <4>8. ASSUME NEW i \in Jobs, job'[i].pc # "idle"
            PROVE  /\ Awaited(i)' \/ job'[i].pc \in Commands
                   /\ job'[i].for \in 1..windows'
                   /\ Awaited(i)' /\ mode' = "prs" => installing' \/ err'
        <5>1. /\ Awaited(i) \/ job[i].pc \in Commands
              /\ job[i].for \in 1..windows
              /\ Awaited(i) /\ mode = "prs" => installing \/ err
          BY <4>5, <4>8 DEF WorkInv
        <5>2. job'[i].for = job[i].for /\ (job'[i].pc = job[i].pc \/ Awaited(i))
          BY <4>4, <4>5
        <5> QED
          BY <3>3, <4>2, <4>3, <5>1, <5>2 DEF Awaited
      <4> QED
        BY <3>4, <4>3, <4>7, <4>8 DEF WorkInv
    <3> QED
      BY <3>6, <3>7
  <2>7. CASE Close
    <3>1. /\ job' = [j \in Jobs |-> IF job[j].pc \in Commands THEN job[j] ELSE Idle]
          /\ mode' = "closed" /\ windows' = windows
      BY <2>7 DEF Close
    <3>2. job' \in [Jobs -> JobRecords]
      BY <2>0, <3>1, IdleType
    <3> QED
      BY <2>0, <3>1, <3>2 DEF WorkInv, OneJobAtATime, Working, Awaited, JobsThere, Idle
  <2>8. CASE UNCHANGED vars
    BY <2>0, <2>8 DEF vars, window, WorkInv, OneJobAtATime, Working, Awaited, JobsThere
  <2> QED
    BY <2>1, <2>2, <2>3, <2>4, <2>5, <2>6, <2>7, <2>8 DEF Next
<1> QED
  BY <1>1, <1>2, TypeInductive, PTL DEF Spec

\* Theorem for OneJobAtATime, whatever goes wrong and is clicked.
THEOREM OneJobAtATimeHolds == Spec => []OneJobAtATime
<1>1. WorkInv => OneJobAtATime
  BY DEF WorkInv
<1> QED
  BY <1>1, WorkInvInductive, PTL

-----------------------------------------------------------------------------
(* Images are detached. *)

\* A job that has an image mounted and is not about to detach it is awaited:
\* the window that goes leaves the image behind, and takes it off the account.
ImagesInv ==
  \A j \in mounted \ {None} :
    /\ job[j].pc \in {"rm", "cp", "detach"}
    /\ job[j].pc # "detach" => Awaited(j)

\* Theorem for ImagesAreDetached.
THEOREM ImagesAreDetachedHolds == Spec => []ImagesAreDetached
<1>1. Init => ImagesInv
  BY DEF Init, ImagesInv
<1>2. Others /\ WorkInv /\ ImagesInv /\ [Next]_vars => ImagesInv'
  <2> SUFFICES ASSUME Others, WorkInv, ImagesInv, [Next]_vars PROVE ImagesInv'
    OBVIOUS
  <2>0. /\ JobsThere /\ job \in [Jobs -> JobRecords]
        /\ mounted \ {None} \subseteq Jobs
    BY DEF Others, JobsThere
  <2>1. CASE RunPRPickerMode
    BY <2>1 DEF RunPRPickerMode, IsInstalled, Open, machine, ImagesInv, Awaited
  <2>2. ASSUME NEW j \in Jobs, NEW step \in {InstallStep, "download"}, NEW art \in Artifacts,
               RunInstallMode(j, step, art)
        PROVE  ImagesInv'
    <3>1. mounted' = mounted /\ Start(j, windows + 1, step, art, None) /\ \A i \in Jobs : ~Awaited(i)
      BY <2>2 DEF RunInstallMode, Open, machine, Awaited
    <3>2. job[j].pc = "idle" /\ \A i \in Jobs \ {j} : job'[i] = job[i]
      BY <2>0, <3>1 DEF Start
    <3> QED
      BY <2>0, <3>1, <3>2 DEF ImagesInv
  <2>3. CASE Listed \/ \E p \in PRs : Select(p)
    BY <2>3 DEF Listed, Select, machine, ImagesInv, Awaited
  <2>4. ASSUME NEW j \in Jobs, PressUninstall(j) \/ PressInstall(j) PROVE ImagesInv'
    <3>1. /\ mounted' = mounted /\ mode' = mode /\ windows' = windows
          /\ \E step, art, pr : Start(j, windows, step, art, pr)
      BY <2>4 DEF PressUninstall, PressInstall, ButtonsDrawn, machine
    <3>2. job[j].pc = "idle" /\ \A i \in Jobs \ {j} : job'[i] = job[i]
      BY <2>0, <3>1 DEF Start
    <3> QED
      BY <2>0, <3>1, <3>2 DEF ImagesInv, Awaited
  <2>5. ASSUME NEW j \in Jobs, JobStep(j) PROVE ImagesInv'
    <3>1. PICK r \in Moves(j) : job' = [job EXCEPT ![j] = r]
      BY <2>0, <2>5, StepShape
    <3>2. mode' = mode /\ windows' = windows
      BY <2>0, <2>5, StepShape
    <3>3. job'[j] = r /\ \A i \in Jobs \ {j} : job'[i] = job[i]
      BY <2>0, <3>1
    <3>4. SUFFICES /\ mounted' \subseteq mounted \cup {j, None}
                   /\ j \in mounted' => /\ r.pc \in {"rm", "cp", "detach"}
                                        /\ r.pc # "detach" => Awaited(j)'
      BY <2>0, <3>2, <3>3 DEF ImagesInv, Awaited
    <3>5. Awaited(j) => Awaited(j)' \/ r = Idle
      BY <3>1, <3>2, <3>3 DEF Moves, Awaited
    <3>6. CASE Attach(j)
      <4>1. j \notin mounted
        <5>1. job[j].pc = "attach"
          BY <3>6 DEF Attach, MountPoints, At
        <5> QED
          BY <5>1, NoneAssumption DEF ImagesInv
      <4>2. CASE mounted' = mounted
        BY <4>1, <4>2
      <4>3. CASE mounted' = mounted \cup {IF Awaited(j) THEN j ELSE None} /\ mounted' # mounted
        <5>1. PICK m : job' = [job EXCEPT ![j] =
                         IF Awaited(j) THEN [@ EXCEPT !.pc = "rm", !.mount = m] ELSE Idle]
          BY <3>6, <4>3 DEF Attach, MountPoints
        <5>2. Awaited(j) => r.pc = "rm" /\ r # Idle
          BY <2>0, <3>3, <5>1, IdleType DEF JobRecords
        <5>3. j # None
          BY NoneAssumption
        <5> QED
          BY <3>5, <4>1, <4>3, <5>2, <5>3
      <4> QED
        BY <3>6, <4>2, <4>3 DEF Attach, MountPoints
    <3>7. CASE RemoveOldBundle(j)
      <4>1. mounted' = mounted /\ Then(j, "cp") /\ job[j].pc = "rm"
        BY <3>7 DEF RemoveOldBundle, At
      <4>2. Awaited(j) => r.pc = "cp"
        BY <2>0, <3>3, <4>1 DEF Then, JobRecords
      <4>3. j \in mounted => Awaited(j)
        BY <4>1, NoneAssumption DEF ImagesInv
      <4> QED
        BY <3>5, <4>1, <4>2, <4>3, IdleType
    <3>8. CASE CopyBundle(j)
      <4>1. /\ mounted' = mounted /\ job[j].pc = "cp"
            /\ Then(j, "detach") \/ ThenFail(j, "detach")
        BY <3>8 DEF CopyBundle, At
      <4>2. Awaited(j) => r.pc = "detach"
        BY <2>0, <3>3, <4>1 DEF Then, ThenFail, JobRecords
      <4>3. j \in mounted => Awaited(j)
        BY <4>1, NoneAssumption DEF ImagesInv
      <4> QED
        BY <4>1, <4>2, <4>3
    <3>9. CASE Detach(j)
      <4>1. mounted' \subseteq (mounted \ {j}) \cup {None}
        BY <3>9 DEF Detach
      <4> QED
        BY <4>1, NoneAssumption
    <3>10. CASE \/ Download(j) \/ Package(j) \/ Remove(j) \/ Launch(j)
                \/ Report(j) \/ Clear(j) \/ ReportInstall(j)
      <4>1. mounted' = mounted /\ job[j].pc \notin {"rm", "cp", "detach"}
        BY <3>10 DEF Download, Package, Remove, Launch, Report, Clear, ReportInstall, At, machine
      <4>2. j \notin mounted
        BY <4>1, NoneAssumption DEF ImagesInv
      <4> QED
        BY <4>1, <4>2
    <3> QED
      BY <2>5, <3>6, <3>7, <3>8, <3>9, <3>10 DEF JobStep
  <2>6. CASE Close
    <3>1. /\ job' = [j \in Jobs |-> IF job[j].pc \in Commands THEN job[j] ELSE Idle]
          /\ \A j \in mounted' \ {None} : j \in mounted /\ (j \in Jobs => job[j].pc = "detach")
      BY <2>6 DEF Close
    <3> QED
      BY <2>0, <3>1 DEF ImagesInv, Commands
  <2>7. CASE UNCHANGED vars
    BY <2>7 DEF vars, window, machine, ImagesInv, Awaited
  <2> QED
    BY <2>1, <2>2, <2>3, <2>4, <2>5, <2>6, <2>7 DEF Next
<1>3. ImagesInv => ImagesAreDetached
  BY DEF ImagesInv, ImagesAreDetached
<1> QED
  BY <1>1, <1>2, <1>3, TypeInductive, WorkInvInductive, PTL DEF Spec

-----------------------------------------------------------------------------
(* The window knows what is installed. *)

\* What a job that succeeds leaves installed.
Outcome(j) ==
  IF mode = "file" THEN {File, Merged}
  ELSE IF job[j].pr = None THEN {None} ELSE {Branch[job[j].pr], Merged}

\* The job the window waits for: what it installs or removes, and where it
\* stands once the command that does it has succeeded.
WorkerKnows(j) ==
  /\ job[j].pc # "clear" => said = None
  /\ ~done
  /\ mode = "file" => job[j].pr = None /\ job[j].pc \notin {"remove", "clear"}
  /\ mode = "prs" =>
       /\ job[j].pc \in {"download", "attach", "package", "rm", "cp", "detach"} => job[j].pr # None
       /\ job[j].pc = "remove" => job[j].pr = None
       /\ job[j].pc # "launch"
  /\ ~misled /\ job[j].result = "ok" /\ job[j].pc \in {"detach", "report", "launch"} =>
       app \in Outcome(j)
  /\ ~misled /\ ~err /\ job[j].pc = "clear" => (isInstalled <=> app # None)

KnowsInv ==
  /\ mode # "prs" => said = None
  /\ mode # "file" => ~done
  /\ \A j \in Jobs : Working(j) => WorkerKnows(j)
  /\ mode = "prs" /\ ~misled /\ ~err /\ (\A j \in Jobs : ~Working(j)) =>
       (isInstalled <=> app # None)
  /\ SuccessIsTheBuild

\* A command that outlived its window changes nothing the new window knows, or
\* is on record as having done so.
LEMMA OrphanStep ==
  ASSUME Others, WorkInv, KnowsInv, NEW j \in Jobs, JobStep(j), ~Awaited(j)
  PROVE  KnowsInv'
<1>0. JobsThere /\ job \in [Jobs -> JobRecords]
  BY DEF Others, JobsThere
<1>1. PICK r \in Moves(j) : job' = [job EXCEPT ![j] = r]
  BY <1>0, StepShape
<1>2. job'[j] = Idle /\ \A i \in Jobs \ {j} : job'[i] = job[i]
  BY <1>0, <1>1 DEF Moves
<1>3. job[j].pc \in Commands
  BY <1>0, StepShape DEF WorkInv
<1>4. Package(j) \/ Attach(j) \/ RemoveOldBundle(j) \/ CopyBundle(j) \/ Detach(j) \/ Remove(j)
  BY <1>3 DEF JobStep, Commands, Download, Launch, Report, Clear, ReportInstall, At
<1>5. UNCHANGED window
  BY <1>4 DEF Package, Attach, MountPoints, RemoveOldBundle, CopyBundle, Detach, Remove
<1>6. job[j].pc # "idle" /\ ~Working(j)
  BY <1>3 DEF Commands, Working
<1>7. ~misled' => app' = app /\ ~misled
  <2>1. CASE Noted(j)
    BY <1>6, <2>1, Zenon DEF Noted, Orphaned
  <2>2. CASE app' = app /\ misled' = misled
    BY <2>2
  <2> QED
    BY <1>4, <2>1, <2>2 DEF Package, Attach, MountPoints, RemoveOldBundle, CopyBundle, Detach, Remove
<1>8. \A i \in Jobs : Working(i)' <=> Working(i)
  BY <1>2, <1>5, <1>6, IdleType DEF Working, Awaited, window
<1>9. \A i \in Jobs \ {j} : WorkerKnows(i) => WorkerKnows(i)'
  BY <1>2, <1>5, <1>7 DEF WorkerKnows, Outcome, window
<1> QED
  BY <1>5, <1>6, <1>7, <1>8, <1>9 DEF KnowsInv, SuccessIsTheBuild, window

\* A step of the job the window waits for.
LEMMA WorkerStep ==
  ASSUME Truths, Others, WorkInv, KnowsInv, NEW j \in Jobs, JobStep(j), Awaited(j)
  PROVE  KnowsInv'
<1>0. JobsThere /\ job[j] \in JobRecords /\ mode \in {"prs", "file"}
  BY DEF Others, JobsThere, Awaited
<1>1. PICK r \in Moves(j) : job' = [job EXCEPT ![j] = r]
  BY <1>0, StepShape
<1>2. /\ job'[j] = r /\ \A i \in Jobs \ {j} : job'[i] = job[i]
      /\ mode' = mode /\ windows' = windows /\ job[j].pc # "idle"
  BY <1>0, <1>1, StepShape DEF JobsThere
<1>3. Working(j) /\ WorkerKnows(j) /\ \A i \in Jobs \ {j} : ~Working(i) /\ ~Working(i)'
  BY <1>2 DEF Working, Awaited, WorkInv, OneJobAtATime, KnowsInv
<1>4. r = Idle \/ (r.pr = job[j].pr /\ Working(j)')
  BY <1>1, <1>2 DEF Moves, Working, Awaited, Steps, Commands
<1>5. r # Idle => ~(\A i \in Jobs : ~Working(i)')
  BY <1>4
<1>6. ASSUME mode # "prs" => said' = None,
             mode # "file" => ~done',
             r # Idle => WorkerKnows(j)',
             r = Idle /\ mode = "prs" /\ ~misled' /\ ~err' => (isInstalled' <=> app' # None),
             SuccessIsTheBuild'
      PROVE  KnowsInv'
  <2>1. Working(j)' => r # Idle
    BY <1>2, IdleType DEF Working
  <2> QED
    BY <1>2, <1>3, <1>5, <1>6, <2>1 DEF KnowsInv
<1>7. None \notin Branches /\ File # None /\ Merged # None
  BY NoneAssumption
<1>8. ASSUME UNCHANGED window, ~misled' => ~misled,
             job[j].pc # "clear", r # Idle,
             r.pc \notin {"clear", "remove", "download"},
             mode = "prs" => r.pc # "launch",
             mode = "prs" /\ r.pc \in {"attach", "package", "rm", "cp", "detach"} => job[j].pr # None,
             ~misled' /\ r.result = "ok" /\ r.pc \in {"detach", "report", "launch"} => app' \in Outcome(j)
      PROVE  KnowsInv'
  <2>1. said' = None /\ ~done'
    BY <1>3, <1>8 DEF WorkerKnows, window
  <2>2. Outcome(j)' = Outcome(j)
    BY <1>2, <1>4, <1>8 DEF Outcome
  <2>3. mode = "file" => r.pr = None
    BY <1>3, <1>4, <1>8 DEF WorkerKnows
  <2>4. WorkerKnows(j)'
    BY <1>2, <1>4, <1>8, <2>1, <2>2, <2>3 DEF WorkerKnows
  <2>5. SuccessIsTheBuild'
    BY <2>1 DEF SuccessIsTheBuild
  <2> QED
    BY <1>6, <1>8, <2>1, <2>4, <2>5
<1>9. /\ mode = "prs" /\ job[j].pc \in {"download", "attach", "package", "rm", "cp", "detach"} => job[j].pr # None
      /\ job[j].pc = "remove" => mode = "prs" /\ job[j].pr = None
      /\ mode = "file" => job[j].pr = None
      /\ mode = "prs" => job[j].pc # "launch"
  BY <1>0, <1>3 DEF WorkerKnows
<1>10. ASSUME NEW step \in Steps, Then(j, step)
       PROVE  r # Idle /\ r.pc = step /\ r.result = job[j].result
  BY <1>0, <1>2, <1>10, IdleType DEF Then, JobRecords, JobsThere, Steps, Commands
<1>11. ASSUME NEW step \in Steps, ThenFail(j, step)
       PROVE  r # Idle /\ r.pc = step /\ r.result = "error"
  BY <1>0, <1>2, <1>11, IdleType DEF ThenFail, JobRecords, JobsThere, Steps, Commands
<1>12. /\ InstallStep \in Steps /\ Installed \in Steps /\ {"report", "clear", "cp", "rm", "detach"} \subseteq Steps
       /\ InstallStep \in {"attach", "package"}
       /\ Installed \in {"report", "launch"} /\ (mode = "prs" => Installed = "report")
  BY DEF InstallStep, Installed, Steps, Commands
<1>13. Noted(j) => (~misled' => ~misled)
  BY Zenon DEF Noted
<1>14. CASE Download(j)
  <2>1. UNCHANGED window /\ misled' = misled /\ job[j].pc = "download"
    BY <1>14 DEF Download, At
  <2>2. CASE Then(j, InstallStep)
    BY <1>8, <1>9, <1>10, <1>12, <2>1, <2>2
  <2>3. CASE ThenFail(j, "report")
    BY <1>8, <1>9, <1>11, <1>12, <2>1, <2>3
  <2> QED
    BY <1>14, <2>2, <2>3 DEF Download
<1>15. CASE Package(j)
  <2>1. UNCHANGED window /\ (~misled' => ~misled) /\ job[j].pc = "package"
    BY <1>13, <1>15 DEF Package, At
  <2>2. Build(j) \in Outcome(j)
    BY <1>0, <1>9, <2>1 DEF Build, Outcome
  <2>3. CASE Then(j, Installed) /\ app' = Build(j)
    BY <1>8, <1>9, <1>10, <1>12, <2>1, <2>2, <2>3
  <2>4. CASE ThenFail(j, "report")
    BY <1>8, <1>9, <1>11, <1>12, <2>1, <2>4
  <2> QED
    BY <1>15, <2>3, <2>4 DEF Package
<1>16. CASE Attach(j)
  <2>1. UNCHANGED window /\ misled' = misled /\ job[j].pc = "attach"
    BY <1>16 DEF Attach, MountPoints, At
  <2>2. CASE ThenFail(j, "report")
    BY <1>8, <1>9, <1>11, <1>12, <2>1, <2>2
  <2>3. CASE ~ThenFail(j, "report")
    <3>1. PICK m : job' = [job EXCEPT ![j] =
                     IF Awaited(j) THEN [@ EXCEPT !.pc = "rm", !.mount = m] ELSE Idle]
      BY <1>16, <2>3 DEF Attach, MountPoints
    <3>2. r.pc = "rm" /\ r # Idle
      BY <1>0, <1>2, <3>1, IdleType DEF JobRecords, JobsThere
    <3> QED
      BY <1>8, <1>9, <2>1, <3>2
  <2> QED
    BY <2>2, <2>3
<1>17. CASE RemoveOldBundle(j)
  <2>1. UNCHANGED window /\ (~misled' => ~misled) /\ job[j].pc = "rm" /\ Then(j, "cp")
    BY <1>13, <1>17 DEF RemoveOldBundle, At
  <2> QED
    BY <1>8, <1>9, <1>10, <1>12, <2>1
<1>18. CASE CopyBundle(j)
  <2>1. UNCHANGED window /\ (~misled' => ~misled) /\ job[j].pc = "cp"
    BY <1>13, <1>18 DEF CopyBundle, At
  <2>2. Build(j) \in Outcome(j) /\ Merged \in Outcome(j)
    BY <1>0, <1>9, <2>1 DEF Build, Outcome
  <2>3. CASE Then(j, "detach") /\ app' \in {Build(j), Merged}
    BY <1>8, <1>9, <1>10, <1>12, <2>1, <2>2, <2>3
  <2>4. CASE ThenFail(j, "detach")
    BY <1>8, <1>9, <1>11, <1>12, <2>1, <2>4
  <2> QED
    BY <1>18, <2>3, <2>4 DEF CopyBundle
<1>19. CASE Detach(j)
  <2>1. /\ UNCHANGED window /\ misled' = misled /\ app' = app /\ job[j].pc = "detach"
        /\ Then(j, IF job[j].result = "ok" THEN Installed ELSE "report")
    BY <1>19 DEF Detach, At
  <2>2. ~misled /\ job[j].result = "ok" => app \in Outcome(j)
    BY <1>3, <2>1 DEF WorkerKnows
  <2>3. CASE job[j].result = "ok"
    BY <1>8, <1>10, <1>12, <2>1, <2>2, <2>3
  <2>4. CASE job[j].result # "ok"
    BY <1>8, <1>10, <1>12, <2>1, <2>4
  <2> QED
    BY <2>3, <2>4
<1>20. CASE Remove(j)
  <2>1. UNCHANGED window /\ (~misled' => ~misled) /\ job[j].pc = "remove"
    BY <1>13, <1>20 DEF Remove, At
  <2>2. None \in Outcome(j)
    BY <1>9, <2>1 DEF Outcome
  <2>3. CASE Then(j, "report") /\ app' = None
    BY <1>8, <1>10, <1>12, <2>1, <2>2, <2>3
  <2>4. CASE ThenFail(j, "report")
    BY <1>8, <1>11, <1>12, <2>1, <2>4
  <2> QED
    BY <1>20, <2>3, <2>4 DEF Remove
<1>21. CASE Launch(j)
  <2>1. UNCHANGED window /\ misled' = misled /\ app' = app /\ job[j].pc = "launch"
    BY <1>21 DEF Launch, At, machine
  <2>2. ~misled /\ job[j].result = "ok" => app \in Outcome(j)
    BY <1>3, <2>1 DEF WorkerKnows
  <2>3. CASE Then(j, "report")
    BY <1>8, <1>10, <1>12, <2>1, <2>2, <2>3
  <2>4. CASE ThenFail(j, "report")
    BY <1>8, <1>11, <1>12, <2>1, <2>4
  <2> QED
    BY <1>21, <2>3, <2>4 DEF Launch
<1>22. CASE Report(j)
  <2>1. /\ mode = "prs" /\ app' = app /\ misled' = misled /\ done' = done /\ job[j].pc = "report"
        /\ Then(j, "clear")
    BY <1>22 DEF Report, At, machine
  <2>2. r # Idle /\ r.pc = "clear"
    BY <1>10, <1>12, <2>1
  <2>3. said = None /\ ~done
    BY <1>3, <2>1 DEF WorkerKnows
  <2>4. CASE job[j].result = "ok"
    <3>1. said' = job[j].pr
      BY <1>22, <2>4 DEF Report
    <3>2. isInstalled' <=> job[j].pr # None
      BY <1>22, <2>4, Zenon DEF Report
    <3>3. ~misled => app \in Outcome(j)
      BY <1>3, <2>1, <2>4 DEF WorkerKnows
    <3>4. ~misled => (job[j].pr # None <=> app # None) /\ (said' # None => app \in {Branch[said'], Merged})
      <4>1. job[j].pr # None => Branch[job[j].pr] # None
        BY <1>0, <1>7, BranchAssumption DEF JobRecords
      <4> QED
        BY <1>7, <2>1, <3>1, <3>3, <4>1 DEF Outcome
    <3>5. WorkerKnows(j)'
      BY <1>2, <2>1, <2>2, <2>3, <3>2, <3>4 DEF WorkerKnows
    <3>6. SuccessIsTheBuild'
      BY <2>1, <2>3, <3>4 DEF SuccessIsTheBuild
    <3> QED
      BY <1>6, <2>1, <2>2, <2>3, <3>5, <3>6
  <2>5. CASE job[j].result # "ok"
    <3>1. said' = None /\ err' = TRUE
      BY <1>22, <2>3, <2>5 DEF Report
    <3>2. WorkerKnows(j)'
      BY <1>2, <2>1, <2>2, <2>3, <3>1 DEF WorkerKnows
    <3> QED
      BY <1>6, <2>1, <2>2, <2>3, <3>1, <3>2 DEF SuccessIsTheBuild
  <2> QED
    BY <2>4, <2>5
<1>23. CASE Clear(j)
  <2>1. /\ app' = app /\ misled' = misled /\ done' = done /\ said' = said /\ err' = err
        /\ isInstalled' = isInstalled /\ job[j].pc = "clear" /\ job' = [job EXCEPT ![j] = Idle]
    BY <1>23 DEF Clear, At, machine
  <2>2. r = Idle
    BY <1>2, <2>1 DEF JobsThere, Others
  <2>3. SuccessIsTheBuild'
    BY <2>1 DEF KnowsInv, SuccessIsTheBuild
  <2> QED
    BY <1>3, <1>6, <2>1, <2>2, <2>3 DEF KnowsInv, WorkerKnows
<1>24. CASE ReportInstall(j)
  <2>1. /\ app' = app /\ misled' = misled /\ said' = said /\ job[j].pc = "report" /\ mode = "file"
        /\ job' = [job EXCEPT ![j] = Idle]
    BY <1>24 DEF ReportInstall, At, machine
  <2>2. done' <=> job[j].result = "ok"
    BY <1>24, Zenon DEF ReportInstall
  <2>3. r = Idle /\ said = None
    BY <1>2, <2>1 DEF JobsThere, Others, KnowsInv
  <2>4. ~misled /\ job[j].result = "ok" => app \in {File, Merged}
    BY <1>3, <2>1 DEF WorkerKnows, Outcome
  <2>5. SuccessIsTheBuild'
    BY <2>1, <2>2, <2>3, <2>4 DEF SuccessIsTheBuild
  <2> QED
    BY <1>6, <2>1, <2>3, <2>5
<1> QED
  BY <1>14, <1>15, <1>16, <1>17, <1>18, <1>19, <1>20, <1>21, <1>22, <1>23, <1>24 DEF JobStep

\* KnowsInv is inductive.
LEMMA KnowsInvInductive == Spec => []KnowsInv
<1>1. Init => KnowsInv
  <2> SUFFICES ASSUME Init PROVE KnowsInv
    OBVIOUS
  <2>1. mode = "closed" /\ said = None /\ ~done
    BY DEF Init
  <2> QED
    BY <2>1 DEF KnowsInv, SuccessIsTheBuild, Working, Awaited
<1>2. (Truths /\ Others) /\ WorkInv /\ WorkInv' /\ KnowsInv /\ [Next]_vars => KnowsInv'
  <2> SUFFICES ASSUME Truths, Others, WorkInv, WorkInv', KnowsInv, [Next]_vars PROVE KnowsInv'
    OBVIOUS
  <2>0. JobsThere /\ job \in [Jobs -> JobRecords]
    BY DEF Others, JobsThere
  <2>1. CASE RunPRPickerMode
    <3>1. /\ mode = "closed" /\ mode' = "prs" /\ windows' = windows + 1 /\ job' = job
          /\ said' = said /\ done' = done /\ err' = err /\ app' = app
      BY <2>1 DEF RunPRPickerMode, IsInstalled, Open, machine
    <3>2. misled' = (isInstalled' # (app # None))
      BY <2>1 DEF RunPRPickerMode, IsInstalled
    <3>3. isInstalled' \in {app # None} \cup {FALSE : x \in Mishaps \cap {"query"}}
      BY <2>1 DEF RunPRPickerMode, IsInstalled
    <3>4. ~misled' => (isInstalled' <=> app # None)
      BY <3>2, <3>3, Zenon
    <3>5. said = None /\ ~done
      BY <3>1 DEF KnowsInv
    <3>6. \A j \in Jobs : ~Working(j)'
      BY <2>0, <3>1, IdleType DEF WorkInv, JobsThere, Working, Awaited
    <3> QED
      BY <3>1, <3>4, <3>5, <3>6 DEF KnowsInv, SuccessIsTheBuild
  <2>2. ASSUME NEW j \in Jobs, NEW step \in {InstallStep, "download"}, NEW art \in Artifacts,
               RunInstallMode(j, step, art)
        PROVE  KnowsInv'
    <3>1. /\ mode = "closed" /\ mode' = "file" /\ windows' = windows + 1
          /\ said' = said /\ done' = done /\ Start(j, windows + 1, step, art, None)
      BY <2>2 DEF RunInstallMode, Open, machine
    <3>2. said = None /\ ~done
      BY <3>1 DEF KnowsInv
    <3>3. /\ job'[j].pc \in {"attach", "package", "download"} /\ job'[j].pr = None
          /\ job'[j].for = windows + 1
      BY <2>0, <3>1 DEF Start, InstallStep
    <3>4. Working(j)'
      BY <3>1, <3>3 DEF Working, Awaited
    <3>5. \A i \in Jobs \ {j} : ~Working(i)'
      BY <3>4 DEF WorkInv, OneJobAtATime
    <3>6. WorkerKnows(j)'
      BY <3>1, <3>2, <3>3 DEF WorkerKnows
    <3> QED
      BY <3>1, <3>2, <3>5, <3>6 DEF KnowsInv, SuccessIsTheBuild
  <2>3. CASE Listed
    <3>1. /\ mode' = mode /\ windows' = windows /\ job' = job /\ said' = said /\ done' = done /\ app' = app
          /\ misled' = misled /\ isInstalled' = isInstalled /\ (~err' => ~err)
      BY <2>3 DEF Listed, machine
    <3>2. \A j \in Jobs : /\ Working(j)' => Working(j)
                          /\ WorkerKnows(j) => WorkerKnows(j)'
      BY <3>1 DEF Working, Awaited, WorkerKnows, Outcome
    <3>3. \A j \in Jobs : Working(j) => Working(j)'
      BY <3>1 DEF Working, Awaited
    <3> QED
      BY <3>1, <3>2, <3>3 DEF KnowsInv, SuccessIsTheBuild
  <2>4. ASSUME NEW p \in PRs, Select(p) PROVE KnowsInv'
    <3>1. /\ mode' = mode /\ windows' = windows /\ job' = job /\ said' = said /\ done' = done /\ app' = app
          /\ misled' = misled /\ isInstalled' = isInstalled /\ err' = err
      BY <2>4 DEF Select, machine
    <3> QED
      BY <3>1 DEF KnowsInv, SuccessIsTheBuild, Working, Awaited, WorkerKnows, Outcome
  <2>5. ASSUME NEW j \in Jobs, PressUninstall(j) \/ PressInstall(j) PROVE KnowsInv'
    <3>1. /\ mode = "prs" /\ mode' = "prs" /\ windows' = windows /\ said' = None /\ done' = done
          /\ \/ Start(j, windows, "remove", None, None)
             \/ selected # None /\ \E art : Start(j, windows, "download", art, selected)
      BY <2>5 DEF PressUninstall, PressInstall, ButtonsDrawn, Drawn
    <3>2. /\ job'[j].for = windows
          /\ \/ job'[j].pc = "remove" /\ job'[j].pr = None
             \/ job'[j].pc = "download" /\ job'[j].pr # None
      <4>1. CASE Start(j, windows, "remove", None, None)
        BY <2>0, <4>1 DEF Start
      <4>2. CASE selected # None /\ \E art : Start(j, windows, "download", art, selected)
        <5>1. PICK art : Start(j, windows, "download", art, selected)
          BY <4>2
        <5> QED
          BY <2>0, <4>2, <5>1 DEF Start
      <4> QED
        BY <3>1, <4>1, <4>2
    <3>3. ~done'
      BY <3>1 DEF KnowsInv
    <3>4. Working(j)'
      BY <3>1, <3>2 DEF Working, Awaited
    <3>5. \A i \in Jobs \ {j} : ~Working(i)'
      BY <3>4 DEF WorkInv, OneJobAtATime
    <3>6. WorkerKnows(j)'
      BY <3>1, <3>2, <3>3 DEF WorkerKnows
    <3> QED
      BY <3>1, <3>3, <3>4, <3>5, <3>6 DEF KnowsInv, SuccessIsTheBuild
  <2>6. ASSUME NEW j \in Jobs, JobStep(j) PROVE KnowsInv'
    BY <2>6, OrphanStep, WorkerStep
  <2>7. CASE Close
    <3>1. mode' = "closed" /\ said' = None /\ ~done'
      BY <2>7 DEF Close
    <3> QED
      BY <3>1 DEF KnowsInv, SuccessIsTheBuild, Working, Awaited
  <2>8. CASE UNCHANGED vars
    BY <2>8 DEF vars, window, machine, KnowsInv, SuccessIsTheBuild, Working, Awaited, WorkerKnows, Outcome
  <2> QED
    BY <2>1, <2>2, <2>3, <2>4, <2>5, <2>6, <2>7, <2>8 DEF Next
<1> QED
  BY <1>1, <1>2, TypeInductive, WorkInvInductive, PTL DEF Spec

\* Theorem for OffersWhatIsThere.
THEOREM OffersWhatIsThereHolds == Spec => []OffersWhatIsThere
<1>1. WorkInv /\ KnowsInv => OffersWhatIsThere
  BY DEF WorkInv, KnowsInv, OffersWhatIsThere, Drawn, Working
<1> QED
  BY <1>1, WorkInvInductive, KnowsInvInductive, PTL

\* Theorem for SuccessIsTheBuild.
THEOREM SuccessIsTheBuildHolds == Spec => []SuccessIsTheBuild
<1>1. KnowsInv => SuccessIsTheBuild
  BY DEF KnowsInv
<1> QED
  BY <1>1, KnowsInvInductive, PTL

-----------------------------------------------------------------------------
(* A job comes to an end, and the window waits for nobody else. *)

\* The steps a job at this place has before it at the most, this one included.
Place ==
  [idle |-> 0, clear |-> 1, report |-> 2, launch |-> 3, remove |-> 3, package |-> 4,
   detach |-> 4, cp |-> 5, rm |-> 6, attach |-> 7, download |-> 8]

StepsLeft(j) == Place[job[j].pc]

\* No place is farther than eight steps from the end.
LEMMA EveryPlaceIsNear == \A r \in JobRecords : Place[r.pc] \in 0..8
<1>1. \A step \in Steps \cup {"idle"} : Place[step] \in 0..8
  BY DEF Steps, Commands, Place
<1> QED
  BY <1>1 DEF JobRecords

\* Then, ThenFail and their like go to this step, or nowhere.
LEMMA ThenGoes ==
  ASSUME JobsThere, NEW j \in Jobs, NEW step \in Steps, Then(j, step) \/ ThenFail(j, step)
  PROVE  job'[j].pc \in {step, "idle"}
<1>1. job[j] \in JobRecords
  BY DEF JobsThere
<1>2. /\ Idle.pc = "idle" /\ [job[j] EXCEPT !.pc = step].pc = step
      /\ [job[j] EXCEPT !.pc = step, !.result = "error"].pc = step
  BY <1>1, IdleType DEF JobRecords
<1>3. job'[j] \in {Idle, [job[j] EXCEPT !.pc = step], [job[j] EXCEPT !.pc = step, !.result = "error"]}
  BY DEF Then, ThenFail, JobsThere
<1> QED
  BY <1>2, <1>3

\* Every step of a job goes towards the end.
LEMMA StepComesNearer ==
  ASSUME JobsThere, os \in Systems, NEW j \in Jobs, JobStep(j)
  PROVE  StepsLeft(j)' < StepsLeft(j)
<1>0. {"report", "clear", "cp", "rm", "detach", "launch", "attach", "package"} \subseteq Steps
  BY DEF Steps, Commands
<1>1. CASE Download(j)
  <2>1. job[j].pc = "download" /\ job'[j].pc \in {"attach", "package", "report", "idle"}
    BY <1>0, <1>1, ThenGoes DEF Download, At, InstallStep
  <2> QED
    BY <2>1 DEF StepsLeft, Place
<1>2. CASE Package(j)
  <2>1. job[j].pc = "package" /\ job'[j].pc \in {"report", "launch", "idle"}
    BY <1>0, <1>2, ThenGoes DEF Package, At, Installed
  <2> QED
    BY <2>1 DEF StepsLeft, Place
<1>3. CASE Attach(j)
  <2>1. job[j].pc = "attach"
    BY <1>3 DEF Attach, At
  <2>2. CASE ThenFail(j, "report")
    <3>1. job'[j].pc \in {"report", "idle"}
      BY <1>0, <2>2, ThenGoes
    <3> QED
      BY <2>1, <3>1 DEF StepsLeft, Place
  <2>3. ASSUME NEW m,
               job' = [job EXCEPT ![j] =
                         IF Awaited(j) THEN [@ EXCEPT !.pc = "rm", !.mount = m] ELSE Idle]
        PROVE  StepsLeft(j)' < StepsLeft(j)
    <3>1. job[j] \in JobRecords
      BY DEF JobsThere
    <3>2. [job[j] EXCEPT !.pc = "rm", !.mount = m].pc = "rm" /\ Idle.pc = "idle"
      BY <3>1, IdleType DEF JobRecords
    <3>3. job'[j] \in {Idle, [job[j] EXCEPT !.pc = "rm", !.mount = m]}
      BY <2>3 DEF JobsThere
    <3>4. job'[j].pc \in {"rm", "idle"}
      BY <3>2, <3>3
    <3> QED
      BY <2>1, <3>4 DEF StepsLeft, Place
  <2> QED
    BY <1>3, <2>2, <2>3 DEF Attach
<1>4. CASE RemoveOldBundle(j)
  <2>1. job[j].pc = "rm" /\ job'[j].pc \in {"cp", "idle"}
    BY <1>0, <1>4, ThenGoes DEF RemoveOldBundle, At
  <2> QED
    BY <2>1 DEF StepsLeft, Place
<1>5. CASE CopyBundle(j)
  <2>1. job[j].pc = "cp" /\ job'[j].pc \in {"detach", "idle"}
    BY <1>0, <1>5, ThenGoes DEF CopyBundle, At
  <2> QED
    BY <2>1 DEF StepsLeft, Place
<1>6. CASE Detach(j)
  <2>1. job[j].pc = "detach" /\ job'[j].pc \in {"report", "launch", "idle"}
    BY <1>0, <1>6, ThenGoes DEF Detach, At, Installed
  <2> QED
    BY <2>1 DEF StepsLeft, Place
<1>7. CASE Remove(j)
  <2>1. job[j].pc = "remove" /\ job'[j].pc \in {"report", "idle"}
    BY <1>0, <1>7, ThenGoes DEF Remove, At
  <2> QED
    BY <2>1 DEF StepsLeft, Place
<1>8. CASE Launch(j)
  <2>1. job[j].pc = "launch" /\ job'[j].pc \in {"report", "idle"}
    BY <1>0, <1>8, ThenGoes DEF Launch, At
  <2> QED
    BY <2>1 DEF StepsLeft, Place
<1>9. CASE Report(j)
  <2>1. job[j].pc = "report" /\ job'[j].pc \in {"clear", "idle"}
    BY <1>0, <1>9, ThenGoes DEF Report, At
  <2> QED
    BY <2>1 DEF StepsLeft, Place
<1>10. CASE Clear(j) \/ ReportInstall(j)
  <2>1. job[j].pc \in {"clear", "report"} /\ job'[j].pc = "idle"
    BY <1>10, IdleType DEF Clear, ReportInstall, At, JobsThere
  <2> QED
    BY <2>1 DEF StepsLeft, Place
<1> QED
  BY <1>1, <1>2, <1>3, <1>4, <1>5, <1>6, <1>7, <1>8, <1>9, <1>10 DEF JobStep

\* A job is over within eight steps of its own, whatever fails: each brings the end
\* nearer, and no other job, no click and no window that closes puts it off (prs.go,
\* app.go, and the installers of Linux and macOS).
THEOREM JobIsBounded ==
  Spec => /\ [](\A j \in Jobs : StepsLeft(j) \in 0..8)
          /\ [][\A j \in Jobs :
                  /\ JobStep(j) => StepsLeft(j)' < StepsLeft(j)
                  /\ job[j].pc # "idle" => StepsLeft(j)' <= StepsLeft(j)]_vars
<1> DEFINE Bounded == \A j \in Jobs : StepsLeft(j) \in 0..8
           Nearer == \A j \in Jobs :
                       /\ JobStep(j) => StepsLeft(j)' < StepsLeft(j)
                       /\ job[j].pc # "idle" => StepsLeft(j)' <= StepsLeft(j)
<1>1. Others => Bounded
  BY EveryPlaceIsNear DEF Others, JobsThere, StepsLeft
<1>2. Others /\ [Next]_vars => [Nearer]_vars
  <2> SUFFICES ASSUME Others, Next, NEW q \in Jobs
               PROVE  /\ JobStep(q) => StepsLeft(q)' < StepsLeft(q)
                      /\ job[q].pc # "idle" => StepsLeft(q)' <= StepsLeft(q)
    BY Zenon
  <2>0. JobsThere /\ os \in Systems /\ job \in [Jobs -> JobRecords]
    BY DEF Others, JobsThere
  <2>1. JobStep(q) => StepsLeft(q)' < StepsLeft(q)
    BY <2>0, StepComesNearer
  <2>2. StepsLeft(q) \in Nat
    BY <1>1
  <2>3. ASSUME job'[q] = job[q] PROVE StepsLeft(q)' <= StepsLeft(q)
    BY <2>2, <2>3 DEF StepsLeft
  <2>4. ASSUME job'[q] = Idle PROVE StepsLeft(q)' <= StepsLeft(q)
    BY <2>2, <2>4, IdleType DEF StepsLeft, Place
  <2>5. ASSUME NEW j \in Jobs, JobStep(j) PROVE StepsLeft(q)' <= StepsLeft(q)
    <3>1. PICK r \in Moves(j) : job' = [job EXCEPT ![j] = r]
      BY <2>0, <2>5, StepShape
    <3>2. CASE j = q
      <4>1. StepsLeft(q)' < StepsLeft(q)
        BY <2>1, <2>5, <3>2
      <4>2. StepsLeft(q)' \in Nat
        <5>1. Moves(j) \subseteq JobRecords
          BY IdleType DEF Moves
        <5>2. job'[q] \in JobRecords
          BY <2>0, <3>1, <3>2, <5>1
        <5> QED
          BY <5>2, EveryPlaceIsNear DEF StepsLeft
      <4> QED
        BY <2>2, <4>1, <4>2
    <3>3. CASE j # q
      BY <2>0, <2>3, <3>1, <3>3
    <3> QED
      BY <3>2, <3>3
  <2>6. ASSUME job[q].pc # "idle", NEW j \in Jobs, NEW win, NEW step, NEW art, NEW pr,
               Start(j, win, step, art, pr)
        PROVE  StepsLeft(q)' <= StepsLeft(q)
    BY <2>0, <2>3, <2>6 DEF Start
  <2>7. ASSUME job[q].pc # "idle", NEW j \in Jobs, NEW step, NEW art, RunInstallMode(j, step, art)
        PROVE  StepsLeft(q)' <= StepsLeft(q)
    BY <2>6, <2>7, Zenon DEF RunInstallMode
  <2>8. ASSUME job[q].pc # "idle", NEW j \in Jobs, PressUninstall(j) \/ PressInstall(j)
        PROVE  StepsLeft(q)' <= StepsLeft(q)
    BY <2>6, <2>8, Zenon DEF PressUninstall, PressInstall
  <2>9. ASSUME Close PROVE StepsLeft(q)' <= StepsLeft(q)
    <3>1. job'[q] = job[q] \/ job'[q] = Idle
      BY <2>0, <2>9 DEF Close
    <3> QED
      BY <2>3, <2>4, <3>1
  <2>10. ASSUME RunPRPickerMode \/ Listed \/ (\E p \in PRs : Select(p))
         PROVE  StepsLeft(q)' <= StepsLeft(q)
    <3>1. job' = job
      BY <2>10, Zenon DEF RunPRPickerMode, Listed, Select
    <3> QED
      BY <2>3, <3>1
  <2> QED
    BY <2>1, <2>5, <2>7, <2>8, <2>9, <2>10, Zenon DEF Next
<1> QED
  BY <1>1, <1>2, TypeInductive, PTL DEF Spec

\* In the picker, a job whose window waits for it stops in Clear only.
LEMMA StaysAtWork ==
  ASSUME JobsThere, NEW j \in Jobs, JobStep(j), ~Clear(j), Working(j), mode = "prs"
  PROVE  job'[j].pc # "idle"
<1>0. job[j] \in JobRecords /\ Awaited(j)
  BY DEF JobsThere, Working
<1>1. InstallStep \in Steps /\ Installed \in Steps /\ {"report", "clear", "cp", "rm", "detach"} \subseteq Steps
  BY DEF InstallStep, Installed, Steps, Commands
<1>2. ASSUME NEW step \in Steps, Then(j, step) \/ ThenFail(j, step) PROVE job'[j].pc # "idle"
  <2>1. job'[j] \in {[job[j] EXCEPT !.pc = step], [job[j] EXCEPT !.pc = step, !.result = "error"]}
    BY <1>0, <1>2 DEF Then, ThenFail, JobsThere
  <2>2. job'[j].pc = step
    BY <1>0, <2>1 DEF JobRecords
  <2> QED
    BY <2>2 DEF Steps, Commands
<1>3. CASE Download(j) \/ Package(j) \/ RemoveOldBundle(j) \/ CopyBundle(j) \/ Detach(j)
             \/ Remove(j) \/ Launch(j) \/ Report(j)
  <2>1. \E step \in Steps : Then(j, step) \/ ThenFail(j, step)
    BY <1>1, <1>3 DEF Download, Package, RemoveOldBundle, CopyBundle, Detach, Remove, Launch, Report
  <2> QED
    BY <1>2, <2>1
<1>4. CASE Attach(j)
  <2>1. ASSUME NEW m,
               job' = [job EXCEPT ![j] =
                         IF Awaited(j) THEN [@ EXCEPT !.pc = "rm", !.mount = m] ELSE Idle]
        PROVE  job'[j].pc # "idle"
    <3>1. job'[j] = [job[j] EXCEPT !.pc = "rm", !.mount = m]
      BY <1>0, <2>1 DEF JobsThere
    <3>2. job'[j].pc = "rm"
      BY <1>0, <3>1 DEF JobRecords
    <3> QED
      BY <3>2
  <2> QED
    BY <1>1, <1>2, <1>4, <2>1 DEF Attach
<1> QED
  BY <1>3, <1>4 DEF JobStep, ReportInstall

\* While the buttons are away, a job of this very window is at work, not one that an
\* earlier window left behind; it gives them back at its end (prs.go:98 and 116, cleared
\* in 109, 122 and 140).
BusyForAJob == installing => mode = "prs" /\ \E j \in Jobs : Working(j)

\* Theorem for BusyForAJob: no failure and no click leaves the flag up for nobody.
THEOREM BusyForAJobHolds == Spec => []BusyForAJob
<1>1. Init => BusyForAJob
  BY DEF Init, BusyForAJob
<1>2. Others /\ BusyForAJob /\ [Next]_vars => BusyForAJob'
  <2> SUFFICES ASSUME Others, BusyForAJob, [Next]_vars PROVE BusyForAJob'
    OBVIOUS
  <2>0. JobsThere /\ job \in [Jobs -> JobRecords] /\ os \in Systems /\ windows \in 0..MaxWindows
    BY DEF Others, JobsThere
  <2>1. ASSUME UNCHANGED <<mode, windows, installing, job>> PROVE BusyForAJob'
    BY <2>1 DEF BusyForAJob, Working, Awaited
  <2>2. ASSUME NEW m, Open(m) PROVE BusyForAJob'
    <3>1. ~installing /\ installing' = installing
      BY <2>2 DEF Open, BusyForAJob
    <3> QED
      BY <3>1 DEF BusyForAJob
  <2>3. CASE Listed \/ (\E p \in PRs : Select(p))
    BY <2>1, <2>3, Zenon DEF Listed, Select
  <2>4. ASSUME NEW j \in Jobs, PressUninstall(j) \/ PressInstall(j) PROVE BusyForAJob'
    <3>1. PICK step \in Steps, art \in Artifacts \cup {None}, pr \in PRs \cup {None} :
            Start(j, windows, step, art, pr)
      BY <2>4, BestIsAnArtifact DEF PressUninstall, PressInstall, ButtonsDrawn, Others, Steps, Commands
    <3>2. mode' = "prs" /\ windows' = windows
      BY <2>4 DEF PressUninstall, PressInstall, ButtonsDrawn, Drawn
    <3>3. job' = [job EXCEPT ![j] = [pc |-> step, art |-> art, pr |-> pr, mount |-> "",
                                     result |-> "ok", for |-> windows]]
      BY <3>1 DEF Start
    <3>4. job'[j].pc = step /\ job'[j].for = windows
      BY <2>0, <3>3
    <3>5. step # "idle"
      BY DEF Steps, Commands
    <3> QED
      BY <3>2, <3>4, <3>5 DEF BusyForAJob, Working, Awaited
  <2>5. ASSUME NEW j \in Jobs, JobStep(j) PROVE BusyForAJob'
    <3>1. PICK r \in Moves(j) : job' = [job EXCEPT ![j] = r]
      BY <2>0, <2>5, StepShape
    <3>2. UNCHANGED <<mode, windows>>
      BY <2>0, <2>5, StepShape
    <3>3. CASE Clear(j)
      BY <3>3 DEF Clear, BusyForAJob
    <3>4. CASE ~Clear(j) /\ ~installing'
      BY <3>4 DEF BusyForAJob
    <3>5. CASE ~Clear(j) /\ installing'
      <4>1. installing
        <5>1. installing' = installing \/ job[j].pc = "clear"
          BY <2>0, <2>5, StepShape
        <5>2. job[j].pc # "clear"
          BY <2>5, <3>5, Zenon
             DEF JobStep, Download, Package, Attach, RemoveOldBundle, CopyBundle, Detach,
                 Remove, Launch, Report, ReportInstall, At
        <5> QED
          BY <3>5, <5>1, <5>2
      <4>2. PICK i \in Jobs : mode = "prs" /\ Working(i)
        BY <4>1 DEF BusyForAJob
      <4>3. CASE i # j
        <5>1. job'[i] = job[i]
          BY <2>0, <3>1, <4>3
        <5> QED
          BY <3>2, <4>2, <5>1 DEF BusyForAJob, Working, Awaited
      <4>4. CASE i = j
        <5>1. job'[j].pc # "idle"
          BY <2>5, <3>5, <4>2, <4>4, StaysAtWork, <2>0
        <5>2. job'[j].for = job[j].for
          BY <2>0, <3>1, <5>1, IdleType DEF Moves
        <5> QED
          BY <3>2, <4>2, <4>4, <5>1, <5>2 DEF BusyForAJob, Working, Awaited
      <4> QED
        BY <4>3, <4>4
    <3> QED
      BY <3>3, <3>4, <3>5
  <2>6. CASE Close
    BY <2>6 DEF Close, BusyForAJob
  <2>7. CASE UNCHANGED vars
    BY <2>1, <2>7 DEF vars, window
  <2>8. ASSUME NEW j \in Jobs, NEW step, NEW art, RunInstallMode(j, step, art) PROVE BusyForAJob'
    BY <2>2, <2>8, Zenon DEF RunInstallMode
  <2>9. CASE RunPRPickerMode
    BY <2>2, <2>9, Zenon DEF RunPRPickerMode
  <2> QED
    BY <2>3, <2>4, <2>5, <2>6, <2>7, <2>8, <2>9, Zenon DEF Next
<1> QED
  BY <1>1, <1>2, TypeInductive, PTL DEF Spec

=============================================================================
