---------------------------- MODULE VersionPicker ----------------------------
(***************************************************************************)
(* The version picker and its install wizard                               *)
(* (tools/centroidx-manager/internal/ui, picker.go and wizard.go).         *)
(*                                                                         *)
(* One goroutine draws the window and handles the operator's clicks; the   *)
(* release list, the certificate approval, installs and uninstalls each    *)
(* run in a goroutine of their own and write the shared pickerState when   *)
(* they come to it, without a lock.  What a goroutine writes in several    *)
(* assignments it writes in several steps here, where the order matters.   *)
(*                                                                         *)
(* The release site, the engine and Windows are external.                  *)
(***************************************************************************)
EXTENDS Integers, Sequences, FiniteSets, InstallOutcomes

CONSTANTS
  MaxReleases,  \* bound on the releases ever published
  MaxLoads,     \* bound on the number of times the list is loaded
  MaxPresses    \* bound on the presses of Install and Uninstall buttons

ASSUME BoundsAssumption == MaxReleases \in Nat /\ MaxLoads \in Nat \ {0} /\ MaxPresses \in Nat

Channels == {"stable", "latest"}
Releases == 1..MaxReleases
Newest == 0        \* the empty version: the engine takes the newest on the channel
Lists == {list \in UNION {[1..n -> Releases] : n \in 0..MaxReleases} :
            \A i, j \in DOMAIN list : i < j => list[i] > list[j]}

VARIABLES
  site,         \* per channel, the releases published, newest first
  channel,      \* the channel shown
  releases,     \* the list shown
  clicks,       \* len(itemClicks): the rows that can be clicked
  selected,     \* the row selected, 0 for none
  loading,      \* the list is being fetched
  requests,     \* the goroutines fetching a list
  notes,        \* the release whose notes are cached
  notesFor,     \* the row they were cached for, 0 for none
  step,         \* the wizard's step
  kind,         \* the wizard's choice: managed or portable
  trusted,      \* the wizard takes the certificate for approved
  asking,       \* the goroutines waiting for Windows' approval of the certificate
  answered,     \* those that have it and have yet to start the install
  installing,   \* the flag every button looks at
  jobs,         \* installs and uninstalls under way
  installed,    \* the application is on the machine
  isInstalled,  \* what the window says about it
  loads,        \* history: the number of loads started
  shown,        \* history: the load the list shown came from
  presses,      \* history: presses of Install and Uninstall
  wanted,       \* history: the release the open wizard was opened for, Newest after Cancel
  hasty,        \* history: a click came between two assignments of a goroutine
  returned,     \* history: a channel was entered again with its list still under way
  misled        \* history: the last query whether it is installed failed, and it is

list == <<channel, releases, clicks, selected, loading, requests, loads, shown>>
cache == <<notes, notesFor>>
wizard == <<step, kind, trusted>>
machine == <<installed, isInstalled, misled>>
trust == <<asking, answered>>
wish == <<presses, wanted>>
history == <<hasty, returned>>
vars == <<site, list, cache, wizard, trust, installing, jobs, machine, wish, history>>

-----------------------------------------------------------------------------
\* A goroutine that is between two of its assignments.
Midway ==
  \/ answered > 0
  \/ \E r \in requests : r.phase \in {"passed", "listed"}

\* The window goroutine handles a click, whatever the others are at.
Click ==
  /\ hasty' = (hasty \/ Midway)
  /\ UNCHANGED returned

\* The body shows the list and the details of the selected release.
ListDrawn == step = "none" /\ ~loading /\ releases # <<>>

\* Below the details of a selected release, its buttons.
ButtonsDrawn == ListDrawn /\ selected # 0 /\ ~installing

\* The wizard has the body to itself while it is open.
WizardDrawn == step # "none"

\* selectedVersion
SelectedVersion == IF selected \in DOMAIN releases THEN releases[selected] ELSE Newest

\* loadReleases for channel ch: the goroutine that will answer is started.
Load(ch) ==
  /\ loading' = TRUE
  /\ selected' = 0
  /\ releases' = <<>>
  /\ clicks' = 0
  /\ loads' = loads + 1
  /\ requests' = requests \cup {[load |-> loads + 1, channel |-> ch, phase |-> "asked", list |-> <<>>]}

\* IsInstalled: FALSE also when the query fails.
IsInstalled(said, wrong) ==
  /\ said \in {installed, FALSE}
  /\ wrong = (installed /\ ~said)

Init ==
  /\ site = [ch \in Channels |-> <<>>]
  /\ channel = "stable"
  /\ releases = <<>> /\ clicks = 0 /\ selected = 0 /\ loading = TRUE
  /\ requests = {[load |-> 1, channel |-> "stable", phase |-> "asked", list |-> <<>>]}
  /\ loads = 1 /\ shown = 0
  /\ notes = 0 /\ notesFor = 0
  /\ step = "none" /\ kind = "managed" /\ trusted = FALSE
  /\ asking = 0 /\ answered = 0
  /\ installing = FALSE
  /\ jobs = <<>>
  /\ installed \in BOOLEAN
  /\ IsInstalled(isInstalled, misled)
  /\ presses = 0 /\ wanted = Newest
  /\ hasty = FALSE /\ returned = FALSE

-----------------------------------------------------------------------------
(* The release site. *)

Published == Len(site["stable"]) + Len(site["latest"])

\* A release appears at the head of its channel.
Publish(ch) ==
  /\ Published < MaxReleases
  /\ site' = [site EXCEPT ![ch] = <<Published + 1>> \o @]
  /\ UNCHANGED <<list, cache, wizard, trust, installing, jobs, machine, wish, history>>

-----------------------------------------------------------------------------
(* The goroutine of loadReleases. *)

Advance(r, phase) == requests' = (requests \ {r}) \cup {[r EXCEPT !.phase = phase]}

\* The site answers with the list as it is now.
Answer(r) ==
  /\ r \in requests
  /\ r.phase = "asked"
  /\ requests' = (requests \ {r})
                   \cup {[r EXCEPT !.phase = "answered", !.list = site[r.channel]]}
  /\ UNCHANGED <<site, channel, releases, clicks, selected, loading, loads, shown,
                 cache, wizard, trust, installing, jobs, machine, wish, history>>

\* Mutant: a late response is shown whatever the channel.
CheckNothing(r) ==
  /\ r \in requests
  /\ r.phase = "answered"
  /\ Advance(r, "passed")
  /\ UNCHANGED <<site, channel, releases, clicks, selected, loading, loads, shown,
                 cache, wizard, trust, installing, jobs, machine, wish, history>>

\* A response for another channel than the one shown is dropped.
CheckChannel(r) ==
  /\ r \in requests
  /\ r.phase = "answered"
  /\ IF r.channel = channel THEN Advance(r, "passed") ELSE requests' = requests \ {r}
  /\ UNCHANGED <<site, channel, releases, clicks, selected, loading, loads, shown,
                 cache, wizard, trust, installing, jobs, machine, wish, history>>

\* Mutant: the window is told that the list is there before its rows are.
ShowListEarly(r) ==
  /\ r \in requests
  /\ r.phase = "passed"
  /\ releases' = r.list
  /\ shown' = r.load
  /\ loading' = FALSE
  /\ Advance(r, "listed")
  /\ UNCHANGED <<site, channel, clicks, selected, loads,
                 cache, wizard, trust, installing, jobs, machine, wish, history>>

ShowList(r) ==
  /\ r \in requests
  /\ r.phase = "passed"
  /\ releases' = r.list
  /\ shown' = r.load
  /\ Advance(r, "listed")
  /\ UNCHANGED <<site, channel, clicks, selected, loading, loads,
                 cache, wizard, trust, installing, jobs, machine, wish, history>>

ShowRows(r) ==
  /\ r \in requests
  /\ r.phase = "listed"
  /\ clicks' = Len(r.list)
  /\ loading' = FALSE
  /\ requests' = requests \ {r}
  /\ UNCHANGED <<site, channel, releases, selected, loads, shown,
                 cache, wizard, trust, installing, jobs, machine, wish, history>>

\* Mutant: a failure leaves the window at "Loading versions...".
LoadFailsSilently(r) ==
  /\ r \in requests
  /\ r.phase = "asked"
  /\ requests' = requests \ {r}
  /\ UNCHANGED <<site, channel, releases, clicks, selected, loading, loads, shown,
                 cache, wizard, trust, installing, jobs, machine, wish, history>>

\* The request fails: the error is shown if the channel is.
LoadFails(r) ==
  /\ r \in requests
  /\ r.phase = "asked"
  /\ loading' = (loading /\ r.channel # channel)
  /\ requests' = requests \ {r}
  /\ UNCHANGED <<site, channel, releases, clicks, selected, loads, shown,
                 cache, wizard, trust, installing, jobs, machine, wish, history>>

-----------------------------------------------------------------------------
(* The operator at the list. *)

SwitchChannel(ch) ==
  /\ channel # ch
  /\ ~installing
  /\ loads < MaxLoads
  /\ channel' = ch
  /\ hasty' = (hasty \/ Midway)
  /\ returned' = (returned \/ \E r \in requests : r.channel = ch)
  /\ Load(ch)
  /\ UNCHANGED <<site, shown, cache, wizard, trust, installing, jobs, machine, wish>>

\* notesLines: from the cache, if they were cached for this row.
NotesLines(i) ==
  IF notesFor = i \/ i \notin DOMAIN releases
    THEN UNCHANGED cache
    ELSE notes' = releases[i] /\ notesFor' = i

\* A row is clicked, and its notes are drawn.
Select(i) ==
  /\ Click
  /\ ListDrawn
  /\ i \in 1..clicks
  /\ selected' = i
  /\ NotesLines(i)
  /\ UNCHANGED <<site, channel, releases, clicks, loading, requests, loads, shown,
                 wizard, trust, installing, jobs, machine, wish>>

\* "Install this version" opens the wizard.
PressInstall ==
  /\ Click
  /\ ButtonsDrawn
  /\ selected \in DOMAIN releases
  /\ presses < MaxPresses
  /\ step' = "destination"
  /\ presses' = presses + 1
  /\ wanted' = releases[selected]
  /\ UNCHANGED <<site, list, cache, kind, trusted, trust, installing, jobs, machine>>

PressUninstall ==
  /\ Click
  /\ ButtonsDrawn
  /\ isInstalled
  /\ presses < MaxPresses
  /\ presses' = presses + 1
  /\ installing' = TRUE
  /\ jobs' = Append(jobs, [what |-> "uninstall", version |-> Newest, answer |-> "none"])
  /\ UNCHANGED <<site, list, cache, wizard, trust, machine, wanted>>

-----------------------------------------------------------------------------
(* The wizard. *)

\* startInstall: the selection is read now, and the wizard closes.
StartInstall ==
  /\ step' = "none" /\ wanted' = Newest
  /\ installing' = TRUE
  /\ jobs' = Append(jobs, [what |-> kind, version |-> SelectedVersion, answer |-> "none"])

Cancel ==
  /\ Click
  /\ WizardDrawn
  /\ step' = "none"
  /\ wanted' = Newest
  /\ UNCHANGED <<site, list, cache, kind, trusted, trust, installing, jobs, machine, presses>>

Choose(k) ==
  /\ Click
  /\ step = "destination"
  /\ kind' = k
  /\ UNCHANGED <<site, list, cache, step, trusted, trust, installing, jobs, machine, wish>>

Back ==
  /\ Click
  /\ step = "certificate"
  /\ step' = "destination"
  /\ UNCHANGED <<site, list, cache, kind, trusted, trust, installing, jobs, machine, wish>>

\* refreshTrust: what the machine's stores say of the publisher.
RefreshTrust == trusted' \in BOOLEAN

\* Next on the destination step.  A managed install looks at the certificate.
NextFromDestination ==
  /\ Click
  /\ step = "destination"
  /\ ~installing
  /\ \/ /\ kind = "portable"
        /\ StartInstall
        /\ UNCHANGED trusted
     \/ /\ kind = "managed"
        /\ step' = "certificate"
        /\ RefreshTrust
        /\ UNCHANGED <<installing, jobs, wanted>>
  /\ UNCHANGED <<site, list, cache, kind, trust, machine, presses>>

\* Mutant: the buttons stay alive while Windows asks for approval.
NextWithoutFlag ==
  /\ Click
  /\ step = "certificate"
  /\ ~installing /\ ~trusted
  /\ presses < MaxPresses
  /\ presses' = presses + 1
  /\ asking' = asking + 1
  /\ UNCHANGED <<site, list, cache, wizard, answered, installing, jobs, machine, wanted>>

\* Install on the certificate step: at once, or after the approval.
NextFromCertificate ==
  /\ Click
  /\ step = "certificate"
  /\ ~installing
  /\ \/ /\ trusted
        /\ StartInstall
        /\ UNCHANGED <<asking, presses>>
     \/ /\ ~trusted
        /\ presses < MaxPresses
        /\ presses' = presses + 1
        /\ installing' = TRUE
        /\ asking' = asking + 1
        /\ UNCHANGED <<step, jobs, wanted>>
  /\ UNCHANGED <<site, list, cache, kind, trusted, answered, machine>>

\* TrustCertificateFor returns; the buttons are released first of all.
TrustFails ==
  /\ asking > 0
  /\ asking' = asking - 1
  /\ installing' = FALSE
  /\ UNCHANGED answered
  /\ UNCHANGED <<site, list, cache, wizard, jobs, machine, wish, history>>

TrustGiven ==
  /\ asking > 0
  /\ asking' = asking - 1
  /\ answered' = answered + 1
  /\ installing' = FALSE
  /\ UNCHANGED <<site, list, cache, wizard, jobs, machine, wish, history>>

\* ... and the install follows.
InstallAfterTrust ==
  /\ answered > 0
  /\ answered' = answered - 1
  /\ trusted' = TRUE
  /\ StartInstall
  /\ UNCHANGED <<site, list, cache, kind, asking, machine, presses, history>>

-----------------------------------------------------------------------------
(* The goroutines of an install and of an uninstall. *)

\* What the job does to the machine, as far as the installer promises; a portable
\* install leaves it alone.
Work(n) ==
  /\ n \in DOMAIN jobs
  /\ jobs[n].answer = "none"
  /\ \E o \in Outcomes(installed, jobs[n].what = "managed", FALSE) :
       /\ installed' = IF jobs[n].what = "portable" THEN installed ELSE o.left
       /\ jobs' = [jobs EXCEPT ![n].answer = o.answer]
  /\ UNCHANGED <<site, list, cache, wizard, trust, installing, isInstalled, misled, wish, history>>

\* A job is over.
Finish(n) ==
  /\ n \in DOMAIN jobs
  /\ jobs[n].answer # "none"
  /\ installing' = FALSE
  /\ jobs' = SubSeq(jobs, 1, n - 1) \o SubSeq(jobs, n + 1, Len(jobs))
  /\ UNCHANGED <<site, list, cache, wizard, trust, installed, wish, history>>

\* Mutant: the window is not told what is on the machine now.
ReportNothing(n) ==
  /\ Finish(n)
  /\ UNCHANGED <<isInstalled, misled>>

\* The window is told: by asking the machine after an install, whatever its
\* outcome, and by the success of an uninstall.
Report(n) ==
  /\ Finish(n)
  /\ \/ jobs[n].what # "uninstall" /\ IsInstalled(isInstalled', misled')
     \/ /\ jobs[n].what = "uninstall" /\ jobs[n].answer = "ok"
        /\ isInstalled' = FALSE /\ misled' = FALSE
     \/ /\ jobs[n].what = "uninstall" /\ jobs[n].answer = "error"
        /\ UNCHANGED <<isInstalled, misled>>

-----------------------------------------------------------------------------
Loading(r) == Answer(r) \/ CheckChannel(r) \/ ShowList(r) \/ ShowRows(r) \/ LoadFails(r)
Trusting == TrustFails \/ TrustGiven
Working == \E n \in DOMAIN jobs : Work(n) \/ Report(n)

Goroutines ==
  \/ \E r \in requests : Loading(r)
  \/ Trusting
  \/ InstallAfterTrust
  \/ Working

Operator ==
  \/ \E ch \in Channels : SwitchChannel(ch)
  \/ \E i \in 1..MaxReleases : Select(i)
  \/ PressInstall \/ PressUninstall
  \/ Cancel \/ Back \/ NextFromDestination \/ NextFromCertificate
  \/ \E k \in {"managed", "portable"} : Choose(k)

Next ==
  \/ \E ch \in Channels : Publish(ch)
  \/ Goroutines
  \/ Operator

Spec == Init /\ [][Next]_vars

\* Every goroutine goes on: HTTP requests and PowerShell calls return, and
\* Windows answers an approval prompt the operator does not.
FairSpec ==
  /\ Spec
  /\ \A n \in 1..MaxLoads : WF_vars(\E r \in requests : r.load = n /\ Loading(r))
  /\ WF_vars(Trusting)
  /\ WF_vars(InstallAfterTrust)
  /\ WF_vars(Working)

-----------------------------------------------------------------------------
\* Type invariant.
TypeOK ==
  /\ site \in [Channels -> Lists]
  /\ channel \in Channels
  /\ releases \in Lists
  /\ clicks \in 0..MaxReleases
  /\ selected \in 0..MaxReleases
  /\ loading \in BOOLEAN
  /\ requests \subseteq [load : 1..MaxLoads, channel : Channels, list : Lists,
                         phase : {"asked", "answered", "passed", "listed"}]
  /\ notes \in Releases \cup {0} /\ notesFor \in 0..MaxReleases
  /\ step \in {"none", "destination", "certificate"}
  /\ kind \in {"managed", "portable"}
  /\ trusted \in BOOLEAN
  /\ asking \in 0..MaxPresses /\ answered \in 0..MaxPresses
  /\ installing \in BOOLEAN
  /\ jobs \in Seq([what : {"managed", "portable", "uninstall"},
                   version : Releases \cup {Newest}, answer : {"none", "ok", "error"}])
  /\ installed \in BOOLEAN /\ isInstalled \in BOOLEAN
  /\ loads \in 1..MaxLoads /\ shown \in 0..MaxLoads
  /\ presses \in 0..MaxPresses
  /\ wanted \in Releases \cup {Newest}
  /\ hasty \in BOOLEAN /\ returned \in BOOLEAN /\ misled \in BOOLEAN

\* Whatever is drawn indexes within the list: layoutVersionList indexes
\* itemClicks by release and layoutDetail releases by the selection, unchecked,
\* while a goroutine replaces both.
DrawsInRange ==
  ~hasty /\ ~returned /\ ListDrawn => clicks >= Len(releases) /\ selected <= Len(releases)

\* The flag keeps installs, uninstalls and the approval from overlapping, though
\* three kinds of goroutines set and clear it.
OneJobAtATime == ~hasty => Len(jobs) + asking <= 1

\* The installs that a step starts.
Started == {jobs'[n] : n \in {m \in DOMAIN jobs' \ DOMAIN jobs : jobs'[m].what # "uninstall"}}

\* "startInstall runs the install the wizard was configuring": the release that
\* "Install this version" was pressed on, though the selection is read again then.
InstallsWhatWasChosen ==
  [][wanted # Newest => \A job \in Started : job.version = wanted]_vars

\* An install starts for a wizard that is open, never after its "Cancel".
CancelMeansNoInstall == [][wanted = Newest => Started = {}]_vars

\* "A slow response for a channel the user has since switched away from must not
\* overwrite the current one" (loadReleases): a list shown is the last one asked for.
LastLoadIsShown == ~hasty /\ ~returned /\ releases # <<>> => shown = loads

\* The notes drawn are "the selected release's notes" (pickerState.notesCache).
NotesAreTheSelections ==
  ListDrawn /\ selected \in DOMAIN releases => notes = releases[selected]

\* "Say what is actually on the machine now" (startInstall): with nothing under way
\* the window never calls installed what is gone, however jobs overlapped, and never
\* denies what is there, but on a failed query's word.
ShowsWhatIsInstalled ==
  jobs = <<>> => /\ isInstalled => installed
                 /\ installed /\ ~hasty => isInstalled \/ misled

\* The window does not stay busy: it leaves "Loading versions...", since the
\* response that is dropped is never the one it waits for, and the buttons come
\* back after whatever was started.
NothingStaysBusy == (loading ~> ~loading) /\ (installing ~> ~installing)

=============================================================================
