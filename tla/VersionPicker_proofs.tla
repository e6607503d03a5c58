------------------------ MODULE VersionPicker_proofs ------------------------
(***************************************************************************)
(* The flag that disables the picker's buttons is set and cleared by three *)
(* kinds of goroutines, and cleared for a moment between an approval and   *)
(* the install it is for.  It keeps two jobs apart all the same, up to the *)
(* first click within such a moment.                                       *)
(*                                                                         *)
(* The list is replaced while the window draws it.  What is drawn stays in *)
(* range, up to the first such click and the first return to a channel     *)
(* whose list is still under way.                                          *)
(*                                                                         *)
(* Every theorem is of the whole specification: the operator may click at  *)
(* any moment, and the histories say from where on a promise is off.       *)
(***************************************************************************)
EXTENDS VersionPicker, SequenceTheorems, TLAPS

-----------------------------------------------------------------------------
\* A job that is started comes after the others.
LEMMA OneJobMore ==
  ASSUME NEW S, NEW s \in Seq(S), NEW job
  PROVE  /\ Append(s, job) \in Seq(S \cup {job})
         /\ Len(Append(s, job)) = Len(s) + 1
<1>1. s \in Seq(S \cup {job})
  BY SeqMonotonic, S \subseteq S \cup {job}
<1> QED
  BY <1>1, AppendProperties

\* A job that goes on stays where it is.
LEMMA OneJobOn ==
  ASSUME NEW S, NEW s \in Seq(S), NEW n \in DOMAIN s, NEW job
  PROVE  /\ [s EXCEPT ![n] = job] \in Seq(S \cup {job})
         /\ Len([s EXCEPT ![n] = job]) = Len(s)
<1>1. s \in Seq(S \cup {job})
  BY SeqMonotonic, S \subseteq S \cup {job}
<1> QED
  BY <1>1, ExceptSeq

\* A job that is reported leaves the others, in their order.
LEMMA OneJobLess ==
  ASSUME NEW S, NEW s \in Seq(S), NEW n \in DOMAIN s
  PROVE  /\ SubSeq(s, 1, n - 1) \o SubSeq(s, n + 1, Len(s)) \in Seq(S)
         /\ Len(SubSeq(s, 1, n - 1) \o SubSeq(s, n + 1, Len(s))) = Len(s) - 1
         /\ \A m \in DOMAIN s \ {n} :
              \E k \in DOMAIN (SubSeq(s, 1, n - 1) \o SubSeq(s, n + 1, Len(s))) :
                (SubSeq(s, 1, n - 1) \o SubSeq(s, n + 1, Len(s)))[k] = s[m]
<1>1. n \in 1..Len(s) /\ Len(s) \in Nat /\ DOMAIN s = 1..Len(s)
  BY LenProperties
<1> DEFINE before == SubSeq(s, 1, n - 1)
           after == SubSeq(s, n + 1, Len(s))
<1>2. /\ before \in Seq(S) /\ Len(before) = n - 1
      /\ \A i \in 1..n - 1 : before[i] = s[i]
  BY <1>1, SubSeqProperties
<1>3. /\ after \in Seq(S) /\ Len(after) = Len(s) - n
      /\ \A i \in 1..Len(s) - n : after[i] = s[n + i]
  BY <1>1, SubSeqProperties
<1> HIDE DEF before, after
<1>4. before \o after \in Seq(S) /\ Len(before \o after) = Len(s) - 1
  <2>1. /\ before \o after \in Seq(S)
        /\ Len(before \o after) = Len(before) + Len(after)
    BY <1>2, <1>3, ConcatProperties
  <2> QED
    BY <1>1, <1>2, <1>3, <2>1
<1>5. ASSUME NEW m \in DOMAIN s \ {n}
      PROVE  \E k \in DOMAIN (before \o after) : (before \o after)[k] = s[m]
  <2>0. DOMAIN (before \o after) = 1..Len(s) - 1
    BY <1>4, LenProperties
  <2>1. CASE m < n
    <3>1. m \in 1..Len(before) /\ m \in 1..Len(s) - 1
      BY <1>1, <1>2, <2>1
    <3>2. (before \o after)[m] = before[m]
      BY <1>2, <1>3, <3>1, ConcatProperties
    <3> QED
      BY <1>1, <1>2, <2>0, <2>1, <3>1, <3>2
  <2>2. CASE m > n
    <3>1. m - 1 \in 1..Len(s) - 1 /\ m - 1 > Len(before) /\ m - 1 <= Len(before) + Len(after)
      BY <1>1, <1>2, <1>3, <2>2
    <3>2. (before \o after)[m - 1] = after[m - 1 - Len(before)]
      BY <1>2, <1>3, <3>1, ConcatProperties
    <3>3. m - 1 - Len(before) = m - n /\ m - n \in 1..Len(s) - n /\ n + (m - n) = m
      BY <1>1, <1>2, <2>2
    <3> QED
      BY <1>3, <2>0, <3>1, <3>2, <3>3
  <2> QED
    BY <1>1, <2>1, <2>2
<1> QED
  BY <1>4, <1>5, Zenon DEF before, after

-----------------------------------------------------------------------------
Jobs == [what : {"managed", "portable", "uninstall"},
         version : Releases \cup {Newest}, answer : {"none", "ok", "error"}]

Requests == [load : 1..MaxLoads, channel : Channels, list : Lists,
             phase : {"asked", "answered", "passed", "listed"}]

\* Releases are numbered as they are published.
SiteTyped ==
  /\ site \in [Channels -> Lists]
  /\ Published \in 0..MaxReleases
  /\ \A ch \in Channels : Len(site[ch]) <= Published
                          /\ \A i \in DOMAIN site[ch] : site[ch][i] <= Published
ListTyped ==
  /\ channel \in Channels
  /\ releases \in Lists
  /\ clicks \in 0..MaxReleases
  /\ selected \in 0..MaxReleases
  /\ loading \in BOOLEAN
  /\ requests \subseteq Requests
  /\ loads \in 1..MaxLoads /\ shown \in 0..MaxLoads
CacheTyped == notes \in Releases \cup {0} /\ notesFor \in 0..MaxReleases
WizardTyped ==
  /\ step \in {"none", "destination", "certificate"}
  /\ kind \in {"managed", "portable"}
  /\ trusted \in BOOLEAN
\* Every approval was pressed for.
TrustTyped ==
  /\ asking \in Nat /\ answered \in Nat /\ presses \in 0..MaxPresses
  /\ asking + answered <= presses
JobsTyped == jobs \in Seq(Jobs) /\ installing \in BOOLEAN
MachineTyped == installed \in BOOLEAN /\ isInstalled \in BOOLEAN /\ misled \in BOOLEAN
WishTyped == wanted \in Releases \cup {Newest}
HistoryTyped == hasty \in BOOLEAN /\ returned \in BOOLEAN

TypeInv ==
  /\ SiteTyped /\ ListTyped /\ CacheTyped /\ WizardTyped
  /\ TrustTyped /\ JobsTyped /\ MachineTyped /\ WishTyped /\ HistoryTyped

\* What a job does to the machine and answers, as the installer promises
\* (InstallOutcomes): an uninstall that fails leaves the machine as it was.
LEMMA WorkLeaves ==
  ASSUME NEW n \in DOMAIN jobs, Work(n), installed \in BOOLEAN
  PROVE  \E answer \in {"ok", "error"} :
           /\ jobs' = [jobs EXCEPT ![n].answer = answer]
           /\ installed' \in BOOLEAN
           /\ jobs[n].what = "uninstall" /\ answer = "ok" => ~installed'
           /\ jobs[n].what = "uninstall" /\ answer = "error" => installed' = installed
           /\ jobs[n].what = "portable" => installed' = installed
<1>1. PICK o \in Outcomes(installed, jobs[n].what = "managed", FALSE) :
        /\ installed' = IF jobs[n].what = "portable" THEN installed ELSE o.left
        /\ jobs' = [jobs EXCEPT ![n].answer = o.answer]
  BY Zenon DEF Work
<1>2. \/ o = [answer |-> "ok", left |-> (jobs[n].what = "managed")]
      \/ o = [answer |-> "error", left |-> installed]
      \/ o = [answer |-> "error", left |-> FALSE] /\ (jobs[n].what = "managed") # FALSE
  BY Zenon DEF Outcomes
<1>3. \/ o.answer = "ok" /\ o.left = (jobs[n].what = "managed")
      \/ o.answer = "error" /\ o.left = installed
      \/ o.answer = "error" /\ o.left = FALSE /\ jobs[n].what = "managed"
  <2>1. CASE o = [answer |-> "ok", left |-> (jobs[n].what = "managed")]
    BY <2>1, Zenon
  <2>2. CASE o = [answer |-> "error", left |-> installed]
    BY <2>2, Zenon
  <2>3. CASE o = [answer |-> "error", left |-> FALSE] /\ (jobs[n].what = "managed") # FALSE
    <3>1. o.answer = "error" /\ o.left = FALSE
      BY <2>3, Zenon
    <3>2. jobs[n].what = "managed"
      BY <2>3, Zenon
    <3> QED
      BY <3>1, <3>2, Zenon
  <2> QED
    BY <1>2, <2>1, <2>2, <2>3, Zenon
<1>4. "uninstall" # "managed" /\ "uninstall" # "portable" /\ "ok" # "error"
  OBVIOUS
<1>5. jobs[n].what = "uninstall" => ~(jobs[n].what = "managed")
  BY <1>4, Zenon
<1>6. o.left \in BOOLEAN
  BY <1>3, Zenon
<1>7. jobs[n].what = "uninstall" /\ o.answer = "ok" => ~o.left
  BY <1>3, <1>4, <1>5, Zenon
<1>8. jobs[n].what = "uninstall" /\ o.answer = "error" => o.left = installed
  BY <1>3, <1>4, <1>5, Zenon
<1>9. o.answer \in {"ok", "error"}
  BY <1>3, Zenon
<1>10. installed' = o.left \/ (jobs[n].what = "portable" /\ installed' = installed)
  BY <1>1, Zenon
<1>11. jobs[n].what = "portable" => installed' = installed
  BY <1>1, Zenon
<1> QED
  BY <1>1, <1>4, <1>6, <1>7, <1>8, <1>9, <1>10, <1>11, Zenon

\* What the histories of what the operator did remember, they keep: a step that leaves
\* `hasty' down is no click between two assignments.
LEMMA HistoryKept ==
  ASSUME HistoryTyped, [Next]_vars
  PROVE  /\ HistoryTyped'
         /\ ~hasty' => ~hasty /\ (Operator => ~Midway)
         /\ ~returned' => ~returned
<1>1. Operator => /\ hasty' = (hasty \/ Midway)
                  /\ \/ UNCHANGED returned
                     \/ \E ch \in Channels : returned' = (returned \/ \E r \in requests : r.channel = ch)
  BY Zenon DEF Operator, SwitchChannel, Select, PressInstall, PressUninstall, Cancel, Back, Choose,
               NextFromDestination, NextFromCertificate, Click
<1>2. Goroutines \/ (\E ch \in Channels : Publish(ch)) => UNCHANGED <<hasty, returned>>
  BY DEF Goroutines, Loading, Answer, CheckChannel, ShowList, ShowRows, LoadFails, Trusting,
         TrustFails, TrustGiven, InstallAfterTrust, Working, Work, Report, Finish, Publish, history
<1>3. CASE Operator
  BY <1>1, <1>3, Zenon DEF HistoryTyped
<1>4. CASE ~Operator
  <2>1. UNCHANGED <<hasty, returned>>
    BY <1>2, <1>4 DEF Next, vars, history
  <2> QED
    BY <1>4, <2>1 DEF HistoryTyped
<1> QED
  BY <1>3, <1>4

\* A list is a sequence of releases.
LEMMA ListsAreSeqs ==
  ASSUME NEW s \in Lists
  PROVE  /\ s \in Seq(Releases) /\ Len(s) \in 0..MaxReleases /\ DOMAIN s = 1..Len(s)
         /\ \A i \in DOMAIN s : s[i] \in Releases
<1> USE BoundsAssumption
<1>1. PICK n \in 0..MaxReleases : s \in [1..n -> Releases]
  BY DEF Lists
<1>2. n \in Nat
  OBVIOUS
<1>3. s \in Seq(Releases)
  BY <1>1, <1>2, SeqDef
<1> QED
  BY <1>1, <1>2, <1>3, LenProperties

\* A release goes before all that were published earlier.
LEMMA NewerFirst ==
  ASSUME NEW s \in Lists, NEW n \in Nat, n < MaxReleases, Len(s) <= n,
         \A i \in DOMAIN s : s[i] <= n
  PROVE  /\ <<n + 1>> \o s \in Lists /\ Len(<<n + 1>> \o s) = Len(s) + 1
         /\ \A i \in DOMAIN (<<n + 1>> \o s) : (<<n + 1>> \o s)[i] <= n + 1
<1> USE BoundsAssumption
<1> DEFINE t == <<n + 1>> \o s
<1>1. s \in Seq(Releases) /\ Len(s) \in Nat /\ DOMAIN s = 1..Len(s)
  BY ListsAreSeqs
<1>2. \A i, j \in DOMAIN s : i < j => s[i] > s[j]
  BY DEF Lists
<1>3. n + 1 \in Releases /\ <<n + 1>> \in Seq(Releases)
  BY DEF Releases
<1>4. /\ t \in Seq(Releases) /\ Len(t) = Len(s) + 1 /\ DOMAIN t = 1..Len(s) + 1
      /\ t[1] = n + 1
      /\ \A i \in 1..Len(s) : t[i + 1] = s[i]
  BY <1>1, <1>3
<1> HIDE DEF t
<1>5. \A i \in DOMAIN t : i = 1 \/ (i - 1 \in DOMAIN s /\ t[i] = s[i - 1])
  BY <1>1, <1>4
<1>6. \A i, j \in DOMAIN t : i < j => t[i] > t[j]
  <2> SUFFICES ASSUME NEW i \in DOMAIN t, NEW j \in DOMAIN t, i < j PROVE t[i] > t[j]
    OBVIOUS
  <2>1. j - 1 \in DOMAIN s /\ t[j] = s[j - 1] /\ i \in Nat /\ j \in Nat
    BY <1>4, <1>5
  <2>2. s[j - 1] \in Releases /\ s[j - 1] <= n
    BY <2>1, ListsAreSeqs
  <2>3. CASE i = 1
    BY <1>4, <2>1, <2>2, <2>3 DEF Releases
  <2>4. CASE i # 1
    <3>1. i - 1 \in DOMAIN s /\ t[i] = s[i - 1] /\ i - 1 < j - 1
      BY <1>5, <2>1, <2>4
    <3> QED
      BY <1>2, <2>1, <3>1
  <2> QED
    BY <2>3, <2>4
<1>7. t \in [1..Len(s) + 1 -> Releases] /\ Len(s) + 1 \in 0..MaxReleases
  <2>1. t \in [1..Len(t) -> Releases]
    BY <1>4, LenProperties
  <2> QED
    BY <1>1, <1>4, <2>1
<1>8. t \in UNION {[1..k -> Releases] : k \in 0..MaxReleases}
  BY <1>7
<1>9. t \in Lists
  BY <1>6, <1>8 DEF Lists
<1>10. \A i \in DOMAIN t : t[i] <= n + 1
  <2> TAKE i \in DOMAIN t
  <2>1. CASE i = 1
    BY <1>4, <2>1
  <2>2. CASE i # 1
    <3>1. i - 1 \in DOMAIN s /\ t[i] = s[i - 1]
      BY <1>5, <2>2
    <3> QED
      BY <3>1, ListsAreSeqs DEF Releases
  <2> QED
    BY <2>1, <2>2
<1> QED
  BY <1>4, <1>9, <1>10 DEF t

LEMMA NoList == <<>> \in Lists
<1> USE BoundsAssumption
<1>1. <<>> \in [1..0 -> Releases]
  OBVIOUS
<1>2. <<>> \in UNION {[1..n -> Releases] : n \in 0..MaxReleases}
  BY <1>1
<1> QED
  BY <1>2 DEF Lists

LEMMA SelectedIsTyped ==
  ASSUME ListTyped PROVE SelectedVersion \in Releases \cup {Newest}
BY ListsAreSeqs DEF ListTyped, SelectedVersion

LEMMA TypeInvHolds == Spec => []TypeInv
<1> USE BoundsAssumption
<1>1. Init => TypeInv
  <2> SUFFICES ASSUME Init PROVE TypeInv
    OBVIOUS
  <2>1. SiteTyped
    BY NoList DEF Init, SiteTyped, Published, Channels
  <2>2. ListTyped
    BY NoList DEF Init, ListTyped, Requests, Channels
  <2>3. CacheTyped /\ WizardTyped /\ TrustTyped /\ WishTyped
    <3>1. CacheTyped /\ TrustTyped
      BY DEF Init, CacheTyped, TrustTyped
    <3>2. WizardTyped /\ WishTyped
      BY DEF Init, WizardTyped, WishTyped
    <3> QED
      BY <3>1, <3>2
  <2>4. JobsTyped
    BY EmptySeq DEF Init, JobsTyped
  <2>5. MachineTyped /\ HistoryTyped
    BY Zenon DEF Init, IsInstalled, MachineTyped, HistoryTyped
  <2> QED
    BY <2>1, <2>2, <2>3, <2>4, <2>5 DEF TypeInv
<1>2. TypeInv /\ [Next]_vars => TypeInv'
  <2> SUFFICES ASSUME TypeInv, [Next]_vars PROVE TypeInv'
    OBVIOUS
  \* What a step leaves alone keeps its type.
  <2>0. /\ UNCHANGED site => SiteTyped'
        /\ UNCHANGED list => ListTyped'
        /\ UNCHANGED cache => CacheTyped'
        /\ UNCHANGED wizard => WizardTyped'
        /\ UNCHANGED <<trust, presses>> => TrustTyped'
        /\ UNCHANGED <<jobs, installing>> => JobsTyped'
        /\ UNCHANGED machine => MachineTyped'
        /\ UNCHANGED wanted => WishTyped'
        /\ HistoryTyped'
    <3>1. UNCHANGED site => SiteTyped'
      BY DEF TypeInv, SiteTyped, Published
    <3>2. UNCHANGED list => ListTyped'
      BY DEF TypeInv, ListTyped, list
    <3>3. (UNCHANGED cache => CacheTyped') /\ (UNCHANGED wizard => WizardTyped')
      BY DEF TypeInv, CacheTyped, WizardTyped, cache, wizard
    <3>4. UNCHANGED <<trust, presses>> => TrustTyped'
      BY DEF TypeInv, TrustTyped, trust
    <3>5. UNCHANGED <<jobs, installing>> => JobsTyped'
      BY DEF TypeInv, JobsTyped
    <3>6. (UNCHANGED machine => MachineTyped') /\ (UNCHANGED wanted => WishTyped')
      BY DEF TypeInv, MachineTyped, WishTyped, machine
    <3>7. HistoryTyped'
      BY HistoryKept DEF TypeInv
    <3> QED
      BY <3>1, <3>2, <3>3, <3>4, <3>5, <3>6, <3>7
  <2>s. SelectedVersion \in Releases \cup {Newest}
    BY SelectedIsTyped DEF TypeInv
  <2>1. ASSUME NEW ch \in Channels, Publish(ch) PROVE TypeInv'
    <3>0. SiteTyped
      BY DEF TypeInv
    <3>1. /\ Published \in Nat /\ Published < MaxReleases
          /\ site[ch] \in Lists /\ Len(site[ch]) <= Published
          /\ \A i \in DOMAIN site[ch] : site[ch][i] <= Published
      BY <2>1, <3>0 DEF Publish, SiteTyped
    <3>2. /\ site'[ch] = <<Published + 1>> \o site[ch]
          /\ \A c \in Channels \ {ch} : site'[c] = site[c]
          /\ site' = [site EXCEPT ![ch] = site'[ch]]
      BY <2>1, <3>0 DEF Publish, SiteTyped
    <3>3. /\ site'[ch] \in Lists /\ Len(site'[ch]) = Len(site[ch]) + 1
          /\ \A i \in DOMAIN site'[ch] : site'[ch][i] <= Published + 1
      BY <3>1, <3>2, NewerFirst
    <3>4. \A c \in Channels : site[c] \in Lists /\ Len(site[c]) \in Nat
      BY <3>0, ListsAreSeqs DEF SiteTyped
    <3>5. Published' = Published + 1
      <4> DEFINE stable == Len(site["stable"])
                 latest == Len(site["latest"])
      <4>1. "stable" \in Channels /\ "latest" \in Channels /\ (ch = "stable" \/ ch = "latest")
        BY DEF Channels
      <4>2. Published = stable + latest /\ Published' = stable' + latest'
        BY Zenon DEF Published
      <4>3. stable \in Nat /\ latest \in Nat
        BY <3>4, <4>1
      <4>4. \/ stable' = stable + 1 /\ latest' = latest
            \/ stable' = stable /\ latest' = latest + 1
        <5>1. ch = "stable" => stable' = stable + 1 /\ latest' = latest
          BY <3>2, <3>3, <4>1
        <5>2. ch = "latest" => stable' = stable /\ latest' = latest + 1
          BY <3>2, <3>3, <4>1
        <5> QED
          BY <4>1, <5>1, <5>2
      <4> HIDE DEF stable, latest
      <4> QED
        BY <4>2, <4>3, <4>4
    <3>6. site' \in [Channels -> Lists]
      BY <3>0, <3>2, <3>3 DEF SiteTyped
    <3>7. \A c \in Channels : Len(site'[c]) <= Published'
                              /\ \A i \in DOMAIN site'[c] : site'[c][i] <= Published'
      <4> TAKE c \in Channels
      <4>1. CASE c = ch
        BY <3>1, <3>3, <3>4, <3>5, <4>1
      <4>2. CASE c # ch
        <5>1. site'[c] = site[c] /\ Len(site[c]) <= Published
              /\ \A i \in DOMAIN site[c] : site[c][i] <= Published
          BY <3>0, <3>2, <4>2 DEF SiteTyped
        <5>2. \A i \in DOMAIN site[c] : site[c][i] \in Nat
          BY <3>4, ListsAreSeqs DEF Releases
        <5> QED
          BY <3>1, <3>4, <3>5, <5>1, <5>2
      <4> QED
        BY <4>1, <4>2
    <3>8. SiteTyped'
      <4>1. Published' \in 0..MaxReleases
        BY <3>1, <3>5
      <4> QED
        BY <3>6, <3>7, <4>1 DEF SiteTyped
    <3>9. UNCHANGED <<list, cache, wizard, trust, presses, jobs, installing, machine, wanted>>
      BY <2>1 DEF Publish, wish
    <3> QED
      BY <2>0, <3>8, <3>9 DEF TypeInv
  <2>2. ASSUME NEW r \in requests, Loading(r) PROVE TypeInv'
    <3>0. /\ ListTyped /\ r \in Requests /\ Len(r.list) \in 0..MaxReleases
          /\ site[r.channel] \in Lists
      BY ListsAreSeqs DEF TypeInv, ListTyped, SiteTyped, Requests
    <3>1. /\ [r EXCEPT !.phase = "answered", !.list = site[r.channel]] \in Requests
          /\ \A phase \in {"passed", "listed"} : [r EXCEPT !.phase = phase] \in Requests
      BY <3>0 DEF Requests
    <3>2. ASSUME Answer(r) PROVE ListTyped'
      BY <3>0, <3>1, <3>2 DEF Answer, ListTyped
    <3>3. ASSUME CheckChannel(r) PROVE ListTyped'
      BY <3>0, <3>1, <3>3 DEF CheckChannel, Advance, ListTyped
    <3>4. ASSUME ShowList(r) PROVE ListTyped'
      <4>1. releases' \in Lists /\ shown' \in 0..MaxLoads
        BY <3>0, <3>4 DEF ShowList, Requests
      <4> QED
        BY <3>0, <3>1, <3>4, <4>1 DEF ShowList, Advance, ListTyped
    <3>5. ASSUME ShowRows(r) PROVE ListTyped'
      BY <3>0, <3>5 DEF ShowRows, ListTyped
    <3>6. ASSUME LoadFails(r) PROVE ListTyped'
      BY <3>0, <3>6 DEF LoadFails, ListTyped
    <3>7. ListTyped'
      BY <2>2, <3>2, <3>3, <3>4, <3>5, <3>6 DEF Loading
    <3>8. UNCHANGED <<site, cache, wizard, trust, presses, jobs, installing, machine, wanted>>
      BY <2>2 DEF Loading, Answer, CheckChannel, ShowList, ShowRows, LoadFails, wish
    <3> QED
      BY <2>0, <3>7, <3>8 DEF TypeInv
  <2>3. CASE Trusting
    <3>1. TrustTyped'
      BY <2>3 DEF Trusting, TrustFails, TrustGiven, TypeInv, TrustTyped, wish
    <3>2. JobsTyped'
      BY <2>3 DEF Trusting, TrustFails, TrustGiven, TypeInv, JobsTyped
    <3>3. UNCHANGED <<site, list, cache, wizard, machine, wanted>>
      BY <2>3 DEF Trusting, TrustFails, TrustGiven, wish
    <3> QED
      BY <2>0, <3>1, <3>2, <3>3 DEF TypeInv
  \* A job that is started is one of the three.
  <2>4. ASSUME NEW job \in Jobs, jobs' = Append(jobs, job) PROVE jobs' \in Seq(Jobs)
    BY <2>4, AppendProperties DEF TypeInv, JobsTyped
  <2>5. ASSUME StartInstall PROVE JobsTyped' /\ WishTyped' /\ step' = "none"
    <3>1. [what |-> kind, version |-> SelectedVersion, answer |-> "none"] \in Jobs
      BY <2>s DEF Jobs, TypeInv, WizardTyped
    <3>2. jobs' \in Seq(Jobs)
      BY <2>4, <2>5, <3>1 DEF StartInstall
    <3> QED
      BY <2>5, <3>2 DEF StartInstall, JobsTyped, WishTyped
  <2>6. CASE InstallAfterTrust
    <3>1. TrustTyped'
      BY <2>6 DEF InstallAfterTrust, TypeInv, TrustTyped, wish
    <3>2. JobsTyped' /\ WishTyped' /\ WizardTyped'
      BY <2>5, <2>6 DEF InstallAfterTrust, TypeInv, WizardTyped
    <3>3. UNCHANGED <<site, list, cache, machine>>
      BY <2>6 DEF InstallAfterTrust
    <3> QED
      BY <2>0, <3>1, <3>2, <3>3 DEF TypeInv
  <2>7. ASSUME NEW n \in DOMAIN jobs, Work(n) PROVE TypeInv'
    <3>0. jobs \in Seq(Jobs)
      BY DEF TypeInv, JobsTyped
    <3>1. jobs[n] \in Jobs
      BY <3>0, LenProperties, ElementOfSeq
    <3>2. PICK answer \in {"ok", "error"} : jobs' = [jobs EXCEPT ![n].answer = answer]
      BY <2>7, WorkLeaves, Zenon DEF TypeInv, MachineTyped
    <3>3. [jobs[n] EXCEPT !.answer = answer] \in Jobs
      BY <3>1 DEF Jobs
    <3>4. jobs' \in Seq(Jobs)
      BY <3>0, <3>2, <3>3, ExceptSeq
    <3>5. JobsTyped'
      BY <2>7, <3>4 DEF Work, TypeInv, JobsTyped
    <3>6. MachineTyped'
      <4>1. installed' \in BOOLEAN /\ UNCHANGED <<isInstalled, misled>>
        BY <2>7, WorkLeaves, Zenon DEF Work, TypeInv, MachineTyped
      <4> QED
        BY <4>1 DEF TypeInv, MachineTyped
    <3>7. UNCHANGED <<site, list, cache, wizard, trust, presses, wanted>>
      BY <2>7 DEF Work, wish
    <3> QED
      BY <2>0, <3>5, <3>6, <3>7 DEF TypeInv
  <2>8. ASSUME NEW n \in DOMAIN jobs, Report(n) PROVE TypeInv'
    <3>1. jobs' \in Seq(Jobs)
      BY <2>8, OneJobLess DEF Report, Finish, TypeInv, JobsTyped
    <3>2. JobsTyped'
      BY <2>8, <3>1 DEF Report, Finish, JobsTyped
    <3>3. MachineTyped'
      BY <2>8, Zenon DEF Report, Finish, IsInstalled, TypeInv, MachineTyped
    <3>4. UNCHANGED <<site, list, cache, wizard, trust, presses, wanted>>
      BY <2>8 DEF Report, Finish, wish
    <3> QED
      BY <2>0, <3>2, <3>3, <3>4 DEF TypeInv
  <2>9. ASSUME NEW ch \in Channels, SwitchChannel(ch) PROVE TypeInv'
    <3>0. ListTyped /\ loads + 1 \in 1..MaxLoads
      BY <2>9 DEF TypeInv, ListTyped, SwitchChannel
    <3>1. [load |-> loads + 1, channel |-> ch, phase |-> "asked", list |-> <<>>] \in Requests
      BY <3>0, NoList DEF Requests
    <3>2. requests' \subseteq Requests
      BY <2>9, <3>0, <3>1 DEF SwitchChannel, Load, ListTyped
    <3>3. ListTyped'
      BY <2>9, <3>0, <3>2, NoList DEF SwitchChannel, Load, ListTyped
    <3>4. UNCHANGED <<site, cache, wizard, trust, presses, jobs, installing, machine, wanted>>
      BY <2>9 DEF SwitchChannel, wish
    <3> QED
      BY <2>0, <3>3, <3>4 DEF TypeInv
  <2>10. ASSUME NEW i \in 1..MaxReleases, Select(i) PROVE TypeInv'
    <3>1. CacheTyped'
      <4>1. i \in DOMAIN releases => releases[i] \in Releases
        BY ListsAreSeqs DEF TypeInv, ListTyped
      <4> QED
        BY <2>10, <4>1 DEF Select, NotesLines, cache, TypeInv, CacheTyped
    <3>2. ListTyped'
      BY <2>10 DEF Select, TypeInv, ListTyped
    <3>3. UNCHANGED <<site, wizard, trust, presses, jobs, installing, machine, wanted>>
      BY <2>10 DEF Select, wish
    <3> QED
      BY <2>0, <3>1, <3>2, <3>3 DEF TypeInv
  <2>11. CASE PressInstall
    <3>1. WishTyped'
      BY <2>11, ListsAreSeqs DEF PressInstall, TypeInv, ListTyped, WishTyped
    <3>2. WizardTyped' /\ TrustTyped'
      BY <2>11 DEF PressInstall, TypeInv, WizardTyped, TrustTyped, trust
    <3>3. UNCHANGED <<site, list, cache, jobs, installing, machine>>
      BY <2>11 DEF PressInstall
    <3> QED
      BY <2>0, <3>1, <3>2, <3>3 DEF TypeInv
  <2>12. CASE PressUninstall
    <3>1. JobsTyped'
      <4>1. [what |-> "uninstall", version |-> Newest, answer |-> "none"] \in Jobs
        BY DEF Jobs
      <4> QED
        BY <2>4, <2>12, <4>1 DEF PressUninstall, JobsTyped
    <3>2. TrustTyped'
      BY <2>12 DEF PressUninstall, TypeInv, TrustTyped, trust
    <3>3. UNCHANGED <<site, list, cache, wizard, machine, wanted>>
      BY <2>12 DEF PressUninstall
    <3> QED
      BY <2>0, <3>1, <3>2, <3>3 DEF TypeInv
  <2>13. CASE Cancel \/ Back \/ \E k \in {"managed", "portable"} : Choose(k)
    <3>1. WizardTyped' /\ WishTyped'
      BY <2>13 DEF Cancel, Back, Choose, TypeInv, WizardTyped, WishTyped, wish
    <3>2. UNCHANGED <<site, list, cache, trust, presses, jobs, installing, machine>>
      BY <2>13 DEF Cancel, Back, Choose, wish
    <3> QED
      BY <2>0, <3>1, <3>2 DEF TypeInv
  <2>14. CASE NextFromDestination
    <3>1. WizardTyped' /\ JobsTyped' /\ WishTyped'
      <4>1. CASE StartInstall /\ UNCHANGED trusted
        BY <2>5, <2>14, <4>1 DEF NextFromDestination, TypeInv, WizardTyped
      <4>2. CASE step' = "certificate" /\ RefreshTrust /\ UNCHANGED <<installing, jobs, wanted>>
        BY <2>0, <2>14, <4>2 DEF NextFromDestination, RefreshTrust, TypeInv, WizardTyped
      <4> QED
        BY <2>14, <4>1, <4>2 DEF NextFromDestination
    <3>2. UNCHANGED <<site, list, cache, trust, presses, machine>>
      BY <2>14 DEF NextFromDestination
    <3> QED
      BY <2>0, <3>1, <3>2 DEF TypeInv
  <2>15. CASE NextFromCertificate
    <3>1. WizardTyped' /\ JobsTyped' /\ TrustTyped' /\ WishTyped'
      <4>1. CASE StartInstall /\ UNCHANGED <<asking, presses>>
        <5>1. WizardTyped' /\ JobsTyped' /\ WishTyped'
          BY <2>5, <2>15, <4>1 DEF NextFromCertificate, TypeInv, WizardTyped
        <5> QED
          BY <2>15, <4>1, <5>1 DEF NextFromCertificate, TypeInv, TrustTyped
      <4>2. CASE /\ presses < MaxPresses /\ presses' = presses + 1
                 /\ installing' = TRUE /\ asking' = asking + 1 /\ UNCHANGED <<step, jobs, wanted>>
        <5>1. WizardTyped' /\ JobsTyped' /\ WishTyped'
          BY <2>0, <2>15, <4>2 DEF NextFromCertificate, TypeInv, WizardTyped, JobsTyped
        <5> QED
          BY <2>15, <4>2, <5>1 DEF NextFromCertificate, TypeInv, TrustTyped
      <4> QED
        BY <2>15, <4>1, <4>2 DEF NextFromCertificate
    <3>2. UNCHANGED <<site, list, cache, machine>>
      BY <2>15 DEF NextFromCertificate
    <3> QED
      BY <2>0, <3>1, <3>2 DEF TypeInv
  <2>16. CASE UNCHANGED vars
    BY <2>0, <2>16 DEF vars, wish, TypeInv
  <2> QED
    BY <2>1, <2>2, <2>3, <2>6, <2>7, <2>8, <2>9, <2>10, <2>11, <2>12, <2>13, <2>14, <2>15, <2>16
       DEF Next, Goroutines, Operator, Working
<1> QED
  BY <1>1, <1>2, PTL DEF Spec

\* Every variable of the window keeps its type, whatever the operator does (the
\* fields of pickerState and wizardState).
THEOREM TypeCorrect == Spec => []TypeOK
<1>1. TypeInv => TypeOK
  <2> SUFFICES ASSUME TypeInv PROVE TypeOK
    OBVIOUS
  <2>1. asking \in 0..MaxPresses /\ answered \in 0..MaxPresses /\ presses \in 0..MaxPresses
    BY BoundsAssumption DEF TypeInv, TrustTyped
  <2>2. jobs \in Seq([what : {"managed", "portable", "uninstall"},
                      version : Releases \cup {Newest}, answer : {"none", "ok", "error"}])
    BY DEF TypeInv, JobsTyped, Jobs
  <2> QED
    BY <2>1, <2>2 DEF TypeInv, TypeOK, SiteTyped, ListTyped, Requests, CacheTyped, WizardTyped,
                      JobsTyped, MachineTyped, WishTyped, HistoryTyped
<1> QED
  BY <1>1, TypeInvHolds, PTL

-----------------------------------------------------------------------------
\* One approval, install or uninstall is under way at most, and the flag is set
\* but for the moment after an approval.
OneAtWork ==
  /\ Len(jobs) + asking + answered <= 1
  /\ Len(jobs) + asking > 0 => installing

OneInv == ~hasty => OneAtWork

\* Without a click between two assignments of a goroutine, nothing is started
\* while the flag is down for the install an approval is for.
LEMMA OneInvHolds == Spec => []OneInv
<1>1. Init => OneInv
  BY EmptySeq DEF Init, OneInv, OneAtWork
<1>2. TypeInv /\ OneInv /\ [Next]_vars => OneInv'
  <2> SUFFICES ASSUME TypeInv, OneInv, [Next]_vars, ~hasty' PROVE OneAtWork'
    BY DEF OneInv
  <2>c. ~hasty /\ (Operator => ~Midway)
    BY HistoryKept DEF TypeInv
  <2>0. /\ asking \in Nat /\ answered \in Nat /\ jobs \in Seq(Jobs) /\ Len(jobs) \in Nat
        /\ DOMAIN jobs = 1..Len(jobs)
        /\ Len(jobs) + asking + answered <= 1
        /\ Len(jobs) + asking > 0 => installing
    BY <2>c, LenProperties DEF OneInv, OneAtWork, TypeInv, TrustTyped, JobsTyped
  <2>1. ASSUME UNCHANGED <<asking, answered, installing, jobs>> PROVE OneAtWork'
    BY <2>0, <2>1 DEF OneAtWork
  \* A job begins when no other is, and no approval is under way or given.
  <2>2. ASSUME NEW job, jobs' = Append(jobs, job), installing',
               Len(jobs) + asking' + answered' = 0, asking' \in Nat, answered' \in Nat
        PROVE  OneAtWork'
    <3>1. Len(jobs') = Len(jobs) + 1
      BY <2>0, <2>2, OneJobMore
    <3> QED
      BY <2>0, <2>2, <3>1 DEF OneAtWork
  <2>3. Operator => answered = 0
    BY <2>0, <2>c DEF Midway
  <2>4. ASSUME NEW ch \in Channels, Publish(ch) PROVE OneAtWork'
    BY <2>1, <2>4 DEF Publish, trust
  <2>5. ASSUME NEW r \in requests, Loading(r) PROVE OneAtWork'
    BY <2>1, <2>5 DEF Loading, Answer, CheckChannel, ShowList, ShowRows, LoadFails, trust
  <2>6. CASE TrustFails
    BY <2>0, <2>6 DEF TrustFails, OneAtWork
  <2>7. CASE TrustGiven
    BY <2>0, <2>7 DEF TrustGiven, OneAtWork
  <2>8. CASE InstallAfterTrust
    BY <2>0, <2>2, <2>8 DEF InstallAfterTrust, StartInstall
  <2>9. ASSUME NEW n \in DOMAIN jobs, Work(n) PROVE OneAtWork'
    <3>1. PICK answer : jobs' = [jobs EXCEPT ![n].answer = answer]
      BY <2>9, Zenon DEF Work
    <3>2. Len(jobs') = Len(jobs)
      BY <2>0, <3>1, OneJobOn
    <3> QED
      BY <2>0, <2>9, <3>2 DEF Work, OneAtWork, trust
  <2>10. ASSUME NEW n \in DOMAIN jobs, Report(n) PROVE OneAtWork'
    <3>0. jobs' = SubSeq(jobs, 1, n - 1) \o SubSeq(jobs, n + 1, Len(jobs))
      BY <2>10, Zenon DEF Report, Finish
    <3>1. Len(jobs') = Len(jobs) - 1
      <4>1. Len(SubSeq(jobs, 1, n - 1) \o SubSeq(jobs, n + 1, Len(jobs))) = Len(jobs) - 1
        BY <2>0, OneJobLess, Zenon
      <4> QED
        BY <3>0, <4>1, Zenon
    <3>e. Len(jobs) >= 1
      BY <2>0
    <3>2. UNCHANGED <<asking, answered>>
      BY <2>10 DEF Report, Finish, trust
    <3> QED
      BY <2>0, <3>1, <3>e, <3>2 DEF OneAtWork
  <2>11. ASSUME NEW ch \in Channels, SwitchChannel(ch) PROVE OneAtWork'
    BY <2>1, <2>11 DEF SwitchChannel, trust
  <2>12. ASSUME NEW i \in 1..MaxReleases, Select(i) PROVE OneAtWork'
    BY <2>1, <2>12 DEF Select, trust
  <2>13. CASE PressInstall
    BY <2>1, <2>13 DEF PressInstall, trust
  <2>14. CASE PressUninstall
    BY <2>0, <2>2, <2>3, <2>14 DEF Operator, PressUninstall, ButtonsDrawn, trust
  <2>15. CASE Cancel \/ Back \/ \E k \in {"managed", "portable"} : Choose(k)
    BY <2>1, <2>15 DEF Cancel, Back, Choose, trust
  <2>16. CASE NextFromDestination
    <3>1. answered = 0
      BY <2>3, <2>16 DEF Operator
    <3> QED
      BY <2>0, <2>1, <2>2, <2>16, <3>1 DEF NextFromDestination, StartInstall, trust
  <2>17. CASE NextFromCertificate
    <3>0. answered = 0
      BY <2>3, <2>17 DEF Operator
    <3>1. CASE trusted
      BY <2>0, <2>2, <2>17, <3>0, <3>1 DEF NextFromCertificate, StartInstall
    <3>2. CASE ~trusted
      BY <2>0, <2>17, <3>0, <3>2 DEF NextFromCertificate, OneAtWork
    <3> QED
      BY <3>1, <3>2
  <2>18. CASE UNCHANGED vars
    BY <2>1, <2>18 DEF vars, trust
  <2> QED
    BY <2>4, <2>5, <2>6, <2>7, <2>8, <2>9, <2>10, <2>11, <2>12, <2>13, <2>14,
       <2>15, <2>16, <2>17, <2>18
       DEF Next, Goroutines, Operator, Trusting, Working
<1> QED
  BY <1>1, <1>2, TypeInvHolds, PTL DEF Spec

\* Installs, uninstalls and approvals never overlap up to the first click between two
\* assignments (startInstall, startUninstall, and Next on the certificate step).
THEOREM OneJobAtATimeHolds == Spec => []OneJobAtATime
<1>1. TypeInv /\ OneInv => OneJobAtATime
  BY LenProperties DEF TypeInv, TrustTyped, JobsTyped, OneInv, OneAtWork, OneJobAtATime
<1> QED
  BY <1>1, TypeInvHolds, OneInvHolds, PTL

-----------------------------------------------------------------------------
\* The window waits for the request of its channel and for no other, and what it
\* draws of a list came with that list.
Fresh ==
  /\ \A r \in requests : r.load <= loads
  /\ \A r, q \in requests : r.load = q.load => r = q
  /\ \A r \in requests : r.channel = channel => r.load = loads /\ loading
  /\ \A r \in requests : r.phase \in {"passed", "listed"} => r.channel = channel
  /\ \A r \in requests : r.channel = channel /\ r.phase # "listed" => releases = <<>>
  /\ \A r \in requests : r.phase = "listed" => releases = r.list
  /\ releases # <<>> => shown = loads
  /\ loading => selected = 0 /\ clicks = 0
  /\ ~loading => clicks = Len(releases) /\ selected <= Len(releases)

FreshInv == ~hasty /\ ~returned => Fresh

LEMMA FreshHolds == Spec => [](TypeInv /\ FreshInv)
<1>1. Init => FreshInv
  BY DEF Init, Fresh, FreshInv
<1>2. TypeInv /\ FreshInv /\ [Next]_vars => FreshInv'
  <2> SUFFICES ASSUME TypeInv, FreshInv, [Next]_vars, ~hasty', ~returned' PROVE Fresh'
    BY DEF FreshInv
  <2>c. ~hasty /\ ~returned /\ (Operator => ~Midway)
    BY HistoryKept DEF TypeInv
  <2> Fresh
    BY <2>c DEF FreshInv
  <2>0. ListTyped
    BY DEF TypeInv
  <2>1. CASE UNCHANGED list
    BY <2>1 DEF Fresh, list
  <2>2. ASSUME NEW r \in requests, Loading(r) PROVE Fresh'
    <3>0. r \in Requests
      BY <2>0 DEF ListTyped
    <3>1. ASSUME Answer(r) PROVE Fresh'
      <4> DEFINE q == [r EXCEPT !.phase = "answered", !.list = site[r.channel]]
      <4>1. q.load = r.load /\ q.channel = r.channel /\ q.phase = "answered"
        BY <3>0 DEF Requests
      <4>2. requests' = (requests \ {r}) \cup {q} /\ r.phase = "asked"
        BY <3>1 DEF Answer
      <4> HIDE DEF q
      <4> QED
        BY <3>1, <4>1, <4>2 DEF Answer, Fresh
    <3>2. ASSUME CheckChannel(r) PROVE Fresh'
      <4> DEFINE q == [r EXCEPT !.phase = "passed"]
      <4>1. q.load = r.load /\ q.channel = r.channel /\ q.phase = "passed"
        BY <3>0 DEF Requests
      <4>2. \/ requests' = (requests \ {r}) \cup {q} /\ r.channel = channel
            \/ requests' = requests \ {r}
        BY <3>2 DEF CheckChannel, Advance
      <4>3. r.phase = "answered"
        BY <3>2 DEF CheckChannel
      <4> HIDE DEF q
      <4> QED
        BY <3>2, <4>1, <4>2, <4>3 DEF CheckChannel, Fresh
    <3>3. ASSUME ShowList(r) PROVE Fresh'
      <4> DEFINE q == [r EXCEPT !.phase = "listed"]
      <4>1. q.load = r.load /\ q.channel = r.channel /\ q.phase = "listed" /\ q.list = r.list
        BY <3>0 DEF Requests
      <4>2. requests' = (requests \ {r}) \cup {q} /\ r.phase = "passed"
        BY <3>3 DEF ShowList, Advance
      <4> HIDE DEF q
      <4>3. r.channel = channel /\ r.load = loads /\ loading
        BY <4>2 DEF Fresh
      <4>4. \A p \in requests \ {r} : p.channel # channel /\ p.phase \notin {"passed", "listed"}
        BY <4>3 DEF Fresh
      <4> QED
        BY <3>3, <4>1, <4>2, <4>3, <4>4 DEF ShowList, Fresh
    <3>4. ASSUME ShowRows(r) PROVE Fresh'
      <4>1. r.channel = channel /\ r.load = loads /\ loading /\ releases = r.list /\ selected = 0
        BY <3>4 DEF ShowRows, Fresh
      <4>2. \A p \in requests \ {r} : p.channel # channel /\ p.phase \notin {"passed", "listed"}
        BY <4>1 DEF Fresh
      <4>3. Len(releases) \in Nat
        BY <2>0, ListsAreSeqs DEF ListTyped
      <4> QED
        BY <3>4, <4>1, <4>2, <4>3 DEF ShowRows, Fresh
    <3>5. ASSUME LoadFails(r) PROVE Fresh'
      <4>1. CASE r.channel = channel
        <5>1. loading /\ r.load = loads /\ releases = <<>> /\ selected = 0 /\ clicks = 0
          BY <3>5, <4>1 DEF LoadFails, Fresh
        <5>2. \A p \in requests \ {r} : p.channel # channel /\ p.phase \notin {"passed", "listed"}
          BY <4>1, <5>1 DEF Fresh
        <5>3. Len(releases) = 0
          BY <5>1
        <5> QED
          BY <3>5, <4>1, <5>1, <5>2, <5>3 DEF LoadFails, Fresh
      <4>2. CASE r.channel # channel
        BY <2>0, <3>5, <4>2 DEF LoadFails, Fresh, ListTyped
      <4> QED
        BY <4>1, <4>2
    <3> QED
      BY <2>2, <3>1, <3>2, <3>3, <3>4, <3>5 DEF Loading
  <2>3. ASSUME NEW ch \in Channels, SwitchChannel(ch) PROVE Fresh'
    <3> DEFINE q == [load |-> loads + 1, channel |-> ch, phase |-> "asked", list |-> <<>>]
    <3>1. \A r \in requests : r.phase \notin {"passed", "listed"} /\ r.channel # ch
      <4>1. ~Midway
        BY <2>c, <2>3 DEF Operator
      <4>2. returned' = (returned \/ \E r \in requests : r.channel = ch)
        BY <2>3, Zenon DEF SwitchChannel
      <4> QED
        BY <4>1, <4>2 DEF Midway
    <3>2. loads \in Nat /\ \A r \in requests : r.load \in Nat
      BY <2>0 DEF ListTyped, Requests
    <3>3. q.load = loads + 1 /\ q.channel = ch /\ q.phase = "asked"
      OBVIOUS
    <3>4. /\ requests' = requests \cup {q} /\ channel' = ch /\ loading' /\ loads' = loads + 1
          /\ releases' = <<>> /\ selected' = 0 /\ clicks' = 0
      BY <2>3 DEF SwitchChannel, Load
    <3> HIDE DEF q
    <3> QED
      BY <3>1, <3>2, <3>3, <3>4 DEF Fresh
  <2>4. ASSUME NEW i \in 1..MaxReleases, Select(i) PROVE Fresh'
    <3>1. ~loading /\ i <= clicks
      BY <2>0, <2>4 DEF Select, ListDrawn, ListTyped
    <3> QED
      BY <2>4, <3>1 DEF Select, Fresh
  <2>5. ASSUME NEW ch \in Channels, Publish(ch) PROVE UNCHANGED list
    BY <2>5 DEF Publish
  <2>6. Trusting \/ InstallAfterTrust \/ Working => UNCHANGED list
    BY DEF Trusting, TrustFails, TrustGiven, InstallAfterTrust, Working, Work, Report, Finish
  <2>7. PressInstall \/ PressUninstall \/ Cancel \/ Back \/ NextFromDestination \/ NextFromCertificate
        => UNCHANGED list
    BY DEF PressInstall, PressUninstall, Cancel, Back, NextFromDestination, NextFromCertificate
  <2>8. (\E k \in {"managed", "portable"} : Choose(k)) => UNCHANGED list
    BY DEF Choose
  <2> QED
    BY <2>1, <2>2, <2>3, <2>4, <2>5, <2>6, <2>7, <2>8 DEF Next, Goroutines, Operator, vars
<1> QED
  BY <1>1, <1>2, TypeInvHolds, PTL DEF Spec

\* A list shown is the last one asked for, up to the first click between two
\* assignments and the first return to a channel that is still loading (loadReleases).
THEOREM LastLoadIsShownHolds == Spec => []LastLoadIsShown
<1>1. FreshInv => LastLoadIsShown
  BY DEF FreshInv, Fresh, LastLoadIsShown
<1> QED
  BY <1>1, FreshHolds, PTL

\* Nothing is drawn beyond the list, as long (layoutVersionList, layoutDetail).
THEOREM DrawsInRangeHolds == Spec => []DrawsInRange
<1>1. TypeInv /\ FreshInv => DrawsInRange
  <2> SUFFICES ASSUME TypeInv, Fresh, ListDrawn
               PROVE  clicks >= Len(releases) /\ selected <= Len(releases)
    BY DEF DrawsInRange, FreshInv
  <2>1. clicks = Len(releases) /\ selected <= Len(releases) /\ Len(releases) \in Nat
    BY ListsAreSeqs DEF ListDrawn, Fresh, TypeInv, ListTyped
  <2> QED
    BY <2>1
<1> QED
  BY <1>1, FreshHolds, PTL

-----------------------------------------------------------------------------
\* The window calls installed what is gone only until the job that removed it reports.
Corrects(job) == job.answer # "none" /\ (job.what = "uninstall" => job.answer = "ok")
Noticed == isInstalled /\ ~installed => \E n \in DOMAIN jobs : Corrects(jobs[n])

\* The window knows of what is installed until the job at work is done, and takes the
\* application for gone after no other uninstall than one that removed it.
Known == installed => isInstalled \/ misled
KnownInv ==
  ~hasty => /\ jobs = <<>> => Known
            /\ \A n \in DOMAIN jobs :
                 /\ jobs[n].answer = "none" => Known
                 /\ jobs[n].what = "uninstall" =>
                      /\ jobs[n].answer = "error" => Known
                      /\ jobs[n].answer = "ok" => ~installed

LEMMA NoticedHolds == Spec => []Noticed
<1>1. Init => Noticed
  BY Zenon DEF Init, IsInstalled, Noticed
<1>2. TypeInv /\ Noticed /\ [Next]_vars => Noticed'
  <2> SUFFICES ASSUME TypeInv, Noticed, [Next]_vars PROVE Noticed'
    OBVIOUS
  <2>0. /\ jobs \in Seq(Jobs) /\ DOMAIN jobs = 1..Len(jobs) /\ Len(jobs) \in Nat
        /\ \A n \in DOMAIN jobs : jobs[n] \in Jobs
        /\ installed \in BOOLEAN
    BY LenProperties, ElementOfSeq DEF TypeInv, JobsTyped, MachineTyped
  <2>1. ASSUME UNCHANGED <<jobs, installed, isInstalled>> PROVE Noticed'
    BY <2>1 DEF Noticed
  <2>2. ASSUME NEW job, jobs' = Append(jobs, job), UNCHANGED <<installed, isInstalled>>
        PROVE  Noticed'
    <3>1. \A n \in DOMAIN jobs : n \in DOMAIN jobs' /\ jobs'[n] = jobs[n]
      BY <2>0, <2>2
    <3> QED
      BY <2>2, <3>1 DEF Noticed
  <2>3. ASSUME NEW n \in DOMAIN jobs, Work(n) PROVE Noticed'
    <3>1. PICK answer \in {"ok", "error"} :
            /\ jobs' = [jobs EXCEPT ![n].answer = answer]
            /\ jobs[n].what = "uninstall" /\ answer = "error" => installed' = installed
      BY <2>0, <2>3, WorkLeaves, Zenon
    <3>2. jobs[n].answer = "none" /\ UNCHANGED isInstalled
      BY <2>3, Zenon DEF Work
    <3>3. /\ DOMAIN jobs' = DOMAIN jobs
          /\ \A m \in DOMAIN jobs \ {n} : jobs'[m] = jobs[m]
          /\ jobs'[n].answer = answer /\ jobs'[n].what = jobs[n].what
      BY <2>0, <3>1 DEF Jobs
    <3>4. CASE Corrects(jobs'[n])
      BY <3>3, <3>4 DEF Noticed
    <3>5. CASE ~Corrects(jobs'[n])
      <4>1. jobs[n].what = "uninstall" /\ answer = "error"
        BY <3>3, <3>5 DEF Corrects
      <4>2. installed' = installed
        BY <3>1, <4>1, Zenon
      <4>3. ~Corrects(jobs[n])
        BY <3>2 DEF Corrects
      <4> QED
        BY <3>2, <3>3, <4>2, <4>3, Zenon DEF Noticed
    <3> QED
      BY <3>4, <3>5
  <2>4. ASSUME NEW n \in DOMAIN jobs, Report(n) PROVE Noticed'
    <3>0. jobs' = SubSeq(jobs, 1, n - 1) \o SubSeq(jobs, n + 1, Len(jobs)) /\ UNCHANGED installed
          /\ jobs[n].answer # "none"
      BY <2>4, Zenon DEF Report, Finish
    <3>1. CASE jobs[n].what = "uninstall" /\ jobs[n].answer = "error"
      <4>1. ~Corrects(jobs[n])
        BY <3>1 DEF Corrects
      <4>2. \A m \in DOMAIN jobs \ {n} : \E k \in DOMAIN jobs' : jobs'[k] = jobs[m]
        BY <2>0, <3>0, OneJobLess, Zenon
      <4>3. UNCHANGED isInstalled
        <5>1. jobs[n].answer # "ok"
          BY <3>1
        <5> QED
          BY <2>4, <3>1, <5>1, Zenon DEF Report
      <4> QED
        BY <3>0, <4>1, <4>2, <4>3, Zenon DEF Noticed
    <3>2. CASE ~(jobs[n].what = "uninstall" /\ jobs[n].answer = "error")
      <4>1. isInstalled' = FALSE \/ isInstalled' = installed
        BY <2>4, <3>2, Zenon DEF Report, IsInstalled
      <4> QED
        BY <3>0, <4>1, Zenon DEF Noticed
    <3> QED
      BY <3>1, <3>2
  <2>5. ASSUME StartInstall, UNCHANGED machine PROVE Noticed'
    BY <2>2, <2>5 DEF StartInstall, machine
  <2>6. CASE InstallAfterTrust
    BY <2>5, <2>6 DEF InstallAfterTrust
  <2>7. CASE PressUninstall
    BY <2>2, <2>7 DEF PressUninstall, machine
  <2>8. CASE NextFromDestination
    BY <2>1, <2>5, <2>8 DEF NextFromDestination, machine
  <2>9. CASE NextFromCertificate
    BY <2>1, <2>5, <2>9 DEF NextFromCertificate, machine
  <2>10. ASSUME NEW r \in requests, Loading(r) PROVE Noticed'
    BY <2>1, <2>10 DEF Loading, Answer, CheckChannel, ShowList, ShowRows, LoadFails, machine
  <2>11. CASE Trusting
    BY <2>1, <2>11 DEF Trusting, TrustFails, TrustGiven, machine
  <2>12. CASE \E ch \in Channels : Publish(ch) \/ SwitchChannel(ch)
    BY <2>1, <2>12 DEF Publish, SwitchChannel, machine
  <2>13. CASE PressInstall \/ Cancel \/ Back
    BY <2>1, <2>13 DEF PressInstall, Cancel, Back, machine
  <2>14. CASE \/ \E i \in 1..MaxReleases : Select(i)
              \/ \E k \in {"managed", "portable"} : Choose(k)
    BY <2>1, <2>14 DEF Select, Choose, machine
  <2>15. CASE UNCHANGED vars
    BY <2>1, <2>15 DEF vars, machine
  <2> QED
    BY <2>3, <2>4, <2>6, <2>7, <2>8, <2>9, <2>10, <2>11, <2>12, <2>13, <2>14, <2>15
       DEF Next, Goroutines, Operator, Working
<1> QED
  BY <1>1, <1>2, TypeInvHolds, PTL DEF Spec

LEMMA KnownHolds == Spec => [](TypeInv /\ KnownInv)
<1>1. Init => KnownInv
  <2> SUFFICES ASSUME Init PROVE KnownInv
    OBVIOUS
  <2>1. DOMAIN jobs = {}
    BY DEF Init
  <2>2. Known
    BY Zenon DEF Init, IsInstalled, Known
  <2> QED
    BY <2>1, <2>2, Zenon DEF KnownInv
<1>2. TypeInv /\ OneInv /\ KnownInv /\ [Next]_vars => KnownInv'
  <2> SUFFICES ASSUME TypeInv, OneInv, KnownInv, [Next]_vars, ~hasty' PROVE KnownInv'
    BY DEF KnownInv
  <2>c. ~hasty
    BY HistoryKept DEF TypeInv
  <2>0. /\ jobs \in Seq(Jobs) /\ DOMAIN jobs = 1..Len(jobs) /\ Len(jobs) \in Nat
        /\ \A n \in DOMAIN jobs : jobs[n] \in Jobs
        /\ installed \in BOOLEAN /\ isInstalled \in BOOLEAN /\ misled \in BOOLEAN
        /\ OneAtWork /\ asking \in Nat /\ answered \in Nat
    BY <2>c, LenProperties, ElementOfSeq DEF TypeInv, JobsTyped, MachineTyped, TrustTyped, OneInv
  <2>i. /\ ~installing => jobs = <<>>
        /\ answered > 0 => jobs = <<>>
        /\ \A n \in DOMAIN jobs : n = 1 /\ Len(jobs) = 1
    <3>1. Len(jobs) = 0 => jobs = <<>>
      BY <2>0, EmptySeq
    <3> QED
      BY <2>0, <3>1 DEF OneAtWork
  <2>1. ASSUME UNCHANGED <<jobs, machine>> PROVE KnownInv'
    BY <2>1, <2>c DEF KnownInv, Known, machine
  <2>2. ASSUME NEW job \in Jobs, job.answer = "none", jobs = <<>>, jobs' = Append(jobs, job),
               UNCHANGED machine
        PROVE  KnownInv'
    <3>1. Known'
      BY <2>2, <2>c, Zenon DEF KnownInv, Known, machine
    <3>2. \A n \in DOMAIN jobs' : jobs'[n] = job
      BY <2>2
    <3>3. jobs' # <<>>
      BY <2>2
    <3> QED
      BY <2>2, <3>1, <3>2, <3>3 DEF KnownInv
  <2>3. ASSUME NEW n \in DOMAIN jobs, Work(n) PROVE KnownInv'
    <3>1. PICK answer \in {"ok", "error"} :
            /\ jobs' = [jobs EXCEPT ![n].answer = answer]
            /\ jobs[n].what = "uninstall" /\ answer = "ok" => ~installed'
            /\ jobs[n].what = "uninstall" /\ answer = "error" => installed' = installed
      BY <2>0, <2>3, WorkLeaves, Zenon
    <3>2. jobs[n].answer = "none" /\ UNCHANGED <<isInstalled, misled>>
      BY <2>3, Zenon DEF Work
    <3>3. /\ DOMAIN jobs' = DOMAIN jobs /\ \A m \in DOMAIN jobs' : m = n
          /\ jobs'[n].answer = answer /\ jobs'[n].what = jobs[n].what /\ jobs' # <<>>
      BY <2>0, <2>i, <3>1 DEF Jobs
    <3>4. Known
      BY <2>c, <3>2, Zenon DEF KnownInv
    <3>5. jobs[n].what = "uninstall" /\ answer = "error" => Known'
      BY <3>1, <3>2, <3>4, Zenon DEF Known
    <3>6. \A m \in DOMAIN jobs' :
            /\ jobs'[m].answer # "none"
            /\ jobs'[m].what = "uninstall" /\ jobs'[m].answer = "error" => Known'
            /\ jobs'[m].what = "uninstall" /\ jobs'[m].answer = "ok" => ~installed'
      BY <3>1, <3>3, <3>5
    <3> QED
      BY <3>3, <3>6, Zenon DEF KnownInv
  <2>4. ASSUME NEW n \in DOMAIN jobs, Report(n) PROVE KnownInv'
    <3>0. jobs' = SubSeq(jobs, 1, n - 1) \o SubSeq(jobs, n + 1, Len(jobs)) /\ UNCHANGED installed
          /\ jobs[n].answer # "none"
      BY <2>4, Zenon DEF Report, Finish
    <3>1. jobs' = <<>>
      <4>1. n = 1 /\ Len(jobs) = 1
        BY <2>i
      <4>2. jobs' \in Seq(Jobs) /\ Len(jobs') = Len(jobs) - 1
        BY <2>0, <3>0, OneJobLess, Zenon
      <4> QED
        BY <4>1, <4>2, EmptySeq
    <3>2. Known'
      <4>1. CASE jobs[n].what # "uninstall" /\ IsInstalled(isInstalled', misled')
        BY <3>0, <4>1, Zenon DEF IsInstalled, Known
      <4>2. CASE jobs[n].what = "uninstall" /\ jobs[n].answer = "ok"
        BY <2>c, <3>0, <4>2, Zenon DEF KnownInv, Known
      <4>3. CASE jobs[n].what = "uninstall" /\ jobs[n].answer = "error" /\ UNCHANGED <<isInstalled, misled>>
        BY <2>c, <3>0, <4>3, Zenon DEF KnownInv, Known
      <4> QED
        BY <2>4, <4>1, <4>2, <4>3, Zenon DEF Report
    <3>3. DOMAIN jobs' = {}
      BY <3>1
    <3> QED
      BY <3>2, <3>3 DEF KnownInv
  <2>5. ASSUME StartInstall, jobs = <<>>, UNCHANGED machine PROVE KnownInv'
    <3>1. [what |-> kind, version |-> SelectedVersion, answer |-> "none"] \in Jobs
      BY SelectedIsTyped DEF TypeInv, WizardTyped, Jobs
    <3> QED
      BY <2>2, <2>5, <3>1 DEF StartInstall
  <2>6. CASE InstallAfterTrust
    BY <2>5, <2>6, <2>i DEF InstallAfterTrust
  <2>7. CASE PressUninstall
    <3>1. [what |-> "uninstall", version |-> Newest, answer |-> "none"] \in Jobs
      BY DEF Jobs
    <3>2. jobs = <<>>
      BY <2>7, <2>i DEF PressUninstall, ButtonsDrawn
    <3> QED
      BY <2>2, <2>7, <3>1, <3>2 DEF PressUninstall
  <2>8. CASE NextFromDestination
    BY <2>1, <2>5, <2>8, <2>i DEF NextFromDestination
  <2>9. CASE NextFromCertificate
    BY <2>1, <2>5, <2>9, <2>i DEF NextFromCertificate
  <2>10. ASSUME NEW r \in requests, Loading(r) PROVE KnownInv'
    BY <2>1, <2>10 DEF Loading, Answer, CheckChannel, ShowList, ShowRows, LoadFails
  <2>11. CASE Trusting
    BY <2>1, <2>11 DEF Trusting, TrustFails, TrustGiven
  <2>12. CASE \E ch \in Channels : Publish(ch) \/ SwitchChannel(ch)
    BY <2>1, <2>12 DEF Publish, SwitchChannel
  <2>13. CASE PressInstall \/ Cancel \/ Back
    BY <2>1, <2>13 DEF PressInstall, Cancel, Back
  <2>14. CASE \/ \E i \in 1..MaxReleases : Select(i)
              \/ \E k \in {"managed", "portable"} : Choose(k)
    BY <2>1, <2>14 DEF Select, Choose
  <2>15. CASE UNCHANGED vars
    BY <2>1, <2>15 DEF vars
  <2> QED
    BY <2>3, <2>4, <2>6, <2>7, <2>8, <2>9, <2>10, <2>11, <2>12, <2>13, <2>14, <2>15
       DEF Next, Goroutines, Operator, Working
<1> QED
  BY <1>1, <1>2, TypeInvHolds, OneInvHolds, PTL DEF Spec

\* With nothing under way the window calls nothing installed that is gone, whatever the
\* operator did; and it denies nothing that is there, up to the first click between two
\* assignments, but on the word of a failed query (startInstall, the goroutine of the
\* uninstall button, IsInstalled).
THEOREM ShowsWhatIsInstalledHolds == Spec => []ShowsWhatIsInstalled
<1>1. Noticed /\ KnownInv => ShowsWhatIsInstalled
  <2> SUFFICES ASSUME Noticed, KnownInv, jobs = <<>>
               PROVE  /\ isInstalled => installed
                      /\ installed /\ ~hasty => isInstalled \/ misled
    BY Zenon DEF ShowsWhatIsInstalled
  <2>1. DOMAIN jobs = {}
    OBVIOUS
  <2>2. isInstalled => installed
    BY <2>1, Zenon DEF Noticed
  <2>3. installed /\ ~hasty => isInstalled \/ misled
    BY Zenon DEF KnownInv, Known
  <2> QED
    BY <2>2, <2>3
<1> QED
  BY <1>1, NoticedHolds, KnownHolds, PTL

-----------------------------------------------------------------------------
(* The window waits for nobody who is not there. *)

LoadAwaited == loading => \E r \in requests : r.channel = channel
WorkAwaited == installing => jobs # <<>> \/ asking > 0

\* While the window says that it is loading, a goroutine is under way that fetches the
\* list of the channel shown; while its buttons are disabled, one that will enable them.
\* No order of clicks and answers leaves the window waiting for nobody (loadReleases,
\* startInstall, and the goroutines of the wizard's approval and of the uninstall button).
THEOREM SomebodyIsAwaited == Spec => [](LoadAwaited /\ WorkAwaited)
<1>1. Init => LoadAwaited /\ WorkAwaited
  BY DEF Init, LoadAwaited, WorkAwaited
<1>2. TypeInv /\ LoadAwaited /\ [Next]_vars => LoadAwaited'
  <2> SUFFICES ASSUME TypeInv, LoadAwaited, [Next]_vars PROVE LoadAwaited'
    OBVIOUS
  <2>1. ASSUME UNCHANGED <<loading, requests, channel>> PROVE LoadAwaited'
    BY <2>1 DEF LoadAwaited
  <2>2. ASSUME NEW r \in requests, Loading(r) PROVE LoadAwaited'
    <3>0. \A q \in requests : q \in Requests
      BY DEF TypeInv, ListTyped
    <3>1. UNCHANGED channel /\ (loading' => loading)
      <4>1. LoadFails(r) => UNCHANGED channel /\ (loading' => loading)
        BY Zenon DEF LoadFails
      <4> QED
        BY <2>2, <4>1 DEF Loading, Answer, CheckChannel, ShowList, ShowRows
    <3>2. CASE loading' /\ r.channel # channel
      <4>1. PICK q \in requests : q.channel = channel
        BY <3>1, <3>2 DEF LoadAwaited
      <4>2. q \in requests'
        BY <2>2, <3>2, <4>1 DEF Loading, Answer, CheckChannel, ShowList, ShowRows, LoadFails, Advance
      <4> QED
        BY <3>1, <4>1, <4>2 DEF LoadAwaited
    <3>3. CASE loading' /\ r.channel = channel
      <4>1. ~LoadFails(r) /\ ~ShowRows(r)
        BY <3>3, Zenon DEF LoadFails, ShowRows
      <4>2. \E q \in requests' : q.channel = r.channel
        <5>1. r \in Requests
          BY <2>2, <3>0
        <5>2. /\ [r EXCEPT !.phase = "passed"].channel = r.channel
              /\ [r EXCEPT !.phase = "listed"].channel = r.channel
              /\ [r EXCEPT !.phase = "answered", !.list = site[r.channel]].channel = r.channel
          BY <5>1 DEF Requests
        <5>3. CASE Answer(r)
          BY <5>2, <5>3 DEF Answer
        <5>4. CASE CheckChannel(r)
          BY <3>1, <3>3, <5>2, <5>4 DEF CheckChannel, Advance
        <5>5. CASE ShowList(r)
          BY <5>2, <5>5 DEF ShowList, Advance
        <5> QED
          BY <2>2, <4>1, <5>3, <5>4, <5>5 DEF Loading
      <4> QED
        BY <3>1, <3>3, <4>2 DEF LoadAwaited
    <3> QED
      BY <3>2, <3>3 DEF LoadAwaited
  <2>3. ASSUME NEW ch \in Channels, SwitchChannel(ch) PROVE LoadAwaited'
    <3>1. /\ channel' = ch
          /\ [load |-> loads + 1, channel |-> ch, phase |-> "asked", list |-> <<>>] \in requests'
      BY <2>3 DEF SwitchChannel, Load
    <3> QED
      BY <3>1 DEF LoadAwaited
  <2>4. ASSUME NEW ch \in Channels, Publish(ch) PROVE LoadAwaited'
    BY <2>1, <2>4 DEF Publish, list
  <2>5. CASE Trusting \/ InstallAfterTrust \/ Working
    BY <2>1, <2>5
       DEF Trusting, TrustFails, TrustGiven, InstallAfterTrust, Working, Work, Report, Finish, list
  <2>6. ASSUME NEW i \in 1..MaxReleases, Select(i) PROVE LoadAwaited'
    BY <2>1, <2>6 DEF Select
  <2>7. CASE \/ PressInstall \/ PressUninstall \/ Cancel \/ Back
             \/ NextFromDestination \/ NextFromCertificate
    BY <2>1, <2>7 DEF PressInstall, PressUninstall, Cancel, Back, NextFromDestination,
                      NextFromCertificate, list
  <2>8. ASSUME NEW k \in {"managed", "portable"}, Choose(k) PROVE LoadAwaited'
    BY <2>1, <2>8 DEF Choose, list
  <2>9. CASE UNCHANGED vars
    BY <2>1, <2>9 DEF vars, list
  <2> QED
    BY <2>2, <2>3, <2>4, <2>5, <2>6, <2>7, <2>8, <2>9 DEF Next, Goroutines, Operator
<1>3. TypeInv /\ WorkAwaited /\ [Next]_vars => WorkAwaited'
  <2> SUFFICES ASSUME TypeInv, WorkAwaited, [Next]_vars PROVE WorkAwaited'
    OBVIOUS
  <2>0. jobs \in Seq(Jobs) /\ asking \in Nat
    BY DEF TypeInv, JobsTyped, TrustTyped
  <2>1. ASSUME UNCHANGED <<installing, jobs, asking>> PROVE WorkAwaited'
    BY <2>1 DEF WorkAwaited
  <2>2. ASSUME NEW job \in Jobs, jobs' = Append(jobs, job) PROVE WorkAwaited'
    BY <2>0, <2>2, AppendProperties DEF WorkAwaited
  <2>3. ASSUME ~installing' PROVE WorkAwaited'
    BY <2>3 DEF WorkAwaited
  <2>4. ASSUME NEW r \in requests, Loading(r) PROVE WorkAwaited'
    BY <2>1, <2>4 DEF Loading, Answer, CheckChannel, ShowList, ShowRows, LoadFails, trust
  <2>5. CASE Trusting
    BY <2>3, <2>5 DEF Trusting, TrustFails, TrustGiven
  <2>6. ASSUME NEW n \in DOMAIN jobs, Work(n) PROVE WorkAwaited'
    <3>1. DOMAIN jobs' = DOMAIN jobs
      BY <2>6, Zenon DEF Work
    <3>2. jobs' # <<>>
      BY <2>6, <3>1
    <3> QED
      BY <3>2 DEF WorkAwaited
  <2>7. ASSUME NEW n \in DOMAIN jobs, Report(n) PROVE WorkAwaited'
    BY <2>3, <2>7 DEF Report, Finish
  <2>8. ASSUME StartInstall PROVE WorkAwaited'
    <3>1. [what |-> kind, version |-> SelectedVersion, answer |-> "none"] \in Jobs
      BY SelectedIsTyped DEF TypeInv, WizardTyped, Jobs
    <3> QED
      BY <2>2, <2>8, <3>1 DEF StartInstall
  <2>9. CASE InstallAfterTrust
    BY <2>8, <2>9 DEF InstallAfterTrust
  <2>10. CASE PressUninstall
    <3>1. [what |-> "uninstall", version |-> Newest, answer |-> "none"] \in Jobs
      BY DEF Jobs
    <3> QED
      BY <2>2, <2>10, <3>1 DEF PressUninstall
  <2>11. CASE NextFromDestination
    BY <2>1, <2>8, <2>11 DEF NextFromDestination, trust
  <2>12. CASE NextFromCertificate
    <3>1. CASE asking' = asking + 1
      BY <2>0, <3>1 DEF WorkAwaited
    <3> QED
      BY <2>8, <2>12, <3>1 DEF NextFromCertificate
  <2>13. ASSUME NEW ch \in Channels, Publish(ch) \/ SwitchChannel(ch) PROVE WorkAwaited'
    BY <2>1, <2>13 DEF Publish, SwitchChannel, trust
  <2>14. ASSUME NEW i \in 1..MaxReleases, Select(i) PROVE WorkAwaited'
    BY <2>1, <2>14 DEF Select, trust
  <2>15. CASE PressInstall \/ Cancel \/ Back
    BY <2>1, <2>15 DEF PressInstall, Cancel, Back, trust
  <2>16. ASSUME NEW k \in {"managed", "portable"}, Choose(k) PROVE WorkAwaited'
    BY <2>1, <2>16 DEF Choose, trust
  <2>17. CASE UNCHANGED vars
    BY <2>1, <2>17 DEF vars, trust
  <2> QED
    BY <2>4, <2>5, <2>6, <2>7, <2>9, <2>10, <2>11, <2>12, <2>13, <2>14, <2>15, <2>16, <2>17
       DEF Next, Goroutines, Operator, Working
<1> QED
  BY <1>1, <1>2, <1>3, TypeInvHolds, PTL DEF Spec

=============================================================================
