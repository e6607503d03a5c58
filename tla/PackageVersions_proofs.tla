------------------------ MODULE PackageVersions_proofs -----------------------
(***************************************************************************)
(* ComparePackageVersions is an order, which is why the other modules may  *)
(* take versions for numbers.                                              *)
(***************************************************************************)
EXTENDS PackageVersions, TLAPS

\* Whatever is written between the dots, there are four natural numbers.
LEMMA FieldsType ==
  ASSUME NEW v
  PROVE  VersionFields(v) \in [1..4 -> Nat]
BY MaxIntAssumption DEF VersionFields

\* Of four fields each, one is below the other, or above, or all are equal.
LEMMA BelowIsTotal ==
  ASSUME NEW fa \in [1..4 -> Nat], NEW fb \in [1..4 -> Nat]
  PROVE  Below(fa, fb) \/ Below(fb, fa) \/ fa = fb
<1> SUFFICES ASSUME ~Below(fa, fb), ~Below(fb, fa) PROVE \A i \in 1..4 : fa[i] = fb[i]
  OBVIOUS
<1>1. \A i \in 1..4 : (\A j \in 1..(i - 1) : fa[j] = fb[j]) => fa[i] = fb[i]
  BY DEF Below
<1>2. fa[1] = fb[1]
  BY <1>1
<1>3. fa[2] = fb[2]
  BY <1>1, <1>2
<1>4. fa[3] = fb[3]
  BY <1>1, <1>2, <1>3
<1> QED
  BY <1>1, <1>2, <1>3, <1>4

LEMMA BelowIsAsymmetric ==
  ASSUME NEW fa \in [1..4 -> Nat], NEW fb \in [1..4 -> Nat], Below(fa, fb)
  PROVE  ~Below(fb, fa) /\ fa # fb
BY DEF Below

LEMMA BelowIsTransitive ==
  ASSUME NEW fa \in [1..4 -> Nat], NEW fb \in [1..4 -> Nat], NEW fc \in [1..4 -> Nat],
         Below(fa, fb), Below(fb, fc)
  PROVE  Below(fa, fc)
<1>1. PICK i \in 1..4 : fa[i] < fb[i] /\ \A j \in 1..(i - 1) : fa[j] = fb[j]
  BY DEF Below
<1>2. PICK k \in 1..4 : fb[k] < fc[k] /\ \A j \in 1..(k - 1) : fb[j] = fc[j]
  BY DEF Below
<1>3. CASE i <= k
  <2>1. fa[i] < fc[i] /\ \A j \in 1..(i - 1) : fa[j] = fc[j]
    BY <1>1, <1>2, <1>3
  <2> QED
    BY <2>1 DEF Below
<1>4. CASE k < i
  <2>1. fa[k] < fc[k] /\ \A j \in 1..(k - 1) : fa[j] = fc[j]
    BY <1>1, <1>2, <1>4
  <2> QED
    BY <2>1 DEF Below
<1> QED
  BY <1>3, <1>4

-----------------------------------------------------------------------------
\* Theorem about ComparePackageVersions: exchanging its arguments changes the
\* sign, and 0 means that no field differs.  Refusing a package for its version
\* (packageVersionCheck) and announcing one (upgradeBanner) never contradict.
THEOREM CompareIsAntisymmetric ==
  ASSUME NEW a, NEW b
  PROVE  /\ ComparePackageVersions(a, b) \in {-1, 0, 1}
         /\ ComparePackageVersions(b, a) = -ComparePackageVersions(a, b)
         /\ ComparePackageVersions(a, b) = 0 <=> VersionFields(a) = VersionFields(b)
<1>1. VersionFields(a) \in [1..4 -> Nat] /\ VersionFields(b) \in [1..4 -> Nat]
  BY FieldsType
<1>2. \/ Below(VersionFields(a), VersionFields(b))
      \/ Below(VersionFields(b), VersionFields(a))
      \/ VersionFields(a) = VersionFields(b)
  BY <1>1, BelowIsTotal
<1>3. /\ Below(VersionFields(a), VersionFields(b)) =>
           ~Below(VersionFields(b), VersionFields(a)) /\ VersionFields(a) # VersionFields(b)
      /\ Below(VersionFields(b), VersionFields(a)) =>
           ~Below(VersionFields(a), VersionFields(b)) /\ VersionFields(a) # VersionFields(b)
  BY <1>1, BelowIsAsymmetric
<1> QED
  BY <1>2, <1>3 DEF ComparePackageVersions

\* Theorem about ComparePackageVersions: going from one version to a higher one
\* and on to a still higher one is never taken for a downgrade.
THEOREM CompareIsTransitive ==
  ASSUME NEW a, NEW b, NEW c,
         ComparePackageVersions(a, b) = -1, ComparePackageVersions(b, c) = -1
  PROVE  ComparePackageVersions(a, c) = -1
<1> DEFINE fa == VersionFields(a)
           fb == VersionFields(b)
           fc == VersionFields(c)
<1>1. fa \in [1..4 -> Nat] /\ fb \in [1..4 -> Nat] /\ fc \in [1..4 -> Nat]
  BY FieldsType
<1>2. Below(fa, fb) /\ Below(fb, fc)
  BY DEF ComparePackageVersions
<1> HIDE DEF fa, fb, fc
<1>3. Below(fa, fc)
  BY <1>1, <1>2, BelowIsTransitive
<1> QED
  BY <1>3 DEF ComparePackageVersions, fa, fb, fc

\* Theorem about ComparePackageVersions: every build of main, 0.YYYY.M.run, is
\* below every package of a version tag, so moving from a release to one is
\* refused (packageVersionCheck) and moving back is an upgrade.
THEOREM MainIsBelowReleases ==
  ASSUME NEW main \in Seq(Int), NEW tagged \in Seq(Int), Len(main) > 0, Len(tagged) > 0,
         main[1] = 0, tagged[1] \in 1..MaxInt
  PROVE  ComparePackageVersions(main, tagged) = -1
<1>1. VersionFields(main)[1] = 0 /\ VersionFields(tagged)[1] > 0
  BY MaxIntAssumption DEF VersionFields
<1>2. \A j \in 1..(1 - 1) : VersionFields(main)[j] = VersionFields(tagged)[j]
  OBVIOUS
<1>3. Below(VersionFields(main), VersionFields(tagged))
  BY <1>1, <1>2 DEF Below
<1> QED
  BY <1>3 DEF ComparePackageVersions

=============================================================================
