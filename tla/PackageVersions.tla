-------------------------- MODULE PackageVersions ---------------------------
(***************************************************************************)
(* The order of package versions (platform/msix_version.go), which decides *)
(* whether a package may be installed over another and, where no record    *)
(* dates the installed build, whether the picker announces a newer one.    *)
(*                                                                         *)
(* A version is the sequence of its parts, the text between two dots.      *)
(***************************************************************************)
EXTENDS Integers, Sequences

CONSTANTS
  NotANumber,  \* a part that is none, as "23+2"
  MaxInt       \* the largest number strconv.Atoi reads

ASSUME MaxIntAssumption == MaxInt \in Nat
ASSUME NotANumberAssumption == NotANumber \notin Int

\* Four fields.  What is missing, no number, below zero or too large reads as
\* zero, and what is beyond the fourth is not looked at.
VersionFields(v) ==
  [i \in 1..4 |-> IF i <= Len(v) /\ v[i] \in 0..MaxInt THEN v[i] ELSE 0]

\* The leftmost field in which they differ decides.
Below(fa, fb) == \E i \in 1..4 : fa[i] < fb[i] /\ \A j \in 1..(i - 1) : fa[j] = fb[j]

\* Mutant: the fields are compared from right to left.
ComparePackageVersionsBackwards(a, b) ==
  LET fa == VersionFields(a)
      fb == VersionFields(b)
      back(f) == [i \in 1..4 |-> f[5 - i]]
  IN  IF Below(back(fa), back(fb)) THEN -1 ELSE IF Below(back(fb), back(fa)) THEN 1 ELSE 0

ComparePackageVersions(a, b) ==
  LET fa == VersionFields(a)
      fb == VersionFields(b)
  IN  IF Below(fa, fb) THEN -1 ELSE IF Below(fb, fa) THEN 1 ELSE 0

=============================================================================
