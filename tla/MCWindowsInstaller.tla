------------------------- MODULE MCWindowsInstaller -------------------------
(* WindowsInstaller for TLC: settings and publishers are interchangeable. *)
EXTENDS WindowsInstaller, TLC

Symmetry == Permutations(Settings) \cup Permutations(Publishers)

=============================================================================
