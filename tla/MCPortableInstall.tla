-------------------------- MODULE MCPortableInstall --------------------------
(* PortableInstall for TLC: a file that every build has, one the first build    *)
(* has and no other, and one that came later.                                   *)
EXTENDS PortableInstall

MCFiles == {"exe", "old", "new"}
MCContents ==
  [b \in Builds |-> IF b = 1 THEN {"exe", "old"} ELSE {"exe", "new"}]

=============================================================================
