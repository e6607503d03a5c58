-------------------------- MODULE MCManagerExtract --------------------------
(* Three builds, two of them of one size, and managers that are written in  *)
(* two portions. *)
EXTENDS ManagerExtract

MCSize == [b \in Builds |-> IF b = 3 THEN 1 ELSE 2]

=============================================================================
