-------------------------- MODULE InstallOutcomes --------------------------
(***************************************************************************)
(* What a call of the platform's installer may come to.  The installer     *)
(* owes its callers no other outcome, and the callers are modelled to cope *)
(* with each of these.                                                     *)
(*                                                                         *)
(* `found' is what was installed when the call began, `wanted' what it is  *)
(* to leave: `nothing' for an uninstall.                                   *)
(***************************************************************************)

\* A call that returns: success is what was wanted.  A failed install may have
\* removed what was there, a failed uninstall has not.
Outcomes(found, wanted, nothing) ==
  {[answer |-> "ok", left |-> wanted], [answer |-> "error", left |-> found]}
    \cup {o \in {[answer |-> "error", left |-> nothing]} : wanted # nothing}

\* What a call that is interrupted leaves.
Halfway(found, wanted, nothing) == {found, wanted, nothing}

=============================================================================
