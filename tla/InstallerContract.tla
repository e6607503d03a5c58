------------------------- MODULE InstallerContract -------------------------
(***************************************************************************)
(* What the update engine and the windows rely on when they call the       *)
(* installer: a call takes the installed package away, puts the wanted one *)
(* there, in this order and at most once each, and answers truthfully;     *)
(* between calls the installer does nothing.                               *)
(***************************************************************************)
EXTENDS InstallOutcomes

CONSTANTS Packages,   \* the application packages that may be installed
          NoPackage   \* no application is installed

VARIABLES app,      \* the installed package
          busy,     \* a call is under way
          wanted,   \*   the package it is to leave, NoPackage for an uninstall
          found,    \*   the package that was installed when it began
          answer    \* what the last call returned

vars == <<app, busy, wanted, found, answer>>

Init ==
  /\ app = NoPackage /\ busy = FALSE
  /\ wanted = NoPackage /\ found = NoPackage
  /\ answer = "none"

Begin ==
  /\ ~busy /\ busy' = TRUE
  /\ wanted' \in Packages \cup {NoPackage}
  /\ found' = app
  /\ answer' = "none"
  /\ UNCHANGED app

\* Forward from the package found to none to the package wanted, never back.
Onward ==
  \/ UNCHANGED app
  \/ app = found /\ app' \in {NoPackage, wanted}
  \/ app = NoPackage /\ app' = wanted

Work ==
  /\ busy
  /\ Onward
  /\ UNCHANGED <<busy, wanted, found, answer>>

Over == busy /\ busy' = FALSE /\ wanted' = NoPackage /\ found' = NoPackage

Return ==
  /\ Over
  /\ Onward
  /\ [answer |-> answer', left |-> app'] \in Outcomes(found, wanted, NoPackage)

\* The machine loses power.
Interrupted ==
  /\ Over
  /\ app \in Halfway(found, wanted, NoPackage)
  /\ answer' = "none"
  /\ UNCHANGED app

\* Somebody else installs or removes the application, between two calls.
Elsewhere ==
  /\ ~busy
  /\ app' \in Packages \cup {NoPackage}
  /\ UNCHANGED <<busy, wanted, found, answer>>

Next == Begin \/ Work \/ Return \/ Interrupted \/ Elsewhere

Spec == Init /\ [][Next]_vars

=============================================================================
