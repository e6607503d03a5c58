-------------------------- MODULE StationSettings --------------------------
(***************************************************************************)
(* What the version manager promises an operator about a station's own     *)
(* configuration (key mappings, page layout, update channel), whatever     *)
(* install, update, rollback or uninstall is going on: a setting changes   *)
(* when the operator changes it, and it goes when the operator asks for    *)
(* the settings to go with the application.  Nothing else touches it, for  *)
(* as long as nothing happens that excuses the manager.                    *)
(***************************************************************************)
EXTENDS Integers

CONSTANTS Settings,   \* the settings of a station
          Packages,   \* the application packages that may be installed
          NoPackage   \* no application is installed

VARIABLES app,    \* the installed package
          asked,  \* the operator has asked for an uninstall that takes the settings along
          conf,   \* the station's settings: the number of the edit that made each, 0 for the default
          count,  \* edits made so far
          excused \* something has happened that ends the promise

vars == <<app, asked, conf, count, excused>>

Defaults == [s \in Settings |-> 0]

Init ==
  /\ app = NoPackage
  /\ asked = FALSE
  /\ conf = Defaults
  /\ count = 0
  /\ excused = FALSE

\* The operator changes a setting in the running application.
Edit(s) ==
  /\ app # NoPackage
  /\ count' = count + 1
  /\ conf' = [conf EXCEPT ![s] = count + 1]
  /\ UNCHANGED <<app, asked>>

\* The operator asks for the settings to go with the application.
Ask ==
  /\ asked' = TRUE
  /\ UNCHANGED <<app, conf, count>>

\* Installing, replacing or removing the application leaves the settings alone, and so
\* does whatever ends an uninstall.
Replace ==
  /\ app' \in Packages \cup {NoPackage}
  /\ asked' \in {asked, FALSE}
  /\ UNCHANGED <<conf, count>>

\* The application goes and, because it was asked for, the settings with it.
Wipe ==
  /\ asked
  /\ app' = NoPackage
  /\ conf' = Defaults
  /\ asked' \in BOOLEAN
  /\ UNCHANGED count

Next ==
  \/ UNCHANGED excused /\ (Ask \/ Replace \/ Wipe \/ \E s \in Settings : Edit(s))
  \/ excused'

Spec == Init /\ [][Next]_vars

=============================================================================
