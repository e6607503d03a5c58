-------------------------- MODULE CertificateTrust --------------------------
(***************************************************************************)
(* Approving the publisher: how the version manager gets the certificate   *)
(* of a release into the two machine stores Windows asks about             *)
(* (trustCertificateInStores and its callers in the update engine).        *)
(*                                                                         *)
(* A call downloads the certificate to a path in TEMP, looks in each       *)
(* store, imports where it is missing, and asks the operator once to       *)
(* approve an elevated copy of the manager for what it may not write       *)
(* itself.  Every script is a step of its own.  The path is named after    *)
(* the release asset, so calls that overlap share it.                      *)
(***************************************************************************)
EXTENDS Integers

CONSTANTS
  Calls,    \* the calls that may overlap
  Certs,    \* signing certificates: a release carries one of them
  Mishaps,  \* what may go wrong in this instance, a subset of AllMishaps
  NoFile    \* there is no file at the certificate's path

Stores == {"TrustedPeople", "Root"}

AllMishaps ==
  { "query",     \* the script that looks in a store gives no answer
    "import" }   \* Import-Certificate fails for a reason of its own

ASSUME MishapsAssumption == Mishaps \subseteq AllMishaps
ASSUME NoFileAssumption == NoFile \notin Certs

VARIABLES
  file,      \* the certificate at the path in TEMP
  stores,    \* the certificates in each machine store
  admin,     \* the manager itself runs elevated
  pc,        \* per call: the next step, "idle" outside a call
  cert,      \* per call: the certificate of the release
  todo,      \* per call: the stores the current loop has yet to visit
  missing,   \* per call: stores that do not hold the certificate
  need,      \* per call: needElevation
  failed,    \* per call: firstErr # nil
  result,    \* per call: what it returned
  prompts,   \* history, per call: approval prompts shown
  had        \* history, per call: the stores that held the certificate at the start

locals == <<cert, todo, missing, need, failed>>
vars == <<file, stores, admin, pc, locals, result, prompts, had>>

Steps == {"check", "import", "elevate", "helper", "verify"}

-----------------------------------------------------------------------------
Init ==
  /\ file = NoFile
  /\ stores \in [Stores -> SUBSET Certs]
  /\ admin \in BOOLEAN
  /\ pc = [c \in Calls |-> "idle"]
  /\ cert \in [Calls -> Certs]
  /\ todo = [c \in Calls |-> {}]
  /\ missing = [c \in Calls |-> {}]
  /\ need = [c \in Calls |-> {}]
  /\ failed = [c \in Calls |-> FALSE]
  /\ result = [c \in Calls |-> "none"]
  /\ prompts = [c \in Calls |-> 0]
  /\ had = [c \in Calls |-> {}]

\* The stores are visited in the order they are passed.
First(S) == IF "TrustedPeople" \in S THEN "TrustedPeople" ELSE "Root"

\* What certPresentScript may answer.  It takes the thumbprint from the file:
\* without the file PowerShell reports an error and may go on with an empty
\* thumbprint, which names the store itself, and the store is there.
Answers(s) ==
  (IF file = NoFile THEN BOOLEAN ELSE {file \in stores[s]})
    \cup {answer \in {FALSE} : "query" \in Mishaps}

Import(s) == stores' = [stores EXCEPT ![s] = @ \cup {file}]

Goto(c, step, S) ==
  /\ pc' = [pc EXCEPT ![c] = step]
  /\ todo' = [todo EXCEPT ![c] = S]

\* The call returns; the deferred os.Remove takes the file along.
Return(c, r) ==
  /\ Goto(c, "idle", {})
  /\ result' = [result EXCEPT ![c] = r]
  /\ file' = NoFile

\* downloadCertAsset writes the release's certificate, then TrustCertificate.
Begin(c, k) ==
  /\ pc[c] = "idle"
  /\ file' = k
  /\ cert' = [cert EXCEPT ![c] = k]
  /\ Goto(c, "check", Stores)
  /\ missing' = [missing EXCEPT ![c] = {}]
  /\ need' = [need EXCEPT ![c] = {}]
  /\ failed' = [failed EXCEPT ![c] = FALSE]
  /\ result' = [result EXCEPT ![c] = "none"]
  /\ prompts' = [prompts EXCEPT ![c] = 0]
  /\ had' = [had EXCEPT ![c] = {s \in Stores : k \in stores[s]}]
  /\ UNCHANGED <<stores, admin>>

\* certAlreadyTrusted for the next store.
CheckStore(c) ==
  /\ pc[c] = "check"
  /\ todo[c] # {}
  /\ \E present \in Answers(First(todo[c])) :
       missing' = [missing EXCEPT ![c] = IF present THEN @ ELSE @ \cup {First(todo[c])}]
  /\ Goto(c, "check", todo[c] \ {First(todo[c])})
  /\ UNCHANGED <<file, stores, admin, cert, need, failed, result, prompts, had>>

\* Mutant: the imports go ahead on a station that was set up before.
CheckedAnyhow(c) ==
  /\ pc[c] = "check"
  /\ todo[c] = {}
  /\ Goto(c, "import", Stores)
  /\ UNCHANGED <<file, stores, admin, cert, missing, need, failed, result, prompts, had>>

Checked(c) ==
  /\ pc[c] = "check"
  /\ todo[c] = {}
  /\ \/ /\ missing[c] = {}
        /\ Return(c, "ok")
     \/ /\ missing[c] # {}
        /\ Goto(c, "import", missing[c])
        /\ UNCHANGED <<file, result>>
  /\ UNCHANGED <<stores, admin, cert, missing, need, failed, prompts, had>>

\* importCertificateUnelevated for the next store.  Without rights the failure
\* is reported as errNeedsElevation whatever its cause.
ImportUnelevated(c) ==
  /\ pc[c] = "import"
  /\ todo[c] # {}
  /\ \/ /\ admin
        /\ file # NoFile
        /\ Import(First(todo[c]))
        /\ UNCHANGED <<need, failed>>
     \/ /\ ~admin
        /\ need' = [need EXCEPT ![c] = @ \cup {First(todo[c])}]
        /\ UNCHANGED <<stores, failed>>
     \/ /\ (admin /\ file = NoFile) \/ "import" \in Mishaps
        /\ failed' = [failed EXCEPT ![c] = TRUE]
        /\ UNCHANGED <<stores, need>>
  /\ Goto(c, "import", todo[c] \ {First(todo[c])})
  /\ UNCHANGED <<file, admin, cert, missing, result, prompts, had>>

\* Mutant: what needs elevation is tried again without.
ImportedOrTryAgain(c) ==
  /\ pc[c] = "import"
  /\ todo[c] = {}
  /\ IF need[c] = {}
       THEN Return(c, IF failed[c] THEN "error" ELSE "ok")
       ELSE Goto(c, "import", need[c]) /\ UNCHANGED <<file, result>>
  /\ UNCHANGED <<stores, admin, cert, missing, need, failed, prompts, had>>

Imported(c) ==
  /\ pc[c] = "import"
  /\ todo[c] = {}
  /\ \/ /\ need[c] = {}
        /\ Return(c, IF failed[c] THEN "error" ELSE "ok")
     \/ /\ need[c] # {}
        /\ Goto(c, "elevate", {})
        /\ UNCHANGED <<file, result>>
  /\ UNCHANGED <<stores, admin, cert, missing, need, failed, prompts, had>>

\* elevateTrust: one prompt for every store in need.  The operator approves,
\* and the elevated copy of the manager starts; or declines.
Elevate(c) ==
  /\ pc[c] = "elevate"
  /\ prompts' = [prompts EXCEPT ![c] = @ + 1]
  /\ \E step \in {"helper", "verify"} : Goto(c, step, need[c])
  /\ UNCHANGED <<file, stores, admin, cert, missing, need, failed, result, had>>

\* The elevated copy: a store whose import fails does not keep the other from
\* having its turn, and the parent cannot see what happened.
HelperImport(c) ==
  /\ pc[c] = "helper"
  /\ todo[c] # {}
  /\ \/ /\ file # NoFile
        /\ Import(First(todo[c]))
     \/ /\ file = NoFile \/ "import" \in Mishaps
        /\ UNCHANGED stores
  /\ Goto(c, "helper", todo[c] \ {First(todo[c])})
  /\ UNCHANGED <<file, admin, cert, missing, need, failed, result, prompts, had>>

\* Mutant: the elevated copy is believed on its exit.
HelperIsBelieved(c) ==
  /\ pc[c] = "helper"
  /\ todo[c] = {}
  /\ Return(c, "ok")
  /\ UNCHANGED <<stores, admin, cert, missing, need, failed, prompts, had>>

HelperExits(c) ==
  /\ pc[c] = "helper"
  /\ todo[c] = {}
  /\ Goto(c, "verify", need[c])
  /\ UNCHANGED <<file, stores, admin, cert, missing, need, failed, result, prompts, had>>

\* Mutant: the operator is asked again when a store still lacks the certificate.
VerifyStoreOrAskAgain(c) ==
  /\ pc[c] = "verify"
  /\ todo[c] # {}
  /\ \E present \in Answers(First(todo[c])) :
       IF present THEN Goto(c, "verify", todo[c] \ {First(todo[c])}) ELSE Goto(c, "elevate", {})
  /\ UNCHANGED <<file, stores, admin, cert, missing, need, failed, result, prompts, had>>

\* Only the store itself is believed.
VerifyStore(c) ==
  /\ pc[c] = "verify"
  /\ todo[c] # {}
  /\ \E present \in Answers(First(todo[c])) :
       IF present
         THEN /\ Goto(c, "verify", todo[c] \ {First(todo[c])})
              /\ UNCHANGED <<file, result>>
         ELSE Return(c, "error")
  /\ UNCHANGED <<stores, admin, cert, missing, need, failed, prompts, had>>

Verified(c) ==
  /\ pc[c] = "verify"
  /\ todo[c] = {}
  /\ Return(c, IF failed[c] THEN "error" ELSE "ok")
  /\ UNCHANGED <<stores, admin, cert, missing, need, failed, prompts, had>>

\* Between two calls an administrator may remove a certificate from a store,
\* and what the last calls reported is of the past.
Purge(s, k) ==
  /\ \A c \in Calls : pc[c] = "idle"
  /\ k \in stores[s]
  /\ stores' = [stores EXCEPT ![s] = @ \ {k}]
  /\ result' = [c \in Calls |-> "none"]
  /\ UNCHANGED <<file, admin, pc, locals, prompts, had>>

Step(c) ==
  \/ CheckStore(c) \/ Checked(c)
  \/ ImportUnelevated(c) \/ Imported(c)
  \/ Elevate(c) \/ HelperImport(c) \/ HelperExits(c)
  \/ VerifyStore(c) \/ Verified(c)

Next ==
  \/ \E c \in Calls : (\E k \in Certs : Begin(c, k)) \/ Step(c)
  \/ \E s \in Stores, k \in Certs : Purge(s, k)

Spec == Init /\ [][Next]_vars

\* Every script returns, and Windows answers a prompt the operator does not.
FairSpec == Spec /\ \A c \in Calls : WF_vars(Step(c))

-----------------------------------------------------------------------------
\* Type invariant.
TypeOK ==
  /\ file \in Certs \cup {NoFile}
  /\ stores \in [Stores -> SUBSET Certs]
  /\ admin \in BOOLEAN
  /\ pc \in [Calls -> Steps \cup {"idle"}]
  /\ cert \in [Calls -> Certs]
  /\ todo \in [Calls -> SUBSET Stores]
  /\ missing \in [Calls -> SUBSET Stores]
  /\ need \in [Calls -> SUBSET Stores]
  /\ failed \in [Calls -> BOOLEAN]
  /\ result \in [Calls -> {"none", "ok", "error"}]
  /\ prompts \in [Calls -> 0..1]
  /\ had \in [Calls -> SUBSET Stores]

\* A call that reports success has the release's certificate in both stores: "a
\* false success would be silent and permanent" (trustCertificateWindows).
SuccessMeansTrusted ==
  \A c \in Calls : result[c] = "ok" => \A s \in Stores : cert[c] \in stores[s]

\* The operator is asked once however many stores lack the certificate, and
\* not at all on a station that was set up before (trustCertificateInStores).
AsksOnlyOnce ==
  \A c \in Calls : prompts[c] <= IF had[c] = Stores THEN 0 ELSE 1

\* Every call returns, so an update never waits for its certificate for good.
CallsReturn == \A c \in Calls : pc[c] # "idle" ~> pc[c] = "idle"

\* The stores a loop has already dealt with.
Settled(c, S) == \A s \in Stores \ S : cert[c] \in stores[s]

\* Why success can be believed: the file is the release's certificate for as
\* long as the call runs, and a store no list holds has the certificate.
TrustInv ==
  /\ SuccessMeansTrusted
  /\ \A c \in Calls :
       /\ pc[c] # "idle" => file = cert[c]
       /\ pc[c] = "check" => Settled(c, todo[c] \cup missing[c])
       /\ pc[c] = "import" => failed[c] \/ Settled(c, todo[c] \cup need[c])
       /\ pc[c] \in {"elevate", "helper"} => failed[c] \/ Settled(c, need[c])
       /\ pc[c] = "verify" => failed[c] \/ Settled(c, todo[c])

=============================================================================
