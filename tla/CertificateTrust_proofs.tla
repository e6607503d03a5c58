----------------------- MODULE CertificateTrust_proofs -----------------------
(***************************************************************************)
(* Proofs about CertificateTrust, for any certificates and any history of  *)
(* the stores.                                                             *)
(***************************************************************************)
EXTENDS CertificateTrust, TLAPS

\* Type correctness, without the count of prompts.
Types ==
  /\ file \in Certs \cup {NoFile}
  /\ stores \in [Stores -> SUBSET Certs]
  /\ admin \in BOOLEAN
  /\ pc \in [Calls -> Steps \cup {"idle"}]
  /\ cert \in [Calls -> Certs]
  /\ todo \in [Calls -> SUBSET Stores]
  /\ missing \in [Calls -> SUBSET Stores]
  /\ need \in [Calls -> SUBSET Stores]
  /\ failed \in [Calls -> BOOLEAN]
  /\ result \in [Calls -> {"none", "ok", "error"}]
  /\ prompts \in [Calls -> Nat]
  /\ had \in [Calls -> SUBSET Stores]

\* The next store of a loop is one it has yet to visit.
LEMMA FirstIsNext ==
  ASSUME NEW S \in SUBSET Stores, S # {}
  PROVE  First(S) \in S
BY DEF First, Stores

\* A script that can read the file says "present" only of a store that holds
\* the certificate.
LEMMA PresentIsTrusted ==
  ASSUME NEW s, file # NoFile, TRUE \in Answers(s)
  PROVE  file \in stores[s]
BY Zenon DEF Answers

\* A script that answers says "absent" only of a store that does not.
LEMMA AbsentIsMissing ==
  ASSUME NEW s, file # NoFile, "query" \notin Mishaps, FALSE \in Answers(s)
  PROVE  file \notin stores[s]
BY Zenon DEF Answers

\* Scripts answer yes or no.
LEMMA AnswersAreBoolean ==
  ASSUME NEW s, NEW present \in Answers(s)
  PROVE  present = TRUE \/ present = FALSE
BY Zenon DEF Answers

\* Types is inductive, with any number of calls.
LEMMA TypesInductive == Spec => []Types
<1>1. Init => Types
  BY DEF Init, Types
<1>2. Types /\ [Next]_vars => Types'
  <2> SUFFICES ASSUME Types, [Next]_vars PROVE Types'
    OBVIOUS
  <2> USE NoFileAssumption DEF Types, Goto, Return, Import, Steps, locals
  <2>1. ASSUME NEW c \in Calls, NEW k \in Certs, Begin(c, k) PROVE Types'
    BY <2>1 DEF Begin
  <2>2. ASSUME NEW c \in Calls, CheckStore(c) PROVE Types'
    BY <2>2, FirstIsNext DEF CheckStore
  <2>3. ASSUME NEW c \in Calls, Checked(c) PROVE Types'
    BY <2>3 DEF Checked
  <2>4. ASSUME NEW c \in Calls, ImportUnelevated(c) PROVE Types'
    <3>1. First(todo[c]) \in Stores
      BY <2>4, FirstIsNext DEF ImportUnelevated
    <3>2. /\ stores' \in [Stores -> SUBSET Certs] /\ need' \in [Calls -> SUBSET Stores]
          /\ pc' \in [Calls -> Steps \cup {"idle"}] /\ todo' \in [Calls -> SUBSET Stores]
      BY <2>4, <3>1 DEF ImportUnelevated
    <3>3. failed' \in [Calls -> BOOLEAN]
      <4>1. failed' = failed \/ failed' = [failed EXCEPT ![c] = TRUE]
        BY <2>4, Zenon DEF ImportUnelevated
      <4> QED
        BY <4>1
    <3> QED
      BY <2>4, <3>2, <3>3 DEF ImportUnelevated
  <2>5. ASSUME NEW c \in Calls, Imported(c) PROVE Types'
    BY <2>5 DEF Imported
  <2>6. ASSUME NEW c \in Calls, Elevate(c) PROVE Types'
    BY <2>6 DEF Elevate
  <2>7. ASSUME NEW c \in Calls, HelperImport(c) PROVE Types'
    BY <2>7, FirstIsNext DEF HelperImport
  <2>8. ASSUME NEW c \in Calls, HelperExits(c) PROVE Types'
    BY <2>8 DEF HelperExits
  <2>9. ASSUME NEW c \in Calls, VerifyStore(c) PROVE Types'
    BY <2>9 DEF VerifyStore
  <2>10. ASSUME NEW c \in Calls, Verified(c) PROVE Types'
    BY <2>10 DEF Verified
  <2>11. ASSUME NEW s \in Stores, NEW k \in Certs, Purge(s, k) PROVE Types'
    BY <2>11 DEF Purge
  <2>12. CASE UNCHANGED vars
    BY <2>12 DEF vars
  <2> QED
    BY <2>1, <2>2, <2>3, <2>4, <2>5, <2>6, <2>7, <2>8, <2>9, <2>10, <2>11, <2>12 DEF Next, Step
<1> QED
  BY <1>1, <1>2, PTL DEF Spec

-----------------------------------------------------------------------------
\* How often a call has asked by the time it gets to each step.
PromptInv ==
  \A c \in Calls :
    /\ prompts[c] \in 0..1
    /\ pc[c] \in {"check", "import", "elevate"} => prompts[c] = 0

\* Theorem for TypeOK: every variable keeps its type, for any number of calls.
THEOREM TypeCorrect == Spec => []TypeOK
<1>1. Init => PromptInv
  <2> SUFFICES ASSUME Init, NEW c \in Calls
               PROVE  prompts[c] \in 0..1 /\ pc[c] = "idle"
    BY DEF PromptInv
  <2> QED
    BY DEF Init
<1>2. Types /\ PromptInv /\ [Next]_vars => PromptInv'
  <2> SUFFICES ASSUME Types, PromptInv, [Next]_vars PROVE PromptInv'
    OBVIOUS
  <2> USE DEF Types, PromptInv, Goto, Return
  <2>1. ASSUME NEW c \in Calls, NEW k \in Certs, Begin(c, k) PROVE PromptInv'
    BY <2>1 DEF Begin
  <2>2. ASSUME NEW c \in Calls, CheckStore(c) PROVE PromptInv'
    BY <2>2 DEF CheckStore
  <2>3. ASSUME NEW c \in Calls, Checked(c) PROVE PromptInv'
    BY <2>3 DEF Checked
  <2>4. ASSUME NEW c \in Calls, ImportUnelevated(c) PROVE PromptInv'
    BY <2>4 DEF ImportUnelevated
  <2>5. ASSUME NEW c \in Calls, Imported(c) PROVE PromptInv'
    BY <2>5 DEF Imported
  <2>6. ASSUME NEW c \in Calls, Elevate(c) PROVE PromptInv'
    BY <2>6 DEF Elevate
  <2>7. ASSUME NEW c \in Calls, HelperImport(c) PROVE PromptInv'
    BY <2>7 DEF HelperImport
  <2>8. ASSUME NEW c \in Calls, HelperExits(c) PROVE PromptInv'
    BY <2>8 DEF HelperExits
  <2>9. ASSUME NEW c \in Calls, VerifyStore(c) PROVE PromptInv'
    BY <2>9 DEF VerifyStore
  <2>10. ASSUME NEW c \in Calls, Verified(c) PROVE PromptInv'
    BY <2>10 DEF Verified
  <2>11. ASSUME NEW s \in Stores, NEW k \in Certs, Purge(s, k) PROVE PromptInv'
    BY <2>11 DEF Purge
  <2>12. CASE UNCHANGED vars
    BY <2>12 DEF vars
  <2> QED
    BY <2>1, <2>2, <2>3, <2>4, <2>5, <2>6, <2>7, <2>8, <2>9, <2>10, <2>11, <2>12 DEF Next, Step
<1>3. Types /\ PromptInv => TypeOK
  BY DEF Types, PromptInv, TypeOK
<1> QED
  BY <1>1, <1>2, <1>3, TypesInductive, PTL DEF Spec

-----------------------------------------------------------------------------
\* Theorem for TrustInv: it takes a path of its own for every call, which one
\* call at a time has.
THEOREM CallKeepsItsCertificate ==
  ASSUME NEW only, Calls = {only}
  PROVE  Spec => []TrustInv
<1>1. Init => TrustInv
  BY DEF Init, TrustInv, SuccessMeansTrusted
<1>2. Types /\ TrustInv /\ [Next]_vars => TrustInv'
  <2> SUFFICES ASSUME Types, TrustInv, [Next]_vars PROVE TrustInv'
    OBVIOUS
  <2> USE NoFileAssumption
      DEF Types, TrustInv, SuccessMeansTrusted, Settled, Goto, Return, Import, locals
  <2>1. ASSUME NEW c \in Calls, NEW k \in Certs, Begin(c, k) PROVE TrustInv'
    BY <2>1 DEF Begin
  <2>2. ASSUME NEW c \in Calls, CheckStore(c) PROVE TrustInv'
    <3> DEFINE s == First(todo[c])
    <3>1. s \in todo[c] /\ s \in Stores /\ file = cert[c] /\ file # NoFile
      BY <2>2, FirstIsNext DEF CheckStore
    <3>2. PICK present \in Answers(s) :
            missing' = [missing EXCEPT ![c] = IF present THEN @ ELSE @ \cup {s}]
      BY <2>2, Zenon DEF CheckStore
    <3>3. CASE present = TRUE
      <4>1. cert[c] \in stores[s]
        BY <3>1, <3>3, PresentIsTrusted
      <4>2. missing' = [missing EXCEPT ![c] = @]
        BY <3>2, <3>3
      <4> QED
        BY <2>2, <3>1, <4>1, <4>2 DEF CheckStore
    <3>4. CASE present = FALSE
      <4>1. missing' = [missing EXCEPT ![c] = @ \cup {s}]
        BY <3>2, <3>4
      <4> QED
        BY <2>2, <3>1, <4>1 DEF CheckStore
    <3> QED
      BY <3>3, <3>4, AnswersAreBoolean
  <2>3. ASSUME NEW c \in Calls, Checked(c) PROVE TrustInv'
    BY <2>3 DEF Checked
  <2>4. ASSUME NEW c \in Calls, ImportUnelevated(c) PROVE TrustInv'
    BY <2>4, FirstIsNext DEF ImportUnelevated
  <2>5. ASSUME NEW c \in Calls, Imported(c) PROVE TrustInv'
    BY <2>5 DEF Imported
  <2>6. ASSUME NEW c \in Calls, Elevate(c) PROVE TrustInv'
    BY <2>6 DEF Elevate
  <2>7. ASSUME NEW c \in Calls, HelperImport(c) PROVE TrustInv'
    BY <2>7, FirstIsNext DEF HelperImport
  <2>8. ASSUME NEW c \in Calls, HelperExits(c) PROVE TrustInv'
    BY <2>8 DEF HelperExits
  <2>9. ASSUME NEW c \in Calls, VerifyStore(c) PROVE TrustInv'
    <3> DEFINE s == First(todo[c])
    <3>1. s \in todo[c] /\ s \in Stores /\ file = cert[c] /\ file # NoFile
      BY <2>9, FirstIsNext DEF VerifyStore
    <3>2. CASE Return(c, "error")
      BY <2>9, <3>2 DEF VerifyStore
    <3>3. CASE TRUE \in Answers(s) /\ Goto(c, "verify", todo[c] \ {s}) /\ UNCHANGED <<file, result>>
      <4>1. cert[c] \in stores[s]
        BY <3>1, <3>3, PresentIsTrusted
      <4> QED
        BY <2>9, <3>1, <3>3, <4>1 DEF VerifyStore
    <3>4. PICK present \in Answers(s) :
            IF present THEN Goto(c, "verify", todo[c] \ {s}) /\ UNCHANGED <<file, result>>
            ELSE Return(c, "error")
      BY <2>9, Zenon DEF VerifyStore
    <3> QED
      BY <3>2, <3>3, <3>4, AnswersAreBoolean
  <2>10. ASSUME NEW c \in Calls, Verified(c) PROVE TrustInv'
    BY <2>10 DEF Verified
  <2>11. ASSUME NEW s \in Stores, NEW k \in Certs, Purge(s, k) PROVE TrustInv'
    BY <2>11 DEF Purge
  <2>12. CASE UNCHANGED vars
    BY <2>12 DEF vars
  <2> QED
    BY <2>1, <2>2, <2>3, <2>4, <2>5, <2>6, <2>7, <2>8, <2>9, <2>10, <2>11, <2>12 DEF Next, Step
<1> QED
  BY <1>1, <1>2, TypesInductive, PTL DEF Spec

\* Theorem for SuccessMeansTrusted: with a path of its own, a call that reports
\* success has the certificate in both stores.
THEOREM SuccessIsTrust ==
  ASSUME NEW only, Calls = {only}
  PROVE  Spec => []SuccessMeansTrusted
<1>1. TrustInv => SuccessMeansTrusted
  BY DEF TrustInv
<1> QED
  BY <1>1, CallKeepsItsCertificate, PTL

-----------------------------------------------------------------------------
\* Where a call stands with its prompt: a station that was set up gets past
\* the check, and nobody is asked before the one elevation.
AskInv ==
  \A c \in Calls :
    /\ pc[c] # "idle" => file = cert[c]
    /\ pc[c] = "check" => /\ prompts[c] = 0
                          /\ had[c] = Stores => /\ missing[c] = {}
                                                /\ \A s \in Stores : cert[c] \in stores[s]
    /\ pc[c] \in {"import", "elevate"} => prompts[c] = 0 /\ had[c] # Stores
    /\ prompts[c] <= IF had[c] = Stores THEN 0 ELSE 1

\* Theorem for AsksOnlyOnce: it takes a path of its own for every call, and
\* scripts that answer.
THEOREM OnePromptAtMost ==
  ASSUME NEW only, Calls = {only}, "query" \notin Mishaps
  PROVE  Spec => []AsksOnlyOnce
<1>1. Init => AskInv
  BY DEF Init, AskInv
<1>2. Types /\ AskInv /\ [Next]_vars => AskInv'
  <2> SUFFICES ASSUME Types, AskInv, [Next]_vars PROVE AskInv'
    OBVIOUS
  <2> USE NoFileAssumption DEF Types, AskInv, Goto, Return, Import, locals
  <2>1. ASSUME NEW c \in Calls, NEW k \in Certs, Begin(c, k) PROVE AskInv'
    BY <2>1 DEF Begin
  <2>2. ASSUME NEW c \in Calls, CheckStore(c) PROVE AskInv'
    <3> DEFINE s == First(todo[c])
    <3>1. s \in todo[c] /\ s \in Stores /\ file = cert[c] /\ file # NoFile
      BY <2>2, FirstIsNext DEF CheckStore
    <3>2. PICK present \in Answers(s) :
            missing' = [missing EXCEPT ![c] = IF present THEN @ ELSE @ \cup {s}]
      BY <2>2, Zenon DEF CheckStore
    <3>3. CASE present = TRUE
      <4>1. cert[c] \in stores[s]
        BY <3>1, <3>3, PresentIsTrusted
      <4>2. missing' = [missing EXCEPT ![c] = @]
        BY <3>2, <3>3
      <4> QED
        BY <2>2, <3>1, <4>1, <4>2 DEF CheckStore
    <3>4. CASE present = FALSE
      <4>1. cert[c] \notin stores[s]
        BY <3>1, <3>4, AbsentIsMissing
      <4>2. missing' = [missing EXCEPT ![c] = @ \cup {s}]
        BY <3>2, <3>4
      <4> QED
        BY <2>2, <3>1, <4>1, <4>2 DEF CheckStore
    <3> QED
      BY <3>3, <3>4, AnswersAreBoolean
  <2>3. ASSUME NEW c \in Calls, Checked(c) PROVE AskInv'
    BY <2>3 DEF Checked
  <2>4. ASSUME NEW c \in Calls, ImportUnelevated(c) PROVE AskInv'
    BY <2>4 DEF ImportUnelevated
  <2>5. ASSUME NEW c \in Calls, Imported(c) PROVE AskInv'
    BY <2>5 DEF Imported
  <2>6. ASSUME NEW c \in Calls, Elevate(c) PROVE AskInv'
    BY <2>6 DEF Elevate
  <2>7. ASSUME NEW c \in Calls, HelperImport(c) PROVE AskInv'
    BY <2>7 DEF HelperImport
  <2>8. ASSUME NEW c \in Calls, HelperExits(c) PROVE AskInv'
    BY <2>8 DEF HelperExits
  <2>9. ASSUME NEW c \in Calls, VerifyStore(c) PROVE AskInv'
    BY <2>9 DEF VerifyStore
  <2>10. ASSUME NEW c \in Calls, Verified(c) PROVE AskInv'
    BY <2>10 DEF Verified
  <2>11. ASSUME NEW s \in Stores, NEW k \in Certs, Purge(s, k) PROVE AskInv'
    BY <2>11 DEF Purge
  <2>12. CASE UNCHANGED vars
    BY <2>12 DEF vars
  <2> QED
    BY <2>1, <2>2, <2>3, <2>4, <2>5, <2>6, <2>7, <2>8, <2>9, <2>10, <2>11, <2>12 DEF Next, Step
<1>3. AskInv => AsksOnlyOnce
  BY DEF AskInv, AsksOnlyOnce
<1> QED
  BY <1>1, <1>2, <1>3, TypesInductive, PTL DEF Spec

-----------------------------------------------------------------------------
(* How long a call takes. *)

\* The scripts that may follow on each step, one for every store that is left and one
\* for the end of a loop.
Place == [idle |-> 0, verify |-> 1, helper |-> 4, elevate |-> 7, import |-> 8, check |-> 11]
Size(S) == (IF "TrustedPeople" \in S THEN 1 ELSE 0) + (IF "Root" \in S THEN 1 ELSE 0)
Remaining(step, S) == Place[step] + Size(S)

StepsLeft(c) == Remaining(pc[c], todo[c])

\* There are two stores, and to visit one leaves one less.
LEMMA SizeOfStores ==
  ASSUME NEW S \in SUBSET Stores
  PROVE  Size(S) \in 0..2 /\ (S # {} => Size(S \ {First(S)}) = Size(S) - 1)
<1>1. CASE "TrustedPeople" \in S
  BY <1>1 DEF Size, First, Stores
<1>2. CASE "TrustedPeople" \notin S
  <2>1. S # {} => S = {"Root"}
    BY <1>2 DEF Stores
  <2> QED
    BY <1>2, <2>1 DEF Size, First
<1> QED
  BY <1>1, <1>2

\* A step of one call is felt by no other.
LEMMA StepIsItsOwn ==
  ASSUME NEW c \in Calls, Step(c), NEW d \in Calls \ {c},
         pc \in [Calls -> Steps \cup {"idle"}], todo \in [Calls -> SUBSET Stores]
  PROVE  pc'[d] = pc[d] /\ todo'[d] = todo[d]
<1> USE DEF Return, Goto
<1>1. CASE CheckStore(c)
  BY <1>1 DEF CheckStore
<1>2. CASE Checked(c)
  BY <1>2 DEF Checked
<1>3. CASE ImportUnelevated(c)
  BY <1>3 DEF ImportUnelevated
<1>4. CASE Imported(c)
  BY <1>4 DEF Imported
<1>5. CASE Elevate(c)
  BY <1>5 DEF Elevate
<1>6. CASE HelperImport(c)
  BY <1>6 DEF HelperImport
<1>7. CASE HelperExits(c)
  BY <1>7 DEF HelperExits
<1>8. CASE VerifyStore(c)
  BY <1>8 DEF VerifyStore
<1>9. CASE Verified(c)
  BY <1>9 DEF Verified
<1> QED
  BY <1>1, <1>2, <1>3, <1>4, <1>5, <1>6, <1>7, <1>8, <1>9 DEF Step

\* Every step brings the end nearer.
LEMMA StepComesNearer ==
  ASSUME NEW c \in Calls, Step(c),
         pc \in [Calls -> Steps \cup {"idle"}], todo \in [Calls -> SUBSET Stores],
         missing \in [Calls -> SUBSET Stores], need \in [Calls -> SUBSET Stores]
  PROVE  StepsLeft(c)' < StepsLeft(c) /\ StepsLeft(c)' <= StepsLeft(c)
<1>0. /\ Size({}) = 0
      /\ \A S \in {Stores, todo[c], missing[c], need[c]} :
           Size(S) \in 0..2 /\ (S # {} => Size(S \ {First(S)}) = Size(S) - 1)
  <2>1. Size({}) = 0
    BY DEF Size
  <2> QED
    BY <2>1, SizeOfStores
<1> USE <1>0 DEF StepsLeft, Remaining, Place, Return, Goto
<1>1. CASE CheckStore(c)
  BY <1>1 DEF CheckStore
<1>2. CASE Checked(c)
  <2>1. /\ pc[c] = "check" /\ todo[c] = {}
        /\ \/ pc'[c] = "idle" /\ todo'[c] = {}
           \/ pc'[c] = "import" /\ todo'[c] = missing[c]
    BY <1>2 DEF Checked
  <2>2. CASE pc'[c] = "idle" /\ todo'[c] = {}
    BY <2>1, <2>2
  <2>3. CASE pc'[c] = "import" /\ todo'[c] = missing[c]
    BY <2>1, <2>3
  <2> QED
    BY <2>1, <2>2, <2>3
<1>3. CASE ImportUnelevated(c)
  BY <1>3 DEF ImportUnelevated
<1>4. CASE Imported(c)
  <2>1. pc[c] = "import" /\ todo[c] = {} /\ pc'[c] \in {"idle", "elevate"} /\ todo'[c] = {}
    BY <1>4 DEF Imported
  <2> QED
    BY <2>1
<1>5. CASE Elevate(c)
  BY <1>5 DEF Elevate
<1>6. CASE HelperImport(c)
  BY <1>6 DEF HelperImport
<1>7. CASE HelperExits(c)
  BY <1>7 DEF HelperExits
<1>8. CASE VerifyStore(c)
  <2>1. /\ pc[c] = "verify" /\ todo[c] # {}
        /\ \/ pc'[c] = "verify" /\ todo'[c] = todo[c] \ {First(todo[c])}
           \/ pc'[c] = "idle" /\ todo'[c] = {}
    BY <1>8 DEF VerifyStore
  <2>2. CASE pc'[c] = "verify" /\ todo'[c] = todo[c] \ {First(todo[c])}
    BY <2>1, <2>2
  <2>3. CASE pc'[c] = "idle" /\ todo'[c] = {}
    BY <2>1, <2>3
  <2> QED
    BY <2>1, <2>2, <2>3
<1>9. CASE Verified(c)
  BY <1>9 DEF Verified
<1> QED
  BY <1>1, <1>2, <1>3, <1>4, <1>5, <1>6, <1>7, <1>8, <1>9 DEF Step

\* A call is over within 13 scripts: each brings the end nearer, and nothing another
\* call does puts it off (trustCertificateInStores).
THEOREM CallIsBounded ==
  Spec => /\ [](\A c \in Calls : StepsLeft(c) \in 0..13)
          /\ [][\A c \in Calls :
                  /\ Step(c) => StepsLeft(c)' < StepsLeft(c)
                  /\ pc[c] # "idle" => StepsLeft(c)' <= StepsLeft(c)]_vars
<1> DEFINE Bounded == \A c \in Calls : StepsLeft(c) \in 0..13
           Nearer == \A c \in Calls :
                       /\ Step(c) => StepsLeft(c)' < StepsLeft(c)
                       /\ pc[c] # "idle" => StepsLeft(c)' <= StepsLeft(c)
<1>1. Types => Bounded
  <2> SUFFICES ASSUME Types, NEW c \in Calls PROVE StepsLeft(c) \in 0..13
    OBVIOUS
  <2>1. Size(todo[c]) \in 0..2 /\ pc[c] \in Steps \cup {"idle"}
    BY SizeOfStores DEF Types
  <2> QED
    BY <2>1 DEF Steps, StepsLeft, Remaining, Place
<1>2. Types /\ [Next]_vars => [Nearer]_vars
  <2> SUFFICES ASSUME Types, Next, NEW d \in Calls
               PROVE  /\ Step(d) => StepsLeft(d)' < StepsLeft(d)
                      /\ pc[d] # "idle" => StepsLeft(d)' <= StepsLeft(d)
    BY Zenon
  <2>1. Step(d) => StepsLeft(d)' < StepsLeft(d)
    BY StepComesNearer DEF Types
  <2>2. StepsLeft(d) \in Int
    BY <1>1
  <2>3. ASSUME pc'[d] = pc[d], todo'[d] = todo[d] PROVE StepsLeft(d)' <= StepsLeft(d)
    BY <2>2, <2>3 DEF StepsLeft
  <2>4. ASSUME NEW c \in Calls, Step(c) PROVE StepsLeft(d)' <= StepsLeft(d)
    <3>1. CASE c = d
      BY <2>4, <3>1, StepComesNearer DEF Types
    <3>2. CASE c # d
      BY <2>3, <2>4, <3>2, StepIsItsOwn DEF Types
    <3> QED
      BY <3>1, <3>2
  <2>5. ASSUME pc[d] # "idle", NEW c \in Calls, NEW k \in Certs, Begin(c, k)
        PROVE StepsLeft(d)' <= StepsLeft(d)
    BY <2>3, <2>5 DEF Begin, Goto, Types
  <2>6. ASSUME NEW s \in Stores, NEW k \in Certs, Purge(s, k) PROVE StepsLeft(d)' <= StepsLeft(d)
    BY <2>3, <2>6 DEF Purge, locals
  <2> QED
    BY <2>1, <2>4, <2>5, <2>6, Zenon DEF Next
<1> QED
  BY <1>1, <1>2, TypesInductive, PTL DEF Spec

=============================================================================
