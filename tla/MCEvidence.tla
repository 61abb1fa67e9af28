------------------------------ MODULE MCEvidence -------------------------------
(***************************************************************************)
(* Small instances of the evidence: each regime starts from the state its  *)
(* handlers work on and uses only some of the identifiers.                 *)
(***************************************************************************)
EXTENDS Evidence, TLC

Regime(serial, faults, handlers) ==
  [serial |-> serial, faults |-> faults, handlers |-> handlers]

\* Requests for deletion, holds and the archive racing, dying, and failing in store.
Disposal == Regime(FALSE, TRUE, {"askDeletion", "approve", "reject", "cancelDeletion", "complete"})
\* Uploads and confirmations of one file racing.
Confirmations == Regime(FALSE, FALSE, {"upload", "initiate", "confirm"})
\* Submissions, approvals and returns of a finding racing and dying.
Reviews == Regime(FALSE, TRUE, {"submitFinding", "approveFinding", "returnFinding", "close"})
\* Files from the upload until they are ready, cleared away or replaced.
Uploads == Regime(TRUE, FALSE, {"initiate", "confirm", "cleanup", "replace"})
\* Files from the upload to the certificate: one that is kept already, and another.
Files == Regime(TRUE, FALSE,
  {"initiate", "confirm", "legalHold", "askDeletion", "approve", "complete"})
\* Both with deaths and failures of the store.
FilesWithFaults == Regime(TRUE, TRUE,
  {"initiate", "confirm", "cleanup", "replace", "manualHold", "archive", "exception",
   "askDeletion", "approve", "complete"})
\* Evidence of two cases, its holds and its deletion.
Holds == Regime(TRUE, FALSE,
  {"uploadEvidence", "link", "enteredInError", "release", "exception",
   "askDeletion", "approve", "complete"})
\* The life of one case and its findings.
Investigation == Regime(TRUE, FALSE,
  {"createCase", "refer", "submitCase", "triage", "investigate", "requestInformation",
   "reopen", "escalate", "assign", "close", "createFinding", "amend", "submitFinding",
   "approveFinding", "returnFinding"})
DeathsAndFailures == {FilesWithFaults}
AllRegimes == {Disposal, Confirmations, Reviews, Uploads, Files, FilesWithFaults, Holds, Investigation}

-------------------------------------------------------------------------------
First(S) == CHOOSE x \in S : TRUE

KeptFile == [NoAsset EXCEPT !.upload = "READY", !.key = "upload"]
OpenCase(severe) ==
  [NoCase EXCEPT !.status = "UNDER_INVESTIGATION", !.hold = TRUE, !.severe = severe]

\* Files that are kept, cases under way and drafts of findings that are there already.
Start(files, cases, drafts) ==
  /\ asset = [a \in Asset |-> IF a \in files THEN KeptFile ELSE NoAsset]
  /\ objects = [a \in Asset |-> IF a \in files THEN {"upload"} ELSE {}]
  /\ flagged = {}
  /\ deletion = [d \in Deletion |-> NoDeletion]
  /\ certificate = [d \in Deletion |-> NoCertificate]
  /\ \E severe \in BOOLEAN :
       case = [c \in Case |-> IF c \in cases THEN OpenCase(severe) ELSE NoCase]
  /\ link = [l \in Link |-> NoLink]
  /\ \E u \in User : finding = [f \in Finding |->
                         IF f \in drafts THEN NewFinding(First(Case), u) ELSE NoFinding]
  /\ url = {} /\ late = {}
  /\ request = [r \in Request |-> Idle]

OneAsset == {First(Asset)}
OneCase == {First(Case)}

MCInit ==
  /\ regime \in Regimes
  /\ \/ regime = Disposal /\ Start(OneAsset, {}, {})
     \/ regime = Reviews /\ Start({}, OneCase, {First(Finding)})
     \/ regime = Files /\ Start(OneAsset, {}, {})
     \/ regime = Holds /\ Start({}, Case, {})
     \/ regime \in {Confirmations, Uploads, FilesWithFaults, Investigation} /\ Start({}, {}, {})

\* The rows that a regime may come to use, in this order.
Within(table, next, fresh, rows1) ==
  \A x \in DOMAIN table : table[x] = fresh /\ next[x] # fresh =>
    x \in rows1 /\ x = First({y \in DOMAIN table : table[y] = fresh})

SmallNext ==
  /\ Next
  /\ Within(asset, asset', NoAsset, IF regime \in {Uploads, Files} THEN Asset ELSE OneAsset)
  /\ Within(deletion, deletion', NoDeletion,
            IF regime = Disposal THEN Deletion ELSE {First(Deletion)})
  /\ Within(case, case', NoCase, OneCase)
  /\ Within(link, link', NoLink, Link)
  /\ Within(finding, finding', NoFinding, Finding)

SmallSpec == MCInit /\ [][SmallNext]_vars

Symmetry == Permutations(User) \cup Permutations(Request)

================================================================================
