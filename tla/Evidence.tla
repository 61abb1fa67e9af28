------------------------------- MODULE Evidence -------------------------------
(***************************************************************************)
(* Media, retention, holds and investigations over one set of tables, in   *)
(* the regime that the behaviour started with.                             *)
(***************************************************************************)
EXTENDS InvestigationCases

Next ==
  /\ \/ MediaNext
     \/ RetentionNext
     \/ HoldNext
     \/ CaseNext
     \/ \E r \in Request : Crash(r)
  /\ UNCHANGED regime

Spec == Init /\ [][Next]_vars

-------------------------------------------------------------------------------
AssetRow ==
  [upload : {"NONE", "PENDING", "PROCESSING", "READY", "FAILED", "CLEARED"}, replaceable : BOOLEAN, bytes : Bytes,
   key : Key \cup {None}, original : BOOLEAN,
   retention : {"ACTIVE", "ARCHIVED", "PENDING_DELETION", "DELETED"},
   gone : BOOLEAN, legal : BOOLEAN, hold : BOOLEAN]

DeletionStatus == {"PENDING_APPROVAL", "APPROVED", "REJECTED", "CANCELLED", "COMPLETED"}

DeletionRow ==
  [status : DeletionStatus \cup {"NONE"}, initiator : User \cup {None},
   approver : User \cup {None}, elapsed : BOOLEAN, links : SUBSET Asset]

CaseRow ==
  [status : CaseStatus \cup {"NONE"}, hold : BOOLEAN, severe : BOOLEAN,
   asked : User \cup {None}, releasedBy : User \cup {None},
   investigator : User \cup {None}, closedBy : User \cup {None}, referral : BOOLEAN]

FindingStatus == {"DRAFT", "SUBMITTED", "APPROVED", "RETURNED_FOR_AMENDMENT", "REJECTED"}

FindingRow ==
  [status : FindingStatus \cup {"NONE"}, case : Case \cup {None}, creator : User \cup {None},
   submitter : User \cup {None}, approver : User \cup {None}]

RowsTypeOK ==
  /\ asset \in [Asset -> AssetRow]
  /\ objects \in [Asset -> SUBSET Key]
  /\ flagged \in SUBSET Asset
  /\ deletion \in [Deletion -> DeletionRow]
  /\ certificate \in [Deletion -> [issued : BOOLEAN, manifest : SUBSET Asset]]
  /\ case \in [Case -> CaseRow]
  /\ link \in [Link -> [case : Case \cup {None}, asset : Asset \cup {None}, wrong : BOOLEAN]]
  /\ finding \in [Finding -> FindingRow]

Step ==
  {"idle", "insertAsset", "markProcessing", "markFailed", "processObject", "storeFinal", "dropUpload",
   "markReady",
   "deleteStale", "deleteRow", "markGone", "removeObjects",
   "insertDeletion", "writeApproval", "markPending", "writeRefusal", "eraseNext",
   "writeDeleted", "writeCompleted",
   "insertLink", "readCaseHold", "applyHold", "recordRequest", "writeRelease", "listLinks",
   "checkOther", "clearHold",
   "insertCase", "checkCase", "writeCase", "writeFinding"}

Operation ==
  {"upload", "uploadEvidence", "initiate", "confirm", "cleanup", "replace",
   "legalHold", "manualHold", "exception", "archive", "askDeletion", "approve", "reject",
   "cancelDeletion", "complete", "link", "enteredInError", "release",
   "createCase", "refer", "submitCase", "triage", "investigate", "requestInformation",
   "reopen", "escalate", "assign", "close", "createFinding", "amend", "submitFinding",
   "approveFinding", "returnFinding"}

RequestRow ==
  [at : Step, op : Operation \cup {"none"}, user : User \cup {None},
   asset : Asset \cup {None}, case : Case \cup {None},
   row : UNION {Deletion, Finding, {None}},
   to : UNION {DeletionStatus, CaseStatus, FindingStatus, {"NONE"}},
   yes : BOOLEAN, todo : SUBSET Asset, done : SUBSET Asset]

\* Every row and every request in flight keeps its shape.
TypeOK ==
  /\ regime \in Regimes
  /\ RowsTypeOK
  /\ url \subseteq Asset /\ late \subseteq Asset
  /\ request \in [Request -> RequestRow]

-------------------------------------------------------------------------------
(* What holds however requests interleave, wherever they die and whatever  *)
(* the object store answers.                                               *)

\* completeDeletionRequest, deleteReplaceableMediaAsset: the binary of a file that is
\* not a routine one is gone only if a deletion request that covers the file was
\* approved by another user than its initiator, although approvals, rejections and
\* completions of one request overtake each other.
ErasedByTwoUsers ==
  \A a \in Asset : asset[a].gone /\ ~asset[a].replaceable =>
    \E d \in Deletion : /\ a \in deletion[d].links
                        /\ deletion[d].approver \notin {None, deletion[d].initiator}

\* approveInvestigationFinding: the approver on record of a finding is not its author,
\* also when submissions, returns and approvals of it cross.
FindingNeedsTwoUsers ==
  \A f \in Finding : finding[f].approver \notin {finding[f].creator} \ {None}

-------------------------------------------------------------------------------
(* What holds as long as no process dies and the store does its work.      *)

BeingErased(a) == \E r \in Request : request[r].at = "writeDeleted" /\ request[r].asset = a

ReadyIsStored ==
  ~regime.faults => \A a \in Asset :
    asset[a].upload = "READY" /\ ~asset[a].gone /\ ~BeingErased(a) => asset[a].key \in objects[a]

GoneIsErased ==
  regime.serial /\ ~regime.faults /\ Quiescent => \A a \in Asset :
    asset[a].gone /\ ~asset[a].replaceable =>
      objects[a] \subseteq {k \in {"upload"} : a \in late}

\* A file that is READY and not deleted has its object in the bucket under the key of
\* its row: also when two confirmations of one upload race, which both read, store and
\* delete objects around their updates of the row.  And one request at a time, nothing
\* of a file deleted by request stays in the bucket: not the file, not its original, and
\* not what was uploaded before it was compressed - unless a PUT put that back after
\* the confirmation, which the URL allows until it expires.
BucketMatchesRows == ReadyIsStored /\ GoneIsErased

\* schema.prisma: the manifest proves exactly what was deleted.  A file that a request
\* alone covered and whose binary is gone is in its certificate ...
ListsWhatIsGone(d) ==
  \A a \in deletion[d].links :
    asset[a].gone /\ ~asset[a].replaceable
      /\ (\A e \in Deletion \ {d} : a \notin deletion[e].links)
      => a \in certificate[d].manifest

\* ... and what the certificate lists is gone, and was covered.
ListsOnlyWhatIsGone(d) ==
  \A a \in certificate[d].manifest : asset[a].gone /\ a \in deletion[d].links

CertificateIsExact ==
  ~regime.faults /\ Quiescent => \A d \in Deletion :
    certificate[d].issued => ListsWhatIsGone(d) /\ ListsOnlyWhatIsGone(d)

-------------------------------------------------------------------------------
(* What holds when requests are served one at a time.                      *)

Protected(a) == \E l \in Link : link[l].asset = a /\ ~link[l].wrong /\ case[link[l].case].hold

\* Linking, uploading to a case and the sweep of a release keep this together: evidence
\* of a case whose hold is active is on hold, whichever of its cases was released -
\* unless somebody clears the hold of a file by hand.
CaseHoldProtects ==
  regime.serial /\ ~regime.faults /\ Quiescent /\ "manualHold" \notin regime.handlers =>
    \A a \in Asset : Protected(a) => asset[a].hold

\* The third check of a deletion, after the recovery period: a file is not deleted while
\* it is on hold, while its gate event has an unresolved exception, or while a case that
\* it is evidence of has an active hold, whenever these came.
ErasedOnlyFree ==
  [][regime.serial => \A a \in Asset :
       asset'[a].gone /\ ~asset[a].gone =>
         /\ ~asset[a].legal /\ ~asset[a].hold
         /\ a \notin flagged \/ asset[a].replaceable
         /\ regime.faults \/ "manualHold" \in regime.handlers \/ ~Protected(a)]_vars

\* A case awaits approval only if one of its findings has been submitted and not been
\* sent back: return and rejection take the case with them.
AwaitingHasFinding ==
  regime.serial /\ ~regime.faults /\ Quiescent => \A c \in Case :
    case[c].status = "AWAITING_APPROVAL" =>
      \E f \in Finding : finding[f].case = c /\ finding[f].status \in {"SUBMITTED", "APPROVED"}

-------------------------------------------------------------------------------
(* Files are kept and destroyed as Custody promises - where no two         *)
(* confirmations or clean-ups of one upload race, which can fail an upload *)
(* that was READY already.                                                 *)

InCustody == regime.serial \/ regime.handlers \cap {"confirm", "cleanup"} = {}

FileOf(a) == IF asset[a].upload # "READY" THEN "absent"
             ELSE IF asset[a].gone THEN "destroyed" ELSE "kept"

MandateOf(d) == [by |-> deletion[d].initiator, approver |-> deletion[d].approver,
                 files |-> deletion[d].links]

CustodyOfFiles == INSTANCE Custody WITH
  file <- [a \in Asset |-> IF InCustody THEN FileOf(a) ELSE "absent"],
  routine <- {a \in Asset : InCustody /\ asset[a].replaceable},
  mandate <- [d \in Deletion |-> IF InCustody THEN MandateOf(d)
                                 ELSE [by |-> None, approver |-> None, files |-> {}]]

\* The handlers implement the custody of files, with races on the deletion requests
\* and with deaths and failures of the store between any two statements.
ImplementsCustody == CustodyOfFiles!Spec

-------------------------------------------------------------------------------
(* What the documentation says and the code does not keep.                 *)

\* schema.prisma: the manifest has one entry per deleted asset, proving exactly what
\* was deleted - once no request is in flight.
CertificateListsDeleted ==
  Quiescent => \A d \in Deletion : certificate[d].issued => ListsWhatIsGone(d)

================================================================================
