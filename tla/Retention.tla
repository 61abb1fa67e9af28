------------------------------- MODULE Retention ------------------------------
(***************************************************************************)
(* retention-repository.ts: the holds that forbid deletion, the archive,   *)
(* and the deletion requests of two administrators, from the request over  *)
(* the approval and the recovery period to the certificate.                *)
(***************************************************************************)
EXTENDS MediaAssets

\* evaluateDeletionEligibility
Eligible(a) == ~asset[a].legal /\ ~asset[a].hold /\ a \notin flagged

\* setLegalHold and setInvestigationHold, as called by hand: no rule but existence.
SetLegalHold ==
  \E a \in Asset, on \in BOOLEAN :
    /\ Exists(a)
    /\ asset' = [asset EXCEPT ![a].legal = on]
    /\ Answer("legalHold")
    /\ UNCHANGED <<objects, flagged, deletion, certificate, case, link, finding, url, late>>

SetInvestigationHold ==
  \E a \in Asset, on \in BOOLEAN :
    /\ Exists(a)
    /\ asset' = [asset EXCEPT ![a].hold = on]
    /\ Answer("manualHold")
    /\ UNCHANGED <<objects, flagged, deletion, certificate, case, link, finding, url, late>>

\* The exceptions of the gate event that an operational file belongs to.
FlagAsset ==
  \E a \in Asset :
    /\ Exists(a) /\ ~asset[a].replaceable
    /\ flagged' \in {flagged \cup {a}, flagged \ {a}}
    /\ Answer("exception")
    /\ UNCHANGED <<asset, objects, deletion, certificate, case, link, finding, url, late>>

\* moveAssetsToArchive: whatever state the files of archivable categories are in.
MoveAssetsToArchive ==
  \E files \in SUBSET {a \in Asset : Exists(a)} :
    /\ asset' = [a \in Asset |-> IF a \in files
                   THEN [asset[a] EXCEPT !.retention = "ARCHIVED"] ELSE asset[a]]
    /\ Answer("archive")
    /\ UNCHANGED <<objects, flagged, deletion, certificate, case, link, finding, url, late>>

-------------------------------------------------------------------------------
InScope(a) == asset[a].upload = "READY" /\ asset[a].retention # "DELETED" /\ ~asset[a].gone

\* createDeletionRequest: of the files a scope matches, those eligible.
CreateDeletionRequest(r) ==
  \E u \in User, scope \in SUBSET {a \in Asset : InScope(a)} :
    LET eligible == {a \in scope : Eligible(a)} IN
    /\ eligible # {}
    /\ Serve(r, [Call("askDeletion", "insertDeletion", u) EXCEPT !.todo = eligible])
    /\ UNCHANGED rows

InsertDeletion(r) ==
  LET q == request[r] IN
  /\ q.at = "insertDeletion"
  /\ \E d \in Deletion :
       /\ deletion[d] = NoDeletion
       /\ deletion' = IF \A a \in q.todo : Exists(a)
            THEN [deletion EXCEPT ![d] = [NoDeletion EXCEPT
                    !.status = "PENDING_APPROVAL", !.initiator = q.user, !.links = q.todo]]
            ELSE deletion
  /\ Finish(r)
  /\ UNCHANGED <<asset, objects, flagged, certificate, case, link, finding, url, late>>

Pending(d) == deletion[d].status = "PENDING_APPROVAL"

\* (variant) an approval that any administrator gives
ApproveOwnDeletion(r) ==
  \E u \in User, d \in Deletion :
    LET eligible == {a \in deletion[d].links : Eligible(a)} IN
    /\ Pending(d) /\ eligible # {}
    /\ Serve(r, [Call("approve", "writeApproval", u) EXCEPT !.row = d, !.todo = eligible])
    /\ UNCHANGED rows

\* approveDeletionRequest: by another user, and some file is still eligible.
ApproveDeletionRequest(r) ==
  \E u \in User, d \in Deletion :
    LET eligible == {a \in deletion[d].links : Eligible(a)} IN
    /\ Pending(d) /\ deletion[d].initiator # u /\ eligible # {}
    /\ Serve(r, [Call("approve", "writeApproval", u) EXCEPT !.row = d, !.todo = eligible])
    /\ UNCHANGED rows

WriteApproval(r) ==
  LET q == request[r] IN
  /\ q.at = "writeApproval"
  /\ deletion' = [deletion EXCEPT ![q.row] =
       [@ EXCEPT !.status = "APPROVED", !.approver = q.user, !.elapsed = FALSE]]
  /\ Continue(r, TRUE, "markPending")
  /\ UNCHANGED <<asset, objects, flagged, certificate, case, link, finding, url, late>>

MarkPendingDeletion(r) ==
  LET q == request[r] IN
  /\ q.at = "markPending"
  /\ asset' = [a \in Asset |-> IF a \in q.todo /\ Exists(a)
                 THEN [asset[a] EXCEPT !.retention = "PENDING_DELETION"] ELSE asset[a]]
  /\ Finish(r)
  /\ UNCHANGED <<objects, flagged, deletion, certificate, case, link, finding, url, late>>

\* rejectDeletionRequest by another user, cancelDeletionRequest by the initiator.
RejectDeletionRequest(r) ==
  \E u \in User, d \in Deletion :
    /\ Pending(d) /\ deletion[d].initiator # u
    /\ Serve(r, [Call("reject", "writeRefusal", u) EXCEPT !.row = d, !.to = "REJECTED"])
    /\ UNCHANGED rows

CancelDeletionRequest(r) ==
  \E u \in User, d \in Deletion :
    /\ Pending(d) /\ deletion[d].initiator = u
    /\ Serve(r, [Call("cancelDeletion", "writeRefusal", u) EXCEPT !.row = d, !.to = "CANCELLED"])
    /\ UNCHANGED rows

WriteRefusal(r) ==
  LET q == request[r] IN
  /\ q.at = "writeRefusal"
  /\ deletion' = [deletion EXCEPT ![q.row].status = q.to]
  /\ Finish(r)
  /\ UNCHANGED <<asset, objects, flagged, certificate, case, link, finding, url, late>>

\* recoveryExpiresAt passes.
RecoveryElapses ==
  \E d \in Deletion :
    /\ deletion[d].status = "APPROVED" /\ ~deletion[d].elapsed
    /\ deletion' = [deletion EXCEPT ![d].elapsed = TRUE]
    /\ UNCHANGED <<asset, objects, flagged, certificate, case, link, finding, url, late, request>>

-------------------------------------------------------------------------------
(* completeDeletionRequest, called by hand and by the job for every due    *)
(* request: the files and their holds are read once, the exceptions file   *)
(* by file.                                                                *)

\* (variant) completion that trusts the eligibility of the approval
ErasableAsApproved(a) == ~asset[a].gone

Erasable(a) == ~asset[a].gone /\ ~asset[a].legal /\ ~asset[a].hold

\* (variant) completion that evaluates the scope anew
CoveredByScope(d) == {a \in Asset : InScope(a)}

\* The files the request was approved for, whatever its scope matches by now.
Covered(d) == deletion[d].links

CompleteDeletionRequest(r) ==
  \E d \in Deletion :
    /\ deletion[d].status = "APPROVED" /\ deletion[d].elapsed
    /\ Serve(r, [Call("complete", "eraseNext", None) EXCEPT
                   !.row = d, !.todo = {a \in Covered(d) : Erasable(a)}])
    /\ UNCHANGED rows

SkipFlagged(r) ==
  LET q == request[r] IN
  /\ q.at = "eraseNext"
  /\ q.todo \cap flagged # {}
  /\ Proceed(r, [q EXCEPT !.todo = @ \ flagged])
  /\ UNCHANGED rows

\* (variant) an original that stays in the bucket
KeyOnly(a) == {asset[a].key}

ErasedKeys(a) == KeysOf(a)

\* A failing store is ignored: the row is marked all the same.
EraseObjects(r) ==
  LET q == request[r] IN
  /\ q.at = "eraseNext"
  /\ \E a \in q.todo \ flagged :
       /\ objects' \in Stored(objects, [objects EXCEPT ![a] = @ \ ErasedKeys(a)])
       /\ Proceed(r, [q EXCEPT !.at = "writeDeleted", !.asset = a])
  /\ UNCHANGED <<asset, flagged, deletion, certificate, case, link, finding, url, late>>

\* (variant) the retention status is set to the name of the upload status
WriteDeletedAsCleared(r) ==
  LET q == request[r] IN
  /\ q.at = "writeDeleted"
  /\ asset' = [asset EXCEPT ![q.asset] = IF Exists(q.asset)
                 THEN [@ EXCEPT !.gone = TRUE, !.retention = "CLEARED"] ELSE @]
  /\ Proceed(r, IF ~Exists(q.asset) THEN Idle ELSE
       [q EXCEPT !.at = "eraseNext", !.todo = @ \ {q.asset}, !.done = @ \cup {q.asset}])
  /\ UNCHANGED <<objects, flagged, deletion, certificate, case, link, finding, url, late>>

WriteDeleted(r) ==
  LET q == request[r] IN
  /\ q.at = "writeDeleted"
  /\ asset' = [asset EXCEPT ![q.asset] = IF Exists(q.asset)
                 THEN [@ EXCEPT !.gone = TRUE, !.retention = "DELETED"] ELSE @]
  /\ Proceed(r, IF ~Exists(q.asset) THEN Idle ELSE
       [q EXCEPT !.at = "eraseNext", !.todo = @ \ {q.asset}, !.done = @ \cup {q.asset}])
  /\ UNCHANGED <<objects, flagged, deletion, certificate, case, link, finding, url, late>>

\* (variant) a certificate of everything the request covered
CertifyLinks(q) == deletion[q.row].links

Certified(q) == q.done

\* One certificate per request: the unique column makes a second one throw.
IssueCertificate(r) ==
  LET q == request[r] IN
  /\ q.at = "eraseNext" /\ q.todo = {}
  /\ certificate' = [certificate EXCEPT ![q.row] =
       IF @.issued THEN @ ELSE [issued |-> TRUE, manifest |-> Certified(q)]]
  /\ Continue(r, ~certificate[q.row].issued, "writeCompleted")
  /\ UNCHANGED <<asset, objects, flagged, deletion, case, link, finding, url, late>>

WriteCompleted(r) ==
  LET q == request[r] IN
  /\ q.at = "writeCompleted"
  /\ deletion' = [deletion EXCEPT ![q.row].status = "COMPLETED"]
  /\ Finish(r)
  /\ UNCHANGED <<asset, objects, flagged, certificate, case, link, finding, url, late>>

RetentionNext ==
  \/ SetLegalHold \/ SetInvestigationHold \/ FlagAsset \/ MoveAssetsToArchive
  \/ RecoveryElapses
  \/ \E r \in Request :
       \/ CreateDeletionRequest(r) \/ InsertDeletion(r)
       \/ ApproveDeletionRequest(r) \/ WriteApproval(r) \/ MarkPendingDeletion(r)
       \/ RejectDeletionRequest(r) \/ CancelDeletionRequest(r) \/ WriteRefusal(r)
       \/ CompleteDeletionRequest(r) \/ SkipFlagged(r) \/ EraseObjects(r)
       \/ WriteDeleted(r) \/ IssueCertificate(r) \/ WriteCompleted(r)

================================================================================
