----------------------------- MODULE MediaAssets ------------------------------
(***************************************************************************)
(* media-asset-repository.ts: uploading a file through the server or       *)
(* straight into the bucket, clearing uploads that never finished, and     *)
(* deleting a routine file.  The bytes are abstracted to whether an object *)
(* is there, whether it is acceptable and whether compression changes it.  *)
(***************************************************************************)
EXTENDS EvidenceData

NewAsset(status, replaceable, key) ==
  [NoAsset EXCEPT !.upload = status, !.replaceable = replaceable, !.key = key]

\* What compression makes of an upload: the same bytes, or others, with the original
\* kept or not.
Bytes == {"ASIS", "COMPRESSED", "BOTH"}

\* The objects of the row: the file, and the original beside it.
KeysOf(a) == {asset[a].key} \cup (IF asset[a].original THEN {"upload"} ELSE {})

\* uploadMediaAsset: no row has the key yet, and the bytes are stored before the row.
UploadMediaAsset(r) ==
  \E u \in User, a \in Asset, replaceable \in BOOLEAN :
    /\ asset[a] = NoAsset
    /\ Serve(r, [Call("upload", "insertAsset", u) EXCEPT !.asset = a, !.yes = replaceable])
    /\ objects' = [objects EXCEPT ![a] = @ \cup {r}]
    /\ UNCHANGED <<asset, flagged, deletion, certificate, case, link, finding, url, late>>

\* uploadEvidenceToCase does the same, then goes on to link what it got.
UploadEvidence(r) ==
  \E u \in User, a \in Asset, c \in Case :
    /\ asset[a] = NoAsset /\ case[c] # NoCase
    /\ Serve(r, [Call("uploadEvidence", "insertAsset", u) EXCEPT !.asset = a, !.case = c])
    /\ objects' = [objects EXCEPT ![a] = @ \cup {r}]
    /\ UNCHANGED <<asset, flagged, deletion, certificate, case, link, finding, url, late>>

\* The unique idempotency key: the loser of a race returns the winner's row.
InsertAsset(r) ==
  LET q == request[r] IN
  /\ q.at = "insertAsset"
  /\ asset' = [asset EXCEPT ![q.asset] =
                 IF @ = NoAsset THEN NewAsset("READY", q.yes, r) ELSE @]
  /\ Continue(r, q.op = "uploadEvidence", "insertLink")
  /\ UNCHANGED <<objects, flagged, deletion, certificate, case, link, finding, url, late>>

\* initiatePresignedUpload: the row comes first, the object whenever the client's
\* upload arrives, if it does, while its URL is valid.
InitiatePresignedUpload ==
  \E a \in Asset, replaceable \in BOOLEAN, bytes \in Bytes :
    /\ asset[a] = NoAsset
    /\ asset' = [asset EXCEPT ![a] = [NewAsset("PENDING", replaceable, "upload")
                                        EXCEPT !.bytes = bytes]]
    /\ url' = url \cup {a}
    /\ Answer("initiate")
    /\ UNCHANGED <<objects, flagged, deletion, certificate, case, link, finding, late>>

\* The PUT to that URL, from the first to the last of them: the signature and the
\* expiry are all that is asked, whatever has become of the row.  (All of them carry
\* the same file.)
ObjectArrives ==
  \E a \in url :
    /\ objects' = [objects EXCEPT ![a] = @ \cup {"upload"}]
    /\ late' = IF asset[a].upload # "PENDING" /\ "upload" \notin objects[a] THEN late \cup {a} ELSE late
    /\ Answer("initiate")
    /\ UNCHANGED <<asset, flagged, deletion, certificate, case, link, finding, url>>

\* PRESIGNED_UPLOAD_EXPIRY_SECONDS pass.
UploadUrlExpires ==
  \E a \in url :
    /\ url' = url \ {a}
    /\ UNCHANGED <<asset, objects, flagged, deletion, certificate, case, link, finding, late, request>>

-------------------------------------------------------------------------------
(* confirmPresignedUpload: PENDING to PROCESSING to READY, or FAILED.      *)

ConfirmUpload(r) ==
  \E u \in User, a \in Asset :
    /\ asset[a].upload = "PENDING"
    /\ Serve(r, [Call("confirm", IF asset[a].key \in objects[a] THEN "markProcessing"
                                 ELSE "markFailed", u) EXCEPT !.asset = a])
    /\ UNCHANGED rows

\* An update by id throws if the row has been cleared away.
WriteUpload(r, at, status, next) ==
  LET q == request[r] IN
  /\ q.at = at
  /\ asset' = [asset EXCEPT ![q.asset] = IF Exists(q.asset) THEN [@ EXCEPT !.upload = status] ELSE @]
  /\ Continue(r, Exists(q.asset) /\ next # "end", next)
  /\ UNCHANGED <<objects, flagged, deletion, certificate, case, link, finding, url, late>>

MarkProcessing(r) == WriteUpload(r, "markProcessing", "PROCESSING", "processObject")
MarkFailed(r) == WriteUpload(r, "markFailed", "FAILED", "end")

\* The uploaded object is read and examined; only changed bytes are stored anew.
ReadObject(r) ==
  LET q == request[r] IN
  /\ q.at = "processObject"
  /\ \/ /\ "upload" \in objects[q.asset]
        /\ Continue(r, TRUE, IF asset[q.asset].bytes = "ASIS" THEN "markReady" ELSE "storeFinal")
     \/ Continue(r, TRUE, "markFailed")
  /\ UNCHANGED rows

\* (variant) the uploaded object stays although the category does not keep originals
StoreFinalBeside(r) ==
  LET q == request[r] IN
  /\ q.at = "storeFinal"
  /\ objects' = [objects EXCEPT ![q.asset] = @ \cup {r}]
  /\ Continue(r, TRUE, "markReady")
  /\ UNCHANGED <<asset, flagged, deletion, certificate, case, link, finding, url, late>>

\* Changed bytes become a new object; the uploaded one stays where the category keeps
\* originals and is deleted otherwise.
StoreFinal(r) ==
  LET q == request[r] IN
  /\ q.at = "storeFinal"
  /\ \/ /\ objects' = [objects EXCEPT ![q.asset] = @ \cup {r}]
        /\ Continue(r, TRUE, IF asset[q.asset].bytes = "COMPRESSED" THEN "dropUpload" ELSE "markReady")
     \/ /\ regime.faults
        /\ Continue(r, TRUE, "markFailed") /\ UNCHANGED objects
  /\ UNCHANGED <<asset, flagged, deletion, certificate, case, link, finding, url, late>>

\* A delete that fails is ignored.
DropUpload(r) ==
  LET q == request[r] IN
  /\ q.at = "dropUpload"
  /\ objects' \in Stored(objects, [objects EXCEPT ![q.asset] = @ \ {"upload"}])
  /\ Continue(r, TRUE, "markReady")
  /\ UNCHANGED <<asset, flagged, deletion, certificate, case, link, finding, url, late>>

\* The thumbnail, or the policy that is read for the row, fails after the new object is
\* stored: the row becomes FAILED, and no row names that object.
FailAfterStore(r) ==
  /\ request[r].at = "markReady"
  /\ regime.faults
  /\ Continue(r, TRUE, "markFailed")
  /\ UNCHANGED rows

MarkReady(r) ==
  LET q == request[r] IN
  /\ q.at = "markReady"
  /\ asset' = [asset EXCEPT ![q.asset] = IF ~Exists(q.asset) THEN @ ELSE
       [@ EXCEPT !.upload = "READY", !.original = (asset[q.asset].bytes = "BOTH"),
                 !.key = IF asset[q.asset].bytes = "ASIS" THEN "upload" ELSE r]]
  /\ Finish(r)
  /\ UNCHANGED <<objects, flagged, deletion, certificate, case, link, finding, url, late>>

-------------------------------------------------------------------------------
\* Old enough to be cleared away, a day, is longer than any URL is valid.
IsStale(a) == asset[a].upload \in {"PENDING", "FAILED"} /\ a \notin url

\* cleanupFailedUploads lists the uploads old enough, then deletes each one's object
\* and its row; a row that is evidence of a case is kept by the foreign key, and the
\* job stops there.
CleanupFailedUploads(r) ==
  \E old \in SUBSET {a \in Asset : IsStale(a)} :
    /\ old # {}
    /\ Serve(r, [Call("cleanup", "deleteStale", None) EXCEPT !.todo = old])
    /\ UNCHANGED rows

DeleteStaleObject(r) ==
  LET q == request[r] IN
  /\ q.at = "deleteStale"
  /\ \E a \in q.todo :
       /\ objects' \in Stored(objects, [objects EXCEPT ![a] = @ \ {asset[a].key}])
       /\ Proceed(r, [q EXCEPT !.at = "deleteRow", !.asset = a, !.todo = @ \ {a}])
  /\ UNCHANGED <<asset, flagged, deletion, certificate, case, link, finding, url, late>>

Linked(a) == \E l \in Link : link[l].asset = a

DeleteStaleRow(r) ==
  LET q == request[r]
      free == Exists(q.asset) /\ ~Linked(q.asset)
  IN
  /\ q.at = "deleteRow"
  /\ Continue(r, free /\ q.todo # {}, "deleteStale")
  /\ asset' = [asset EXCEPT ![q.asset] = IF free THEN [NoAsset EXCEPT !.upload = "CLEARED"] ELSE @]
  /\ flagged' = IF free THEN flagged \ {q.asset} ELSE flagged
  /\ deletion' = [d \in Deletion |-> IF free
                    THEN [deletion[d] EXCEPT !.links = @ \ {q.asset}] ELSE deletion[d]]
  /\ UNCHANGED <<objects, certificate, case, link, finding, url, late>>

-------------------------------------------------------------------------------
\* deleteReplaceableMediaAsset, for portraits and the like: the row is marked first,
\* and a call for a row that is marked already deletes the objects again.
DeleteReplaceable(r) ==
  \E u \in User, a \in Asset :
    /\ Exists(a) /\ asset[a].replaceable
    /\ ~asset[a].legal /\ ~asset[a].hold
    /\ Serve(r, [Call("replace", IF asset[a].gone THEN "removeObjects" ELSE "markGone", u)
                   EXCEPT !.asset = a])
    /\ UNCHANGED rows

MarkGone(r) ==
  LET q == request[r] IN
  /\ q.at = "markGone"
  /\ asset' = [asset EXCEPT ![q.asset] = IF Exists(q.asset)
                 THEN [@ EXCEPT !.gone = TRUE, !.retention = "DELETED"] ELSE @]
  /\ Continue(r, Exists(q.asset), "removeObjects")
  /\ UNCHANGED <<objects, flagged, deletion, certificate, case, link, finding, url, late>>

RemoveObjects(r) ==
  LET q == request[r] IN
  /\ q.at = "removeObjects"
  /\ objects' \in Stored(objects, [objects EXCEPT ![q.asset] = @ \ KeysOf(q.asset)])
  /\ Finish(r)
  /\ UNCHANGED <<asset, flagged, deletion, certificate, case, link, finding, url, late>>

MediaNext ==
  \/ InitiatePresignedUpload \/ ObjectArrives \/ UploadUrlExpires
  \/ \E r \in Request :
       \/ UploadMediaAsset(r) \/ UploadEvidence(r) \/ InsertAsset(r)
       \/ ConfirmUpload(r) \/ MarkProcessing(r) \/ MarkFailed(r)
       \/ ReadObject(r) \/ StoreFinal(r) \/ DropUpload(r) \/ FailAfterStore(r) \/ MarkReady(r)
       \/ CleanupFailedUploads(r) \/ DeleteStaleObject(r) \/ DeleteStaleRow(r)
       \/ DeleteReplaceable(r) \/ MarkGone(r) \/ RemoveObjects(r)

================================================================================
