---------------------------- MODULE EvidenceProofs -----------------------------
(***************************************************************************)
(* What is proved of the evidence, for any number of files, requests,      *)
(* cases and findings.  First what holds however requests interleave,      *)
(* wherever they die and whatever the store answers: each invariant        *)
(* follows from Inductive, which every statement of every handler          *)
(* preserves.  Then what every statement does, in one lemma per statement, *)
(* and from these, regime by regime: the custody of files as the           *)
(* refinement of an abstract one, and that holds, findings, certificates   *)
(* and the bucket are in step with the rows that rely on them.             *)
(***************************************************************************)
EXTENDS Evidence, TLAPS

-------------------------------------------------------------------------------
(* Why: no step takes away what a request has read of a row (Keeps), and a *)
(* request carries what its next statement relies on (Sound). Then what the*)
(* regimes add: what rows and requests in flight know of each other where  *)
(* requests are served one at a time, or none dies, or some handler is not *)
(* called.                                                                 *)

\* Another user than the initiator has approved.
Approved(d) == deletion[d].approver \notin {None, deletion[d].initiator}

Cleared(a) == asset[a].upload = "CLEARED"

RowsSound ==
  /\ \A d \in Deletion :
       /\ deletion[d].status # "NONE" => deletion[d].initiator # None
       /\ deletion[d].approver # None => Approved(d) /\ deletion[d].initiator # None
       /\ deletion[d].status = "APPROVED" => Approved(d)
  /\ \A a \in Asset : Cleared(a) => ~asset[a].gone
  /\ \A l \in Link : link[l].case # None => link[l].asset \in Asset

\* The file is covered by the request, or its row has been cleared away meanwhile.
CoveredOrCleared(a, d) == a \in deletion[d].links \/ Cleared(a)

DeletionSound(q) ==
  /\ q.at = "insertDeletion" => q.user \in User
  /\ q.at = "writeApproval" =>
       /\ q.row \in Deletion /\ q.user \in User
       /\ deletion[q.row].initiator \notin {None, q.user}
  /\ q.at = "writeRefusal" =>
       /\ q.row \in Deletion /\ q.to \in {"REJECTED", "CANCELLED"}
       /\ deletion[q.row].initiator # None
  /\ q.at \in {"eraseNext", "writeDeleted", "writeCompleted"} =>
       /\ q.row \in Deletion /\ Approved(q.row)
       /\ \A a \in q.todo : CoveredOrCleared(a, q.row)
  /\ q.at = "writeDeleted" => q.asset \in Asset /\ CoveredOrCleared(q.asset, q.row)
  /\ q.at = "markGone" => q.asset \in Asset /\ (asset[q.asset].replaceable \/ Cleared(q.asset))

FindingSound(q) ==
  /\ q.at = "writeFinding" =>
       /\ q.row \in Finding /\ finding[q.row].status # "NONE"
       /\ q.to \in FindingStatus
       /\ q.to = "APPROVED" => q.user \in User /\ q.user # finding[q.row].creator
  /\ q.at \in {"checkCase", "writeCase"} => q.to \in CaseStatus

LinkSound(q) ==
  /\ q.at \in {"insertAsset", "insertLink"} => q.asset \in Asset
  /\ q.at \in {"writeRelease", "listLinks"} => q.case \in Case

Sound(q) == DeletionSound(q) /\ FindingSound(q) /\ LinkSound(q)

Typed ==
  /\ regime \in Regimes
  /\ RowsTypeOK
  /\ request \in [Request -> RequestRow]

Inductive ==
  /\ Typed /\ RowsSound
  /\ ErasedByTwoUsers /\ FindingNeedsTwoUsers
  /\ \A r \in Request : Sound(request[r])

\* What no step takes away.
Keeps ==
  /\ \A d \in Deletion :
       /\ deletion[d].initiator # None => deletion'[d].initiator = deletion[d].initiator
       /\ Approved(d) => Approved(d)'
       /\ \A a \in Asset : CoveredOrCleared(a, d) => CoveredOrCleared(a, d)'
  /\ \A a \in Asset :
       asset[a].replaceable \/ Cleared(a) => asset'[a].replaceable \/ Cleared(a)'
  /\ \A f \in Finding : finding[f].status # "NONE" =>
       finding'[f].status # "NONE" /\ finding'[f].creator = finding[f].creator

-------------------------------------------------------------------------------
(* What the regimes add, for what holds only as long as requests are       *)
(* served one at a time, no process dies or some handler is not called.    *)

Alone ==
  regime.serial => \A r, s \in Request : request[r] # Idle /\ request[s] # Idle => r = s

\* A statement of these handlers runs only where the handler may be called.
Called(q) ==
  /\ q.at \in {"markProcessing", "markFailed", "processObject", "storeFinal", "dropUpload", "markReady"} =>
       "confirm" \in regime.handlers
  /\ q.at \in {"deleteStale", "deleteRow"} => "cleanup" \in regime.handlers
  /\ q.at \in {"eraseNext", "writeDeleted", "writeCompleted"} => "complete" \in regime.handlers

\* The file has, or had, a row.
Once(a) == asset[a].upload # "NONE"

\* The case has a row.
Known(c) == c # None => case[c].status # "NONE"

\* What was named once is there, or was.
NamesSound ==
  /\ \A a \in Asset : Once(a) \/ asset[a] = NoAsset
  /\ \A d \in Deletion : \A a \in deletion[d].links : Once(a)
  /\ \A c \in Case : case[c].status = "NONE" => case[c] = NoCase
  /\ \A f \in Finding : Known(finding[f].case)
  /\ \A l \in Link : link[l].asset # None =>
       link[l].case # None /\ Known(link[l].case) /\ Exists(link[l].asset)

RequestNames(q) ==
  /\ Known(q.case)
  /\ \/ q.at = "insertAsset" /\ q.op = "uploadEvidence"
     \/ q.at \in {"insertLink", "readCaseHold", "applyHold", "writeRelease", "recordRequest",
                  "listLinks", "checkOther", "clearHold"}
     => q.case # None
  /\ q.at \in {"markProcessing", "markFailed", "processObject", "storeFinal", "dropUpload", "markReady", "deleteRow",
               "markGone", "removeObjects", "insertLink", "readCaseHold", "applyHold"} =>
       q.asset \in Asset
  /\ q.at \in {"markProcessing", "markFailed", "processObject", "storeFinal", "dropUpload", "markReady", "deleteRow",
               "markGone", "removeObjects"} => Once(q.asset)
  /\ q.at \in {"deleteStale", "deleteRow", "eraseNext", "writeDeleted"} =>
       \A a \in q.todo : Once(a)

Named == NamesSound /\ \A r \in Request : RequestNames(request[r]) /\ Called(request[r])

-------------------------------------------------------------------------------
(* Holds, one request at a time.                                           *)

NotByHand == regime.serial /\ ~regime.faults /\ "manualHold" \notin regime.handlers

HoldSoon(q, a) == q.at \in {"readCaseHold", "applyHold"} /\ q.asset = a

\* What a request has read of the holds of cases is still so.
HoldCarried(q) ==
  /\ q.at = "readCaseHold" /\ HeldElsewhere(q.asset, q.case) => asset[q.asset].hold
  /\ q.at \in {"listLinks", "checkOther", "clearHold"} => ~case[q.case].hold
  /\ q.at = "clearHold" => ~HeldElsewhere(q.asset, q.case)

\* A file of a case on hold is on hold, or the request that linked it is about to see to
\* it; and the sweep of a release clears only what no other case holds.
HoldsInTime ==
  NotByHand =>
    /\ \A a \in Asset : Protected(a) => asset[a].hold \/ \E r \in Request : HoldSoon(request[r], a)
    /\ \A r \in Request : HoldCarried(request[r])

Unheld(a) == ~asset[a].legal /\ ~asset[a].hold

\* The holds of what is about to be destroyed are as they were when they were read.
FreeCarried(q) ==
  /\ q.at = "markGone" => Unheld(q.asset)
  /\ q.at \in {"eraseNext", "writeDeleted"} => \A a \in q.todo : Unheld(a)
  /\ q.at = "writeDeleted" => q.asset \in q.todo \ flagged

FreeInTime == regime.serial => \A r \in Request : FreeCarried(request[r])

-------------------------------------------------------------------------------
(* Findings and their cases, one request at a time without deaths.         *)

Submitted(c) ==
  \E f \in Finding : finding[f].case = c /\ finding[f].status \in {"SUBMITTED", "APPROVED"}

BackSoon(q, c) ==
  q.at \in {"checkCase", "writeCase"} /\ q.case = c /\ q.to = "UNDER_INVESTIGATION"

Reviewing(q) ==
  /\ q.at = "writeFinding" =>
       /\ finding[q.row].case = q.case
       /\ \/ finding[q.row].status = "DRAFT" /\ q.to = "SUBMITTED"
          \/ /\ finding[q.row].status = "SUBMITTED"
             /\ q.to \in {"APPROVED", "RETURNED_FOR_AMENDMENT", "REJECTED"}
  /\ q.at \in {"checkCase", "writeCase"} /\ q.to = "AWAITING_APPROVAL" => Submitted(q.case)

\* A case that awaits approval has its finding, or is about to go back.
ReviewsInTime ==
  regime.serial /\ ~regime.faults =>
    /\ \A c \in Case : case[c].status = "AWAITING_APPROVAL" =>
         Submitted(c) \/ \E r \in Request : BackSoon(request[r], c)
    /\ \A r \in Request : Reviewing(request[r])

-------------------------------------------------------------------------------
(* Where uploads are not confirmed or cleared away next to each other, a   *)
(* file stays READY.                                                       *)

Ready(a) == asset[a].upload = "READY"

\* It has a row that is not READY, or had one that was never READY.
NotYet(a) == Once(a) /\ ~Ready(a)

ReadyCarried(q) ==
  /\ q.at \in {"insertDeletion", "eraseNext", "writeDeleted"} => \A a \in q.todo : Ready(a)
  /\ q.at \in {"markProcessing", "markFailed", "processObject", "storeFinal", "dropUpload", "markReady", "deleteRow"} =>
       q.asset \in Asset /\ NotYet(q.asset)
  /\ q.at \in {"deleteStale", "deleteRow"} => \A a \in q.todo : NotYet(a)

ReadyInTime ==
  InCustody =>
    /\ \A d \in Deletion : \A a \in deletion[d].links : Ready(a)
    /\ \A r \in Request : ReadyCarried(request[r])

\* The other requests that would cover the file.
OnlyUnder(a, d) == \A e \in Deletion \ {d} : a \notin deletion[e].links

Completing(q, d) == q.at \in {"eraseNext", "writeDeleted"} /\ q.row = d

\* What is gone is certified, or noted by the completion that is going to certify it.
Accounted(d, q) ==
  /\ \A a \in deletion[d].links :
       asset[a].gone /\ ~asset[a].replaceable /\ OnlyUnder(a, d) =>
         a \in certificate[d].manifest \/ (Completing(q, d) /\ a \in q.done)
  /\ \A a \in certificate[d].manifest : asset[a].gone /\ a \in deletion[d].links
  /\ certificate[d].manifest # {} => certificate[d].issued
  /\ certificate[d].issued =>
       deletion[d].status = "COMPLETED" \/ (q.at = "writeCompleted" /\ q.row = d)

\* No request is completed twice, and none approved after it was refused.
CertifiedCarried(q) ==
  /\ q.at \in {"eraseNext", "writeDeleted"} =>
       /\ ~certificate[q.row].issued
       /\ \A a \in q.done : asset[a].gone /\ a \in deletion[q.row].links
  /\ q.at \in {"writeApproval", "writeRefusal"} => Pending(q.row)

CertifiedInTime ==
  /\ \A d \in Deletion : certificate[d].issued => "complete" \in regime.handlers
  /\ regime.serial /\ ~regime.faults =>
       /\ \A d \in Deletion :
            Accounted(d, Idle) \/ \E r \in Request : Accounted(d, request[r])
       /\ \A r \in Request : CertifiedCarried(request[r])

-------------------------------------------------------------------------------
(* The bucket, as long as no process dies and the store does its work.     *)

\* The object is there, or is not needed any more.
Kept(a, k) == Cleared(a) \/ asset[a].gone \/ BeingErased(a) \/ k \in objects[a]

FinalKey(a, r) == IF asset[a].bytes = "ASIS" THEN "upload" ELSE r

\* The file has lost its object, or its row.
Settled(a) == asset[a].gone \/ Cleared(a)

StoresWell == ~regime.faults /\ (regime.serial \/ "cleanup" \notin regime.handlers)

\* The file has its object, and no upload counts as the file that compression changed.
StoredFile(a) ==
  Ready(a) => Kept(a, asset[a].key) /\ (asset[a].key = "upload" => asset[a].bytes = "ASIS")

\* What a request has stored for its file is still there.
StoredCarried(q, r) ==
  /\ q.at = "insertAsset" /\ ~Once(q.asset) => r \in objects[q.asset]
  /\ q.at = "storeFinal" => Settled(q.asset) \/ asset[q.asset].bytes # "ASIS"
  /\ q.at = "dropUpload" => Settled(q.asset) \/ asset[q.asset].bytes = "COMPRESSED"
  /\ q.at = "dropUpload" => Kept(q.asset, r)
  /\ q.at = "markReady" => Kept(q.asset, FinalKey(q.asset, r))
  /\ q.at = "removeObjects" => asset[q.asset].gone \/ Cleared(q.asset)

StoredInTime ==
  StoresWell =>
    /\ \A a \in Asset : StoredFile(a)
    /\ \A r \in Request : StoredCarried(request[r], r)

FinalKeys(a, r) ==
  {FinalKey(a, r)} \cup (IF asset[a].bytes = "BOTH" THEN {"upload"} ELSE {})

\* What a PUT has put back.
Late(a) == {k \in {"upload"} : a \in late}

\* Nothing is in the bucket but what a row names, a request is about to put into one or a
\* late PUT has put back.
ErasedFile(a) ==
  /\ ~Once(a) => \A k \in objects[a] :
       k \in Request /\ request[k].at = "insertAsset" /\ request[k].asset = a
  /\ Ready(a) => objects[a] \subseteq KeysOf(a) \cup Late(a)
  /\ Exists(a) /\ ~Ready(a) =>
       \/ objects[a] \subseteq {"upload"}
       \/ \E r \in Request : request[r].at \in {"dropUpload", "markReady"} /\ request[r].asset = a
  /\ asset[a].gone /\ ~asset[a].replaceable => Ready(a) /\ objects[a] \subseteq Late(a)

ErasedCarried(q, r) ==
  /\ q.at = "insertAsset" => ~Once(q.asset)
  /\ q.at = "storeFinal" /\ Exists(q.asset) => asset[q.asset].bytes # "ASIS"
  /\ q.at = "dropUpload" /\ Exists(q.asset) =>
       asset[q.asset].bytes = "COMPRESSED" /\ objects[q.asset] \subseteq {"upload", r}
  /\ q.at = "markReady" /\ Exists(q.asset) => objects[q.asset] \subseteq FinalKeys(q.asset, r)
  /\ q.at = "writeDeleted" => objects[q.asset] \subseteq Late(q.asset)

ErasedInTime ==
  regime.serial /\ ~regime.faults =>
    /\ \A a \in Asset : ErasedFile(a)
    /\ \A r \in Request : ErasedCarried(request[r], r)

-------------------------------------------------------------------------------
(* The frame of every step.                                                *)

LEMMA NobodyIsNone == ASSUME NEW u \in User PROVE u # None
  BY NoneAssumption DEF Identifier

LEMMA FileIsNotNone == ASSUME NEW a \in Asset PROVE a # None
  BY NoneAssumption DEF Identifier

\* What a request relies on is not taken away from it.
LEMMA SoundKept ==
  ASSUME Keeps, NEW q \in RequestRow, Sound(q)
  PROVE  Sound(q)'
  <1>1. q.todo \subseteq Asset
    BY DEF RequestRow
  <1>2. DeletionSound(q)'
    <2>1. /\ q.at = "writeApproval" => deletion'[q.row].initiator \notin {None, q.user}
          /\ q.at = "writeRefusal" => deletion'[q.row].initiator # None
      BY DEF Sound, DeletionSound, Keeps
    <2>2. q.at \in {"eraseNext", "writeDeleted", "writeCompleted"} =>
            Approved(q.row)' /\ \A a \in q.todo : CoveredOrCleared(a, q.row)'
      BY <1>1 DEF Sound, DeletionSound, Keeps
    <2>3. q.at = "writeDeleted" => CoveredOrCleared(q.asset, q.row)'
      BY DEF Sound, DeletionSound, Keeps
    <2>4. q.at = "markGone" => asset'[q.asset].replaceable \/ Cleared(q.asset)'
      BY DEF Sound, DeletionSound, Keeps
    <2> QED BY <2>1, <2>2, <2>3, <2>4 DEF Sound, DeletionSound
  <1>3. FindingSound(q)'
    BY DEF Sound, FindingSound, Keeps
  <1> QED BY <1>2, <1>3 DEF Sound, LinkSound

\* What Inductive says of the rows after a step.
RowsHold == RowsTypeOK /\ RowsSound /\ ErasedByTwoUsers /\ FindingNeedsTwoUsers

\* The rows keep what was read of them, and request r goes on as call.
LEMMA Written ==
  ASSUME Inductive, Keeps, RowsHold', UNCHANGED regime,
         NEW r \in Request, NEW call \in RequestRow, Sound(call)',
         request' = [request EXCEPT ![r] = call]
  PROVE  Inductive'
  <1>1. ASSUME NEW s \in Request PROVE Sound(request[s])'
    <2>1. CASE s = r
      <3>1. request'[s] = call
        BY <2>1 DEF Inductive, Typed
      <3> QED BY <3>1 DEF Sound, DeletionSound, FindingSound, LinkSound, CoveredOrCleared, Approved, Cleared
    <2>2. CASE s # r
      <3>1. PICK q : q = request[s]
        OBVIOUS
      <3>2. q \in RequestRow /\ Sound(q)
        BY <3>1 DEF Inductive, Typed
      <3>3. request'[s] = q
        BY <2>2, <3>1 DEF Inductive, Typed
      <3>4. Sound(q)'
        BY <3>2, SoundKept
      <3> QED BY <3>3, <3>4 DEF Sound, DeletionSound, FindingSound, LinkSound, CoveredOrCleared, Approved, Cleared
    <2> QED BY <2>1, <2>2
  <1>2. Typed'
    BY DEF Inductive, Typed, RowsHold
  <1> QED BY <1>1, <1>2 DEF Inductive, RowsHold

\* A step that leaves the rows alone keeps all that is said of them.
LEMMA Still ==
  ASSUME Inductive, UNCHANGED rows
  PROVE  Keeps /\ RowsHold'
  <1> USE DEF Inductive, rows
  <1>1. Keeps
    BY DEF Keeps, Approved, CoveredOrCleared, Cleared
  <1>2. RowsHold'
    BY DEF RowsHold, Typed, RowsTypeOK, RowsSound, Approved, Cleared, ErasedByTwoUsers,
           FindingNeedsTwoUsers
  <1> QED BY <1>1, <1>2

\* An ended request relies on nothing.
LEMMA IdleSound == Idle \in RequestRow /\ Sound(Idle) /\ Sound(Idle)'
  BY DEF Idle, RequestRow, Step, Operation, Sound, DeletionSound, FindingSound, LinkSound

\* A handler starts: it has only read.
LEMMA Served ==
  ASSUME Inductive, UNCHANGED rows, UNCHANGED regime,
         NEW r \in Request, NEW call \in RequestRow, Sound(call), Serve(r, call)
  PROVE  Inductive'
  <1>1. Sound(call)'
    BY Still, SoundKept
  <1> QED BY <1>1, Still, Written DEF Serve

\* The requests do not move.
LEMMA Unasked ==
  ASSUME Inductive, Keeps, RowsHold', UNCHANGED regime, UNCHANGED request
  PROVE  Inductive'
  <1>1. ASSUME NEW s \in Request PROVE Sound(request[s])'
    <2>1. PICK q : q = request[s]
      OBVIOUS
    <2>2. q \in RequestRow /\ Sound(q)
      BY <2>1 DEF Inductive, Typed
    <2>3. Sound(q)'
      BY <2>2, SoundKept
    <2> QED BY <2>1, <2>3 DEF Sound, DeletionSound, FindingSound, LinkSound, CoveredOrCleared, Approved, Cleared
  <1> QED BY <1>1 DEF Inductive, Typed, RowsHold

\* What Inductive says of one request.
LEMMA InFlightSound ==
  ASSUME Inductive, NEW r \in Request
  PROVE  request[r] \in RequestRow /\ Sound(request[r])
  BY DEF Inductive, Typed

\* The statements that rely on nothing a request has read.
Plain ==
  Step \ {"insertDeletion", "writeApproval", "writeRefusal", "eraseNext", "writeDeleted",
          "writeCompleted", "markGone", "writeFinding", "checkCase", "writeCase",
          "insertAsset", "insertLink", "writeRelease", "listLinks"}

LEMMA PlainSound ==
  ASSUME NEW call \in RequestRow, call.at \in Plain
  PROVE  Sound(call) /\ Sound(call)'
  BY DEF Plain, Sound, DeletionSound, FindingSound, LinkSound

\* The request goes on to such a statement, or ends.
LEMMA WentOn ==
  ASSUME Inductive, Keeps, RowsHold', UNCHANGED regime,
         NEW r \in Request, NEW ok, NEW at \in Plain, Continue(r, ok, at)
  PROVE  Inductive'
  <1>1. CASE ~ok
    BY <1>1, IdleSound, Written DEF Continue
  <1>2. CASE ok
    <2>1. PICK q : q = request[r]
      OBVIOUS
    <2>2. q \in RequestRow
      BY <2>1, InFlightSound
    <2> DEFINE call == [q EXCEPT !.at = at]
    <2>3. call \in RequestRow /\ call.at = at
      BY <2>2 DEF RequestRow, Plain
    <2>4. request' = [request EXCEPT ![r] = call]
      BY <1>2, <2>1 DEF Continue, Inductive, Typed
    <2> QED BY <2>3, <2>4, PlainSound, Written
  <1> QED BY <1>1, <1>2

LEMMA Ended ==
  ASSUME Inductive, Keeps, RowsHold', UNCHANGED regime, NEW r \in Request, Finish(r)
  PROVE  Inductive'
  BY IdleSound, Written DEF Finish, Proceed

\* A request goes on to another statement, with what it relies on.
LEMMA Proceeded ==
  ASSUME Inductive, Keeps, RowsHold', UNCHANGED regime,
         NEW r \in Request, NEW call \in RequestRow, Sound(call), Proceed(r, call)
  PROVE  Inductive'
  BY SoundKept, Written DEF Proceed

-------------------------------------------------------------------------------
(* The rows.                                                               *)

\* A step that leaves files, deletion requests, links and findings alone.
LEMMA MinorRows ==
  ASSUME Inductive, RowsTypeOK', UNCHANGED <<asset, deletion, link, finding>>
  PROVE  Keeps /\ RowsHold'
  <1>1. Keeps
    BY DEF Keeps, Approved, CoveredOrCleared, Cleared
  <1>2. RowsHold'
    BY DEF Inductive, RowsHold, RowsSound, Approved, Cleared, ErasedByTwoUsers, FindingNeedsTwoUsers
  <1> QED BY <1>1, <1>2

\* What a statement may do to a row of a file: it clears none away and gives none back,
\* a routine file stays one, and a file that goes has a mandate.
FileStep(a) ==
  \/ asset'[a] = asset[a]
  \/ /\ ~Cleared(a) /\ ~Cleared(a)'
     /\ asset[a].replaceable => asset'[a].replaceable
     /\ asset'[a].gone /\ ~asset'[a].replaceable =>
          asset[a].gone \/ \E d \in Deletion : a \in deletion[d].links /\ Approved(d)

LEMMA FileRows ==
  ASSUME Inductive, RowsTypeOK', UNCHANGED <<deletion, link, finding>>,
         \A a \in Asset : FileStep(a)
  PROVE  Keeps /\ RowsHold'
  <1>1. Keeps
    BY DEF Keeps, Approved, CoveredOrCleared, Cleared, FileStep
  <1>2. ErasedByTwoUsers'
    <2> SUFFICES ASSUME NEW a \in Asset, asset'[a].gone, ~asset'[a].replaceable
                 PROVE  \E d \in Deletion : a \in deletion'[d].links /\ Approved(d)'
      BY DEF ErasedByTwoUsers, Approved
    <2>1. FileStep(a)
      OBVIOUS
    <2>2. \E d \in Deletion : a \in deletion[d].links /\ Approved(d)
      BY <2>1 DEF FileStep, Inductive, ErasedByTwoUsers, Approved
    <2> QED BY <2>2 DEF Approved
  <1>3. RowsSound'
    BY DEF Inductive, RowsSound, Approved, Cleared, FileStep
  <1>4. FindingNeedsTwoUsers'
    BY DEF Inductive, FindingNeedsTwoUsers
  <1> QED BY <1>1, <1>2, <1>3, <1>4 DEF RowsHold

\* One row of a file is written.
LEMMA FileWritten ==
  ASSUME Inductive, NEW a, NEW row,
         asset' = [asset EXCEPT ![a] = row],
         UNCHANGED <<objects, flagged, deletion, certificate, case, link, finding>>,
         a \in Asset => /\ row \in AssetRow
                        /\ \/ row = asset[a]
                           \/ /\ ~Cleared(a) /\ row.upload # "CLEARED"
                              /\ asset[a].replaceable => row.replaceable
                              /\ row.gone /\ ~row.replaceable =>
                                   asset[a].gone
                                     \/ \E d \in Deletion : a \in deletion[d].links /\ Approved(d)
  PROVE  Keeps /\ RowsHold'
  <1>1. RowsTypeOK'
    BY DEF Inductive, Typed, RowsTypeOK
  <1>2. ASSUME NEW b \in Asset PROVE FileStep(b)
    <2>1. CASE b = a
      <3>1. asset'[b] = row
        BY <2>1 DEF Inductive, Typed, RowsTypeOK
      <3> QED BY <2>1, <3>1 DEF FileStep, Cleared
    <2>2. CASE b # a
      BY <2>2 DEF FileStep, Inductive, Typed, RowsTypeOK
    <2> QED BY <2>1, <2>2
  <1> QED BY <1>1, <1>2, FileRows

\* Most updates of a file keep its kind, and do not say that it is gone.
FileKept(old, new) ==
  \/ new = old
  \/ /\ old.upload # "CLEARED" /\ new.upload # "CLEARED"
     /\ new.replaceable = old.replaceable /\ new.gone = old.gone

LEMMA FileUpdated ==
  ASSUME Inductive, NEW a, NEW row,
         asset' = [asset EXCEPT ![a] = row],
         UNCHANGED <<objects, flagged, deletion, certificate, case, link, finding>>,
         a \in Asset => row \in AssetRow /\ FileKept(asset[a], row)
  PROVE  Keeps /\ RowsHold'
  BY FileWritten DEF FileKept, Cleared

\* What a deletion request may become: its initiator, its files and its approval stay,
\* and it is approved by another user.
DeletionStep(d) ==
  \/ deletion'[d] = deletion[d]
  \/ /\ deletion[d].initiator # None => deletion'[d].initiator = deletion[d].initiator
     /\ deletion[d].links \subseteq deletion'[d].links
     /\ Approved(d) => Approved(d)'
     /\ deletion'[d].status # "NONE" => deletion'[d].initiator # None
     /\ deletion'[d].approver # None => Approved(d)' /\ deletion'[d].initiator # None
     /\ deletion'[d].status = "APPROVED" => Approved(d)'

LEMMA DeletionRows ==
  ASSUME Inductive, RowsTypeOK', UNCHANGED <<asset, link, finding>>,
         \A d \in Deletion : DeletionStep(d)
  PROVE  Keeps /\ RowsHold'
  <1>1. Keeps
    BY DEF Keeps, CoveredOrCleared, Cleared, DeletionStep, Approved
  <1>2. ErasedByTwoUsers'
    <2> SUFFICES ASSUME NEW a \in Asset, asset[a].gone, ~asset[a].replaceable
                 PROVE  \E d \in Deletion : a \in deletion'[d].links /\ Approved(d)'
      BY DEF ErasedByTwoUsers, Approved
    <2>1. PICK d \in Deletion : a \in deletion[d].links /\ Approved(d)
      BY DEF Inductive, ErasedByTwoUsers, Approved
    <2>2. DeletionStep(d)
      OBVIOUS
    <2> QED BY <2>1, <2>2 DEF DeletionStep, Approved
  <1>3. RowsSound'
    BY DEF Inductive, RowsSound, Approved, Cleared, DeletionStep
  <1>4. FindingNeedsTwoUsers'
    BY DEF Inductive, FindingNeedsTwoUsers
  <1> QED BY <1>1, <1>2, <1>3, <1>4 DEF RowsHold

LEMMA DeletionWritten ==
  ASSUME Inductive, NEW d \in Deletion, NEW row \in DeletionRow,
         deletion' = [deletion EXCEPT ![d] = row],
         UNCHANGED <<asset, objects, flagged, certificate, case, link, finding>>,
         deletion[d].initiator # None => row.initiator = deletion[d].initiator,
         deletion[d].links \subseteq row.links,
         row.status # "NONE" => row.initiator # None,
         Approved(d) => row.approver \notin {None, row.initiator},
         row.approver # None \/ row.status = "APPROVED" =>
           row.approver \notin {None, row.initiator} /\ row.initiator # None
  PROVE  Keeps /\ RowsHold'
  <1>1. RowsTypeOK'
    BY DEF Inductive, Typed, RowsTypeOK
  <1>2. ASSUME NEW e \in Deletion PROVE DeletionStep(e)
    <2>1. CASE e = d
      <3>1. deletion'[e] = row
        BY <2>1 DEF Inductive, Typed, RowsTypeOK
      <3> QED BY <2>1, <3>1 DEF DeletionStep, Approved
    <2>2. CASE e # d
      BY <2>2 DEF DeletionStep, Inductive, Typed, RowsTypeOK
    <2> QED BY <2>1, <2>2
  <1> QED BY <1>1, <1>2, DeletionRows

\* One finding is written; a draft is written into a free row only.
LEMMA FindingWritten ==
  ASSUME Inductive, NEW f \in Finding, NEW row \in FindingRow,
         finding' = [finding EXCEPT ![f] = row],
         UNCHANGED <<asset, objects, flagged, deletion, certificate, case, link>>,
         finding[f].status # "NONE" =>
           row.status # "NONE" /\ row.creator = finding[f].creator,
         row.approver \notin {row.creator} \ {None}
  PROVE  Keeps /\ RowsHold'
  <1>1. RowsTypeOK'
    BY DEF Inductive, Typed, RowsTypeOK
  <1>2. ASSUME NEW g \in Finding
        PROVE  /\ finding[g].status # "NONE" =>
                    finding'[g].status # "NONE" /\ finding'[g].creator = finding[g].creator
               /\ finding'[g].approver \notin {finding'[g].creator} \ {None}
    <2>1. CASE g = f
      <3>1. finding'[g] = row
        BY <2>1 DEF Inductive, Typed, RowsTypeOK
      <3> QED BY <2>1, <3>1
    <2>2. CASE g # f
      BY <2>2 DEF Inductive, Typed, RowsTypeOK, FindingNeedsTwoUsers
    <2> QED BY <2>1, <2>2
  <1>3. Keeps
    BY <1>2 DEF Keeps, Approved, CoveredOrCleared, Cleared
  <1>4. RowsSound' /\ ErasedByTwoUsers'
    BY DEF Inductive, RowsSound, Approved, Cleared, ErasedByTwoUsers
  <1>5. FindingNeedsTwoUsers'
    BY <1>2 DEF FindingNeedsTwoUsers
  <1> QED BY <1>1, <1>3, <1>4, <1>5 DEF RowsHold

-------------------------------------------------------------------------------
(* The statements of each module.                                          *)

\* A handler starts with a statement that relies on nothing.
LEMMA ServedPlain ==
  ASSUME Inductive, UNCHANGED regime, Keeps, RowsHold',
         NEW r \in Request, NEW call \in RequestRow, call.at \in Plain, Serve(r, call)
  PROVE  Inductive'
  BY PlainSound, Written DEF Serve

LEMMA ObjectsWritten ==
  ASSUME Inductive, objects' \in [Asset -> SUBSET Key],
         UNCHANGED <<asset, flagged, deletion, certificate, case, link, finding>>
  PROVE  Keeps /\ RowsHold'
  BY MinorRows DEF Inductive, Typed, RowsTypeOK

LEMMA ObjectsTyped ==
  ASSUME Inductive, NEW a, NEW S, a \in Asset => S \subseteq Key
  PROVE  [objects EXCEPT ![a] = S] \in [Asset -> SUBSET Key]
  BY DEF Inductive, Typed, RowsTypeOK

LEMMA KeysTyped ==
  ASSUME Inductive
  PROVE  /\ objects \in [Asset -> SUBSET Key]
         /\ \A a \in Asset : asset[a] \in AssetRow /\ objects[a] \subseteq Key
         /\ \A r \in Request : r \in Key
         /\ "upload" \in Key
  BY DEF Inductive, Typed, RowsTypeOK, Key

\* A row that starts is a row.
LEMMA NewRows ==
  /\ NoAsset \in AssetRow
  /\ \A status \in {"PENDING", "READY"}, replaceable \in BOOLEAN, key \in Key :
       /\ NewAsset(status, replaceable, key) \in AssetRow
       /\ NewAsset(status, replaceable, key).upload = status
       /\ ~NewAsset(status, replaceable, key).gone
  BY DEF NoAsset, NewAsset, AssetRow, Bytes

LEMMA NoAssetStands ==
  NoAsset.upload = "NONE" /\ ~NoAsset.gone /\ ~NoAsset.replaceable
  BY DEF NoAsset

\* A stale upload's row is deleted: what named the file no longer does.
LEMMA StaleRowCleared ==
  ASSUME Inductive, NEW r \in Request, DeleteStaleRow(r)
  PROVE  Keeps /\ RowsHold'
  <1>1. PICK a : a = request[r].asset
    OBVIOUS
  <1> DEFINE free == Exists(a) /\ ~Linked(a)
  <1> DEFINE gone == [NoAsset EXCEPT !.upload = "CLEARED"]
  <1>2. CASE ~free
    <2>1. asset' = asset /\ flagged' = flagged
      BY <1>1, <1>2 DEF DeleteStaleRow, Inductive, Typed, RowsTypeOK
    <2>2. deletion' = deletion
      BY <1>1, <1>2 DEF DeleteStaleRow, Inductive, Typed, RowsTypeOK
    <2> QED BY <2>1, <2>2, Still DEF DeleteStaleRow, rows
  <1>3. CASE free
    <2>1. gone \in AssetRow /\ gone.upload = "CLEARED" /\ ~gone.gone
      BY DEF NoAsset, AssetRow, Bytes
    <2>2. /\ \A b \in Asset : asset'[b] = IF b = a THEN gone ELSE asset[b]
          /\ flagged' = flagged \ {a}
          /\ UNCHANGED <<objects, certificate, case, link, finding>>
      BY <1>1, <1>3 DEF DeleteStaleRow, Inductive, Typed, RowsTypeOK
    <2>3. asset' \in [Asset -> AssetRow]
      BY <1>1, <1>3, <2>1 DEF DeleteStaleRow, Inductive, Typed, RowsTypeOK
    <2>4. deletion' = [d \in Deletion |-> [deletion[d] EXCEPT !.links = @ \ {a}]]
      BY <1>1, <1>3 DEF DeleteStaleRow
    <2>5. ASSUME NEW d \in Deletion
          PROVE  /\ deletion'[d] \in DeletionRow
                 /\ deletion'[d].initiator = deletion[d].initiator
                 /\ deletion'[d].approver = deletion[d].approver
                 /\ deletion'[d].status = deletion[d].status
                 /\ deletion'[d].links = deletion[d].links \ {a}
      <3>1. PICK row \in DeletionRow : row = deletion[d]
        BY DEF Inductive, Typed, RowsTypeOK
      <3>2. deletion'[d] = [row EXCEPT !.links = @ \ {a}]
        BY <2>4, <3>1
      <3> QED BY <3>1, <3>2 DEF DeletionRow
    <2>6. deletion' \in [Deletion -> DeletionRow]
      BY <2>4, <2>5
    <2>7. RowsTypeOK'
      BY <2>2, <2>3, <2>6 DEF Inductive, Typed, RowsTypeOK
    <2>8. \A b \in Asset : Cleared(b) \/ b = a => Cleared(b)'
      BY <2>1, <2>2 DEF Cleared
    <2>9. \A d \in Deletion : Approved(d)' <=> Approved(d)
      BY <2>5 DEF Approved
    <2>10. Keeps
      <3>1. \A d \in Deletion, b \in Asset : CoveredOrCleared(b, d) => CoveredOrCleared(b, d)'
        BY <2>5, <2>8 DEF CoveredOrCleared
      <3>2. \A b \in Asset : asset[b].replaceable \/ Cleared(b) => asset'[b].replaceable \/ Cleared(b)'
        BY <2>2, <2>8
      <3> QED BY <2>2, <2>5, <2>9, <3>1, <3>2 DEF Keeps
    <2>11. RowsSound'
      <3>1. \A d \in Deletion : /\ deletion'[d].status # "NONE" => deletion'[d].initiator # None
                                /\ deletion'[d].approver # None =>
                                     Approved(d)' /\ deletion'[d].initiator # None
                                /\ deletion'[d].status = "APPROVED" => Approved(d)'
        BY <2>5, <2>9 DEF Inductive, RowsSound
      <3>2. \A b \in Asset : Cleared(b)' => ~asset'[b].gone
        BY <2>1, <2>2 DEF Inductive, RowsSound, Cleared
      <3> QED BY <2>2, <3>1, <3>2 DEF Inductive, RowsSound
    <2>12. ErasedByTwoUsers'
      <3> SUFFICES ASSUME NEW b \in Asset, asset'[b].gone, ~asset'[b].replaceable
                   PROVE  \E d \in Deletion : b \in deletion'[d].links /\ Approved(d)'
        BY DEF ErasedByTwoUsers, Approved
      <3>1. b # a /\ asset[b].gone /\ ~asset[b].replaceable
        BY <2>1, <2>2
      <3>2. PICK d \in Deletion : b \in deletion[d].links /\ Approved(d)
        BY <3>1 DEF Inductive, ErasedByTwoUsers, Approved
      <3> QED BY <2>5, <2>9, <3>1, <3>2
    <2>13. FindingNeedsTwoUsers'
      BY <2>2 DEF Inductive, FindingNeedsTwoUsers
    <2> QED BY <2>7, <2>10, <2>11, <2>12, <2>13 DEF RowsHold
  <1> QED BY <1>2, <1>3

\* What confirmPresignedUpload does between PROCESSING and READY.
ProcessObject(r) == ReadObject(r) \/ StoreFinal(r) \/ DropUpload(r) \/ FailAfterStore(r)

\* It writes objects only, and goes on.
LEMMA ProcessingWrites ==
  ASSUME Inductive, NEW r \in Request, ProcessObject(r)
  PROVE  /\ objects' \in [Asset -> SUBSET Key]
         /\ UNCHANGED <<asset, flagged, deletion, certificate, case, link, finding>>
         /\ \E at \in {"storeFinal", "dropUpload", "markReady", "markFailed"} :
              at \in Plain /\ Continue(r, TRUE, at)
  <1> DEFINE a == request[r].asset
  <1>1. /\ [objects EXCEPT ![a] = @ \cup {r}] \in [Asset -> SUBSET Key]
        /\ [objects EXCEPT ![a] = @ \ {"upload"}] \in [Asset -> SUBSET Key]
    BY KeysTyped, ObjectsTyped
  <1>2. CASE ReadObject(r)
    BY <1>2, KeysTyped DEF ReadObject, rows, Plain, Step
  <1>3. CASE StoreFinal(r)
    BY <1>1, <1>3, KeysTyped DEF StoreFinal, Plain, Step
  <1>4. CASE DropUpload(r)
    BY <1>1, <1>4, KeysTyped DEF DropUpload, Stored, Plain, Step
  <1>5. CASE FailAfterStore(r)
    BY <1>5, KeysTyped DEF FailAfterStore, rows, Plain, Step
  <1> QED BY <1>2, <1>3, <1>4, <1>5 DEF ProcessObject

LEMMA MediaKeeps ==
  ASSUME Inductive, MediaNext, UNCHANGED regime
  PROVE  Inductive'
  <1>1. CASE InitiatePresignedUpload
    <2>1. PICK a \in Asset, replaceable \in BOOLEAN, bytes \in Bytes :
            /\ asset[a] = NoAsset
            /\ asset' = [asset EXCEPT ![a] = [NewAsset("PENDING", replaceable, "upload")
                                                EXCEPT !.bytes = bytes]]
      BY <1>1 DEF InitiatePresignedUpload
    <2>2. PICK new : new = NewAsset("PENDING", replaceable, "upload")
      OBVIOUS
    <2>3. PICK row : row = [new EXCEPT !.bytes = bytes]
      OBVIOUS
    <2>4. new \in AssetRow /\ new.upload = "PENDING" /\ ~new.gone
      BY <2>2, NewRows, KeysTyped
    <2>5. row \in AssetRow /\ row.upload = "PENDING" /\ ~row.gone
      BY <2>3, <2>4 DEF AssetRow
    <2>6. asset' = [asset EXCEPT ![a] = row]
      BY <2>1, <2>2, <2>3
    <2>7. Keeps /\ RowsHold'
      BY <1>1, <2>1, <2>5, <2>6, FileWritten, NoAssetStands DEF InitiatePresignedUpload, Cleared
    <2> QED BY <1>1, <2>7, Unasked DEF InitiatePresignedUpload, Answer
  <1>2. CASE ObjectArrives
    <2>1. objects' \in [Asset -> SUBSET Key]
      BY <1>2, KeysTyped, ObjectsTyped DEF ObjectArrives
    <2>2. Keeps /\ RowsHold'
      BY <1>2, <2>1, ObjectsWritten DEF ObjectArrives
    <2> QED BY <1>2, <2>2, Unasked DEF ObjectArrives, Answer
  <1>17. CASE UploadUrlExpires
    <2>1. Keeps /\ RowsHold'
      BY <1>17, KeysTyped, ObjectsWritten DEF UploadUrlExpires
    <2> QED BY <1>17, <2>1, Unasked DEF UploadUrlExpires
  <1>3. ASSUME NEW r \in Request, UploadMediaAsset(r) PROVE Inductive'
    <2>1. PICK u \in User, a \in Asset, replaceable \in BOOLEAN :
            /\ Serve(r, [Call("upload", "insertAsset", u)
                           EXCEPT !.asset = a, !.yes = replaceable])
            /\ objects' = [objects EXCEPT ![a] = @ \cup {r}]
      BY <1>3 DEF UploadMediaAsset
    <2> DEFINE call == [Call("upload", "insertAsset", u) EXCEPT !.asset = a, !.yes = replaceable]
    <2>2. call \in RequestRow /\ call.at = "insertAsset" /\ call.asset = a
      BY DEF Call, Idle, RequestRow, Operation, Step
    <2>3. Sound(call)
      BY <2>2 DEF Sound, DeletionSound, FindingSound, LinkSound
    <2>4. objects' \in [Asset -> SUBSET Key]
      BY <2>1, KeysTyped, ObjectsTyped
    <2>5. Keeps /\ RowsHold'
      BY <1>3, <2>4, ObjectsWritten DEF UploadMediaAsset
    <2> QED BY <2>1, <2>2, <2>5, <2>3, Proceeded DEF Serve, Proceed
  <1>4. ASSUME NEW r \in Request, UploadEvidence(r) PROVE Inductive'
    <2>1. PICK u \in User, a \in Asset, c \in Case :
            /\ Serve(r, [Call("uploadEvidence", "insertAsset", u) EXCEPT !.asset = a, !.case = c])
            /\ objects' = [objects EXCEPT ![a] = @ \cup {r}]
      BY <1>4 DEF UploadEvidence
    <2> DEFINE call == [Call("uploadEvidence", "insertAsset", u) EXCEPT !.asset = a, !.case = c]
    <2>2. call \in RequestRow /\ call.at = "insertAsset" /\ call.asset = a
      BY DEF Call, Idle, RequestRow, Operation, Step
    <2>3. Sound(call)
      BY <2>2 DEF Sound, DeletionSound, FindingSound, LinkSound
    <2>4. objects' \in [Asset -> SUBSET Key]
      BY <2>1, KeysTyped, ObjectsTyped
    <2>5. Keeps /\ RowsHold'
      BY <1>4, <2>4, ObjectsWritten DEF UploadEvidence
    <2> QED BY <2>1, <2>2, <2>5, <2>3, Proceeded DEF Serve, Proceed
  <1>5. ASSUME NEW r \in Request, InsertAsset(r) PROVE Inductive'
    <2>1. PICK q : q = request[r]
      OBVIOUS
    <2>2. q \in RequestRow
      BY <2>1, InFlightSound
    <2>3. PICK row : row = IF asset[q.asset] = NoAsset THEN NewAsset("READY", q.yes, r)
                           ELSE asset[q.asset]
      OBVIOUS
    <2>4. asset' = [asset EXCEPT ![q.asset] = row]
      BY <1>5, <2>1, <2>3 DEF InsertAsset
    <2>5. q.asset \in Asset =>
            /\ row \in AssetRow
            /\ \/ row = asset[q.asset]
               \/ asset[q.asset] = NoAsset /\ row.upload = "READY" /\ ~row.gone
      BY <2>2, <2>3, NewRows, KeysTyped DEF RequestRow
    <2>6. UNCHANGED <<objects, flagged, deletion, certificate, case, link, finding>>
      BY <1>5 DEF InsertAsset
    <2>7. q.asset \in Asset =>
            /\ row \in AssetRow
            /\ \/ row = asset[q.asset]
               \/ /\ ~Cleared(q.asset) /\ row.upload # "CLEARED"
                  /\ asset[q.asset].replaceable => row.replaceable
                  /\ ~row.gone
      BY <2>5, NoAssetStands DEF Cleared
    <2>8. Keeps /\ RowsHold'
      BY <2>4, <2>6, <2>7, FileWritten
    <2>9. Continue(r, q.op = "uploadEvidence", "insertLink")
      BY <1>5, <2>1 DEF InsertAsset
    <2> DEFINE call == [q EXCEPT !.at = "insertLink"]
    <2>10. Proceed(r, Idle) \/ Proceed(r, call)
      BY <2>1, <2>9 DEF Continue, Proceed
    <2>11. CASE Proceed(r, Idle)
      BY <2>8, <2>11, IdleSound, Proceeded
    <2>12. CASE Proceed(r, call)
      <3>1. call \in RequestRow /\ call.at = "insertLink" /\ call.asset = q.asset
        BY <2>2 DEF RequestRow, Step
      <3>2. q.asset \in Asset
        BY <1>5, <2>1, InFlightSound DEF InsertAsset, Sound, LinkSound
      <3>3. Sound(call)
        BY <3>1, <3>2 DEF Sound, DeletionSound, FindingSound, LinkSound
      <3> QED BY <2>8, <2>12, <3>1, <3>3, Proceeded
    <2> QED BY <2>10, <2>11, <2>12
  <1>6. ASSUME NEW r \in Request, ConfirmUpload(r) PROVE Inductive'
    <2>1. PICK u \in User, a \in Asset :
            Serve(r, [Call("confirm", IF asset[a].key \in objects[a] THEN "markProcessing"
                                      ELSE "markFailed", u) EXCEPT !.asset = a])
      BY <1>6 DEF ConfirmUpload
    <2> DEFINE call == [Call("confirm", IF asset[a].key \in objects[a] THEN "markProcessing"
                                        ELSE "markFailed", u) EXCEPT !.asset = a]
    <2>2. call \in RequestRow /\ call.at \in Plain
      BY DEF Call, Idle, RequestRow, Operation, Step, Plain
    <2> QED BY <1>6, <2>1, <2>2, Still, ServedPlain DEF ConfirmUpload
  <1>7. ASSUME NEW r \in Request, NEW at, NEW status \in {"PROCESSING", "FAILED"},
               NEW next \in Plain \cup {"end"}, WriteUpload(r, at, status, next)
        PROVE  Inductive'
    <2>1. PICK q : q = request[r]
      OBVIOUS
    <2>2. PICK row : row = IF Exists(q.asset) THEN [asset[q.asset] EXCEPT !.upload = status]
                           ELSE asset[q.asset]
      OBVIOUS
    <2>3. q.asset \in Asset => row \in AssetRow /\ FileKept(asset[q.asset], row)
      BY <2>2, KeysTyped DEF AssetRow, Exists, FileKept
    <2>4. asset' = [asset EXCEPT ![q.asset] = row]
      BY <1>7, <2>1, <2>2 DEF WriteUpload
    <2>5. Keeps /\ RowsHold'
      BY <1>7, <2>3, <2>4, FileUpdated DEF WriteUpload
    <2>6. Continue(r, Exists(q.asset) /\ next # "end", next)
      BY <1>7, <2>1 DEF WriteUpload
    <2>7. CASE next = "end"
      <3>1. Finish(r)
        BY <2>6, <2>7 DEF Continue, Finish, Proceed
      <3> QED BY <2>5, <3>1, Ended
    <2>8. CASE next \in Plain
      BY <2>5, <2>6, <2>8, WentOn
    <2> QED BY <2>7, <2>8
  <1>8. ASSUME NEW r \in Request, MarkProcessing(r) \/ MarkFailed(r) PROVE Inductive'
    BY <1>7, <1>8 DEF MarkProcessing, MarkFailed, Plain, Step
  <1>9. ASSUME NEW r \in Request, ProcessObject(r) PROVE Inductive'
    <2>1. Keeps /\ RowsHold'
      BY <1>9, ProcessingWrites, ObjectsWritten
    <2> QED BY <1>9, <2>1, ProcessingWrites, WentOn
  <1>10. ASSUME NEW r \in Request, MarkReady(r) PROVE Inductive'
    <2>1. PICK q : q = request[r]
      OBVIOUS
    <2>2. PICK both \in BOOLEAN : both = (asset[q.asset].bytes = "BOTH")
      OBVIOUS
    <2>3. PICK key \in Key : key = IF asset[q.asset].bytes = "ASIS" THEN "upload" ELSE r
      BY KeysTyped
    <2>4. PICK row : row = IF ~Exists(q.asset) THEN asset[q.asset] ELSE
            [asset[q.asset] EXCEPT !.upload = "READY", !.original = both, !.key = key]
      OBVIOUS
    <2>5. asset' = [asset EXCEPT ![q.asset] = row]
      BY <1>10, <2>1, <2>2, <2>3, <2>4 DEF MarkReady
    <2>6. q.asset \in Asset => row \in AssetRow /\ FileKept(asset[q.asset], row)
      <3>1. CASE ~Exists(q.asset)
        BY <2>4, <3>1, KeysTyped DEF FileKept
      <3>2. CASE Exists(q.asset)
        <4>1. PICK old : old = asset[q.asset]
          OBVIOUS
        <4>2. q.asset \in Asset => old \in AssetRow /\ old.upload # "CLEARED"
          BY <3>2, <4>1, KeysTyped DEF Exists
        <4>3. row = [old EXCEPT !.upload = "READY", !.original = both, !.key = key]
          BY <2>4, <3>2, <4>1
        <4>4. q.asset \in Asset => row \in AssetRow /\ FileKept(old, row)
          BY <4>2, <4>3 DEF AssetRow, FileKept
        <4> QED BY <4>1, <4>4
      <3> QED BY <3>1, <3>2
    <2>7. Keeps /\ RowsHold'
      BY <1>10, <2>5, <2>6, FileUpdated DEF MarkReady
    <2> QED BY <1>10, <2>7, Ended DEF MarkReady
  <1>11. ASSUME NEW r \in Request, CleanupFailedUploads(r) PROVE Inductive'
    <2>1. PICK old \in SUBSET Asset :
            Serve(r, [Call("cleanup", "deleteStale", None) EXCEPT !.todo = old])
      BY <1>11 DEF CleanupFailedUploads
    <2> DEFINE call == [Call("cleanup", "deleteStale", None) EXCEPT !.todo = old]
    <2>2. call \in RequestRow /\ call.at \in Plain
      BY DEF Call, Idle, RequestRow, Operation, Step, Plain
    <2> QED BY <1>11, <2>1, <2>2, Still, ServedPlain DEF CleanupFailedUploads
  <1>12. ASSUME NEW r \in Request, DeleteStaleObject(r) PROVE Inductive'
    <2>1. PICK q : q = request[r]
      OBVIOUS
    <2>2. q \in RequestRow
      BY <2>1, InFlightSound
    <2>3. PICK a \in q.todo :
            /\ objects' \in Stored(objects, [objects EXCEPT ![a] = @ \ {asset[a].key}])
            /\ Proceed(r, [q EXCEPT !.at = "deleteRow", !.asset = a, !.todo = @ \ {a}])
      BY <1>12, <2>1 DEF DeleteStaleObject
    <2> DEFINE call == [q EXCEPT !.at = "deleteRow", !.asset = a, !.todo = @ \ {a}]
    <2>4. Proceed(r, call) /\ a \in q.todo
      BY <2>3
    <2>5. call \in RequestRow /\ call.at \in Plain
      <3>1. a \in Asset /\ q.todo \ {a} \subseteq Asset
        BY <2>2, <2>4 DEF RequestRow
      <3>2. "deleteRow" \in Step /\ "deleteRow" \in Plain
        BY DEF Step, Plain
      <3> QED BY <2>2, <3>1, <3>2 DEF RequestRow
    <2>6. [objects EXCEPT ![a] = @ \ {asset[a].key}] \in [Asset -> SUBSET Key]
      BY KeysTyped, ObjectsTyped
    <2>7. objects' \in [Asset -> SUBSET Key]
      BY <2>3, <2>6, KeysTyped DEF Stored
    <2>8. Keeps /\ RowsHold'
      BY <1>12, <2>7, ObjectsWritten DEF DeleteStaleObject
    <2> QED BY <2>4, <2>5, <2>8, PlainSound, Written DEF Proceed
  <1>13. ASSUME NEW r \in Request, DeleteStaleRow(r) PROVE Inductive'
    <2>1. Keeps /\ RowsHold'
      BY <1>13, StaleRowCleared
    <2>2. PICK ok : Continue(r, ok, "deleteStale")
      BY <1>13 DEF DeleteStaleRow
    <2> QED BY <2>1, <2>2, WentOn DEF Plain, Step
  <1>14. ASSUME NEW r \in Request, DeleteReplaceable(r) PROVE Inductive'
    <2>1. PICK u \in User, a \in Asset :
            /\ asset[a].replaceable
            /\ Serve(r, [Call("replace", IF asset[a].gone THEN "removeObjects" ELSE "markGone", u)
                           EXCEPT !.asset = a])
      BY <1>14 DEF DeleteReplaceable
    <2> DEFINE call == [Call("replace", IF asset[a].gone THEN "removeObjects" ELSE "markGone", u)
                          EXCEPT !.asset = a]
    <2>2. call \in RequestRow /\ call.at \in {"removeObjects", "markGone"} /\ call.asset = a
      BY DEF Call, Idle, RequestRow, Operation, Step
    <2>3. Sound(call)
      BY <2>1, <2>2 DEF Sound, DeletionSound, FindingSound, LinkSound
    <2> QED BY <1>14, <2>1, <2>2, <2>3, Served DEF DeleteReplaceable
  <1>15. ASSUME NEW r \in Request, MarkGone(r) PROVE Inductive'
    <2>1. PICK q : q = request[r]
      OBVIOUS
    <2>2. q \in RequestRow /\ Sound(q) /\ q.at = "markGone"
      BY <1>15, <2>1, InFlightSound DEF MarkGone
    <2>3. q.asset \in Asset /\ (asset[q.asset].replaceable \/ Cleared(q.asset))
      BY <2>2 DEF Sound, DeletionSound
    <2>4. PICK row : row = IF Exists(q.asset)
                             THEN [asset[q.asset] EXCEPT !.gone = TRUE, !.retention = "DELETED"]
                             ELSE asset[q.asset]
      OBVIOUS
    <2>5. asset' = [asset EXCEPT ![q.asset] = row]
      BY <1>15, <2>1, <2>4 DEF MarkGone
    <2>6. /\ row \in AssetRow
          /\ row = asset[q.asset] \/ (~Cleared(q.asset) /\ row.upload # "CLEARED" /\ row.replaceable)
      <3>1. PICK old : old = asset[q.asset]
        OBVIOUS
      <3>2. CASE Exists(q.asset)
        <4>1. row = [old EXCEPT !.gone = TRUE, !.retention = "DELETED"]
          BY <2>4, <3>1, <3>2
        <4>2. old \in AssetRow /\ old.upload # "CLEARED" /\ old.replaceable
          BY <2>3, <3>1, <3>2, KeysTyped DEF Exists, Cleared
        <4>3. row \in AssetRow /\ row.upload # "CLEARED" /\ row.replaceable
          BY <4>1, <4>2 DEF AssetRow
        <4> QED BY <3>1, <4>2, <4>3 DEF Cleared
      <3>3. CASE ~Exists(q.asset)
        BY <2>3, <2>4, <3>3, KeysTyped
      <3> QED BY <3>2, <3>3
    <2>7. UNCHANGED <<objects, flagged, deletion, certificate, case, link, finding>>
      BY <1>15 DEF MarkGone
    <2>8. Keeps /\ RowsHold'
      BY <2>3, <2>5, <2>6, <2>7, FileWritten
    <2>9. Continue(r, Exists(q.asset), "removeObjects")
      BY <1>15, <2>1 DEF MarkGone
    <2> QED BY <2>8, <2>9, WentOn DEF Plain, Step
  <1>16. ASSUME NEW r \in Request, RemoveObjects(r) PROVE Inductive'
    <2>1. PICK a : a = request[r].asset
      OBVIOUS
    <2>2. [objects EXCEPT ![a] = @ \ KeysOf(a)] \in [Asset -> SUBSET Key]
      BY KeysTyped, ObjectsTyped
    <2>3. objects' \in [Asset -> SUBSET Key]
      BY <1>16, <2>1, <2>2, KeysTyped DEF RemoveObjects, Stored
    <2>4. Keeps /\ RowsHold'
      BY <1>16, <2>3, ObjectsWritten DEF RemoveObjects
    <2> QED BY <1>16, <2>4, Ended DEF RemoveObjects
  <1> QED BY <1>1, <1>2, <1>3, <1>4, <1>5, <1>6, <1>8, <1>9, <1>10, <1>11, <1>12, <1>13,
             <1>14, <1>15, <1>16, <1>17 DEF MediaNext, ProcessObject

\* A mark on several files.
LEMMA FilesMarked ==
  ASSUME Inductive, NEW S, NEW status \in {"ARCHIVED", "PENDING_DELETION"},
         \A a \in Asset \cap S : Exists(a),
         asset' = [a \in Asset |-> IF a \in S THEN [asset[a] EXCEPT !.retention = status]
                                   ELSE asset[a]],
         UNCHANGED <<objects, flagged, deletion, certificate, case, link, finding>>
  PROVE  Keeps /\ RowsHold'
  <1>1. ASSUME NEW a \in Asset PROVE asset'[a] \in AssetRow /\ FileStep(a)
    <2>1. CASE a \notin S
      BY <2>1, KeysTyped DEF FileStep
    <2>2. CASE a \in S
      <3>1. PICK old \in AssetRow : old = asset[a]
        BY KeysTyped
      <3>2. asset'[a] = [old EXCEPT !.retention = status] /\ old.upload # "CLEARED"
        BY <2>2, <3>1 DEF Exists
      <3>3. /\ asset'[a] \in AssetRow /\ asset'[a].upload = old.upload
            /\ asset'[a].replaceable = old.replaceable /\ asset'[a].gone = old.gone
        BY <3>1, <3>2 DEF AssetRow
      <3> QED BY <3>1, <3>2, <3>3 DEF FileStep, Cleared
    <2> QED BY <2>1, <2>2
  <1>2. asset' \in [Asset -> AssetRow]
    BY <1>1
  <1>3. RowsTypeOK'
    BY <1>2 DEF Inductive, Typed, RowsTypeOK
  <1> QED BY <1>1, <1>3, FileRows

\* One file is put on hold or taken off it.
LEMMA FileHeld ==
  ASSUME Inductive, NEW a, NEW row,
         asset' = [asset EXCEPT ![a] = row],
         UNCHANGED <<objects, flagged, deletion, certificate, case, link, finding>>,
         NEW on \in BOOLEAN,
         \/ row = asset[a]
         \/ Exists(a) /\ row = [asset[a] EXCEPT !.hold = on]
         \/ Exists(a) /\ row = [asset[a] EXCEPT !.legal = on]
  PROVE  Keeps /\ RowsHold'
  <1>1. ASSUME a \in Asset PROVE row \in AssetRow /\ FileKept(asset[a], row)
    <2>1. PICK old \in AssetRow : old = asset[a]
      BY <1>1, KeysTyped
    <2>2. \/ row = old
          \/ old.upload # "CLEARED" /\ row = [old EXCEPT !.hold = on]
          \/ old.upload # "CLEARED" /\ row = [old EXCEPT !.legal = on]
      BY <2>1 DEF Exists
    <2>3. row \in AssetRow /\ FileKept(old, row)
      BY <2>1, <2>2 DEF AssetRow, FileKept
    <2> QED BY <2>1, <2>3
  <1> QED BY <1>1, FileUpdated

\* A deletion request whose initiator, files and approver stay as they are.
LEMMA DeletionMoved ==
  ASSUME Inductive, NEW d \in Deletion, NEW row,
         deletion' = [deletion EXCEPT ![d] = row],
         UNCHANGED <<asset, objects, flagged, certificate, case, link, finding>>,
         deletion[d].initiator # None,
         \/ \E status \in {"REJECTED", "CANCELLED", "COMPLETED"} :
              row = [deletion[d] EXCEPT !.status = status]
         \/ row = [deletion[d] EXCEPT !.elapsed = TRUE]
  PROVE  Keeps /\ RowsHold'
  <1>1. PICK old \in DeletionRow : old = deletion[d]
    BY DEF Inductive, Typed, RowsTypeOK
  <1>2. /\ row \in DeletionRow
        /\ row.initiator = old.initiator /\ row.approver = old.approver /\ row.links = old.links
        /\ row.status = "APPROVED" => old.status = "APPROVED"
    BY <1>1 DEF DeletionRow, DeletionStatus
  <1>3. /\ old.approver # None => old.approver # old.initiator
        /\ old.status = "APPROVED" => old.approver \notin {None, old.initiator}
    BY <1>1 DEF Inductive, RowsSound, Approved
  <1> QED BY <1>1, <1>2, <1>3, DeletionWritten DEF Approved

LEMMA RetentionKeeps ==
  ASSUME Inductive, RetentionNext, UNCHANGED regime
  PROVE  Inductive'
  <1>1. CASE SetLegalHold
    <2>1. PICK a \in Asset, on \in BOOLEAN :
            Exists(a) /\ asset' = [asset EXCEPT ![a].legal = on]
      BY <1>1 DEF SetLegalHold
    <2>2. asset' = [asset EXCEPT ![a] = [asset[a] EXCEPT !.legal = on]]
      BY <2>1
    <2>3. Keeps /\ RowsHold'
      BY <1>1, <2>1, <2>2, FileHeld DEF SetLegalHold
    <2> QED BY <1>1, <2>3, Unasked DEF SetLegalHold, Answer
  <1>2. CASE SetInvestigationHold
    <2>1. PICK a \in Asset, on \in BOOLEAN :
            Exists(a) /\ asset' = [asset EXCEPT ![a].hold = on]
      BY <1>2 DEF SetInvestigationHold
    <2>2. asset' = [asset EXCEPT ![a] = [asset[a] EXCEPT !.hold = on]]
      BY <2>1
    <2>3. Keeps /\ RowsHold'
      BY <1>2, <2>1, <2>2, FileHeld DEF SetInvestigationHold
    <2> QED BY <1>2, <2>3, Unasked DEF SetInvestigationHold, Answer
  <1>3. CASE FlagAsset
    <2>1. flagged' \in SUBSET Asset
      BY <1>3 DEF FlagAsset, Inductive, Typed, RowsTypeOK
    <2>2. Keeps /\ RowsHold'
      BY <1>3, <2>1, MinorRows DEF FlagAsset, Inductive, Typed, RowsTypeOK
    <2> QED BY <1>3, <2>2, Unasked DEF FlagAsset, Answer
  <1>4. CASE MoveAssetsToArchive
    <2>1. Keeps /\ RowsHold'
      BY <1>4, FilesMarked DEF MoveAssetsToArchive
    <2> QED BY <1>4, <2>1, Unasked DEF MoveAssetsToArchive, Answer
  <1>5. CASE RecoveryElapses
    <2>1. PICK d \in Deletion :
            /\ deletion[d].status = "APPROVED"
            /\ deletion' = [deletion EXCEPT ![d].elapsed = TRUE]
      BY <1>5 DEF RecoveryElapses
    <2>2. deletion[d].initiator # None
      BY <2>1 DEF Inductive, RowsSound
    <2>3. deletion' = [deletion EXCEPT ![d] = [deletion[d] EXCEPT !.elapsed = TRUE]]
      BY <2>1
    <2>4. Keeps /\ RowsHold'
      BY <1>5, <2>2, <2>3, DeletionMoved DEF RecoveryElapses
    <2> QED BY <1>5, <2>4, Unasked DEF RecoveryElapses
  <1>6. ASSUME NEW r \in Request, CreateDeletionRequest(r) PROVE Inductive'
    <2>1. PICK u \in User, files \in SUBSET Asset :
            Serve(r, [Call("askDeletion", "insertDeletion", u) EXCEPT !.todo = files])
      BY <1>6 DEF CreateDeletionRequest
    <2> DEFINE call == [Call("askDeletion", "insertDeletion", u) EXCEPT !.todo = files]
    <2>2. call \in RequestRow /\ call.at = "insertDeletion" /\ call.user = u
      BY DEF Call, Idle, RequestRow, Operation, Step
    <2>3. Sound(call)
      BY <2>2 DEF Sound, DeletionSound, FindingSound, LinkSound
    <2> QED BY <1>6, <2>1, <2>2, <2>3, Served DEF CreateDeletionRequest
  <1>7. ASSUME NEW r \in Request, InsertDeletion(r) PROVE Inductive'
    <2>1. PICK q \in RequestRow : q = request[r] /\ Sound(q)
      BY InFlightSound
    <2>2. q.user \in User /\ q.todo \subseteq Asset
      BY <1>7, <2>1 DEF InsertDeletion, Sound, DeletionSound, RequestRow
    <2> DEFINE new == [NoDeletion EXCEPT !.status = "PENDING_APPROVAL", !.initiator = q.user,
                                         !.links = q.todo]
    <2>3. PICK d \in Deletion :
            /\ deletion[d] = NoDeletion
            /\ deletion' = [deletion EXCEPT ![d] = new] \/ deletion' = deletion
      BY <1>7, <2>1 DEF InsertDeletion
    <2>4. /\ new \in DeletionRow /\ new.approver = None /\ new.status = "PENDING_APPROVAL"
          /\ new.initiator = q.user
          /\ NoDeletion.initiator = None /\ NoDeletion.links = {} /\ NoDeletion.approver = None
      BY <2>2 DEF NoDeletion, DeletionRow, DeletionStatus
    <2>5. Keeps /\ RowsHold'
      <3>1. CASE deletion' = deletion
        BY <1>7, <3>1, Still DEF InsertDeletion, rows
      <3>2. CASE deletion' = [deletion EXCEPT ![d] = new]
        <4>1. new.initiator # None /\ ~Approved(d)
          BY <2>2, <2>3, <2>4, NobodyIsNone DEF Approved
        <4>2. UNCHANGED <<asset, objects, flagged, certificate, case, link, finding>>
          BY <1>7 DEF InsertDeletion
        <4>3. deletion[d].initiator = None /\ deletion[d].links \subseteq new.links
          BY <2>3, <2>4
        <4>4. /\ new \in DeletionRow /\ new.approver = None /\ new.status = "PENDING_APPROVAL"
          BY <2>4
        <4> HIDE DEF new
        <4> QED BY <3>2, <4>1, <4>2, <4>3, <4>4, DeletionWritten
      <3> QED BY <2>3, <3>1, <3>2
    <2> QED BY <1>7, <2>5, Ended DEF InsertDeletion
  <1>8. ASSUME NEW r \in Request, ApproveDeletionRequest(r) PROVE Inductive'
    <2>1. PICK u \in User, d \in Deletion, files \in SUBSET Asset :
            /\ Pending(d) /\ deletion[d].initiator # u
            /\ Serve(r, [Call("approve", "writeApproval", u) EXCEPT !.row = d, !.todo = files])
      <3>1. PICK u \in User, d \in Deletion :
              /\ Pending(d) /\ deletion[d].initiator # u
              /\ Serve(r, [Call("approve", "writeApproval", u) EXCEPT
                             !.row = d, !.todo = {a \in deletion[d].links : Eligible(a)}])
        BY <1>8 DEF ApproveDeletionRequest
      <3>2. {a \in deletion[d].links : Eligible(a)} \in SUBSET Asset
        BY DEF Inductive, Typed, RowsTypeOK, DeletionRow
      <3> QED BY <3>1, <3>2
    <2> DEFINE call == [Call("approve", "writeApproval", u) EXCEPT !.row = d, !.todo = files]
    <2>2. call \in RequestRow /\ call.at = "writeApproval" /\ call.user = u /\ call.row = d
      BY DEF Call, Idle, RequestRow, Operation, Step
    <2>3. deletion[d].initiator \notin {None, u}
      BY <2>1 DEF Pending, Inductive, RowsSound
    <2>4. Sound(call)
      BY <2>2, <2>3 DEF Sound, DeletionSound, FindingSound, LinkSound
    <2> QED BY <1>8, <2>1, <2>2, <2>4, Served DEF ApproveDeletionRequest
  <1>9. ASSUME NEW r \in Request, WriteApproval(r) PROVE Inductive'
    <2>1. PICK q \in RequestRow : q = request[r] /\ Sound(q)
      BY InFlightSound
    <2>2. q.row \in Deletion /\ q.user \in User /\ deletion[q.row].initiator \notin {None, q.user}
      BY <1>9, <2>1 DEF WriteApproval, Sound, DeletionSound
    <2>3. PICK d \in Deletion, old \in DeletionRow : d = q.row /\ old = deletion[d]
      BY <2>2 DEF Inductive, Typed, RowsTypeOK
    <2>9. PICK row : row = [old EXCEPT !.status = "APPROVED", !.approver = q.user, !.elapsed = FALSE]
      OBVIOUS
    <2>4. deletion' = [deletion EXCEPT ![d] = row]
      BY <1>9, <2>1, <2>3, <2>9 DEF WriteApproval
    <2>5. row \in DeletionRow /\ row.initiator = old.initiator /\ row.approver = q.user
            /\ row.links = old.links
      BY <2>2, <2>9 DEF DeletionRow, DeletionStatus
    <2>6. UNCHANGED <<asset, objects, flagged, certificate, case, link, finding>>
      BY <1>9 DEF WriteApproval
    <2>7. q.user \notin {None, old.initiator} /\ old.initiator # None
      BY <2>2, <2>3, NobodyIsNone
    <2>8. Keeps /\ RowsHold'
      BY <2>3, <2>4, <2>5, <2>6, <2>7, DeletionWritten
    <2> QED BY <1>9, <2>8, WentOn DEF WriteApproval, Plain, Step
  <1>10. ASSUME NEW r \in Request, MarkPendingDeletion(r) PROVE Inductive'
    <2> DEFINE files == {a \in Asset : a \in request[r].todo /\ Exists(a)}
    <2>1. asset' = [a \in Asset |-> IF a \in files
                      THEN [asset[a] EXCEPT !.retention = "PENDING_DELETION"] ELSE asset[a]]
      BY <1>10 DEF MarkPendingDeletion
    <2>2. \A a \in Asset \cap files : Exists(a)
      OBVIOUS
    <2>3. UNCHANGED <<objects, flagged, deletion, certificate, case, link, finding>>
      BY <1>10 DEF MarkPendingDeletion
    <2> HIDE DEF files
    <2>4. Keeps /\ RowsHold'
      BY <2>1, <2>2, <2>3, FilesMarked
    <2> QED BY <1>10, <2>4, Ended DEF MarkPendingDeletion
  <1>11. ASSUME NEW r \in Request, RejectDeletionRequest(r) \/ CancelDeletionRequest(r)
         PROVE  Inductive'
    <2>1. PICK u \in User, d \in Deletion, op \in {"reject", "cancelDeletion"},
               to \in {"REJECTED", "CANCELLED"} :
            Pending(d) /\ Serve(r, [Call(op, "writeRefusal", u) EXCEPT !.row = d, !.to = to])
      BY <1>11 DEF RejectDeletionRequest, CancelDeletionRequest
    <2> DEFINE call == [Call(op, "writeRefusal", u) EXCEPT !.row = d, !.to = to]
    <2>2. call \in RequestRow /\ call.at = "writeRefusal" /\ call.row = d /\ call.to = to
      BY DEF Call, Idle, RequestRow, Operation, Step, DeletionStatus
    <2>3. deletion[d].initiator # None
      BY <2>1 DEF Pending, Inductive, RowsSound
    <2>4. Sound(call)
      BY <2>2, <2>3 DEF Sound, DeletionSound, FindingSound, LinkSound
    <2>5. UNCHANGED rows
      BY <1>11 DEF RejectDeletionRequest, CancelDeletionRequest
    <2> QED BY <2>1, <2>2, <2>4, <2>5, Served
  <1>12. ASSUME NEW r \in Request, WriteRefusal(r) PROVE Inductive'
    <2>1. PICK q \in RequestRow : q = request[r] /\ Sound(q)
      BY InFlightSound
    <2>2. /\ q.row \in Deletion /\ q.to \in {"REJECTED", "CANCELLED"}
          /\ deletion[q.row].initiator # None
      BY <1>12, <2>1 DEF WriteRefusal, Sound, DeletionSound
    <2>3. deletion' = [deletion EXCEPT ![q.row] = [deletion[q.row] EXCEPT !.status = q.to]]
      BY <1>12, <2>1 DEF WriteRefusal
    <2>4. Keeps /\ RowsHold'
      BY <1>12, <2>2, <2>3, DeletionMoved DEF WriteRefusal
    <2> QED BY <1>12, <2>4, Ended DEF WriteRefusal
  <1>13. ASSUME NEW r \in Request, CompleteDeletionRequest(r) PROVE Inductive'
    <2>1. PICK d \in Deletion :
            /\ deletion[d].status = "APPROVED"
            /\ Serve(r, [Call("complete", "eraseNext", None) EXCEPT
                           !.row = d, !.todo = {a \in Covered(d) : Erasable(a)}])
      BY <1>13 DEF CompleteDeletionRequest
    <2>2. PICK files \in SUBSET Asset :
            files = {a \in Covered(d) : Erasable(a)} /\ files \subseteq deletion[d].links
      BY DEF Covered, Inductive, Typed, RowsTypeOK, DeletionRow
    <2> DEFINE call == [Call("complete", "eraseNext", None) EXCEPT !.row = d, !.todo = files]
    <2>3. call \in RequestRow /\ call.at = "eraseNext" /\ call.row = d /\ call.todo = files
      BY DEF Call, Idle, RequestRow, Operation, Step
    <2>4. Approved(d)
      BY <2>1 DEF Inductive, RowsSound
    <2>5. Sound(call)
      BY <2>2, <2>3, <2>4 DEF Sound, DeletionSound, FindingSound, LinkSound, CoveredOrCleared
    <2> QED BY <1>13, <2>1, <2>2, <2>3, <2>5, Served DEF CompleteDeletionRequest
  <1>14. ASSUME NEW r \in Request, SkipFlagged(r) PROVE Inductive'
    <2>1. PICK q \in RequestRow : q = request[r] /\ Sound(q)
      BY InFlightSound
    <2> DEFINE call == [q EXCEPT !.todo = @ \ flagged]
    <2>2. Proceed(r, call) /\ q.at = "eraseNext" /\ UNCHANGED rows
      BY <1>14, <2>1 DEF SkipFlagged
    <2>3. /\ call \in RequestRow /\ call.at = q.at /\ call.row = q.row
          /\ call.todo \subseteq q.todo
      BY DEF RequestRow
    <2>4. Sound(call)
      BY <2>1, <2>2, <2>3 DEF Sound, DeletionSound, FindingSound, LinkSound
    <2> QED BY <2>2, <2>3, <2>4, Still, Proceeded
  <1>15. ASSUME NEW r \in Request, EraseObjects(r) PROVE Inductive'
    <2>1. PICK q \in RequestRow : q = request[r] /\ Sound(q)
      BY InFlightSound
    <2>2. PICK a \in q.todo :
            /\ objects' \in Stored(objects, [objects EXCEPT ![a] = @ \ ErasedKeys(a)])
            /\ Proceed(r, [q EXCEPT !.at = "writeDeleted", !.asset = a])
      BY <1>15, <2>1 DEF EraseObjects
    <2>3. q.at = "eraseNext"
      BY <1>15, <2>1 DEF EraseObjects
    <2> DEFINE call == [q EXCEPT !.at = "writeDeleted", !.asset = a]
    <2>4. a \in Asset
      BY <2>2 DEF RequestRow
    <2>5. /\ call \in RequestRow /\ call.at = "writeDeleted" /\ call.row = q.row
          /\ call.todo = q.todo /\ call.asset = a
      BY <2>4 DEF RequestRow, Step
    <2>6. Sound(call)
      BY <2>1, <2>2, <2>3, <2>4, <2>5 DEF Sound, DeletionSound, FindingSound, LinkSound
    <2>7. [objects EXCEPT ![a] = @ \ ErasedKeys(a)] \in [Asset -> SUBSET Key]
      BY KeysTyped, ObjectsTyped
    <2>8. objects' \in [Asset -> SUBSET Key]
      BY <2>2, <2>7, KeysTyped DEF Stored
    <2>9. Keeps /\ RowsHold'
      BY <1>15, <2>8, ObjectsWritten DEF EraseObjects
    <2> QED BY <2>2, <2>5, <2>6, <2>9, Proceeded
  <1>16. ASSUME NEW r \in Request, WriteDeleted(r) PROVE Inductive'
    <2>1. PICK q \in RequestRow : q = request[r] /\ Sound(q)
      BY InFlightSound
    <2>2. PICK a \in Asset : a = q.asset /\ CoveredOrCleared(a, q.row) /\ Approved(q.row)
                             /\ q.row \in Deletion
      BY <1>16, <2>1 DEF WriteDeleted, Sound, DeletionSound
    <2>3. PICK row : row = IF Exists(a)
                             THEN [asset[a] EXCEPT !.gone = TRUE, !.retention = "DELETED"]
                             ELSE asset[a]
      OBVIOUS
    <2>4. asset' = [asset EXCEPT ![a] = row]
      BY <1>16, <2>1, <2>2, <2>3 DEF WriteDeleted
    <2>5. /\ row \in AssetRow
          /\ \/ row = asset[a]
             \/ /\ ~Cleared(a) /\ row.upload # "CLEARED"
                /\ row.replaceable = asset[a].replaceable
      <3>1. PICK old \in AssetRow : old = asset[a]
        BY KeysTyped
      <3>2. CASE Exists(a)
        <4>1. row = [old EXCEPT !.gone = TRUE, !.retention = "DELETED"] /\ old.upload # "CLEARED"
          BY <2>3, <3>1, <3>2 DEF Exists
        <4>2. row \in AssetRow /\ row.upload = old.upload /\ row.replaceable = old.replaceable
          BY <4>1 DEF AssetRow
        <4> QED BY <3>1, <4>1, <4>2 DEF Cleared
      <3>3. CASE ~Exists(a)
        BY <2>3, <3>1, <3>3
      <3> QED BY <3>2, <3>3
    <2>6. UNCHANGED <<objects, flagged, deletion, certificate, case, link, finding>>
      BY <1>16 DEF WriteDeleted
    <2>7. ~Cleared(a) => \E d \in Deletion : a \in deletion[d].links /\ Approved(d)
      BY <2>2 DEF CoveredOrCleared
    <2>8. Keeps /\ RowsHold'
      BY <2>4, <2>5, <2>6, <2>7, FileWritten
    <2> DEFINE call == [q EXCEPT !.at = "eraseNext", !.todo = @ \ {q.asset},
                                 !.done = @ \cup {q.asset}]
    <2>9. Proceed(r, Idle) \/ Proceed(r, call)
      BY <1>16, <2>1 DEF WriteDeleted
    <2>10. CASE Proceed(r, Idle)
      BY <2>8, <2>10, IdleSound, Proceeded
    <2>11. CASE Proceed(r, call)
      <3>1. /\ call \in RequestRow /\ call.at = "eraseNext" /\ call.row = q.row
            /\ call.todo \subseteq q.todo
        BY <2>2 DEF RequestRow, Step
      <3>2. q.at = "writeDeleted"
        BY <1>16, <2>1 DEF WriteDeleted
      <3>3. Sound(call)
        BY <2>1, <3>1, <3>2 DEF Sound, DeletionSound, FindingSound, LinkSound
      <3> QED BY <2>8, <2>11, <3>1, <3>3, Proceeded
    <2> QED BY <2>9, <2>10, <2>11
  <1>17. ASSUME NEW r \in Request, IssueCertificate(r) PROVE Inductive'
    <2>1. PICK q \in RequestRow : q = request[r] /\ Sound(q)
      BY InFlightSound
    <2>2. q.at = "eraseNext" /\ Continue(r, ~certificate[q.row].issued, "writeCompleted")
      BY <1>17, <2>1 DEF IssueCertificate
    <2>3. certificate' \in [Deletion -> [issued : BOOLEAN, manifest : SUBSET Asset]]
      <3>1. PICK new : new = IF certificate[q.row].issued THEN certificate[q.row]
                             ELSE [issued |-> TRUE, manifest |-> Certified(q)]
        OBVIOUS
      <3>2. certificate' = [certificate EXCEPT ![q.row] = new]
        BY <1>17, <2>1, <3>1 DEF IssueCertificate
      <3>3. q.row \in Deletion => new \in [issued : BOOLEAN, manifest : SUBSET Asset]
        BY <3>1 DEF Certified, RequestRow, Inductive, Typed, RowsTypeOK
      <3> QED BY <3>2, <3>3 DEF Inductive, Typed, RowsTypeOK
    <2>4. Keeps /\ RowsHold'
      BY <1>17, <2>3, MinorRows DEF IssueCertificate, Inductive, Typed, RowsTypeOK
    <2> DEFINE call == [q EXCEPT !.at = "writeCompleted"]
    <2>5. Proceed(r, Idle) \/ Proceed(r, call)
      BY <2>1, <2>2 DEF Continue, Proceed
    <2>6. CASE Proceed(r, Idle)
      BY <2>4, <2>6, IdleSound, Proceeded
    <2>7. CASE Proceed(r, call)
      <3>1. call \in RequestRow /\ call.at = "writeCompleted" /\ call.row = q.row
              /\ call.todo = q.todo
        BY DEF RequestRow, Step
      <3>2. Sound(call)
        BY <2>1, <2>2, <3>1 DEF Sound, DeletionSound, FindingSound, LinkSound
      <3> QED BY <2>4, <2>7, <3>1, <3>2, Proceeded
    <2> QED BY <2>5, <2>6, <2>7
  <1>18. ASSUME NEW r \in Request, WriteCompleted(r) PROVE Inductive'
    <2>1. PICK q \in RequestRow : q = request[r] /\ Sound(q)
      BY InFlightSound
    <2>2. q.row \in Deletion /\ Approved(q.row)
      BY <1>18, <2>1 DEF WriteCompleted, Sound, DeletionSound
    <2>3. deletion[q.row].initiator # None
      BY <2>2 DEF Inductive, RowsSound, Approved
    <2>4. deletion' = [deletion EXCEPT ![q.row] = [deletion[q.row] EXCEPT !.status = "COMPLETED"]]
      BY <1>18, <2>1 DEF WriteCompleted
    <2>5. Keeps /\ RowsHold'
      BY <1>18, <2>2, <2>3, <2>4, DeletionMoved DEF WriteCompleted
    <2> QED BY <1>18, <2>5, Ended DEF WriteCompleted
  <1> QED BY <1>1, <1>2, <1>3, <1>4, <1>5, <1>6, <1>7, <1>8, <1>9, <1>10, <1>11, <1>12, <1>13,
             <1>14, <1>15, <1>16, <1>17, <1>18 DEF RetentionNext

-------------------------------------------------------------------------------
(* Holds, cases and findings.                                              *)

LEMMA CasesTyped ==
  ASSUME Inductive
  PROVE  /\ case \in [Case -> CaseRow]
         /\ \A c \in Case, row \in CaseRow : [case EXCEPT ![c] = row] \in [Case -> CaseRow]
  BY DEF Inductive, Typed, RowsTypeOK

LEMMA CaseWritten ==
  ASSUME Inductive, case' \in [Case -> CaseRow],
         UNCHANGED <<asset, objects, flagged, deletion, certificate, link, finding>>
  PROVE  Keeps /\ RowsHold'
  BY MinorRows DEF Inductive, Typed, RowsTypeOK

\* A link of a case names a file.
LEMMA LinkWritten ==
  ASSUME Inductive, NEW l \in Link, NEW row,
         row \in [case : Case \cup {None}, asset : Asset \cup {None}, wrong : BOOLEAN],
         row.case # None => row.asset \in Asset,
         link' = [link EXCEPT ![l] = row],
         UNCHANGED <<asset, objects, flagged, deletion, certificate, case, finding>>
  PROVE  Keeps /\ RowsHold'
  <1>1. RowsTypeOK'
    BY DEF Inductive, Typed, RowsTypeOK
  <1>2. Keeps
    BY DEF Keeps, Approved, CoveredOrCleared, Cleared
  <1>3. \A k \in Link : link'[k].case # None => link'[k].asset \in Asset
    BY DEF Inductive, Typed, RowsTypeOK, RowsSound
  <1>4. RowsSound' /\ ErasedByTwoUsers' /\ FindingNeedsTwoUsers'
    BY <1>3 DEF Inductive, RowsSound, Approved, Cleared, ErasedByTwoUsers, FindingNeedsTwoUsers
  <1> QED BY <1>1, <1>2, <1>4 DEF RowsHold

\* The update of applyHold and of clearHold.
LEMMA HoldWritten ==
  ASSUME Inductive, NEW r \in Request, NEW at, NEW on \in BOOLEAN, WriteHold(r, at, on)
  PROVE  Keeps /\ RowsHold'
  <1>1. PICK a : a = request[r].asset
    OBVIOUS
  <1>2. PICK row : row = IF Exists(a) THEN [asset[a] EXCEPT !.hold = on] ELSE asset[a]
    OBVIOUS
  <1>3. asset' = [asset EXCEPT ![a] = row]
    BY <1>1, <1>2 DEF WriteHold
  <1>4. UNCHANGED <<objects, flagged, deletion, certificate, case, link, finding>>
    BY DEF WriteHold
  <1> QED BY <1>2, <1>3, <1>4, FileHeld

\* A link, and the release of a hold, start with what they name.
LEMMA NamedSound ==
  ASSUME NEW call \in RequestRow,
         \/ call.at = "insertLink" /\ call.asset \in Asset
         \/ call.at = "writeRelease" /\ call.case \in Case
         \/ call.at = "listLinks" /\ call.case \in Case
  PROVE  Sound(call)
  BY DEF Sound, DeletionSound, FindingSound, LinkSound

LEMMA HoldsKeep ==
  ASSUME Inductive, HoldNext, UNCHANGED regime
  PROVE  Inductive'
  <1>1. CASE MarkEnteredInError
    <2>1. PICK l \in Link : link' = [link EXCEPT ![l].wrong = TRUE]
      BY <1>1 DEF MarkEnteredInError
    <2>2. PICK old \in [case : Case \cup {None}, asset : Asset \cup {None}, wrong : BOOLEAN] :
            old = link[l]
      BY DEF Inductive, Typed, RowsTypeOK
    <2>3. PICK row : row = [old EXCEPT !.wrong = TRUE]
      OBVIOUS
    <2>4. /\ row \in [case : Case \cup {None}, asset : Asset \cup {None}, wrong : BOOLEAN]
          /\ row.case = old.case /\ row.asset = old.asset
      BY <2>3
    <2>5. old.case # None => old.asset \in Asset
      BY <2>2 DEF Inductive, RowsSound
    <2>6. link' = [link EXCEPT ![l] = row]
      BY <2>1, <2>2, <2>3
    <2>7. Keeps /\ RowsHold'
      BY <1>1, <2>4, <2>5, <2>6, LinkWritten DEF MarkEnteredInError
    <2> QED BY <1>1, <2>7, Unasked DEF MarkEnteredInError, Answer
  <1>2. ASSUME NEW r \in Request, LinkEvidence(r) PROVE Inductive'
    <2>1. PICK u \in User, a \in Asset, c \in Case :
            Serve(r, [Call("link", "insertLink", u) EXCEPT !.asset = a, !.case = c])
      BY <1>2 DEF LinkEvidence
    <2> DEFINE call == [Call("link", "insertLink", u) EXCEPT !.asset = a, !.case = c]
    <2>2. call \in RequestRow /\ call.at = "insertLink" /\ call.asset = a
      BY DEF Call, Idle, RequestRow, Operation, Step
    <2>3. Sound(call)
      BY <2>2, NamedSound
    <2> QED BY <1>2, <2>1, <2>2, <2>3, Served DEF LinkEvidence
  <1>3. ASSUME NEW r \in Request, InsertLink(r) PROVE Inductive'
    <2>1. PICK q \in RequestRow : q = request[r] /\ Sound(q)
      BY InFlightSound
    <2>2. q.asset \in Asset
      BY <1>3, <2>1 DEF InsertLink, Sound, LinkSound
    <2>3. PICK row : row = [NoLink EXCEPT !.case = q.case, !.asset = q.asset]
      OBVIOUS
    <2>4. /\ row \in [case : Case \cup {None}, asset : Asset \cup {None}, wrong : BOOLEAN]
          /\ row.asset = q.asset
      BY <2>2, <2>3 DEF NoLink, RequestRow
    <2>5. PICK l \in Link : link' = link \/ link' = [link EXCEPT ![l] = row]
      BY <1>3, <2>1, <2>3 DEF InsertLink
    <2>6. UNCHANGED <<asset, objects, flagged, deletion, certificate, case, finding, url, late>>
      BY <1>3 DEF InsertLink
    <2>7. Keeps /\ RowsHold'
      <3>1. CASE link' = link
        BY <2>6, <3>1, Still DEF rows
      <3>2. CASE link' = [link EXCEPT ![l] = row]
        BY <2>2, <2>4, <2>6, <3>2, LinkWritten
      <3> QED BY <2>5, <3>1, <3>2
    <2>8. Continue(r, Exists(q.asset), "readCaseHold")
      BY <1>3, <2>1 DEF InsertLink
    <2> QED BY <2>7, <2>8, WentOn DEF Plain, Step
  <1>4. ASSUME NEW r \in Request, ReadCaseHold(r) PROVE Inductive'
    <2>1. PICK ok : Continue(r, ok, "applyHold")
      BY <1>4 DEF ReadCaseHold
    <2> QED BY <1>4, <2>1, Still, WentOn DEF ReadCaseHold, Plain, Step
  <1>5. ASSUME NEW r \in Request, ApplyHold(r) PROVE Inductive'
    BY <1>5, HoldWritten, Ended DEF ApplyHold
  <1>6. ASSUME NEW r \in Request, RequestHoldRelease(r) PROVE Inductive'
    <2>1. PICK u \in User, c \in Case :
            Serve(r, [Call("release", "recordRequest", u) EXCEPT !.case = c])
      BY <1>6 DEF RequestHoldRelease
    <2> DEFINE call == [Call("release", "recordRequest", u) EXCEPT !.case = c]
    <2>2. call \in RequestRow /\ call.at \in Plain
      BY DEF Call, Idle, RequestRow, Operation, Step, Plain
    <2> QED BY <1>6, <2>1, <2>2, Still, ServedPlain DEF RequestHoldRelease
  <1>7. ASSUME NEW r \in Request, RecordReleaseRequest(r) PROVE Inductive'
    <2>1. PICK q \in RequestRow : q = request[r]
      BY InFlightSound
    <2>2. case' = [case EXCEPT ![q.case].asked = q.user]
      BY <1>7, <2>1 DEF RecordReleaseRequest
    <2>3. \A c \in Case : [case[c] EXCEPT !.asked = q.user] \in CaseRow
      BY CasesTyped DEF CaseRow, RequestRow
    <2>4. case' \in [Case -> CaseRow]
      BY <2>2, <2>3, CasesTyped
    <2>5. Keeps /\ RowsHold'
      BY <1>7, <2>4, CaseWritten DEF RecordReleaseRequest
    <2> QED BY <1>7, <2>5, Ended DEF RecordReleaseRequest
  <1>8. ASSUME NEW r \in Request, ReleaseInvestigationHold(r) PROVE Inductive'
    <2>1. PICK u \in User, c \in Case :
            Serve(r, [Call("release", "writeRelease", u) EXCEPT !.case = c])
      BY <1>8 DEF ReleaseInvestigationHold
    <2> DEFINE call == [Call("release", "writeRelease", u) EXCEPT !.case = c]
    <2>2. call \in RequestRow /\ call.at = "writeRelease" /\ call.case = c
      BY DEF Call, Idle, RequestRow, Operation, Step
    <2>3. Sound(call)
      BY <2>2, NamedSound
    <2> QED BY <1>8, <2>1, <2>2, <2>3, Served DEF ReleaseInvestigationHold
  <1>9. ASSUME NEW r \in Request, WriteRelease(r) PROVE Inductive'
    <2>1. PICK q \in RequestRow : q = request[r] /\ Sound(q)
      BY InFlightSound
    <2>2. q.case \in Case
      BY <1>9, <2>1 DEF WriteRelease, Sound, LinkSound
    <2>3. PICK old \in CaseRow : old = case[q.case]
      BY <2>2, CasesTyped
    <2>10. PICK row : row = [old EXCEPT !.hold = FALSE, !.releasedBy = q.user]
      OBVIOUS
    <2>4. row \in CaseRow
      BY <2>10 DEF CaseRow, RequestRow
    <2>5. case' = [case EXCEPT ![q.case] = row]
      BY <1>9, <2>1, <2>3, <2>10 DEF WriteRelease
    <2>6. Keeps /\ RowsHold'
      BY <1>9, <2>2, <2>4, <2>5, CasesTyped, CaseWritten DEF WriteRelease
    <2> DEFINE call == [q EXCEPT !.at = "listLinks"]
    <2>7. Proceed(r, call)
      BY <1>9, <2>1 DEF WriteRelease, Continue, Proceed
    <2>8. call \in RequestRow /\ call.at = "listLinks" /\ call.case = q.case
      BY DEF RequestRow, Step
    <2>9. Sound(call)
      BY <2>2, <2>8, NamedSound
    <2> QED BY <2>6, <2>7, <2>8, <2>9, Proceeded
  <1>10. ASSUME NEW r \in Request, ListLinks(r) PROVE Inductive'
    <2>1. PICK q \in RequestRow : q = request[r] /\ Sound(q)
      BY InFlightSound
    <2>2. q.case \in Case
      BY <1>10, <2>1 DEF ListLinks, Sound, LinkSound
    <2>3. PICK files : files =
            {link[l].asset : l \in {k \in Link : link[k].case = q.case /\ ~link[k].wrong}}
      OBVIOUS
    <2>4. q.case # None
      BY <2>2, NoneAssumption DEF Identifier
    <2>5. files \subseteq Asset
      BY <2>3, <2>4 DEF Inductive, RowsSound
    <2> DEFINE call == [q EXCEPT !.at = "checkOther", !.todo = files]
    <2>6. Proceed(r, call) /\ UNCHANGED rows
      BY <1>10, <2>1, <2>3 DEF ListLinks
    <2>7. call \in RequestRow /\ call.at \in Plain
      <3>1. "checkOther" \in Step /\ "checkOther" \in Plain
        BY DEF Step, Plain
      <3> QED BY <2>5, <3>1 DEF RequestRow
    <2> QED BY <2>6, <2>7, PlainSound, Still, Proceeded
  <1>11. ASSUME NEW r \in Request, CheckOtherCases(r) PROVE Inductive'
    <2>1. PICK q \in RequestRow : q = request[r]
      BY InFlightSound
    <2>2. UNCHANGED rows
      BY <1>11 DEF CheckOtherCases
    <2>3. CASE Finish(r)
      BY <2>2, <2>3, Still, Ended
    <2>4. ASSUME NEW a \in q.todo,
                 Proceed(r, [q EXCEPT !.todo = @ \ {a}, !.asset = a,
                               !.at = IF HeldElsewhere(a, q.case) THEN "checkOther" ELSE "clearHold"])
          PROVE  Inductive'
      <3>1. PICK at \in {"checkOther", "clearHold"} :
              at = IF HeldElsewhere(a, q.case) THEN "checkOther" ELSE "clearHold"
        OBVIOUS
      <3> DEFINE call == [q EXCEPT !.todo = @ \ {a}, !.asset = a, !.at = at]
      <3>2. Proceed(r, call)
        BY <2>4, <3>1
      <3>3. call \in RequestRow /\ call.at \in Plain
        <4>1. at \in Step /\ at \in Plain
          BY DEF Step, Plain
        <4>2. a \in Asset /\ q.todo \ {a} \subseteq Asset
          BY <2>4 DEF RequestRow
        <4> QED BY <4>1, <4>2 DEF RequestRow
      <3> QED BY <2>2, <3>2, <3>3, PlainSound, Still, Proceeded
    <2> QED BY <1>11, <2>1, <2>3, <2>4 DEF CheckOtherCases
  <1>12. ASSUME NEW r \in Request, ClearHold(r) PROVE Inductive'
    <2>1. Keeps /\ RowsHold'
      BY <1>12, HoldWritten DEF ClearHold
    <2>2. PICK ok : Continue(r, ok, "checkOther")
      BY <1>12 DEF ClearHold
    <2> QED BY <2>1, <2>2, WentOn DEF Plain, Step
  <1> QED BY <1>1, <1>2, <1>3, <1>4, <1>5, <1>6, <1>7, <1>8, <1>9, <1>10, <1>11, <1>12
          DEF HoldNext

LEMMA CaseStatuses ==
  CaseStatus = {"DRAFT", "OPEN", "TRIAGE", "UNDER_INVESTIGATION", "AWAITING_INFORMATION",
                "AWAITING_APPROVAL", "CLOSED", "REOPENED"}
  <1>1. \A p \in CaseTransitions :
          p[1] \in {"DRAFT", "OPEN", "TRIAGE", "UNDER_INVESTIGATION", "AWAITING_INFORMATION",
                    "AWAITING_APPROVAL", "CLOSED", "REOPENED"}
    BY DEF CaseTransitions
  <1>2. \A s, t : <<s, t>> \in CaseTransitions => s \in CaseStatus
    <2> SUFFICES ASSUME NEW s, NEW t, <<s, t>> \in CaseTransitions PROVE s \in CaseStatus
      OBVIOUS
    <2>1. PICK p \in CaseTransitions : p = <<s, t>>
      OBVIOUS
    <2>2. p[1] = s
      BY <2>1
    <2> QED BY <2>2 DEF CaseStatus
  <1>3. /\ <<"DRAFT", "OPEN">> \in CaseTransitions
        /\ <<"OPEN", "TRIAGE">> \in CaseTransitions
        /\ <<"TRIAGE", "OPEN">> \in CaseTransitions
        /\ <<"UNDER_INVESTIGATION", "AWAITING_APPROVAL">> \in CaseTransitions
        /\ <<"AWAITING_INFORMATION", "UNDER_INVESTIGATION">> \in CaseTransitions
        /\ <<"AWAITING_APPROVAL", "CLOSED">> \in CaseTransitions
        /\ <<"CLOSED", "REOPENED">> \in CaseTransitions
        /\ <<"REOPENED", "TRIAGE">> \in CaseTransitions
    BY DEF CaseTransitions
  <1> QED BY <1>1, <1>2, <1>3 DEF CaseStatus

\* A move of a case to a status relies on the status being one.
LEMMA CaseAsked ==
  ASSUME Inductive, UNCHANGED regime, UNCHANGED rows, NEW r \in Request, NEW op \in Operation,
         NEW u \in User, NEW c \in Case, NEW to \in CaseStatus,
         Serve(r, [Call(op, "writeCase", u) EXCEPT !.case = c, !.to = to])
  PROVE  Inductive'
  <1> DEFINE call == [Call(op, "writeCase", u) EXCEPT !.case = c, !.to = to]
  <1>1. call \in RequestRow /\ call.at = "writeCase" /\ call.to = to
    BY DEF Call, Idle, RequestRow, Step
  <1>2. Sound(call)
    BY <1>1 DEF Sound, DeletionSound, FindingSound, LinkSound
  <1> QED BY <1>1, <1>2, Served

\* A draft is written where no finding was.
LEMMA DraftWritten ==
  ASSUME Inductive, UNCHANGED regime, UNCHANGED request, NEW f \in Finding, finding[f] = NoFinding,
         NEW u \in User, NEW c \in Case \cup {None},
         finding' = [finding EXCEPT ![f] = NewFinding(c, u)],
         UNCHANGED <<asset, objects, flagged, deletion, certificate, case, link>>
  PROVE  Inductive'
  <1>1. PICK row : row = NewFinding(c, u)
    OBVIOUS
  <1>2. /\ row \in FindingRow /\ row.approver = None
        /\ NoFinding.status = "NONE"
    BY <1>1 DEF NewFinding, NoFinding, FindingRow, FindingStatus
  <1>3. Keeps /\ RowsHold'
    BY <1>1, <1>2, FindingWritten
  <1> QED BY <1>3, Unasked

LEMMA FindingAsked ==
  ASSUME Inductive, UNCHANGED regime, NEW r \in Request, NEW op \in Operation,
         NEW u \in User, NEW f \in Finding, NEW to \in FindingStatus,
         finding[f].status # "NONE",
         to = "APPROVED" => u # finding[f].creator,
         AskFinding(r, op, u, f, to)
  PROVE  Inductive'
  <1>1. PICK c \in Case \cup {None} : c = finding[f].case
    BY DEF Inductive, Typed, RowsTypeOK, FindingRow
  <1> DEFINE call == [Call(op, "writeFinding", u) EXCEPT !.row = f, !.case = c, !.to = to]
  <1>2. Serve(r, call) /\ UNCHANGED rows
    BY <1>1 DEF AskFinding
  <1>3. call \in RequestRow /\ call.at = "writeFinding" /\ call.user = u /\ call.row = f /\ call.to = to
    BY DEF Call, Idle, RequestRow, Step
  <1>4. Sound(call)
    BY <1>3 DEF Sound, DeletionSound, FindingSound, LinkSound
  <1> QED BY <1>2, <1>3, <1>4, Served

LEMMA CasesKeep ==
  ASSUME Inductive, CaseNext, UNCHANGED regime
  PROVE  Inductive'
  <1>1. CASE CreateCase
    <2>1. PICK c \in Case, severe \in BOOLEAN : case' = [case EXCEPT ![c] = NewCase(severe, FALSE)]
      BY <1>1 DEF CreateCase
    <2>2. NewCase(severe, FALSE) \in CaseRow
      BY CaseStatuses DEF NewCase, NoCase, CaseRow
    <2>3. Keeps /\ RowsHold'
      BY <1>1, <2>1, <2>2, CasesTyped, CaseWritten DEF CreateCase
    <2> QED BY <1>1, <2>3, Unasked DEF CreateCase, Answer
  <1>2. CASE EscalateCase \/ AssignInvestigator
    <2>1. case' \in [Case -> CaseRow]
      BY <1>2, CasesTyped DEF EscalateCase, AssignInvestigator, CaseRow
    <2>2. Keeps /\ RowsHold'
      BY <1>2, <2>1, CaseWritten DEF EscalateCase, AssignInvestigator
    <2> QED BY <1>2, <2>2, Unasked DEF EscalateCase, AssignInvestigator, Answer
  <1>3. CASE CreateFinding
    BY <1>3, DraftWritten DEF CreateFinding, Answer
  <1>4. CASE AmendFinding
    <2>1. PICK u \in User, g \in Finding, f \in Finding :
            /\ finding[f] = NoFinding
            /\ finding' = [finding EXCEPT ![f] = NewFinding(finding[g].case, u)]
      BY <1>4 DEF AmendFinding
    <2>2. finding[g].case \in Case \cup {None}
      BY DEF Inductive, Typed, RowsTypeOK, FindingRow
    <2> QED BY <1>4, <2>1, <2>2, DraftWritten DEF AmendFinding, Answer
  <1>5. ASSUME NEW r \in Request, CreateCaseFromReferral(r) PROVE Inductive'
    <2>1. PICK u \in User, severe \in BOOLEAN :
            Serve(r, [Call("refer", "insertCase", u) EXCEPT !.yes = severe])
      BY <1>5 DEF CreateCaseFromReferral
    <2> DEFINE call == [Call("refer", "insertCase", u) EXCEPT !.yes = severe]
    <2>2. call \in RequestRow /\ call.at \in Plain
      BY DEF Call, Idle, RequestRow, Operation, Step, Plain
    <2> QED BY <1>5, <2>1, <2>2, Still, ServedPlain DEF CreateCaseFromReferral
  <1>6. ASSUME NEW r \in Request, InsertReferredCase(r) PROVE Inductive'
    <2>1. PICK q \in RequestRow : q = request[r]
      BY InFlightSound
    <2>2. NewCase(q.yes, TRUE) \in CaseRow
      BY CaseStatuses DEF NewCase, NoCase, CaseRow, RequestRow
    <2>3. PICK c \in Case : case' = case \/ case' = [case EXCEPT ![c] = NewCase(q.yes, TRUE)]
      BY <1>6, <2>1 DEF InsertReferredCase
    <2>4. Keeps /\ RowsHold'
      BY <1>6, <2>2, <2>3, CasesTyped, CaseWritten DEF InsertReferredCase
    <2> QED BY <1>6, <2>4, Ended DEF InsertReferredCase
  <1>7. ASSUME NEW r \in Request, NEW op \in Operation, NEW to \in CaseStatus, AskCase(r, op, to)
        PROVE  Inductive'
    BY <1>7, CaseAsked DEF AskCase
  <1>8. ASSUME NEW r \in Request,
               \/ SubmitCase(r) \/ TriageCase(r) \/ BeginOrResume(r) \/ RequestInformation(r)
               \/ ReopenCase(r)
        PROVE  Inductive'
    BY <1>7, <1>8, CaseStatuses
       DEF SubmitCase, TriageCase, BeginOrResume, RequestInformation, ReopenCase, Operation
  <1>9. ASSUME NEW r \in Request, CheckCase(r) PROVE Inductive'
    <2>1. PICK q \in RequestRow : q = request[r] /\ Sound(q)
      BY InFlightSound
    <2>2. q.to \in CaseStatus
      BY <1>9, <2>1 DEF CheckCase, Sound, FindingSound
    <2> DEFINE call == [q EXCEPT !.at = "writeCase"]
    <2>3. Proceed(r, Idle) \/ Proceed(r, call)
      BY <1>9, <2>1 DEF CheckCase, Continue, Proceed
    <2>4. UNCHANGED rows
      BY <1>9 DEF CheckCase
    <2>5. call \in RequestRow /\ call.at = "writeCase" /\ call.to = q.to
      BY DEF RequestRow, Step
    <2>6. Sound(call)
      BY <2>2, <2>5 DEF Sound, DeletionSound, FindingSound, LinkSound
    <2> QED BY <2>3, <2>4, <2>5, <2>6, IdleSound, Still, Proceeded
  <1>10. ASSUME NEW r \in Request, WriteCase(r) PROVE Inductive'
    <2>1. PICK q \in RequestRow : q = request[r] /\ Sound(q)
      BY InFlightSound
    <2>2. q.to \in CaseStatus
      BY <1>10, <2>1 DEF WriteCase, Sound, FindingSound
    <2>3. PICK referral \in BOOLEAN : referral = (case[q.case].referral /\ q.to # "CLOSED")
      OBVIOUS
    <2>4. PICK by : by = IF q.to = "CLOSED" THEN q.user ELSE case[q.case].closedBy
      OBVIOUS
    <2>5. PICK old, row : /\ old = case[q.case]
                          /\ row = [old EXCEPT !.status = q.to, !.referral = referral, !.closedBy = by]
      OBVIOUS
    <2>6. case' = [case EXCEPT ![q.case] = row]
      BY <1>10, <2>1, <2>3, <2>4, <2>5 DEF WriteCase
    <2>7. q.case \in Case => row \in CaseRow
      <3>1. q.case \in Case => old \in CaseRow /\ by \in User \cup {None}
        BY <2>4, <2>5, CasesTyped DEF CaseRow, RequestRow
      <3> QED BY <2>2, <2>5, <3>1 DEF CaseRow
    <2>8. case' \in [Case -> CaseRow]
      BY <2>6, <2>7, CasesTyped
    <2>9. Keeps /\ RowsHold'
      BY <1>10, <2>8, CaseWritten DEF WriteCase
    <2> QED BY <1>10, <2>9, Ended DEF WriteCase
  <1>11. ASSUME NEW r \in Request, CloseCase(r) PROVE Inductive'
    <2>1. "close" \in Operation /\ "CLOSED" \in CaseStatus
      BY CaseStatuses DEF Operation
    <2> QED BY <1>11, <2>1, CaseAsked DEF CloseCase
  <1>12. ASSUME NEW r \in Request, SubmitFinding(r) PROVE Inductive'
    BY <1>12, FindingAsked DEF SubmitFinding, Operation, FindingStatus
  <1>13. ASSUME NEW r \in Request, ApproveFinding(r) PROVE Inductive'
    BY <1>13, FindingAsked DEF ApproveFinding, Separate, Operation, FindingStatus
  <1>14. ASSUME NEW r \in Request, ReturnFinding(r) PROVE Inductive'
    BY <1>14, FindingAsked DEF ReturnFinding, Operation, FindingStatus
  <1>15. ASSUME NEW r \in Request, WriteFinding(r) PROVE Inductive'
    <2>1. PICK q \in RequestRow : q = request[r] /\ Sound(q)
      BY InFlightSound
    <2>2. /\ q.row \in Finding /\ finding[q.row].status # "NONE" /\ q.to \in FindingStatus
          /\ q.to = "APPROVED" => q.user \in User /\ q.user # finding[q.row].creator
      BY <1>15, <2>1 DEF WriteFinding, Sound, FindingSound
    <2>3. PICK old \in FindingRow : old = finding[q.row]
      BY <2>2 DEF Inductive, Typed, RowsTypeOK
    <2>4. PICK submitter \in User \cup {None} :
            submitter = IF q.to = "SUBMITTED" THEN q.user ELSE old.submitter
      BY DEF FindingRow, RequestRow
    <2>5. PICK approver \in User \cup {None} :
            approver = IF q.to = "APPROVED" THEN q.user ELSE old.approver
      BY DEF FindingRow, RequestRow
    <2>6. PICK row : row = [old EXCEPT !.status = q.to, !.submitter = submitter,
                                       !.approver = approver]
      OBVIOUS
    <2>7. finding' = [finding EXCEPT ![q.row] = row]
      BY <1>15, <2>1, <2>3, <2>4, <2>5, <2>6 DEF WriteFinding
    <2>8. /\ row \in FindingRow /\ row.status = q.to /\ row.creator = old.creator
          /\ row.approver = approver
      BY <2>2, <2>6 DEF FindingRow
    <2>9. approver \notin {old.creator} \ {None}
      BY <2>2, <2>3, <2>5 DEF Inductive, FindingNeedsTwoUsers
    <2>10. row.status # "NONE"
      BY <2>2, <2>8 DEF FindingStatus
    <2>11. UNCHANGED <<asset, objects, flagged, deletion, certificate, case, link>>
      BY <1>15 DEF WriteFinding
    <2>12. Keeps /\ RowsHold'
      BY <2>2, <2>3, <2>7, <2>8, <2>9, <2>10, <2>11, FindingWritten
    <2> DEFINE call == [q EXCEPT !.at = "checkCase", !.to = CaseStatusAfter(q.to)]
    <2>13. Proceed(r, Idle) \/ (CaseStatusAfter(q.to) # "NONE" /\ Proceed(r, call))
      BY <1>15, <2>1 DEF WriteFinding
    <2>14. CASE Proceed(r, Idle)
      BY <2>12, <2>14, IdleSound, Proceeded
    <2>15. CASE CaseStatusAfter(q.to) # "NONE" /\ Proceed(r, call)
      <3>1. PICK to \in CaseStatus : to = CaseStatusAfter(q.to)
        BY <2>15, CaseStatuses DEF CaseStatusAfter
      <3>2. call \in RequestRow /\ call.at = "checkCase" /\ call.to = to
        BY <3>1 DEF RequestRow, Step
      <3>3. Sound(call)
        BY <3>2 DEF Sound, DeletionSound, FindingSound, LinkSound
      <3> QED BY <2>12, <2>15, <3>2, <3>3, Proceeded
    <2> QED BY <2>13, <2>14, <2>15
  <1> QED BY <1>1, <1>2, <1>3, <1>4, <1>5, <1>6, <1>8, <1>9, <1>10, <1>11, <1>12, <1>13,
             <1>14, <1>15 DEF CaseNext

-------------------------------------------------------------------------------
(* The specification.                                                      *)

LEMMA InitialInductive == Init => Inductive
  <1> SUFFICES ASSUME Init PROVE Inductive
    OBVIOUS
  <1>1. /\ NoAsset \in AssetRow /\ NoDeletion \in DeletionRow /\ NoCase \in CaseRow
        /\ NoCertificate \in [issued : BOOLEAN, manifest : SUBSET Asset]
        /\ NoLink \in [case : Case \cup {None}, asset : Asset \cup {None}, wrong : BOOLEAN]
        /\ NoFinding \in FindingRow
    BY DEF NoAsset, AssetRow, Bytes, NoDeletion, DeletionRow, NoCase, CaseRow, NoCertificate,
           NoLink, NoFinding, FindingRow
  <1>2. Typed
    BY <1>1, IdleSound DEF Init, Empty, Typed, RowsTypeOK
  <1>3. RowsSound /\ ErasedByTwoUsers /\ FindingNeedsTwoUsers
    <2>1. /\ NoDeletion.approver = None /\ NoDeletion.status = "NONE"
          /\ ~NoAsset.gone /\ NoLink.case = None /\ NoFinding.approver = None
      BY DEF NoDeletion, NoAsset, NoLink, NoFinding
    <2> QED BY <2>1 DEF Init, Empty, RowsSound, Approved, Cleared, ErasedByTwoUsers,
                        FindingNeedsTwoUsers
  <1>4. \A r \in Request : Sound(request[r])
    BY IdleSound DEF Init, Empty
  <1> QED BY <1>2, <1>3, <1>4 DEF Inductive

LEMMA StepKeeps == Inductive /\ [Next]_vars => Inductive'
  <1> SUFFICES ASSUME Inductive, [Next]_vars PROVE Inductive'
    OBVIOUS
  <1>1. CASE UNCHANGED vars
    BY <1>1, Still, Unasked DEF vars
  <1>2. ASSUME NEW r \in Request, Crash(r), UNCHANGED regime PROVE Inductive'
    BY <1>2, Still, Ended DEF Crash
  <1> QED BY <1>1, <1>2, MediaKeeps, RetentionKeeps, HoldsKeep, CasesKeep DEF Next

LEMMA AlwaysInductive == Spec => []Inductive
  BY InitialInductive, StepKeeps, PTL DEF Spec

\* Only uploads straight into the bucket deal in URLs.
MediaKeepsUrls(r) ==
  \/ UploadMediaAsset(r) \/ UploadEvidence(r) \/ InsertAsset(r)
  \/ ConfirmUpload(r) \/ MarkProcessing(r) \/ MarkFailed(r)
  \/ ProcessObject(r) \/ MarkReady(r)
  \/ CleanupFailedUploads(r) \/ DeleteStaleObject(r) \/ DeleteStaleRow(r)
  \/ DeleteReplaceable(r) \/ MarkGone(r) \/ RemoveObjects(r)

LEMMA UrlsLeft ==
  ASSUME \/ \E r \in Request : MediaKeepsUrls(r) \/ Crash(r)
         \/ RetentionNext \/ HoldNext \/ CaseNext
  PROVE  UNCHANGED <<url, late>>
  <1>1. ASSUME NEW r \in Request, MediaKeepsUrls(r) PROVE UNCHANGED <<url, late>>
    BY <1>1 DEF MediaKeepsUrls, UploadMediaAsset, UploadEvidence, InsertAsset, ConfirmUpload,
                MarkProcessing, MarkFailed, WriteUpload, ProcessObject, ReadObject, StoreFinal,
                DropUpload, FailAfterStore, MarkReady, CleanupFailedUploads, DeleteStaleObject,
                DeleteStaleRow, DeleteReplaceable, MarkGone, RemoveObjects, rows
  <1>2. CASE RetentionNext
    BY <1>2 DEF RetentionNext, SetLegalHold, SetInvestigationHold, FlagAsset, MoveAssetsToArchive,
           RecoveryElapses, CreateDeletionRequest, InsertDeletion, ApproveDeletionRequest,
           WriteApproval, MarkPendingDeletion, RejectDeletionRequest, CancelDeletionRequest,
           WriteRefusal, CompleteDeletionRequest, SkipFlagged, EraseObjects, WriteDeleted,
           IssueCertificate, WriteCompleted, rows
  <1>3. CASE HoldNext
    BY <1>3 DEF HoldNext, MarkEnteredInError, LinkEvidence, InsertLink, ReadCaseHold, WriteHold,
           ApplyHold, RequestHoldRelease, RecordReleaseRequest, ReleaseInvestigationHold,
           WriteRelease, ListLinks, CheckOtherCases, ClearHold, rows
  <1>4. CASE CaseNext
    BY <1>4 DEF CaseNext, CreateCase, EscalateCase, AssignInvestigator, CreateFinding, AmendFinding,
           CreateCaseFromReferral, InsertReferredCase, AskCase, SubmitCase, TriageCase,
           BeginOrResume, RequestInformation, ReopenCase, CheckCase, WriteCase, CloseCase,
           AskFinding, SubmitFinding, ApproveFinding, ReturnFinding, WriteFinding, rows
  <1> QED BY <1>1, <1>2, <1>3, <1>4 DEF Crash, rows

LEMMA UrlsTyped ==
  ASSUME url \subseteq Asset, late \subseteq Asset, [Next]_vars
  PROVE  url' \subseteq Asset /\ late' \subseteq Asset
  <1>1. CASE InitiatePresignedUpload \/ ObjectArrives \/ UploadUrlExpires
    BY <1>1 DEF InitiatePresignedUpload, ObjectArrives, UploadUrlExpires
  <1>2. CASE UNCHANGED <<url, late>>
    BY <1>2
  <1> QED BY <1>1, <1>2, UrlsLeft DEF Next, MediaNext, MediaKeepsUrls, ProcessObject, rows, vars

LEMMA AlwaysUrlsTyped == Spec => [](url \subseteq Asset /\ late \subseteq Asset)
  <1> DEFINE UrlsOfFiles == url \subseteq Asset /\ late \subseteq Asset
  <1>1. Init => UrlsOfFiles
    BY DEF Init, Empty
  <1>2. UrlsOfFiles /\ [Next]_vars => UrlsOfFiles'
    BY UrlsTyped
  <1> QED BY <1>1, <1>2, PTL DEF Spec

\* Every row and every request in flight keeps its shape, in every state of the handlers
\* of the media, retention, hold and investigation repositories.
THEOREM TypeCorrect == Spec => []TypeOK
  <1>1. Inductive /\ url \subseteq Asset /\ late \subseteq Asset => TypeOK
    BY DEF Inductive, Typed, TypeOK
  <1> QED BY <1>1, AlwaysInductive, AlwaysUrlsTyped, PTL

\* completeDeletionRequest and deleteReplaceableMediaAsset: for any number of
\* administrators, files and deletion requests, and with processes dying between any two
\* statements, a file that is not routine is gone only under a deletion request that
\* covers it and that another user than its initiator has approved.
THEOREM ErasureTakesTwoUsers == Spec => []ErasedByTwoUsers
  <1>1. Inductive => ErasedByTwoUsers
    BY DEF Inductive
  <1> QED BY <1>1, AlwaysInductive, PTL

\* approveInvestigationFinding: whatever submissions, returns and approvals cross, the
\* approver on record of a finding is not its author.
THEOREM ApprovalTakesTwoUsers == Spec => []FindingNeedsTwoUsers
  <1>1. Inductive => FindingNeedsTwoUsers
    BY DEF Inductive
  <1> QED BY <1>1, AlwaysInductive, PTL

-------------------------------------------------------------------------------
(* Which URLs are valid matters only to the PUTs and to what is cleared    *)
(* away: what follows is proved of the steps that change anything else.    *)

tables == <<asset, objects, flagged, deletion, certificate, case, link, finding, late>>
seen == <<regime, tables, request>>

MediaWork ==
  \/ InitiatePresignedUpload \/ ObjectArrives
  \/ \E r \in Request :
       \/ UploadMediaAsset(r) \/ UploadEvidence(r) \/ InsertAsset(r)
       \/ ConfirmUpload(r) \/ MarkProcessing(r) \/ MarkFailed(r)
       \/ ProcessObject(r) \/ MarkReady(r)
       \/ CleanupFailedUploads(r) \/ DeleteStaleObject(r) \/ DeleteStaleRow(r)
       \/ DeleteReplaceable(r) \/ MarkGone(r) \/ RemoveObjects(r)

Work ==
  /\ \/ MediaWork
     \/ RetentionNext
     \/ HoldNext
     \/ CaseNext
     \/ \E r \in Request : Crash(r)
  /\ UNCHANGED regime

LEMMA Works == [Next]_vars => [Work]_seen
  <1>1. MediaNext => MediaWork \/ UploadUrlExpires
    BY DEF MediaNext, MediaWork, ProcessObject
  <1>2. UploadUrlExpires => UNCHANGED <<tables, request>>
    BY DEF UploadUrlExpires, tables
  <1> QED BY <1>1, <1>2 DEF Next, Work, vars, seen, rows, tables

-------------------------------------------------------------------------------
(* What every statement does to its request.                               *)

\* The other requests do not move.
Own(r) == request' = [request EXCEPT ![r] = request'[r]]

\* A request carries on with what it has read ...
Same(n, q) ==
  /\ n.op = q.op /\ n.user = q.user /\ n.asset = q.asset /\ n.case = q.case
  /\ n.row = q.row /\ n.to = q.to /\ n.todo = q.todo /\ n.done = q.done

\* ... to another statement, or ends.
Goes(r, ok, at) ==
  /\ Own(r)
  /\ ok => request'[r].at = at /\ Same(request'[r], request[r])
  /\ ~ok => request'[r] = Idle

LEMMA WentTo ==
  ASSUME Inductive, NEW r \in Request, NEW ok, NEW at, Continue(r, ok, at)
  PROVE  Goes(r, ok, at)
  <1>1. request \in [Request -> RequestRow]
    BY DEF Inductive, Typed
  <1>2. PICK q \in RequestRow : q = request[r]
    BY <1>1
  <1>3. CASE ok
    <2>1. request' = [request EXCEPT ![r] = [q EXCEPT !.at = at]]
      BY <1>1, <1>2, <1>3 DEF Continue
    <2>2. PICK n : n = [q EXCEPT !.at = at]
      OBVIOUS
    <2>3. n.at = at /\ Same(n, q)
      BY <2>2 DEF Same, RequestRow
    <2>4. request' = [request EXCEPT ![r] = n]
      BY <2>1, <2>2
    <2>5. request'[r] = n
      BY <1>1, <2>4
    <2> QED BY <1>2, <1>3, <2>3, <2>4, <2>5 DEF Goes, Own
  <1>4. CASE ~ok
    <2>1. request' = [request EXCEPT ![r] = Idle] /\ request'[r] = Idle
      BY <1>1, <1>4 DEF Continue
    <2> QED BY <1>4, <2>1 DEF Goes, Own
  <1> QED BY <1>3, <1>4

LEMMA Put ==
  ASSUME Inductive, NEW r \in Request, NEW call, Proceed(r, call)
  PROVE  Own(r) /\ request'[r] = call
  <1>1. request'[r] = call
    BY DEF Inductive, Typed, Proceed
  <1> QED BY <1>1 DEF Own, Proceed

LEMMA PutIdle ==
  ASSUME Inductive, NEW r \in Request, Finish(r)
  PROVE  Own(r) /\ request'[r] = Idle
  BY Put DEF Finish

\* A handler starts: where requests are served one at a time, no other is in flight.
Begins(r, op, at) ==
  /\ Own(r)
  /\ request[r] = Idle /\ May(op)
  /\ request'[r].op = op /\ request'[r].at = at

LEMMA Begun ==
  ASSUME Inductive, NEW r \in Request, NEW call, Serve(r, call)
  PROVE  Begins(r, call.op, call.at) /\ request'[r] = call
  <1>1. request'[r] = call
    BY DEF Inductive, Typed, Serve
  <1> QED BY <1>1 DEF Own, Serve, Begins

-------------------------------------------------------------------------------
(* Media.                                                                  *)

LEMMA UploadMediaAssetDoes ==
  ASSUME Inductive, NEW r \in Request, UploadMediaAsset(r)
  PROVE  /\ Begins(r, "upload", "insertAsset")
         /\ request'[r].case = None
         /\ request'[r].asset \in Asset /\ asset[request'[r].asset] = NoAsset
         /\ objects' = [objects EXCEPT ![request'[r].asset] = @ \cup {r}]
         /\ UNCHANGED <<asset, flagged, deletion, certificate, case, link, finding>>
  <1>1. PICK u \in User, a \in Asset, replaceable \in BOOLEAN :
          /\ asset[a] = NoAsset
          /\ Serve(r, [Call("upload", "insertAsset", u) EXCEPT !.asset = a, !.yes = replaceable])
          /\ objects' = [objects EXCEPT ![a] = @ \cup {r}]
    BY DEF UploadMediaAsset
  <1> DEFINE call == [Call("upload", "insertAsset", u) EXCEPT !.asset = a, !.yes = replaceable]
  <1>2. call.op = "upload" /\ call.at = "insertAsset" /\ call.asset = a /\ call.case = None
    BY DEF Call, Idle
  <1>3. Begins(r, call.op, call.at) /\ request'[r] = call
    BY <1>1, Begun
  <1> HIDE DEF call
  <1> QED BY <1>1, <1>2, <1>3 DEF UploadMediaAsset

LEMMA UploadEvidenceDoes ==
  ASSUME Inductive, NEW r \in Request, UploadEvidence(r)
  PROVE  /\ Begins(r, "uploadEvidence", "insertAsset")
         /\ request'[r].case \in Case /\ case[request'[r].case] # NoCase
         /\ request'[r].asset \in Asset /\ asset[request'[r].asset] = NoAsset
         /\ objects' = [objects EXCEPT ![request'[r].asset] = @ \cup {r}]
         /\ UNCHANGED <<asset, flagged, deletion, certificate, case, link, finding>>
  <1>1. PICK u \in User, a \in Asset, c \in Case :
          /\ asset[a] = NoAsset /\ case[c] # NoCase
          /\ Serve(r, [Call("uploadEvidence", "insertAsset", u) EXCEPT !.asset = a, !.case = c])
          /\ objects' = [objects EXCEPT ![a] = @ \cup {r}]
    BY DEF UploadEvidence
  <1> DEFINE call == [Call("uploadEvidence", "insertAsset", u) EXCEPT !.asset = a, !.case = c]
  <1>2. call.op = "uploadEvidence" /\ call.at = "insertAsset" /\ call.asset = a /\ call.case = c
    BY DEF Call, Idle
  <1>3. Begins(r, call.op, call.at) /\ request'[r] = call
    BY <1>1, Begun
  <1> HIDE DEF call
  <1> QED BY <1>1, <1>2, <1>3 DEF UploadEvidence

LEMMA ConfirmUploadDoes ==
  ASSUME Inductive, NEW r \in Request, ConfirmUpload(r)
  PROVE  /\ Begins(r, "confirm", "markProcessing") \/ Begins(r, "confirm", "markFailed")
         /\ request'[r].case = None
         /\ request'[r].asset \in Asset /\ asset[request'[r].asset].upload = "PENDING"
         /\ UNCHANGED rows
  <1>1. PICK u \in User, a \in Asset :
          /\ asset[a].upload = "PENDING"
          /\ Serve(r, [Call("confirm", IF asset[a].key \in objects[a] THEN "markProcessing"
                                       ELSE "markFailed", u) EXCEPT !.asset = a])
    BY DEF ConfirmUpload
  <1>2. PICK at \in {"markProcessing", "markFailed"} :
          at = IF asset[a].key \in objects[a] THEN "markProcessing" ELSE "markFailed"
    OBVIOUS
  <1> DEFINE call == [Call("confirm", at, u) EXCEPT !.asset = a]
  <1>3. call.op = "confirm" /\ call.at = at /\ call.asset = a /\ call.case = None
    BY DEF Call, Idle
  <1>4. Begins(r, call.op, call.at) /\ request'[r] = call
    BY <1>1, <1>2, Begun
  <1> HIDE DEF call
  <1> QED BY <1>1, <1>2, <1>3, <1>4 DEF ConfirmUpload

LEMMA CleanupDoes ==
  ASSUME Inductive, NEW r \in Request, CleanupFailedUploads(r)
  PROVE  /\ Begins(r, "cleanup", "deleteStale")
         /\ request'[r].case = None
         /\ request'[r].todo \subseteq {a \in Asset : IsStale(a)}
         /\ UNCHANGED rows
  <1>1. PICK old \in SUBSET {a \in Asset : IsStale(a)} :
          Serve(r, [Call("cleanup", "deleteStale", None) EXCEPT !.todo = old])
    BY DEF CleanupFailedUploads
  <1> DEFINE call == [Call("cleanup", "deleteStale", None) EXCEPT !.todo = old]
  <1>2. call.op = "cleanup" /\ call.at = "deleteStale" /\ call.todo = old /\ call.case = None
    BY DEF Call, Idle
  <1>3. Begins(r, call.op, call.at) /\ request'[r] = call
    BY <1>1, Begun
  <1> HIDE DEF call
  <1> QED BY <1>1, <1>2, <1>3 DEF CleanupFailedUploads

LEMMA DeleteReplaceableDoes ==
  ASSUME Inductive, NEW r \in Request, DeleteReplaceable(r)
  PROVE  LET a == request'[r].asset IN
         /\ \/ Begins(r, "replace", "removeObjects") /\ asset[a].gone
            \/ Begins(r, "replace", "markGone")
         /\ request'[r].case = None
         /\ a \in Asset /\ Exists(a) /\ asset[a].replaceable /\ Unheld(a)
         /\ UNCHANGED rows
  <1>1. PICK u \in User, a \in Asset :
          /\ Exists(a) /\ asset[a].replaceable /\ ~asset[a].legal /\ ~asset[a].hold
          /\ Serve(r, [Call("replace", IF asset[a].gone THEN "removeObjects" ELSE "markGone", u)
                         EXCEPT !.asset = a])
    BY DEF DeleteReplaceable
  <1>2. PICK at \in {"removeObjects", "markGone"} :
          at = IF asset[a].gone THEN "removeObjects" ELSE "markGone"
    OBVIOUS
  <1> DEFINE call == [Call("replace", at, u) EXCEPT !.asset = a]
  <1>3. call.op = "replace" /\ call.at = at /\ call.asset = a /\ call.case = None
    BY DEF Call, Idle
  <1>4. Begins(r, call.op, call.at) /\ request'[r] = call
    BY <1>1, <1>2, Begun
  <1> HIDE DEF call
  <1> QED BY <1>1, <1>2, <1>3, <1>4 DEF DeleteReplaceable, Unheld

\* A row of a file keeps what is not about its upload, its object or its destruction.
SameHold(n, o) == n.hold = o.hold /\ n.legal = o.legal /\ n.replaceable = o.replaceable
SameObjects(n, o) == n.bytes = o.bytes /\ n.key = o.key /\ n.original = o.original
SameFile(n, o) ==
  SameHold(n, o) /\ SameObjects(n, o) /\ n.upload = o.upload /\ n.gone = o.gone

LEMMA FilesTyped ==
  ASSUME Inductive
  PROVE  asset \in [Asset -> AssetRow] /\ request \in [Request -> RequestRow]
  BY DEF Inductive, Typed, RowsTypeOK

LEMMA NewFields ==
  ASSUME NEW status, NEW replaceable, NEW key
  PROVE  LET n == NewAsset(status, replaceable, key) IN
         /\ n.upload = status /\ n.replaceable = replaceable /\ n.key = key
         /\ ~n.gone /\ ~n.hold /\ ~n.legal /\ ~n.original /\ n.bytes = "ASIS"
  BY DEF NewAsset, NoAsset

LEMMA InitiateDoes ==
  ASSUME Inductive, InitiatePresignedUpload
  PROVE  /\ May("initiate") /\ UNCHANGED request
         /\ \E a \in Asset :
              /\ asset[a] = NoAsset
              /\ asset'[a].upload = "PENDING" /\ asset'[a].key = "upload"
              /\ ~asset'[a].gone /\ ~asset'[a].original /\ ~asset'[a].hold
              /\ \A b \in Asset \ {a} : asset'[b] = asset[b]
         /\ UNCHANGED <<objects, flagged, deletion, certificate, case, link, finding>>
  <1>1. PICK a \in Asset, replaceable \in BOOLEAN, bytes \in Bytes :
          /\ asset[a] = NoAsset
          /\ asset' = [asset EXCEPT ![a] = [NewAsset("PENDING", replaceable, "upload")
                                              EXCEPT !.bytes = bytes]]
    BY DEF InitiatePresignedUpload
  <1>2. PICK row : row = [NewAsset("PENDING", replaceable, "upload") EXCEPT !.bytes = bytes]
    OBVIOUS
  <1>3. row.upload = "PENDING" /\ row.key = "upload" /\ ~row.gone /\ ~row.original /\ ~row.hold
    BY <1>2 DEF NewAsset, NoAsset
  <1>4. asset' = [asset EXCEPT ![a] = row]
    BY <1>1, <1>2
  <1>5. asset'[a] = row /\ \A b \in Asset \ {a} : asset'[b] = asset[b]
    BY <1>4, FilesTyped
  <1> QED BY <1>1, <1>3, <1>5 DEF InitiatePresignedUpload, Answer

LEMMA InsertAssetDoes ==
  ASSUME Inductive, NEW r \in Request, InsertAsset(r)
  PROVE  LET q == request[r] IN
         /\ q.at = "insertAsset" /\ Goes(r, q.op = "uploadEvidence", "insertLink")
         /\ \A a \in Asset : asset'[a] = IF a = q.asset /\ asset[a] = NoAsset
                                         THEN NewAsset("READY", q.yes, r) ELSE asset[a]
         /\ UNCHANGED <<objects, flagged, deletion, certificate, case, link, finding>>
  <1>1. Goes(r, request[r].op = "uploadEvidence", "insertLink")
    BY WentTo DEF InsertAsset
  <1> QED BY <1>1, FilesTyped DEF InsertAsset

LEMMA WriteUploadDoes ==
  ASSUME Inductive, NEW r \in Request, NEW at, NEW status, NEW next,
         WriteUpload(r, at, status, next)
  PROVE  LET q == request[r] IN
         /\ q.at = at /\ Goes(r, Exists(q.asset) /\ next # "end", next)
         /\ \A a \in Asset :
              IF a = q.asset /\ Exists(a)
              THEN /\ asset'[a].upload = status /\ asset'[a].gone = asset[a].gone
                   /\ SameHold(asset'[a], asset[a]) /\ SameObjects(asset'[a], asset[a])
              ELSE asset'[a] = asset[a]
         /\ UNCHANGED <<objects, flagged, deletion, certificate, case, link, finding>>
  <1>1. Goes(r, Exists(request[r].asset) /\ next # "end", next)
    BY WentTo DEF WriteUpload
  <1>2. ASSUME NEW a \in Asset
        PROVE  IF a = request[r].asset /\ Exists(a)
               THEN /\ asset'[a].upload = status /\ asset'[a].gone = asset[a].gone
                    /\ SameHold(asset'[a], asset[a]) /\ SameObjects(asset'[a], asset[a])
               ELSE asset'[a] = asset[a]
    <2>1. PICK old \in AssetRow : old = asset[a]
      BY FilesTyped
    <2>2. asset'[a] = IF a = request[r].asset /\ Exists(a)
                      THEN [old EXCEPT !.upload = status] ELSE old
      BY <2>1, FilesTyped DEF WriteUpload
    <2> QED BY <2>1, <2>2 DEF AssetRow, SameHold, SameObjects
  <1> QED BY <1>1, <1>2 DEF WriteUpload

LEMMA ReadObjectDoes ==
  ASSUME Inductive, NEW r \in Request, ReadObject(r)
  PROVE  LET q == request[r] IN
         /\ q.at = "processObject"
         /\ \/ /\ "upload" \in objects[q.asset]
               /\ \/ asset[q.asset].bytes = "ASIS" /\ Goes(r, TRUE, "markReady")
                  \/ asset[q.asset].bytes # "ASIS" /\ Goes(r, TRUE, "storeFinal")
            \/ Goes(r, TRUE, "markFailed")
         /\ UNCHANGED <<asset, objects, flagged, deletion, certificate, case, link, finding>>
  BY WentTo DEF ReadObject, rows

LEMMA StoreFinalDoes ==
  ASSUME Inductive, NEW r \in Request, StoreFinal(r)
  PROVE  LET q == request[r] IN
         /\ q.at = "storeFinal"
         /\ \/ /\ \A a \in Asset :
                    objects'[a] = IF a = q.asset THEN objects[a] \cup {r} ELSE objects[a]
               /\ \/ asset[q.asset].bytes = "COMPRESSED" /\ Goes(r, TRUE, "dropUpload")
                  \/ asset[q.asset].bytes # "COMPRESSED" /\ Goes(r, TRUE, "markReady")
            \/ regime.faults /\ Goes(r, TRUE, "markFailed") /\ UNCHANGED objects
         /\ UNCHANGED <<asset, flagged, deletion, certificate, case, link, finding>>
  BY WentTo, KeysTyped DEF StoreFinal

LEMMA DropUploadDoes ==
  ASSUME Inductive, NEW r \in Request, DropUpload(r)
  PROVE  LET q == request[r] IN
         /\ q.at = "dropUpload" /\ Goes(r, TRUE, "markReady")
         /\ \/ \A a \in Asset :
                 objects'[a] = IF a = q.asset THEN objects[a] \ {"upload"} ELSE objects[a]
            \/ regime.faults /\ UNCHANGED objects
         /\ UNCHANGED <<asset, flagged, deletion, certificate, case, link, finding>>
  BY WentTo, KeysTyped DEF DropUpload, Stored

LEMMA FailAfterStoreDoes ==
  ASSUME Inductive, NEW r \in Request, FailAfterStore(r)
  PROVE  /\ request[r].at = "markReady" /\ Goes(r, TRUE, "markFailed") /\ regime.faults
         /\ UNCHANGED <<asset, objects, flagged, deletion, certificate, case, link, finding>>
  BY WentTo DEF FailAfterStore, rows

Processing == {"processObject", "storeFinal", "dropUpload", "markReady"}

LEMMA ProcessObjectDoes ==
  ASSUME Inductive, NEW r \in Request, ProcessObject(r)
  PROVE  LET q == request[r] IN
         /\ q.at \in Processing
         /\ \E at \in {"storeFinal", "dropUpload", "markReady", "markFailed"} : Goes(r, TRUE, at)
         /\ UNCHANGED <<asset, flagged, deletion, certificate, case, link, finding>>
  BY ReadObjectDoes, StoreFinalDoes, DropUploadDoes, FailAfterStoreDoes
     DEF ProcessObject, Processing

LEMMA MarkReadyDoes ==
  ASSUME Inductive, NEW r \in Request, MarkReady(r)
  PROVE  LET q == request[r] IN
         /\ q.at = "markReady" /\ Own(r) /\ request'[r] = Idle
         /\ \A a \in Asset :
              IF a = q.asset /\ Exists(a)
              THEN /\ asset'[a].upload = "READY" /\ asset'[a].gone = asset[a].gone
                   /\ SameHold(asset'[a], asset[a]) /\ asset'[a].bytes = asset[a].bytes
                   /\ asset'[a].key = FinalKey(a, r)
                   /\ asset'[a].original = (asset[a].bytes = "BOTH")
              ELSE asset'[a] = asset[a]
         /\ UNCHANGED <<objects, flagged, deletion, certificate, case, link, finding>>
  <1>1. ASSUME NEW a \in Asset
        PROVE  IF a = request[r].asset /\ Exists(a)
               THEN /\ asset'[a].upload = "READY" /\ asset'[a].gone = asset[a].gone
                    /\ SameHold(asset'[a], asset[a]) /\ asset'[a].bytes = asset[a].bytes
                    /\ asset'[a].key = FinalKey(a, r)
                    /\ asset'[a].original = (asset[a].bytes = "BOTH")
               ELSE asset'[a] = asset[a]
    <2>1. PICK old \in AssetRow : old = asset[a]
      BY FilesTyped
    <2>2. asset'[a] = IF a # request[r].asset \/ ~Exists(a) THEN old ELSE
            [old EXCEPT !.upload = "READY", !.original = (old.bytes = "BOTH"),
                        !.key = IF old.bytes = "ASIS" THEN "upload" ELSE r]
      BY <2>1, FilesTyped DEF MarkReady
    <2> QED BY <2>1, <2>2 DEF AssetRow, SameHold, FinalKey
  <1> QED BY <1>1, PutIdle DEF MarkReady

LEMMA DeleteStaleObjectDoes ==
  ASSUME Inductive, NEW r \in Request, DeleteStaleObject(r)
  PROVE  LET q == request[r] IN LET n == request'[r] IN
         /\ q.at = "deleteStale" /\ Own(r)
         /\ n.at = "deleteRow" /\ n.asset \in q.todo /\ n.todo \subseteq q.todo
         /\ n.case = q.case
         /\ objects' \in {objects, [objects EXCEPT ![n.asset] = @ \ {asset[n.asset].key}]}
         /\ UNCHANGED <<asset, flagged, deletion, certificate, case, link, finding>>
  <1>1. PICK q \in RequestRow : q = request[r]
    BY FilesTyped
  <1>2. PICK a \in q.todo :
          /\ objects' \in Stored(objects, [objects EXCEPT ![a] = @ \ {asset[a].key}])
          /\ Proceed(r, [q EXCEPT !.at = "deleteRow", !.asset = a, !.todo = @ \ {a}])
    BY <1>1 DEF DeleteStaleObject
  <1>3. PICK n : n = [q EXCEPT !.at = "deleteRow", !.asset = a, !.todo = @ \ {a}]
    OBVIOUS
  <1>4. n.at = "deleteRow" /\ n.asset = a /\ n.todo \subseteq q.todo /\ n.case = q.case
    BY <1>3 DEF RequestRow
  <1>5. Own(r) /\ request'[r] = n
    BY <1>2, <1>3, Put
  <1> QED BY <1>1, <1>2, <1>4, <1>5 DEF DeleteStaleObject, Stored

LEMMA DeleteStaleRowDoes ==
  ASSUME Inductive, NEW r \in Request, DeleteStaleRow(r)
  PROVE  LET q == request[r] IN
         LET free == Exists(q.asset) /\ ~Linked(q.asset) IN
         /\ q.at = "deleteRow" /\ Goes(r, free /\ q.todo # {}, "deleteStale")
         /\ \A a \in Asset :
              asset'[a] = IF a = q.asset /\ free THEN [NoAsset EXCEPT !.upload = "CLEARED"]
                          ELSE asset[a]
         /\ \A d \in Deletion :
              /\ deletion'[d].links = IF free THEN deletion[d].links \ {q.asset}
                                      ELSE deletion[d].links
              /\ deletion'[d].status = deletion[d].status
              /\ deletion'[d].initiator = deletion[d].initiator
              /\ deletion'[d].approver = deletion[d].approver
         /\ flagged' \subseteq flagged
         /\ UNCHANGED <<objects, certificate, case, link, finding>>
  <1> DEFINE q == request[r]
  <1> DEFINE free == Exists(q.asset) /\ ~Linked(q.asset)
  <1>1. Goes(r, free /\ q.todo # {}, "deleteStale")
    BY WentTo DEF DeleteStaleRow
  <1>2. ASSUME NEW d \in Deletion
        PROVE  /\ deletion'[d].links = IF free THEN deletion[d].links \ {q.asset}
                                       ELSE deletion[d].links
               /\ deletion'[d].status = deletion[d].status
               /\ deletion'[d].initiator = deletion[d].initiator
               /\ deletion'[d].approver = deletion[d].approver
    <2>1. PICK row \in DeletionRow : row = deletion[d]
      BY DEF Inductive, Typed, RowsTypeOK
    <2>2. deletion'[d] = IF free THEN [row EXCEPT !.links = @ \ {q.asset}] ELSE row
      BY <2>1 DEF DeleteStaleRow
    <2> QED BY <2>1, <2>2 DEF DeletionRow
  <1>3. \A a \in Asset :
          asset'[a] = IF a = q.asset /\ free THEN [NoAsset EXCEPT !.upload = "CLEARED"]
                      ELSE asset[a]
    BY FilesTyped DEF DeleteStaleRow
  <1> QED BY <1>1, <1>2, <1>3 DEF DeleteStaleRow

\* The row says that its object is gone.
GoneFile(n, o) ==
  SameHold(n, o) /\ SameObjects(n, o) /\ n.upload = o.upload /\ n.gone

LEMMA MarkGoneDoes ==
  ASSUME Inductive, NEW r \in Request, MarkGone(r)
  PROVE  LET q == request[r] IN
         /\ q.at = "markGone" /\ Goes(r, Exists(q.asset), "removeObjects")
         /\ \A a \in Asset : IF a = q.asset /\ Exists(a) THEN GoneFile(asset'[a], asset[a])
                             ELSE asset'[a] = asset[a]
         /\ UNCHANGED <<objects, flagged, deletion, certificate, case, link, finding>>
  <1>1. Goes(r, Exists(request[r].asset), "removeObjects")
    BY WentTo DEF MarkGone
  <1>2. ASSUME NEW a \in Asset
        PROVE  IF a = request[r].asset /\ Exists(a) THEN GoneFile(asset'[a], asset[a])
               ELSE asset'[a] = asset[a]
    <2>1. PICK old \in AssetRow : old = asset[a]
      BY FilesTyped
    <2>2. asset'[a] = IF a = request[r].asset /\ Exists(a)
                      THEN [old EXCEPT !.gone = TRUE, !.retention = "DELETED"] ELSE old
      BY <2>1, FilesTyped DEF MarkGone
    <2> QED BY <2>1, <2>2 DEF AssetRow, SameHold, SameObjects, GoneFile
  <1> QED BY <1>1, <1>2 DEF MarkGone

LEMMA RemoveObjectsDoes ==
  ASSUME Inductive, NEW r \in Request, RemoveObjects(r)
  PROVE  LET q == request[r] IN
         /\ q.at = "removeObjects" /\ Own(r) /\ request'[r] = Idle
         /\ objects' \in {objects, [objects EXCEPT ![q.asset] = @ \ KeysOf(q.asset)]}
         /\ UNCHANGED <<asset, flagged, deletion, certificate, case, link, finding>>
  BY PutIdle DEF RemoveObjects, Stored

-------------------------------------------------------------------------------
(* Retention.                                                              *)

\* A hold set by hand.
LEMMA SetLegalHoldDoes ==
  ASSUME Inductive, SetLegalHold
  PROVE  /\ May("legalHold") /\ UNCHANGED request
         /\ \A a \in Asset : /\ SameObjects(asset'[a], asset[a])
                             /\ asset'[a].upload = asset[a].upload
                             /\ asset'[a].gone = asset[a].gone
                             /\ asset'[a].replaceable = asset[a].replaceable
                             /\ asset'[a].hold = asset[a].hold
                             /\ ~Exists(a) => asset'[a] = asset[a]
         /\ UNCHANGED <<objects, flagged, deletion, certificate, case, link, finding>>
  <1>1. PICK x \in Asset, on \in BOOLEAN :
          Exists(x) /\ asset' = [asset EXCEPT ![x].legal = on]
    BY DEF SetLegalHold
  <1>2. ASSUME NEW a \in Asset
        PROVE  /\ SameObjects(asset'[a], asset[a])
               /\ asset'[a].upload = asset[a].upload
               /\ asset'[a].gone = asset[a].gone
               /\ asset'[a].replaceable = asset[a].replaceable
               /\ asset'[a].hold = asset[a].hold
               /\ ~Exists(a) => asset'[a] = asset[a]
    <2>1. PICK old \in AssetRow : old = asset[a]
      BY FilesTyped
    <2>2. asset'[a] = IF a = x THEN [old EXCEPT !.legal = on] ELSE old
      BY <1>1, <2>1, FilesTyped
    <2> QED BY <1>1, <2>1, <2>2 DEF AssetRow, SameObjects
  <1> QED BY <1>2 DEF SetLegalHold, Answer

LEMMA SetInvestigationHoldDoes ==
  ASSUME Inductive, SetInvestigationHold
  PROVE  /\ May("manualHold") /\ UNCHANGED request
         /\ \A a \in Asset : /\ SameObjects(asset'[a], asset[a])
                             /\ asset'[a].upload = asset[a].upload
                             /\ asset'[a].gone = asset[a].gone
                             /\ asset'[a].replaceable = asset[a].replaceable
                             /\ asset'[a].legal = asset[a].legal
                             /\ ~Exists(a) => asset'[a] = asset[a]
         /\ UNCHANGED <<objects, flagged, deletion, certificate, case, link, finding>>
  <1>1. PICK x \in Asset, on \in BOOLEAN :
          Exists(x) /\ asset' = [asset EXCEPT ![x].hold = on]
    BY DEF SetInvestigationHold
  <1>2. ASSUME NEW a \in Asset
        PROVE  /\ SameObjects(asset'[a], asset[a])
               /\ asset'[a].upload = asset[a].upload
               /\ asset'[a].gone = asset[a].gone
               /\ asset'[a].replaceable = asset[a].replaceable
               /\ asset'[a].legal = asset[a].legal
               /\ ~Exists(a) => asset'[a] = asset[a]
    <2>1. PICK old \in AssetRow : old = asset[a]
      BY FilesTyped
    <2>2. asset'[a] = IF a = x THEN [old EXCEPT !.hold = on] ELSE old
      BY <1>1, <2>1, FilesTyped
    <2> QED BY <1>1, <2>1, <2>2 DEF AssetRow, SameObjects
  <1> QED BY <1>2 DEF SetInvestigationHold, Answer

LEMMA FlagAssetDoes ==
  ASSUME Inductive, FlagAsset
  PROVE  /\ May("exception") /\ UNCHANGED request
         /\ UNCHANGED <<asset, objects, deletion, certificate, case, link, finding>>
  BY DEF FlagAsset, Answer

\* A change of the retention status only.
RetentionOnly == \A a \in Asset : /\ SameFile(asset'[a], asset[a])
                                  /\ ~Exists(a) => asset'[a] = asset[a]

LEMMA ArchiveDoes ==
  ASSUME Inductive, MoveAssetsToArchive
  PROVE  /\ May("archive") /\ UNCHANGED request /\ RetentionOnly
         /\ UNCHANGED <<objects, flagged, deletion, certificate, case, link, finding>>
  <1>1. PICK files \in SUBSET {a \in Asset : Exists(a)} :
          asset' = [a \in Asset |-> IF a \in files
                      THEN [asset[a] EXCEPT !.retention = "ARCHIVED"] ELSE asset[a]]
    BY DEF MoveAssetsToArchive
  <1>2. ASSUME NEW a \in Asset
        PROVE  SameFile(asset'[a], asset[a]) /\ (~Exists(a) => asset'[a] = asset[a])
    <2>1. PICK old \in AssetRow : old = asset[a]
      BY FilesTyped
    <2>2. asset'[a] = IF a \in files THEN [old EXCEPT !.retention = "ARCHIVED"] ELSE old
      BY <1>1, <2>1
    <2>3. a \in files => Exists(a)
      OBVIOUS
    <2> QED BY <2>1, <2>2, <2>3 DEF AssetRow, SameFile, SameHold, SameObjects
  <1> QED BY <1>2 DEF MoveAssetsToArchive, Answer, RetentionOnly

LEMMA CreateDeletionDoes ==
  ASSUME Inductive, NEW r \in Request, CreateDeletionRequest(r)
  PROVE  /\ Begins(r, "askDeletion", "insertDeletion")
         /\ request'[r].case = None
         /\ request'[r].todo \subseteq {a \in Asset : Ready(a)}
         /\ UNCHANGED rows
  <1>1. PICK u \in User, scope \in SUBSET {a \in Asset : InScope(a)} :
          Serve(r, [Call("askDeletion", "insertDeletion", u)
                      EXCEPT !.todo = {a \in scope : Eligible(a)}])
    BY DEF CreateDeletionRequest
  <1> DEFINE call == [Call("askDeletion", "insertDeletion", u)
                        EXCEPT !.todo = {a \in scope : Eligible(a)}]
  <1>2. /\ call.op = "askDeletion" /\ call.at = "insertDeletion" /\ call.case = None
        /\ call.todo \subseteq {a \in Asset : Ready(a)}
    BY DEF Call, Idle, InScope, Ready
  <1>3. Begins(r, call.op, call.at) /\ request'[r] = call
    BY <1>1, Begun
  <1> HIDE DEF call
  <1> QED BY <1>2, <1>3 DEF CreateDeletionRequest

LEMMA InsertDeletionDoes ==
  ASSUME Inductive, NEW r \in Request, InsertDeletion(r)
  PROVE  LET q == request[r] IN
         /\ q.at = "insertDeletion" /\ Own(r) /\ request'[r] = Idle
         /\ \/ UNCHANGED deletion
            \/ \E d \in Deletion :
                 /\ deletion[d] = NoDeletion
                 /\ deletion' = [deletion EXCEPT ![d] = [NoDeletion EXCEPT
                      !.status = "PENDING_APPROVAL", !.initiator = q.user, !.links = q.todo]]
                 /\ deletion'[d].status = "PENDING_APPROVAL"
                 /\ deletion'[d].links = q.todo
                 /\ \A e \in Deletion \ {d} : deletion'[e] = deletion[e]
                 /\ \A a \in q.todo : Exists(a)
         /\ UNCHANGED <<asset, objects, flagged, certificate, case, link, finding>>
  <1> DEFINE q == request[r]
  <1>1. PICK row : row = [NoDeletion EXCEPT !.status = "PENDING_APPROVAL",
                                            !.initiator = q.user, !.links = q.todo]
    OBVIOUS
  <1>2. row.status = "PENDING_APPROVAL" /\ row.links = q.todo
    BY <1>1 DEF NoDeletion
  <1>3. PICK d \in Deletion :
          /\ deletion[d] = NoDeletion
          /\ deletion' = IF \A a \in q.todo : Exists(a)
                         THEN [deletion EXCEPT ![d] = row] ELSE deletion
    BY <1>1 DEF InsertDeletion
  <1>4. deletion \in [Deletion -> DeletionRow]
    BY DEF Inductive, Typed, RowsTypeOK
  <1>5. CASE \A a \in q.todo : Exists(a)
    <2>1. /\ deletion' = [deletion EXCEPT ![d] = row]
          /\ deletion'[d] = row /\ \A e \in Deletion \ {d} : deletion'[e] = deletion[e]
      BY <1>3, <1>4, <1>5
    <2> QED BY <1>1, <1>2, <1>3, <1>5, <2>1, PutIdle DEF InsertDeletion
  <1> QED BY <1>3, <1>5, PutIdle DEF InsertDeletion

\* The other requests for a deletion, and the files of this one, stay.
DeletionBecomes(d, status) ==
  /\ d \in Deletion => deletion'[d].status = status
  /\ \A e \in Deletion : /\ e # d => deletion'[e] = deletion[e]
                         /\ deletion'[e].links = deletion[e].links

LEMMA ApproveDoes ==
  ASSUME Inductive, NEW r \in Request, ApproveDeletionRequest(r)
  PROVE  /\ Begins(r, "approve", "writeApproval")
         /\ request'[r].case = None
         /\ request'[r].row \in Deletion /\ Pending(request'[r].row)
         /\ UNCHANGED rows
  <1>1. PICK u \in User, d \in Deletion :
          /\ Pending(d)
          /\ Serve(r, [Call("approve", "writeApproval", u)
                         EXCEPT !.row = d, !.todo = {a \in deletion[d].links : Eligible(a)}])
    BY DEF ApproveDeletionRequest
  <1> DEFINE call == [Call("approve", "writeApproval", u)
                        EXCEPT !.row = d, !.todo = {a \in deletion[d].links : Eligible(a)}]
  <1>2. call.op = "approve" /\ call.at = "writeApproval" /\ call.row = d /\ call.case = None
    BY DEF Call, Idle
  <1>3. Begins(r, call.op, call.at) /\ request'[r] = call
    BY <1>1, Begun
  <1> HIDE DEF call
  <1> QED BY <1>1, <1>2, <1>3 DEF ApproveDeletionRequest

LEMMA WriteApprovalDoes ==
  ASSUME Inductive, NEW r \in Request, WriteApproval(r)
  PROVE  LET q == request[r] IN
         /\ q.at = "writeApproval" /\ Goes(r, TRUE, "markPending")
         /\ q.row \in Deletion /\ DeletionBecomes(q.row, "APPROVED")
         /\ deletion'[q.row].initiator = deletion[q.row].initiator
         /\ deletion'[q.row].approver = q.user
         /\ UNCHANGED <<asset, objects, flagged, certificate, case, link, finding>>
  <1>1. Goes(r, TRUE, "markPending")
    BY WentTo DEF WriteApproval
  <1>2. PICK q \in RequestRow : q = request[r] /\ Sound(q)
    BY InFlightSound
  <1>3. q.row \in Deletion
    BY <1>2 DEF WriteApproval, Sound, DeletionSound
  <1>4. PICK old \in DeletionRow : old = deletion[q.row]
    BY <1>3 DEF Inductive, Typed, RowsTypeOK
  <1>5. PICK row : row = [old EXCEPT !.status = "APPROVED", !.approver = q.user, !.elapsed = FALSE]
    OBVIOUS
  <1>6. /\ row.status = "APPROVED" /\ row.links = old.links
        /\ row.initiator = old.initiator /\ row.approver = q.user
    BY <1>5 DEF DeletionRow
  <1>7. deletion' = [deletion EXCEPT ![q.row] = row]
    BY <1>2, <1>4, <1>5 DEF WriteApproval
  <1>8. deletion'[q.row] = row /\ \A e \in Deletion \ {q.row} : deletion'[e] = deletion[e]
    BY <1>3, <1>7 DEF Inductive, Typed, RowsTypeOK
  <1> QED BY <1>1, <1>2, <1>3, <1>4, <1>6, <1>8 DEF WriteApproval, DeletionBecomes

LEMMA MarkPendingDoes ==
  ASSUME Inductive, NEW r \in Request, MarkPendingDeletion(r)
  PROVE  /\ request[r].at = "markPending" /\ Own(r) /\ request'[r] = Idle /\ RetentionOnly
         /\ UNCHANGED <<objects, flagged, deletion, certificate, case, link, finding>>
  <1>1. ASSUME NEW a \in Asset
        PROVE  SameFile(asset'[a], asset[a]) /\ (~Exists(a) => asset'[a] = asset[a])
    <2>1. PICK old \in AssetRow : old = asset[a]
      BY FilesTyped
    <2>2. asset'[a] = IF a \in request[r].todo /\ Exists(a)
                      THEN [old EXCEPT !.retention = "PENDING_DELETION"] ELSE old
      BY <2>1 DEF MarkPendingDeletion
    <2> QED BY <2>1, <2>2 DEF AssetRow, SameFile, SameHold, SameObjects
  <1> QED BY <1>1, PutIdle DEF MarkPendingDeletion, RetentionOnly

LEMMA RefuseDoes ==
  ASSUME Inductive, NEW r \in Request, RejectDeletionRequest(r) \/ CancelDeletionRequest(r)
  PROVE  /\ Begins(r, "reject", "writeRefusal") \/ Begins(r, "cancelDeletion", "writeRefusal")
         /\ request'[r].case = None
         /\ request'[r].row \in Deletion /\ Pending(request'[r].row)
         /\ UNCHANGED rows
  <1>1. PICK u \in User, d \in Deletion, op \in {"reject", "cancelDeletion"},
             to \in {"REJECTED", "CANCELLED"} :
          /\ Pending(d)
          /\ Serve(r, [Call(op, "writeRefusal", u) EXCEPT !.row = d, !.to = to])
    BY DEF RejectDeletionRequest, CancelDeletionRequest
  <1> DEFINE call == [Call(op, "writeRefusal", u) EXCEPT !.row = d, !.to = to]
  <1>2. call.op = op /\ call.at = "writeRefusal" /\ call.row = d /\ call.case = None
    BY DEF Call, Idle
  <1>3. Begins(r, call.op, call.at) /\ request'[r] = call
    BY <1>1, Begun
  <1> HIDE DEF call
  <1> QED BY <1>1, <1>2, <1>3 DEF RejectDeletionRequest, CancelDeletionRequest

LEMMA StatusWritten ==
  ASSUME Inductive, NEW d \in Deletion, NEW status, deletion' = [deletion EXCEPT ![d].status = status]
  PROVE  /\ DeletionBecomes(d, status)
         /\ \A e \in Deletion : /\ deletion'[e].initiator = deletion[e].initiator
                                /\ deletion'[e].approver = deletion[e].approver
  <1>1. PICK old \in DeletionRow : old = deletion[d]
    BY DEF Inductive, Typed, RowsTypeOK
  <1>2. deletion'[d] = [old EXCEPT !.status = status]
    BY <1>1 DEF Inductive, Typed, RowsTypeOK
  <1>3. /\ deletion'[d].status = status /\ deletion'[d].links = old.links
        /\ deletion'[d].initiator = old.initiator /\ deletion'[d].approver = old.approver
    BY <1>2 DEF DeletionRow
  <1>4. \A e \in Deletion \ {d} : deletion'[e] = deletion[e]
    BY DEF Inductive, Typed, RowsTypeOK
  <1> QED BY <1>1, <1>3, <1>4 DEF DeletionBecomes

LEMMA WriteRefusalDoes ==
  ASSUME Inductive, NEW r \in Request, WriteRefusal(r)
  PROVE  LET q == request[r] IN
         /\ q.at = "writeRefusal" /\ Own(r) /\ request'[r] = Idle
         /\ q.row \in Deletion /\ DeletionBecomes(q.row, q.to) /\ q.to \in {"REJECTED", "CANCELLED"}
         /\ \A e \in Deletion : /\ deletion'[e].initiator = deletion[e].initiator
                                /\ deletion'[e].approver = deletion[e].approver
         /\ UNCHANGED <<asset, objects, flagged, certificate, case, link, finding>>
  <1>1. request[r].row \in Deletion /\ request[r].to \in {"REJECTED", "CANCELLED"}
    BY InFlightSound DEF WriteRefusal, Sound, DeletionSound
  <1> QED BY <1>1, StatusWritten, PutIdle DEF WriteRefusal

LEMMA RecoveryElapsesDoes ==
  ASSUME Inductive, RecoveryElapses
  PROVE  /\ UNCHANGED request
         /\ \A e \in Deletion : /\ deletion'[e].initiator = deletion[e].initiator
                                /\ deletion'[e].approver = deletion[e].approver
                                /\ deletion'[e].links = deletion[e].links
                                /\ deletion'[e].status = deletion[e].status
         /\ UNCHANGED <<asset, objects, flagged, certificate, case, link, finding>>
  <1>1. PICK d \in Deletion : deletion' = [deletion EXCEPT ![d].elapsed = TRUE]
    BY DEF RecoveryElapses
  <1>2. ASSUME NEW e \in Deletion
        PROVE  /\ deletion'[e].initiator = deletion[e].initiator
               /\ deletion'[e].approver = deletion[e].approver
               /\ deletion'[e].links = deletion[e].links
               /\ deletion'[e].status = deletion[e].status
    <2>1. PICK old \in DeletionRow : old = deletion[e]
      BY DEF Inductive, Typed, RowsTypeOK
    <2>2. deletion'[e] = IF e = d THEN [old EXCEPT !.elapsed = TRUE] ELSE old
      BY <1>1, <2>1 DEF Inductive, Typed, RowsTypeOK
    <2> QED BY <2>1, <2>2 DEF DeletionRow
  <1> QED BY <1>2 DEF RecoveryElapses

LEMMA CompleteDoes ==
  ASSUME Inductive, NEW r \in Request, CompleteDeletionRequest(r)
  PROVE  LET n == request'[r] IN
         /\ Begins(r, "complete", "eraseNext")
         /\ n.case = None
         /\ n.row \in Deletion /\ deletion[n.row].status = "APPROVED"
         /\ n.todo = {a \in deletion[n.row].links : Erasable(a)} /\ n.done = {}
         /\ UNCHANGED rows
  <1>1. PICK d \in Deletion :
          /\ deletion[d].status = "APPROVED"
          /\ Serve(r, [Call("complete", "eraseNext", None) EXCEPT
                         !.row = d, !.todo = {a \in deletion[d].links : Erasable(a)}])
    BY DEF CompleteDeletionRequest, Covered
  <1> DEFINE call == [Call("complete", "eraseNext", None) EXCEPT
                        !.row = d, !.todo = {a \in deletion[d].links : Erasable(a)}]
  <1>2. /\ call.op = "complete" /\ call.at = "eraseNext" /\ call.row = d /\ call.case = None
        /\ call.todo = {a \in deletion[d].links : Erasable(a)} /\ call.done = {}
    BY DEF Call, Idle
  <1>3. Begins(r, call.op, call.at) /\ request'[r] = call
    BY <1>1, Begun
  <1> HIDE DEF call
  <1> QED BY <1>1, <1>2, <1>3 DEF CompleteDeletionRequest

LEMMA SkipFlaggedDoes ==
  ASSUME Inductive, NEW r \in Request, SkipFlagged(r)
  PROVE  LET q == request[r] IN LET n == request'[r] IN
         /\ q.at = "eraseNext" /\ Own(r)
         /\ n.at = "eraseNext" /\ n.todo \subseteq q.todo /\ n.done = q.done
         /\ n.row = q.row /\ n.case = q.case
         /\ UNCHANGED rows
  <1>1. PICK q \in RequestRow : q = request[r]
    BY FilesTyped
  <1>2. Proceed(r, [q EXCEPT !.todo = @ \ flagged])
    BY <1>1 DEF SkipFlagged
  <1>3. PICK n : n = [q EXCEPT !.todo = @ \ flagged]
    OBVIOUS
  <1>4. /\ n.at = q.at /\ n.todo \subseteq q.todo /\ n.done = q.done
        /\ n.row = q.row /\ n.case = q.case
    BY <1>3 DEF RequestRow
  <1>5. Own(r) /\ request'[r] = n
    BY <1>2, <1>3, Put
  <1> QED BY <1>1, <1>4, <1>5 DEF SkipFlagged

LEMMA EraseObjectsDoes ==
  ASSUME Inductive, NEW r \in Request, EraseObjects(r)
  PROVE  LET q == request[r] IN LET n == request'[r] IN
         /\ q.at = "eraseNext" /\ Own(r)
         /\ n.at = "writeDeleted" /\ n.asset \in q.todo \ flagged /\ n.todo = q.todo
         /\ n.done = q.done /\ n.row = q.row /\ n.case = q.case
         /\ objects' \in Stored(objects, [objects EXCEPT ![n.asset] = @ \ KeysOf(n.asset)])
         /\ UNCHANGED <<asset, flagged, deletion, certificate, case, link, finding>>
  <1>1. PICK q \in RequestRow : q = request[r]
    BY FilesTyped
  <1>2. PICK a \in q.todo \ flagged :
          /\ objects' \in Stored(objects, [objects EXCEPT ![a] = @ \ KeysOf(a)])
          /\ Proceed(r, [q EXCEPT !.at = "writeDeleted", !.asset = a])
    BY <1>1 DEF EraseObjects, ErasedKeys
  <1>3. PICK n : n = [q EXCEPT !.at = "writeDeleted", !.asset = a]
    OBVIOUS
  <1>4. /\ n.at = "writeDeleted" /\ n.asset = a /\ n.todo = q.todo /\ n.done = q.done
        /\ n.row = q.row /\ n.case = q.case
    BY <1>3 DEF RequestRow
  <1>5. Own(r) /\ request'[r] = n
    BY <1>2, <1>3, Put
  <1> QED BY <1>1, <1>2, <1>4, <1>5 DEF EraseObjects

LEMMA WriteDeletedDoes ==
  ASSUME Inductive, NEW r \in Request, WriteDeleted(r)
  PROVE  LET q == request[r] IN LET n == request'[r] IN
         /\ q.at = "writeDeleted" /\ Own(r)
         /\ \/ ~Exists(q.asset) /\ n = Idle
            \/ /\ Exists(q.asset)
               /\ n.at = "eraseNext" /\ n.todo = q.todo \ {q.asset}
               /\ n.done = q.done \cup {q.asset} /\ n.row = q.row /\ n.case = q.case
         /\ q.asset \in Asset
         /\ \A a \in Asset : IF a = q.asset /\ Exists(a) THEN GoneFile(asset'[a], asset[a])
                             ELSE asset'[a] = asset[a]
         /\ UNCHANGED <<objects, flagged, deletion, certificate, case, link, finding>>
  <1>1. PICK q \in RequestRow : q = request[r] /\ Sound(q)
    BY InFlightSound
  <1>2. ASSUME NEW a \in Asset
        PROVE  IF a = q.asset /\ Exists(a) THEN GoneFile(asset'[a], asset[a])
               ELSE asset'[a] = asset[a]
    <2>1. PICK old \in AssetRow : old = asset[a]
      BY FilesTyped
    <2>2. asset'[a] = IF a = q.asset /\ Exists(a)
                      THEN [old EXCEPT !.gone = TRUE, !.retention = "DELETED"] ELSE old
      BY <1>1, <2>1, FilesTyped DEF WriteDeleted
    <2> QED BY <2>1, <2>2 DEF AssetRow, SameHold, SameObjects, GoneFile
  <1>3. CASE Exists(q.asset)
    <2>1. PICK n : n = [q EXCEPT !.at = "eraseNext", !.todo = @ \ {q.asset},
                                 !.done = @ \cup {q.asset}]
      OBVIOUS
    <2>2. /\ n.at = "eraseNext" /\ n.todo = q.todo \ {q.asset}
          /\ n.done = q.done \cup {q.asset} /\ n.row = q.row /\ n.case = q.case
      BY <2>1 DEF RequestRow
    <2>3. Own(r) /\ request'[r] = n
      BY <1>1, <1>3, <2>1, Put DEF WriteDeleted
    <2> QED BY <1>1, <1>2, <1>3, <2>2, <2>3 DEF WriteDeleted, Sound, DeletionSound
  <1>4. CASE ~Exists(q.asset)
    <2>1. Own(r) /\ request'[r] = Idle
      BY <1>1, <1>4, Put DEF WriteDeleted
    <2> QED BY <1>1, <1>2, <1>4, <2>1 DEF WriteDeleted, Sound, DeletionSound
  <1> QED BY <1>3, <1>4

LEMMA IssueCertificateDoes ==
  ASSUME Inductive, NEW r \in Request, IssueCertificate(r)
  PROVE  LET q == request[r] IN
         /\ q.at = "eraseNext" /\ q.todo = {} /\ q.row \in Deletion
         /\ Goes(r, ~certificate[q.row].issued, "writeCompleted")
         /\ \A d \in Deletion \ {q.row} : certificate'[d] = certificate[d]
         /\ certificate'[q.row] = IF certificate[q.row].issued THEN certificate[q.row]
                                  ELSE [issued |-> TRUE, manifest |-> q.done]
         /\ UNCHANGED <<asset, objects, flagged, deletion, case, link, finding>>
  <1>1. Goes(r, ~certificate[request[r].row].issued, "writeCompleted")
    BY WentTo DEF IssueCertificate
  <1>2. request[r].row \in Deletion
    BY InFlightSound DEF IssueCertificate, Sound, DeletionSound
  <1>3. certificate \in [Deletion -> [issued : BOOLEAN, manifest : SUBSET Asset]]
    BY DEF Inductive, Typed, RowsTypeOK
  <1> QED BY <1>1, <1>2, <1>3 DEF IssueCertificate, Certified

LEMMA WriteCompletedDoes ==
  ASSUME Inductive, NEW r \in Request, WriteCompleted(r)
  PROVE  LET q == request[r] IN
         /\ q.at = "writeCompleted" /\ Own(r) /\ request'[r] = Idle
         /\ q.row \in Deletion /\ DeletionBecomes(q.row, "COMPLETED")
         /\ \A e \in Deletion : /\ deletion'[e].initiator = deletion[e].initiator
                                /\ deletion'[e].approver = deletion[e].approver
         /\ UNCHANGED <<asset, objects, flagged, certificate, case, link, finding>>
  <1>1. request[r].row \in Deletion
    BY InFlightSound DEF WriteCompleted, Sound, DeletionSound
  <1> QED BY <1>1, StatusWritten, PutIdle DEF WriteCompleted

-------------------------------------------------------------------------------
(* Holds.                                                                  *)

LEMMA LinkEvidenceDoes ==
  ASSUME Inductive, NEW r \in Request, LinkEvidence(r)
  PROVE  LET n == request'[r] IN
         /\ Begins(r, "link", "insertLink")
         /\ n.asset \in Asset /\ n.case \in Case /\ case[n.case] # NoCase
         /\ UNCHANGED rows
  <1>1. PICK u \in User, a \in Asset, c \in Case :
          /\ case[c] # NoCase
          /\ Serve(r, [Call("link", "insertLink", u) EXCEPT !.asset = a, !.case = c])
    BY DEF LinkEvidence
  <1> DEFINE call == [Call("link", "insertLink", u) EXCEPT !.asset = a, !.case = c]
  <1>2. call.op = "link" /\ call.at = "insertLink" /\ call.asset = a /\ call.case = c
    BY DEF Call, Idle
  <1>3. Begins(r, call.op, call.at) /\ request'[r] = call
    BY <1>1, Begun
  <1> HIDE DEF call
  <1> QED BY <1>1, <1>2, <1>3 DEF LinkEvidence

LEMMA LinksTyped ==
  ASSUME Inductive
  PROVE  link \in [Link -> [case : Case \cup {None}, asset : Asset \cup {None}, wrong : BOOLEAN]]
  BY DEF Inductive, Typed, RowsTypeOK

LEMMA InsertLinkDoes ==
  ASSUME Inductive, NEW r \in Request, InsertLink(r)
  PROVE  LET q == request[r] IN
         /\ q.at = "insertLink" /\ Goes(r, Exists(q.asset), "readCaseHold")
         /\ \/ ~Exists(q.asset) /\ UNCHANGED link
            \/ /\ Exists(q.asset)
               /\ \E l \in Link :
                    /\ link[l] = NoLink
                    /\ link'[l].case = q.case /\ link'[l].asset = q.asset /\ ~link'[l].wrong
                    /\ \A k \in Link \ {l} : link'[k] = link[k]
         /\ UNCHANGED <<asset, objects, flagged, deletion, certificate, case, finding>>
  <1> DEFINE q == request[r]
  <1>1. Goes(r, Exists(q.asset), "readCaseHold")
    BY WentTo DEF InsertLink
  <1>2. PICK row : row = [NoLink EXCEPT !.case = q.case, !.asset = q.asset]
    OBVIOUS
  <1>3. row.case = q.case /\ row.asset = q.asset /\ ~row.wrong
    BY <1>2 DEF NoLink
  <1>4. PICK l \in Link :
          link[l] = NoLink /\ link' = IF ~Exists(q.asset) THEN link ELSE [link EXCEPT ![l] = row]
    BY <1>2 DEF InsertLink
  <1>5. CASE Exists(q.asset)
    <2>1. link'[l] = row /\ \A k \in Link \ {l} : link'[k] = link[k]
      BY <1>4, <1>5, LinksTyped
    <2> QED BY <1>1, <1>3, <1>4, <1>5, <2>1 DEF InsertLink
  <1>6. CASE ~Exists(q.asset)
    BY <1>1, <1>4, <1>6 DEF InsertLink
  <1> QED BY <1>5, <1>6

LEMMA ReadCaseHoldDoes ==
  ASSUME Inductive, NEW r \in Request, ReadCaseHold(r)
  PROVE  /\ request[r].at = "readCaseHold"
         /\ Goes(r, case[request[r].case].hold, "applyHold")
         /\ UNCHANGED rows
  BY WentTo DEF ReadCaseHold

\* The hold of one file is set or lifted, if it is there.
HoldBecomes(x, on) ==
  /\ \A a \in Asset :
       /\ SameObjects(asset'[a], asset[a])
       /\ asset'[a].upload = asset[a].upload /\ asset'[a].gone = asset[a].gone
       /\ asset'[a].replaceable = asset[a].replaceable
       /\ asset'[a].hold = IF a = x /\ Exists(a) THEN on ELSE asset[a].hold
       /\ ~Exists(a) => asset'[a] = asset[a]
  /\ UNCHANGED <<objects, flagged, deletion, certificate, case, link, finding>>

LEMMA WriteHoldDoes ==
  ASSUME Inductive, NEW r \in Request, NEW at, NEW on, WriteHold(r, at, on)
  PROVE  request[r].at = at /\ HoldBecomes(request[r].asset, on)
  <1> DEFINE x == request[r].asset
  <1>1. ASSUME NEW a \in Asset
        PROVE  /\ SameObjects(asset'[a], asset[a])
               /\ asset'[a].upload = asset[a].upload /\ asset'[a].gone = asset[a].gone
               /\ asset'[a].replaceable = asset[a].replaceable
               /\ asset'[a].hold = IF a = x /\ Exists(a) THEN on ELSE asset[a].hold
               /\ ~Exists(a) => asset'[a] = asset[a]
    <2>1. PICK old \in AssetRow : old = asset[a]
      BY FilesTyped
    <2>2. asset'[a] = IF a = x /\ Exists(a) THEN [old EXCEPT !.hold = on] ELSE old
      BY <2>1, FilesTyped DEF WriteHold
    <2> QED BY <2>1, <2>2 DEF AssetRow, SameObjects
  <1> QED BY <1>1 DEF WriteHold, HoldBecomes

LEMMA ApplyHoldDoes ==
  ASSUME Inductive, NEW r \in Request, ApplyHold(r)
  PROVE  /\ request[r].at = "applyHold" /\ Own(r) /\ request'[r] = Idle
         /\ HoldBecomes(request[r].asset, TRUE)
  BY WriteHoldDoes, PutIdle DEF ApplyHold

LEMMA ClearHoldDoes ==
  ASSUME Inductive, NEW r \in Request, ClearHold(r)
  PROVE  /\ request[r].at = "clearHold" /\ Goes(r, Exists(request[r].asset), "checkOther")
         /\ HoldBecomes(request[r].asset, FALSE)
  BY WriteHoldDoes, WentTo DEF ClearHold

LEMMA EnteredInErrorDoes ==
  ASSUME Inductive, MarkEnteredInError
  PROVE  /\ May("enteredInError") /\ UNCHANGED request
         /\ \A l \in Link : /\ link'[l].case = link[l].case /\ link'[l].asset = link[l].asset
                            /\ link[l].wrong => link'[l].wrong
         /\ UNCHANGED <<asset, objects, flagged, deletion, certificate, case, finding>>
  <1>1. PICK k \in Link : link' = [link EXCEPT ![k].wrong = TRUE]
    BY DEF MarkEnteredInError
  <1>2. ASSUME NEW l \in Link
        PROVE  /\ link'[l].case = link[l].case /\ link'[l].asset = link[l].asset
               /\ link[l].wrong => link'[l].wrong
    <2>1. PICK old \in [case : Case \cup {None}, asset : Asset \cup {None}, wrong : BOOLEAN] :
            old = link[l]
      BY LinksTyped
    <2>2. link'[l] = IF l = k THEN [old EXCEPT !.wrong = TRUE] ELSE old
      BY <1>1, <2>1, LinksTyped
    <2> QED BY <2>1, <2>2
  <1> QED BY <1>2 DEF MarkEnteredInError, Answer

LEMMA ReleaseDoes ==
  ASSUME Inductive, NEW r \in Request, RequestHoldRelease(r) \/ ReleaseInvestigationHold(r)
  PROVE  LET n == request'[r] IN
         /\ Begins(r, "release", "recordRequest") \/ Begins(r, "release", "writeRelease")
         /\ n.case \in Case /\ case[n.case].hold
         /\ UNCHANGED rows
  <1>1. PICK u \in User, c \in Case, at \in {"recordRequest", "writeRelease"} :
          case[c].hold /\ Serve(r, [Call("release", at, u) EXCEPT !.case = c])
    BY DEF RequestHoldRelease, ReleaseInvestigationHold
  <1> DEFINE call == [Call("release", at, u) EXCEPT !.case = c]
  <1>2. call.op = "release" /\ call.at = at /\ call.case = c
    BY DEF Call, Idle
  <1>3. Begins(r, call.op, call.at) /\ request'[r] = call
    BY <1>1, Begun
  <1> HIDE DEF call
  <1> QED BY <1>1, <1>2, <1>3 DEF RequestHoldRelease, ReleaseInvestigationHold

\* A case keeps its status, and every other case all of it.
CaseTouched(x) ==
  \A c \in Case : /\ case'[c].status = case[c].status
                  /\ c # x => case'[c] = case[c]

LEMMA CaseFields ==
  ASSUME Inductive, NEW c \in Case
  PROVE  case \in [Case -> CaseRow] /\ case[c] \in CaseRow
  BY DEF Inductive, Typed, RowsTypeOK

LEMMA RecordReleaseDoes ==
  ASSUME Inductive, NEW r \in Request, RecordReleaseRequest(r)
  PROVE  LET q == request[r] IN
         /\ q.at = "recordRequest" /\ Own(r) /\ request'[r] = Idle
         /\ CaseTouched(q.case)
         /\ \A c \in Case : case'[c].hold = case[c].hold
         /\ UNCHANGED <<asset, objects, flagged, deletion, certificate, link, finding>>
  <1> DEFINE q == request[r]
  <1>1. ASSUME NEW c \in Case
        PROVE  /\ case'[c].status = case[c].status /\ case'[c].hold = case[c].hold
               /\ c # q.case => case'[c] = case[c]
    <2>1. PICK old \in CaseRow : old = case[c]
      BY CaseFields
    <2>2. case'[c] = IF c = q.case THEN [old EXCEPT !.asked = q.user] ELSE old
      BY <2>1, CaseFields DEF RecordReleaseRequest
    <2> QED BY <2>1, <2>2 DEF CaseRow
  <1> QED BY <1>1, PutIdle DEF RecordReleaseRequest, CaseTouched

LEMMA WriteReleaseDoes ==
  ASSUME Inductive, NEW r \in Request, WriteRelease(r)
  PROVE  LET q == request[r] IN
         /\ q.at = "writeRelease" /\ Goes(r, TRUE, "listLinks")
         /\ CaseTouched(q.case) /\ q.case \in Case /\ ~case'[q.case].hold
         /\ UNCHANGED <<asset, objects, flagged, deletion, certificate, link, finding>>
  <1> DEFINE q == request[r]
  <1>1. ASSUME NEW c \in Case
        PROVE  /\ case'[c].status = case[c].status
               /\ c # q.case => case'[c] = case[c]
               /\ c = q.case => ~case'[c].hold
    <2>1. PICK old \in CaseRow : old = case[c]
      BY CaseFields
    <2>2. PICK row : row = [old EXCEPT !.hold = FALSE, !.releasedBy = q.user]
      OBVIOUS
    <2>3. row.status = old.status /\ ~row.hold
      BY <2>2 DEF CaseRow
    <2>4. case'[c] = IF c = q.case THEN row ELSE old
      BY <2>1, <2>2, CaseFields DEF WriteRelease
    <2> QED BY <2>1, <2>3, <2>4
  <1>2. q.case \in Case
    BY InFlightSound DEF WriteRelease, Sound, LinkSound
  <1> QED BY <1>1, <1>2, WentTo DEF WriteRelease, CaseTouched

LEMMA ListLinksDoes ==
  ASSUME Inductive, NEW r \in Request, ListLinks(r)
  PROVE  LET q == request[r] IN LET n == request'[r] IN
         /\ q.at = "listLinks" /\ Own(r) /\ n.at = "checkOther" /\ n.case = q.case
         /\ UNCHANGED rows
  <1>1. PICK q \in RequestRow : q = request[r]
    BY FilesTyped
  <1>2. PICK files : Proceed(r, [q EXCEPT !.at = "checkOther", !.todo = files])
    BY <1>1 DEF ListLinks
  <1>3. PICK n : n = [q EXCEPT !.at = "checkOther", !.todo = files]
    OBVIOUS
  <1>4. n.at = "checkOther" /\ n.case = q.case
    BY <1>3 DEF RequestRow
  <1>5. Own(r) /\ request'[r] = n
    BY <1>2, <1>3, Put
  <1> QED BY <1>1, <1>4, <1>5 DEF ListLinks

LEMMA CheckOtherDoes ==
  ASSUME Inductive, NEW r \in Request, CheckOtherCases(r)
  PROVE  LET q == request[r] IN LET n == request'[r] IN
         /\ q.at = "checkOther" /\ Own(r)
         /\ \/ n = Idle
            \/ n.at = "checkOther" /\ n.case = q.case
            \/ n.at = "clearHold" /\ n.case = q.case /\ ~HeldElsewhere(n.asset, n.case)
         /\ UNCHANGED rows
  <1>1. PICK q \in RequestRow : q = request[r]
    BY FilesTyped
  <1>2. CASE Finish(r)
    BY <1>2, PutIdle DEF CheckOtherCases
  <1>3. ASSUME NEW a \in q.todo,
               Proceed(r, [q EXCEPT !.todo = @ \ {a}, !.asset = a,
                             !.at = IF HeldElsewhere(a, q.case) THEN "checkOther" ELSE "clearHold"])
        PROVE  /\ Own(r)
               /\ \/ request'[r].at = "checkOther" /\ request'[r].case = q.case
                  \/ /\ request'[r].at = "clearHold" /\ request'[r].case = q.case
                     /\ ~HeldElsewhere(request'[r].asset, q.case)
    <2>1. PICK at : at = IF HeldElsewhere(a, q.case) THEN "checkOther" ELSE "clearHold"
      OBVIOUS
    <2>2. PICK n : n = [q EXCEPT !.todo = @ \ {a}, !.asset = a, !.at = at]
      OBVIOUS
    <2>3. n.at = at /\ n.case = q.case /\ n.asset = a
      BY <2>2 DEF RequestRow
    <2>4. Own(r) /\ request'[r] = n
      BY <1>3, <2>1, <2>2, Put
    <2> QED BY <2>1, <2>3, <2>4
  <1>4. request[r].at = "checkOther" /\ UNCHANGED rows
    BY DEF CheckOtherCases
  <1>5. \/ Finish(r)
        \/ \E a \in q.todo :
             Proceed(r, [q EXCEPT !.todo = @ \ {a}, !.asset = a,
                           !.at = IF HeldElsewhere(a, q.case) THEN "checkOther" ELSE "clearHold"])
    BY <1>1 DEF CheckOtherCases
  <1>6. CASE ~Finish(r)
    <2>1. /\ Own(r)
          /\ \/ request'[r].at = "checkOther" /\ request'[r].case = q.case
             \/ /\ request'[r].at = "clearHold" /\ request'[r].case = q.case
                /\ ~HeldElsewhere(request'[r].asset, q.case)
      BY <1>3, <1>5, <1>6
    <2> QED BY <1>1, <1>4, <2>1
  <1> QED BY <1>2, <1>6

-------------------------------------------------------------------------------
(* Cases and findings.                                                     *)

\* A case is there that was not, with its hold on.
CaseCreated ==
  /\ \E c \in Case :
       /\ case[c] = NoCase
       /\ case'[c].status = "DRAFT"
       /\ \A d \in Case \ {c} : case'[d] = case[d]
  /\ UNCHANGED <<asset, objects, flagged, deletion, certificate, link, finding>>

LEMMA CreateCaseDoes ==
  ASSUME Inductive, CreateCase
  PROVE  May("createCase") /\ UNCHANGED request /\ CaseCreated
  <1>1. PICK c \in Case, severe \in BOOLEAN :
          case[c] = NoCase /\ case' = [case EXCEPT ![c] = NewCase(severe, FALSE)]
    BY DEF CreateCase
  <1>2. NewCase(severe, FALSE).status = "DRAFT"
    BY DEF NewCase, NoCase
  <1>3. case'[c] = NewCase(severe, FALSE) /\ \A d \in Case \ {c} : case'[d] = case[d]
    BY <1>1, CaseFields
  <1> QED BY <1>1, <1>2, <1>3 DEF CreateCase, Answer, CaseCreated

LEMMA EscalateDoes ==
  ASSUME Inductive, EscalateCase \/ AssignInvestigator
  PROVE  /\ May("escalate") \/ May("assign")
         /\ UNCHANGED request
         /\ \A c \in Case : /\ case'[c].status = case[c].status /\ case'[c].hold = case[c].hold
                            /\ case[c] = NoCase => case'[c] = NoCase
         /\ UNCHANGED <<asset, objects, flagged, deletion, certificate, link, finding>>
  <1>1. ASSUME NEW c \in Case
        PROVE  /\ case'[c].status = case[c].status /\ case'[c].hold = case[c].hold
               /\ case[c] = NoCase => case'[c] = NoCase
    <2>1. PICK old \in CaseRow : old = case[c]
      BY CaseFields
    <2>2. CASE EscalateCase
      <3>1. PICK x \in Case, severe \in BOOLEAN :
              case[x] # NoCase /\ case' = [case EXCEPT ![x].severe = severe]
        BY <2>2 DEF EscalateCase
      <3>2. case'[c] = IF c = x THEN [old EXCEPT !.severe = severe] ELSE old
        BY <2>1, <3>1, CaseFields
      <3> QED BY <2>1, <3>1, <3>2 DEF CaseRow
    <2>3. CASE AssignInvestigator
      <3>1. PICK x \in Case, u \in User :
              case[x] # NoCase /\ case' = [case EXCEPT ![x].investigator = u]
        BY <2>3 DEF AssignInvestigator
      <3>2. case'[c] = IF c = x THEN [old EXCEPT !.investigator = u] ELSE old
        BY <2>1, <3>1, CaseFields
      <3> QED BY <2>1, <3>1, <3>2 DEF CaseRow
    <2> QED BY <2>2, <2>3
  <1> QED BY <1>1 DEF EscalateCase, AssignInvestigator, Answer

\* A draft of a finding of an existing case, in a free row.
Drafted ==
  /\ \E f \in Finding :
       /\ finding[f] = NoFinding
       /\ finding'[f].status = "DRAFT"
       /\ \/ finding'[f].case \in Case /\ case[finding'[f].case] # NoCase
          \/ \E g \in Finding : finding'[f].case = finding[g].case
       /\ \A g \in Finding \ {f} : finding'[g] = finding[g]
  /\ UNCHANGED <<asset, objects, flagged, deletion, certificate, case, link>>

LEMMA DraftDoes ==
  ASSUME Inductive, CreateFinding \/ AmendFinding
  PROVE  /\ May("createFinding") \/ May("amend")
         /\ UNCHANGED request
         /\ Drafted
  <1>1. PICK f \in Finding, c \in Case \cup {None}, u \in User :
          /\ finding[f] = NoFinding
          /\ finding' = [finding EXCEPT ![f] = NewFinding(c, u)]
          /\ \/ c \in Case /\ case[c] # NoCase
             \/ \E g \in Finding : c = finding[g].case
    <2>1. CASE CreateFinding
      <3>1. PICK u \in User, c \in Case, f \in Finding :
              /\ case[c] # NoCase /\ finding[f] = NoFinding
              /\ finding' = [finding EXCEPT ![f] = NewFinding(c, u)]
        BY <2>1 DEF CreateFinding
      <3> QED BY <3>1
    <2>2. CASE AmendFinding
      <3>1. PICK u \in User, g \in Finding, f \in Finding :
              /\ finding[f] = NoFinding
              /\ finding' = [finding EXCEPT ![f] = NewFinding(finding[g].case, u)]
        BY <2>2 DEF AmendFinding
      <3>2. finding[g].case \in Case \cup {None}
        BY DEF Inductive, Typed, RowsTypeOK, FindingRow
      <3> QED BY <3>1, <3>2
    <2> QED BY <2>1, <2>2
  <1>2. NewFinding(c, u).status = "DRAFT" /\ NewFinding(c, u).case = c
    BY DEF NewFinding, NoFinding
  <1>3. finding'[f] = NewFinding(c, u) /\ \A g \in Finding \ {f} : finding'[g] = finding[g]
    BY <1>1 DEF Inductive, Typed, RowsTypeOK
  <1>4. finding'[f].status = "DRAFT" /\ finding'[f].case = c
    BY <1>2, <1>3
  <1>5. \/ finding'[f].case \in Case /\ case[finding'[f].case] # NoCase
        \/ \E g \in Finding : finding'[f].case = finding[g].case
    BY <1>1, <1>4
  <1>6. UNCHANGED <<asset, objects, flagged, deletion, certificate, case, link>>
    BY DEF CreateFinding, AmendFinding
  <1>7. Drafted
    BY <1>1, <1>3, <1>4, <1>5, <1>6 DEF Drafted
  <1> QED BY <1>7 DEF CreateFinding, AmendFinding, Answer

LEMMA ReferDoes ==
  ASSUME Inductive, NEW r \in Request, CreateCaseFromReferral(r)
  PROVE  /\ Begins(r, "refer", "insertCase") /\ request'[r].case = None
         /\ UNCHANGED rows
  <1>1. PICK u \in User, severe \in BOOLEAN :
          Serve(r, [Call("refer", "insertCase", u) EXCEPT !.yes = severe])
    BY DEF CreateCaseFromReferral
  <1> DEFINE call == [Call("refer", "insertCase", u) EXCEPT !.yes = severe]
  <1>2. call.op = "refer" /\ call.at = "insertCase" /\ call.case = None
    BY DEF Call, Idle
  <1>3. Begins(r, call.op, call.at) /\ request'[r] = call
    BY <1>1, Begun
  <1> HIDE DEF call
  <1> QED BY <1>2, <1>3 DEF CreateCaseFromReferral

LEMMA InsertReferredDoes ==
  ASSUME Inductive, NEW r \in Request, InsertReferredCase(r)
  PROVE  /\ request[r].at = "insertCase" /\ Own(r) /\ request'[r] = Idle
         /\ CaseCreated \/ UNCHANGED rows
  <1>1. PICK c \in Case :
          /\ case[c] = NoCase
          /\ case' = IF Referred THEN case ELSE [case EXCEPT ![c] = NewCase(request[r].yes, TRUE)]
    BY DEF InsertReferredCase
  <1>2. NewCase(request[r].yes, TRUE).status = "DRAFT"
    BY DEF NewCase, NoCase
  <1>3. CASE ~Referred
    <2>1. /\ case'[c] = NewCase(request[r].yes, TRUE)
          /\ \A d \in Case \ {c} : case'[d] = case[d]
      BY <1>1, <1>3, CaseFields
    <2> QED BY <1>1, <1>2, <2>1, PutIdle DEF InsertReferredCase, CaseCreated
  <1> QED BY <1>1, <1>3, PutIdle DEF InsertReferredCase, rows

\* The status a handler of its own asks for.
AskedFor == {"OPEN", "TRIAGE", "UNDER_INVESTIGATION", "AWAITING_INFORMATION", "REOPENED", "CLOSED"}

LEMMA StatusesOfTransitions ==
  ASSUME NEW s, NEW t, <<s, t>> \in CaseTransitions
  PROVE  s # "NONE" /\ t # "NONE"
  BY DEF CaseTransitions

LEMMA AskCaseDoes ==
  ASSUME Inductive, NEW r \in Request,
         \/ SubmitCase(r) \/ TriageCase(r) \/ BeginOrResume(r) \/ RequestInformation(r)
         \/ ReopenCase(r) \/ CloseCase(r)
  PROVE  LET n == request'[r] IN
         /\ \E op : Begins(r, op, "writeCase")
         /\ n.case \in Case /\ case[n.case].status # "NONE" /\ n.to \in AskedFor
         /\ UNCHANGED rows
  <1>1. PICK u \in User, c \in Case, op \in Operation, to \in AskedFor :
          /\ case[c].status # "NONE"
          /\ Serve(r, [Call(op, "writeCase", u) EXCEPT !.case = c, !.to = to])
    <2>1. ASSUME NEW op \in Operation, NEW to \in AskedFor, AskCase(r, op, to)
          PROVE  \E u \in User, c \in Case :
                   /\ case[c].status # "NONE"
                   /\ Serve(r, [Call(op, "writeCase", u) EXCEPT !.case = c, !.to = to])
      BY <2>1, StatusesOfTransitions DEF AskCase
    <2>2. CASE CloseCase(r)
      <3>1. PICK u \in User, c \in Case :
              /\ case[c].status = "AWAITING_APPROVAL"
              /\ Serve(r, [Call("close", "writeCase", u) EXCEPT !.case = c, !.to = "CLOSED"])
        BY <2>2 DEF CloseCase
      <3> QED BY <3>1 DEF AskedFor, Operation
    <2>3. CASE ~CloseCase(r)
      <3>1. PICK op \in Operation, to \in AskedFor : AskCase(r, op, to)
        BY <2>3 DEF SubmitCase, TriageCase, BeginOrResume, RequestInformation, ReopenCase,
                    AskedFor, Operation
      <3>2. \E u \in User, c \in Case :
              /\ case[c].status # "NONE"
              /\ Serve(r, [Call(op, "writeCase", u) EXCEPT !.case = c, !.to = to])
        BY <2>1, <3>1
      <3> QED BY <3>2
    <2> QED BY <2>2, <2>3
  <1> DEFINE call == [Call(op, "writeCase", u) EXCEPT !.case = c, !.to = to]
  <1>2. call.op = op /\ call.at = "writeCase" /\ call.case = c /\ call.to = to
    BY DEF Call, Idle
  <1>3. Begins(r, call.op, call.at) /\ request'[r] = call
    BY <1>1, Begun
  <1>4. UNCHANGED rows
    BY DEF SubmitCase, TriageCase, BeginOrResume, RequestInformation, ReopenCase, CloseCase, AskCase
  <1> HIDE DEF call
  <1> QED BY <1>1, <1>2, <1>3, <1>4

LEMMA CheckCaseDoes ==
  ASSUME Inductive, NEW r \in Request, CheckCase(r)
  PROVE  LET q == request[r] IN
         /\ q.at = "checkCase"
         /\ Goes(r, <<case[q.case].status, q.to>> \in CaseTransitions, "writeCase")
         /\ UNCHANGED rows
  BY WentTo DEF CheckCase

LEMMA WriteCaseDoes ==
  ASSUME Inductive, NEW r \in Request, WriteCase(r)
  PROVE  LET q == request[r] IN
         /\ q.at = "writeCase" /\ Own(r) /\ request'[r] = Idle
         /\ q.to # "NONE"
         /\ \A c \in Case :
              /\ case'[c].status = IF c = q.case THEN q.to ELSE case[c].status
              /\ case'[c].hold = case[c].hold
              /\ c # q.case => case'[c] = case[c]
         /\ UNCHANGED <<asset, objects, flagged, deletion, certificate, link, finding>>
  <1> DEFINE q == request[r]
  <1>1. ASSUME NEW c \in Case
        PROVE  /\ case'[c].status = IF c = q.case THEN q.to ELSE case[c].status
               /\ case'[c].hold = case[c].hold
               /\ c # q.case => case'[c] = case[c]
    <2>1. PICK old \in CaseRow : old = case[c]
      BY CaseFields
    <2>2. c # q.case => case'[c] = old
      BY <2>1, CaseFields DEF WriteCase
    <2>3. CASE c = q.case
      <3>1. PICK row : row = [old EXCEPT !.status = q.to,
                                !.referral = @ /\ q.to # "CLOSED",
                                !.closedBy = IF q.to = "CLOSED" THEN q.user ELSE @]
        OBVIOUS
      <3>2. row.status = q.to /\ row.hold = old.hold
        BY <3>1 DEF CaseRow
      <3>3. case'[c] = row
        BY <2>1, <2>3, <3>1, CaseFields DEF WriteCase
      <3> QED BY <2>1, <2>3, <3>2, <3>3
    <2> QED BY <2>1, <2>2, <2>3
  <1>2. q.to \in CaseStatus
    BY InFlightSound DEF WriteCase, Sound, FindingSound
  <1>3. q.to # "NONE"
    BY <1>2, CaseStatuses
  <1> QED BY <1>1, <1>3, PutIdle DEF WriteCase

LEMMA AskFindingDoes ==
  ASSUME Inductive, NEW r \in Request, SubmitFinding(r) \/ ApproveFinding(r) \/ ReturnFinding(r)
  PROVE  LET n == request'[r] IN
         /\ \E op : Begins(r, op, "writeFinding")
         /\ n.row \in Finding /\ n.case = finding[n.row].case
         /\ \/ finding[n.row].status = "DRAFT" /\ n.to = "SUBMITTED"
            \/ /\ finding[n.row].status = "SUBMITTED"
               /\ n.to \in {"APPROVED", "RETURNED_FOR_AMENDMENT", "REJECTED"}
         /\ UNCHANGED rows
  <1>1. PICK op \in Operation, u \in User, f \in Finding, to \in FindingStatus :
          /\ AskFinding(r, op, u, f, to)
          /\ \/ finding[f].status = "DRAFT" /\ to = "SUBMITTED"
             \/ /\ finding[f].status = "SUBMITTED"
                /\ to \in {"APPROVED", "RETURNED_FOR_AMENDMENT", "REJECTED"}
    BY DEF SubmitFinding, ApproveFinding, ReturnFinding, Operation, FindingStatus
  <1> DEFINE call == [Call(op, "writeFinding", u)
                        EXCEPT !.row = f, !.case = finding[f].case, !.to = to]
  <1>2. /\ call.op = op /\ call.at = "writeFinding" /\ call.row = f
        /\ call.case = finding[f].case /\ call.to = to
    BY DEF Call, Idle
  <1>3. Begins(r, call.op, call.at) /\ request'[r] = call
    BY <1>1, Begun DEF AskFinding
  <1> HIDE DEF call
  <1> QED BY <1>1, <1>2, <1>3 DEF AskFinding

LEMMA WriteFindingDoes ==
  ASSUME Inductive, NEW r \in Request, WriteFinding(r)
  PROVE  LET q == request[r] IN LET n == request'[r] IN
         /\ q.at = "writeFinding" /\ Own(r) /\ q.row \in Finding
         /\ finding'[q.row].status = q.to /\ finding'[q.row].case = finding[q.row].case
         /\ \A f \in Finding \ {q.row} : finding'[f] = finding[f]
         /\ \/ CaseStatusAfter(q.to) = "NONE" /\ n = Idle
            \/ /\ CaseStatusAfter(q.to) # "NONE"
               /\ n.at = "checkCase" /\ n.to = CaseStatusAfter(q.to) /\ n.case = q.case
         /\ UNCHANGED <<asset, objects, flagged, deletion, certificate, case, link>>
  <1>1. PICK q \in RequestRow : q = request[r] /\ Sound(q)
    BY InFlightSound
  <1>2. q.row \in Finding
    BY <1>1 DEF WriteFinding, Sound, FindingSound
  <1>3. finding \in [Finding -> FindingRow]
    BY DEF Inductive, Typed, RowsTypeOK
  <1>4. PICK old \in FindingRow : old = finding[q.row]
    BY <1>2, <1>3
  <1>5. PICK row : row = [old EXCEPT !.status = q.to,
                            !.submitter = IF q.to = "SUBMITTED" THEN q.user ELSE @,
                            !.approver = IF q.to = "APPROVED" THEN q.user ELSE @]
    OBVIOUS
  <1>6. row.status = q.to /\ row.case = old.case
    BY <1>5 DEF FindingRow
  <1>7. finding' = [finding EXCEPT ![q.row] = row]
    BY <1>1, <1>4, <1>5 DEF WriteFinding
  <1>8. finding'[q.row] = row /\ \A f \in Finding \ {q.row} : finding'[f] = finding[f]
    BY <1>2, <1>3, <1>7
  <1>9. CASE CaseStatusAfter(q.to) = "NONE"
    <2>1. Own(r) /\ request'[r] = Idle
      BY <1>1, <1>9, Put DEF WriteFinding
    <2> QED BY <1>1, <1>2, <1>4, <1>6, <1>8, <1>9, <2>1 DEF WriteFinding
  <1>10. CASE CaseStatusAfter(q.to) # "NONE"
    <2>1. PICK n : n = [q EXCEPT !.at = "checkCase", !.to = CaseStatusAfter(q.to)]
      OBVIOUS
    <2>2. n.at = "checkCase" /\ n.to = CaseStatusAfter(q.to) /\ n.case = q.case
      BY <2>1 DEF RequestRow
    <2>3. Own(r) /\ request'[r] = n
      BY <1>1, <1>10, <2>1, Put DEF WriteFinding
    <2> QED BY <1>1, <1>2, <1>4, <1>6, <1>8, <1>10, <2>2, <2>3 DEF WriteFinding
  <1> QED BY <1>9, <1>10

-------------------------------------------------------------------------------
(* Requests served one at a time, where the regime says so.                *)

\* A handler that is called finds no other in flight there.
Calls == \E op \in regime.handlers : May(op)

\* A step moves no request, or one that is in flight or starts.
Turn == \/ UNCHANGED request /\ Calls
        \/ \E r \in Request : Own(r) /\ (request[r] # Idle \/ Calls)

LEMMA BeginsTurn ==
  ASSUME NEW r \in Request, NEW op, NEW at, Begins(r, op, at)
  PROVE  Turn
  BY DEF Begins, Turn, Calls, May

LEMMA GoesTurn ==
  ASSUME NEW r \in Request, Own(r), request[r].at # "idle"
  PROVE  Turn
  BY DEF Turn, Idle

LEMMA MayTurn ==
  ASSUME NEW op, May(op), UNCHANGED request
  PROVE  Turn
  BY DEF Turn, Calls, May

LEMMA MediaTurn ==
  ASSUME Inductive, MediaWork
  PROVE  Turn
  <1>1. CASE InitiatePresignedUpload \/ ObjectArrives
    BY <1>1, InitiateDoes, MayTurn DEF ObjectArrives, Answer
  <1>2. ASSUME NEW r \in Request,
               \/ UploadMediaAsset(r) \/ UploadEvidence(r) \/ ConfirmUpload(r)
               \/ CleanupFailedUploads(r) \/ DeleteReplaceable(r)
        PROVE  Turn
    BY <1>2, UploadMediaAssetDoes, UploadEvidenceDoes, ConfirmUploadDoes, CleanupDoes,
       DeleteReplaceableDoes, BeginsTurn
  <1>3. ASSUME NEW r \in Request,
               \/ InsertAsset(r) \/ MarkProcessing(r) \/ MarkFailed(r) \/ ProcessObject(r)
               \/ MarkReady(r) \/ DeleteStaleObject(r) \/ DeleteStaleRow(r) \/ MarkGone(r)
               \/ RemoveObjects(r)
        PROVE  Turn
    <2>1. Own(r) /\ request[r].at # "idle"
      <3>1. CASE InsertAsset(r) \/ MarkProcessing(r) \/ MarkFailed(r)
        BY <3>1, InsertAssetDoes, WriteUploadDoes DEF MarkProcessing, MarkFailed, Goes
      <3>2. CASE ProcessObject(r)
        BY <3>2, ProcessObjectDoes DEF Goes, Processing
      <3>3. CASE \/ MarkReady(r) \/ DeleteStaleObject(r) \/ DeleteStaleRow(r) \/ MarkGone(r)
                 \/ RemoveObjects(r)
        BY <3>3, MarkReadyDoes, DeleteStaleObjectDoes, DeleteStaleRowDoes, MarkGoneDoes,
           RemoveObjectsDoes DEF Goes
      <3> QED BY <1>3, <3>1, <3>2, <3>3
    <2> QED BY <2>1, GoesTurn
  <1> QED BY <1>1, <1>2, <1>3 DEF MediaWork

LEMMA RetentionTurn ==
  ASSUME Inductive, RetentionNext, ~RecoveryElapses
  PROVE  Turn
  <1>1. CASE SetLegalHold \/ SetInvestigationHold \/ FlagAsset \/ MoveAssetsToArchive
    BY <1>1, SetLegalHoldDoes, SetInvestigationHoldDoes, FlagAssetDoes, ArchiveDoes, MayTurn
  <1>2. ASSUME NEW r \in Request,
               \/ CreateDeletionRequest(r) \/ ApproveDeletionRequest(r)
               \/ RejectDeletionRequest(r) \/ CancelDeletionRequest(r)
               \/ CompleteDeletionRequest(r)
        PROVE  Turn
    BY <1>2, CreateDeletionDoes, ApproveDoes, RefuseDoes, CompleteDoes, BeginsTurn
  <1>3. ASSUME NEW r \in Request,
               \/ InsertDeletion(r) \/ WriteApproval(r) \/ MarkPendingDeletion(r)
               \/ WriteRefusal(r) \/ SkipFlagged(r) \/ EraseObjects(r) \/ WriteDeleted(r)
               \/ IssueCertificate(r) \/ WriteCompleted(r)
        PROVE  Turn
    BY <1>3, InsertDeletionDoes, WriteApprovalDoes, MarkPendingDoes, WriteRefusalDoes,
       SkipFlaggedDoes, EraseObjectsDoes, WriteDeletedDoes, IssueCertificateDoes,
       WriteCompletedDoes, GoesTurn DEF Goes
  <1> QED BY <1>1, <1>2, <1>3 DEF RetentionNext

LEMMA HoldTurn ==
  ASSUME Inductive, HoldNext
  PROVE  Turn
  <1>1. CASE MarkEnteredInError
    BY <1>1, EnteredInErrorDoes, MayTurn
  <1>2. ASSUME NEW r \in Request,
               LinkEvidence(r) \/ RequestHoldRelease(r) \/ ReleaseInvestigationHold(r)
        PROVE  Turn
    BY <1>2, LinkEvidenceDoes, ReleaseDoes, BeginsTurn
  <1>3. ASSUME NEW r \in Request,
               \/ InsertLink(r) \/ ReadCaseHold(r) \/ ApplyHold(r) \/ RecordReleaseRequest(r)
               \/ WriteRelease(r) \/ ListLinks(r) \/ CheckOtherCases(r) \/ ClearHold(r)
        PROVE  Turn
    BY <1>3, InsertLinkDoes, ReadCaseHoldDoes, ApplyHoldDoes, RecordReleaseDoes,
       WriteReleaseDoes, ListLinksDoes, CheckOtherDoes, ClearHoldDoes, GoesTurn DEF Goes
  <1> QED BY <1>1, <1>2, <1>3 DEF HoldNext

LEMMA CaseTurn ==
  ASSUME Inductive, CaseNext
  PROVE  Turn
  <1>1. CASE CreateCase \/ EscalateCase \/ AssignInvestigator \/ CreateFinding \/ AmendFinding
    BY <1>1, CreateCaseDoes, EscalateDoes, DraftDoes, MayTurn
  <1>2. ASSUME NEW r \in Request,
               \/ CreateCaseFromReferral(r)
               \/ SubmitCase(r) \/ TriageCase(r) \/ BeginOrResume(r) \/ RequestInformation(r)
               \/ ReopenCase(r) \/ CloseCase(r)
               \/ SubmitFinding(r) \/ ApproveFinding(r) \/ ReturnFinding(r)
        PROVE  Turn
    BY <1>2, ReferDoes, AskCaseDoes, AskFindingDoes, BeginsTurn
  <1>3. ASSUME NEW r \in Request,
               InsertReferredCase(r) \/ CheckCase(r) \/ WriteCase(r) \/ WriteFinding(r)
        PROVE  Turn
    BY <1>3, InsertReferredDoes, CheckCaseDoes, WriteCaseDoes, WriteFindingDoes, GoesTurn DEF Goes
  <1> QED BY <1>1, <1>2, <1>3 DEF CaseNext

LEMMA CrashTurn ==
  ASSUME Inductive, NEW r \in Request, Crash(r)
  PROVE  Turn /\ Own(r) /\ request'[r] = Idle /\ UNCHANGED rows
  BY PutIdle DEF Crash, Turn

LEMMA Turns ==
  ASSUME Inductive, Work
  PROVE  Turn \/ RecoveryElapses
  BY MediaTurn, RetentionTurn, HoldTurn, CaseTurn, CrashTurn DEF Work

\* Of requests served one at a time, the others are idle.
Solo(r) == regime.serial => \A s \in Request \ {r} : request[s] = Idle /\ request'[s] = Idle

LEMMA OwnSolo ==
  ASSUME Inductive, Alone, NEW r \in Request, Own(r), request[r] # Idle \/ Calls
  PROVE  Solo(r)
  BY DEF Own, Solo, Alone, Calls, May, Quiescent, Inductive, Typed

LEMMA GoesSolo ==
  ASSUME Inductive, Alone, NEW r \in Request, Own(r), request[r].at # "idle"
  PROVE  Solo(r)
  BY OwnSolo DEF Idle

LEMMA BeginsSolo ==
  ASSUME Inductive, Alone, NEW r \in Request, NEW op, NEW at, Begins(r, op, at)
  PROVE  Solo(r)
  BY OwnSolo DEF Begins, Calls, May

LEMMA AloneKept ==
  ASSUME Inductive, Alone, [Work]_seen
  PROVE  Alone'
  <1>1. UNCHANGED regime
    BY DEF Work, seen
  <1>2. CASE UNCHANGED request
    BY <1>1, <1>2 DEF Alone
  <1>3. ASSUME NEW r \in Request, Own(r), request[r] # Idle \/ Calls
        PROVE  Alone'
    BY <1>1, <1>3, OwnSolo DEF Solo, Alone
  <1> QED BY <1>2, <1>3, Turns DEF Turn, RecoveryElapses, seen

-------------------------------------------------------------------------------
(* What was named once stays.                                              *)

FilesStay ==
  \A a \in Asset : /\ Once(a) => Once(a)'
                   /\ Once(a)' \/ asset'[a] = asset[a]
                   /\ Exists(a) /\ Linked(a) => Exists(a)'

CasesStay ==
  \A c \in Case : /\ case[c].status # "NONE" => case'[c].status # "NONE"
                  /\ case[c] = NoCase => case'[c].status # "NONE" \/ case'[c] = NoCase

\* Rows of files are written without taking their place away.
LEMMA FilesStayWritten ==
  ASSUME \A a \in Asset : \/ asset'[a] = asset[a]
                          \/ Exists(a)' /\ asset'[a].upload # "NONE"
                          \/ Exists(a) /\ asset'[a].upload = asset[a].upload
  PROVE  FilesStay
  BY DEF FilesStay, Once, Exists

LEMMA StaleRowStays ==
  ASSUME Inductive, NEW r \in Request, DeleteStaleRow(r)
  PROVE  FilesStay
  <1>1. [NoAsset EXCEPT !.upload = "CLEARED"].upload = "CLEARED"
    BY DEF NoAsset
  <1> QED BY <1>1, DeleteStaleRowDoes DEF FilesStay, Once, Exists

LEMMA MediaStays ==
  ASSUME Inductive, MediaWork
  PROVE  FilesStay
  <1>1. CASE InitiatePresignedUpload
    BY <1>1, InitiateDoes, FilesStayWritten DEF Exists
  <1>2. ASSUME NEW r \in Request, InsertAsset(r) PROVE FilesStay
    <2>1. \A b, k : NewAsset("READY", b, k).upload = "READY"
      BY NewFields
    <2> QED BY <1>2, <2>1, InsertAssetDoes, FilesStayWritten DEF Exists
  <1>3. ASSUME NEW r \in Request, MarkProcessing(r) \/ MarkFailed(r) \/ MarkReady(r)
        PROVE  FilesStay
    BY <1>3, WriteUploadDoes, MarkReadyDoes, FilesStayWritten DEF Exists, MarkProcessing, MarkFailed
  <1>4. ASSUME NEW r \in Request, DeleteStaleRow(r) PROVE FilesStay
    BY <1>4, StaleRowStays
  <1>5. ASSUME NEW r \in Request, MarkGone(r) PROVE FilesStay
    BY <1>5, MarkGoneDoes, FilesStayWritten DEF GoneFile
  <1>6. CASE UNCHANGED asset
    BY <1>6, FilesStayWritten
  <1>7. ASSUME NEW r \in Request,
               \/ UploadMediaAsset(r) \/ UploadEvidence(r) \/ ConfirmUpload(r)
               \/ CleanupFailedUploads(r) \/ DeleteReplaceable(r) \/ ProcessObject(r)
               \/ DeleteStaleObject(r) \/ RemoveObjects(r)
        PROVE  UNCHANGED asset
    BY <1>7 DEF UploadMediaAsset, UploadEvidence, ConfirmUpload, CleanupFailedUploads,
                DeleteReplaceable, ProcessObject, ReadObject, StoreFinal,
                DropUpload, FailAfterStore, DeleteStaleObject, RemoveObjects, rows
  <1> QED BY <1>1, <1>2, <1>3, <1>4, <1>5, <1>6, <1>7 DEF MediaWork, ObjectArrives

LEMMA RetentionStays ==
  ASSUME Inductive, RetentionNext
  PROVE  FilesStay
  <1>1. CASE SetLegalHold \/ SetInvestigationHold
    BY <1>1, SetLegalHoldDoes, SetInvestigationHoldDoes, FilesStayWritten
  <1>2. CASE RetentionOnly
    BY <1>2, FilesStayWritten DEF RetentionOnly, SameFile
  <1>3. ASSUME NEW r \in Request, WriteDeleted(r) PROVE FilesStay
    BY <1>3, WriteDeletedDoes, FilesStayWritten DEF GoneFile
  <1>4. CASE UNCHANGED asset
    BY <1>4, FilesStayWritten
  <1>5. ASSUME NEW r \in Request,
               \/ CreateDeletionRequest(r) \/ InsertDeletion(r)
               \/ ApproveDeletionRequest(r) \/ WriteApproval(r)
               \/ RejectDeletionRequest(r) \/ CancelDeletionRequest(r) \/ WriteRefusal(r)
               \/ CompleteDeletionRequest(r) \/ SkipFlagged(r) \/ EraseObjects(r)
               \/ IssueCertificate(r) \/ WriteCompleted(r)
        PROVE  UNCHANGED asset
    BY <1>5 DEF CreateDeletionRequest, InsertDeletion, ApproveDeletionRequest, WriteApproval,
                RejectDeletionRequest, CancelDeletionRequest, WriteRefusal,
                CompleteDeletionRequest, SkipFlagged, EraseObjects, IssueCertificate,
                WriteCompleted, rows
  <1> QED BY <1>1, <1>2, <1>3, <1>4, <1>5, ArchiveDoes, MarkPendingDoes
          DEF RetentionNext, FlagAsset, RecoveryElapses

LEMMA HoldStays ==
  ASSUME Inductive, HoldNext
  PROVE  FilesStay
  <1>1. ASSUME NEW x, NEW on, HoldBecomes(x, on) PROVE FilesStay
    BY <1>1, FilesStayWritten DEF HoldBecomes
  <1>2. CASE UNCHANGED asset
    BY <1>2, FilesStayWritten
  <1>3. ASSUME NEW r \in Request,
               \/ LinkEvidence(r) \/ InsertLink(r) \/ ReadCaseHold(r)
               \/ RequestHoldRelease(r) \/ RecordReleaseRequest(r)
               \/ ReleaseInvestigationHold(r) \/ WriteRelease(r) \/ ListLinks(r)
               \/ CheckOtherCases(r)
        PROVE  UNCHANGED asset
    BY <1>3 DEF LinkEvidence, InsertLink, ReadCaseHold, RequestHoldRelease, RecordReleaseRequest,
                ReleaseInvestigationHold, WriteRelease, ListLinks, CheckOtherCases, rows
  <1> QED BY <1>1, <1>2, <1>3, ApplyHoldDoes, ClearHoldDoes DEF HoldNext, MarkEnteredInError

LEMMA CasesLeaveFiles ==
  ASSUME Inductive, CaseNext
  PROVE  UNCHANGED <<asset, objects, flagged, deletion, certificate, link>>
  <1>1. CASE CreateCase \/ EscalateCase \/ AssignInvestigator \/ CreateFinding \/ AmendFinding
    BY <1>1 DEF CreateCase, EscalateCase, AssignInvestigator, CreateFinding, AmendFinding
  <1>2. ASSUME NEW r \in Request,
               \/ SubmitCase(r) \/ TriageCase(r) \/ BeginOrResume(r) \/ RequestInformation(r)
               \/ ReopenCase(r) \/ CloseCase(r)
        PROVE  UNCHANGED rows
    BY <1>2, AskCaseDoes
  <1>3. ASSUME NEW r \in Request, SubmitFinding(r) \/ ApproveFinding(r) \/ ReturnFinding(r)
        PROVE  UNCHANGED rows
    BY <1>3, AskFindingDoes
  <1>4. ASSUME NEW r \in Request,
               \/ CreateCaseFromReferral(r) \/ InsertReferredCase(r)
               \/ CheckCase(r) \/ WriteCase(r) \/ WriteFinding(r)
        PROVE  UNCHANGED <<asset, objects, flagged, deletion, certificate, link>>
    BY <1>4 DEF CreateCaseFromReferral, InsertReferredCase, CheckCase, WriteCase, WriteFinding, rows
  <1> QED BY <1>1, <1>2, <1>3, <1>4 DEF CaseNext, rows

LEMMA MediaLeaves ==
  ASSUME Inductive, MediaWork
  PROVE  /\ UNCHANGED <<certificate, case, link, finding>>
         /\ \A d \in Deletion : /\ deletion'[d].links \subseteq deletion[d].links
                                /\ deletion'[d].status = deletion[d].status
                                /\ deletion'[d].initiator = deletion[d].initiator
                                /\ deletion'[d].approver = deletion[d].approver
         /\ flagged' \subseteq flagged
  <1>1. CASE InitiatePresignedUpload \/ ObjectArrives
    BY <1>1 DEF InitiatePresignedUpload, ObjectArrives
  <1>2. ASSUME NEW r \in Request,
               \/ UploadMediaAsset(r) \/ UploadEvidence(r) \/ InsertAsset(r)
               \/ ConfirmUpload(r) \/ MarkProcessing(r) \/ MarkFailed(r)
               \/ ProcessObject(r) \/ MarkReady(r)
               \/ CleanupFailedUploads(r) \/ DeleteStaleObject(r)
               \/ DeleteReplaceable(r) \/ MarkGone(r) \/ RemoveObjects(r)
        PROVE  UNCHANGED <<flagged, deletion, certificate, case, link, finding>>
    BY <1>2 DEF UploadMediaAsset, UploadEvidence, InsertAsset, ConfirmUpload, MarkProcessing,
                MarkFailed, WriteUpload, ProcessObject, ReadObject, StoreFinal,
                DropUpload, FailAfterStore, MarkReady, CleanupFailedUploads,
                DeleteStaleObject, DeleteReplaceable, MarkGone, RemoveObjects, rows
  <1>3. ASSUME NEW r \in Request, DeleteStaleRow(r)
        PROVE  /\ UNCHANGED <<certificate, case, link, finding>>
               /\ \A d \in Deletion : /\ deletion'[d].links \subseteq deletion[d].links
                                      /\ deletion'[d].status = deletion[d].status
                                      /\ deletion'[d].initiator = deletion[d].initiator
                                      /\ deletion'[d].approver = deletion[d].approver
               /\ flagged' \subseteq flagged
    BY <1>3, DeleteStaleRowDoes
  <1> QED BY <1>1, <1>2, <1>3 DEF MediaWork

LEMMA RetentionLeaves ==
  ASSUME Inductive, RetentionNext
  PROVE  UNCHANGED <<case, link, finding>>
  BY DEF RetentionNext, SetLegalHold, SetInvestigationHold, FlagAsset, MoveAssetsToArchive,
         RecoveryElapses, CreateDeletionRequest, InsertDeletion, ApproveDeletionRequest,
         WriteApproval, MarkPendingDeletion, RejectDeletionRequest, CancelDeletionRequest,
         WriteRefusal, CompleteDeletionRequest, SkipFlagged, EraseObjects, WriteDeleted,
         IssueCertificate, WriteCompleted, rows

LEMMA HoldLeaves ==
  ASSUME Inductive, HoldNext
  PROVE  UNCHANGED <<objects, flagged, deletion, certificate, finding>>
  BY DEF HoldNext, MarkEnteredInError, LinkEvidence, InsertLink, ReadCaseHold, ApplyHold,
         WriteHold, RequestHoldRelease, RecordReleaseRequest, ReleaseInvestigationHold,
         WriteRelease, ListLinks, CheckOtherCases, ClearHold, rows

LEMMA NothingStands ==
  /\ NoCase.status = "NONE" /\ ~NoCase.hold
  /\ NoLink.asset = None /\ NoLink.case = None
  /\ NoFinding.status = "NONE" /\ NoFinding.case = None
  /\ NoAsset.upload = "NONE"
  /\ NoDeletion.links = {} /\ NoDeletion.initiator = None /\ NoDeletion.approver = None
  /\ NoDeletion.status = "NONE"
  BY DEF NoCase, NoLink, NoFinding, NoAsset, NoDeletion

LEMMA CaseIsNotNone == ASSUME NEW c \in Case PROVE c # None
  BY NoneAssumption DEF Identifier

LEMMA HoldNextCases ==
  ASSUME Inductive, Named, HoldNext
  PROVE  CasesStay
  <1>1. CASE UNCHANGED case
    BY <1>1 DEF CasesStay
  <1>2. ASSUME NEW r \in Request, RecordReleaseRequest(r) \/ WriteRelease(r) PROVE CasesStay
    <2>1. CaseTouched(request[r].case)
      BY <1>2, RecordReleaseDoes, WriteReleaseDoes
    <2>2. Known(request[r].case) /\ request[r].case # None
      BY <1>2, RecordReleaseDoes, WriteReleaseDoes DEF Named, RequestNames
    <2>3. case[request[r].case] # NoCase
      BY <2>2, NothingStands DEF Known
    <2> QED BY <2>1, <2>3 DEF CaseTouched, CasesStay
  <1>3. ASSUME NEW r \in Request,
               \/ LinkEvidence(r) \/ InsertLink(r) \/ ReadCaseHold(r) \/ ApplyHold(r)
               \/ RequestHoldRelease(r) \/ ReleaseInvestigationHold(r) \/ ListLinks(r)
               \/ CheckOtherCases(r) \/ ClearHold(r)
        PROVE  UNCHANGED case
    BY <1>3 DEF LinkEvidence, InsertLink, ReadCaseHold, ApplyHold, WriteHold,
                RequestHoldRelease, ReleaseInvestigationHold, ListLinks, CheckOtherCases,
                ClearHold, rows
  <1> QED BY <1>1, <1>2, <1>3 DEF HoldNext, MarkEnteredInError

LEMMA CaseNextCases ==
  ASSUME Inductive, Named, CaseNext
  PROVE  CasesStay
  <1>1. CASE UNCHANGED case
    BY <1>1 DEF CasesStay
  <1>2. CASE CaseCreated
    BY <1>2 DEF CasesStay, CaseCreated
  <1>3. CASE EscalateCase \/ AssignInvestigator
    BY <1>3, EscalateDoes DEF CasesStay
  <1>4. ASSUME NEW r \in Request, WriteCase(r) PROVE CasesStay
    BY <1>4, WriteCaseDoes DEF CasesStay
  <1>5. ASSUME NEW r \in Request,
               \/ CreateCaseFromReferral(r) \/ SubmitCase(r) \/ TriageCase(r) \/ BeginOrResume(r)
               \/ RequestInformation(r) \/ ReopenCase(r) \/ CheckCase(r) \/ CloseCase(r)
               \/ SubmitFinding(r) \/ ApproveFinding(r) \/ ReturnFinding(r) \/ WriteFinding(r)
        PROVE  UNCHANGED case
    BY <1>5, ReferDoes, AskCaseDoes, CheckCaseDoes, AskFindingDoes, WriteFindingDoes DEF rows
  <1> QED BY <1>1, <1>2, <1>3, <1>4, <1>5, CreateCaseDoes, InsertReferredDoes
          DEF CaseNext, CreateFinding, AmendFinding, rows

\* What a request has named is still there.
LEMMA NamesStay ==
  ASSUME FilesStay, CasesStay, UNCHANGED regime,
         NEW q \in RequestRow, RequestNames(q), Called(q)
  PROVE  RequestNames(q)' /\ Called(q)'
  <1>1. q.todo \subseteq Asset /\ q.case \in Case \cup {None}
    BY DEF RequestRow
  <1>2. Known(q.case)'
    BY <1>1 DEF RequestNames, Known, CasesStay
  <1>3. q.asset \in Asset /\ Once(q.asset) => Once(q.asset)'
    BY DEF FilesStay
  <1>4. (\A a \in q.todo : Once(a)) => \A a \in q.todo : Once(a)'
    BY <1>1 DEF FilesStay
  <1> QED BY <1>2, <1>3, <1>4 DEF RequestNames, Called

\* A step after which the requests are as sound as they were.
LEMMA RequestsStay ==
  ASSUME Inductive, Named, FilesStay, CasesStay, UNCHANGED regime, NamesSound',
         \/ UNCHANGED request
         \/ \E r \in Request : \E n : /\ Own(r) /\ request'[r] = n
                                      /\ RequestNames(n)' /\ Called(n)'
  PROVE  Named'
  <1>1. \A s \in Request : request[s] \in RequestRow
    BY FilesTyped
  <1>2. ASSUME NEW s \in Request, request'[s] = request[s]
        PROVE  RequestNames(request[s])' /\ Called(request[s])'
    <2>1. PICK q \in RequestRow : q = request[s]
      BY <1>1
    <2>2. RequestNames(q)' /\ Called(q)'
      BY <2>1, NamesStay DEF Named
    <2>3. request'[s] = q
      BY <1>2, <2>1
    <2> QED BY <2>2, <2>3 DEF RequestNames, Called, Known, Once
  <1>3. ASSUME NEW s \in Request PROVE RequestNames(request[s])' /\ Called(request[s])'
    <2>1. CASE UNCHANGED request
      BY <1>2, <2>1
    <2>2. ASSUME NEW r \in Request, NEW n, Own(r), request'[r] = n, RequestNames(n)', Called(n)'
          PROVE  RequestNames(request[s])' /\ Called(request[s])'
      <3>1. CASE s = r
        <4>1. request'[s] = n
          BY <2>2, <3>1
        <4> QED BY <2>2, <4>1 DEF RequestNames, Called, Known, Once
      <3>2. CASE s # r
        BY <1>2, <2>2, <3>2, FilesTyped DEF Own
      <3> QED BY <3>1, <3>2
    <2> QED BY <2>1, <2>2
  <1> QED BY <1>3 DEF Named

\* A request that goes on names only what was there already.
GoesOnNamed(r) ==
  Own(r) /\ RequestNames(request'[r]) /\ Called(request'[r])

LEMMA NamesGoOn ==
  ASSUME Inductive, Inductive', Named, FilesStay, CasesStay, UNCHANGED regime, NamesSound',
         UNCHANGED request \/ \E r \in Request : GoesOnNamed(r)
  PROVE  Named'
  <1>1. CASE UNCHANGED request
    BY <1>1, RequestsStay
  <1>2. ASSUME NEW r \in Request, GoesOnNamed(r) PROVE Named'
    <2>1. request'[r] \in RequestRow
      BY DEF Inductive, Typed
    <2>2. PICK n \in RequestRow : n = request'[r]
      BY <2>1
    <2>3. RequestNames(n) /\ Called(n)
      BY <1>2, <2>2 DEF GoesOnNamed
    <2>4. RequestNames(n)' /\ Called(n)'
      BY <2>3, NamesStay
    <2> QED BY <1>2, <2>2, <2>4, RequestsStay DEF GoesOnNamed
  <1> QED BY <1>1, <1>2

LEMMA IdleGoesOn ==
  ASSUME NEW r, Own(r), request'[r] = Idle
  PROVE  GoesOnNamed(r)
  BY DEF GoesOnNamed, RequestNames, Called, Idle, Known

\* The rows that name others are left alone, or name less.
LEMMA SameNames ==
  ASSUME Inductive, Named, FilesStay, CasesStay, UNCHANGED <<link, finding>>,
         \A d \in Deletion : \A a \in deletion'[d].links : a \in Asset /\ Once(a)
  PROVE  NamesSound'
  <1>1. \A l \in Link : link[l].asset \in Asset \cup {None} /\ link[l].case \in Case \cup {None}
    BY LinksTyped
  <1>2. \A f \in Finding : finding[f].case \in Case \cup {None}
    BY DEF Inductive, Typed, RowsTypeOK, FindingRow
  <1>3. \A a \in Asset : Once(a)' \/ asset'[a] = NoAsset
    BY DEF FilesStay, Named, NamesSound
  <1>4. \A d \in Deletion : \A a \in deletion'[d].links : Once(a)'
    BY DEF FilesStay
  <1>5. \A c \in Case : case'[c].status = "NONE" => case'[c] = NoCase
    BY DEF CasesStay, Named, NamesSound
  <1>6. \A f \in Finding : Known(finding[f].case)'
    BY <1>2 DEF CasesStay, Named, NamesSound, Known
  <1>7. \A l \in Link : link[l].asset # None =>
          link[l].case # None /\ Known(link[l].case)' /\ Exists(link[l].asset)'
    BY <1>1 DEF FilesStay, CasesStay, Named, NamesSound, Known, Linked
  <1> QED BY <1>3, <1>4, <1>5, <1>6, <1>7 DEF NamesSound, Once, Known, Exists

LEMMA LinksOnce ==
  ASSUME Inductive, Named, NEW d \in Deletion
  PROVE  \A a \in deletion[d].links : a \in Asset /\ Once(a)
  BY DEF Inductive, Typed, RowsTypeOK, DeletionRow, Named, NamesSound

LEMMA MediaNames ==
  ASSUME Inductive, Inductive', Named, MediaWork, UNCHANGED regime
  PROVE  Named'
  <1>1. FilesStay
    BY MediaStays
  <1>2. CasesStay
    BY MediaLeaves DEF CasesStay
  <1>3. NamesSound'
    BY <1>1, <1>2, MediaLeaves, LinksOnce, SameNames
  <1>4. ASSUME NEW r \in Request,
               \/ UploadMediaAsset(r) \/ UploadEvidence(r) \/ ConfirmUpload(r)
               \/ CleanupFailedUploads(r) \/ DeleteReplaceable(r)
        PROVE  GoesOnNamed(r)
    <2>1. CASE UploadMediaAsset(r)
      BY <2>1, UploadMediaAssetDoes DEF Begins, GoesOnNamed, RequestNames, Called, Known
    <2>2. CASE UploadEvidence(r)
      BY <2>2, UploadEvidenceDoes, CaseIsNotNone
         DEF Begins, GoesOnNamed, RequestNames, Called, Known, Named, NamesSound
    <2>3. CASE ConfirmUpload(r)
      BY <2>3, ConfirmUploadDoes DEF Begins, May, GoesOnNamed, RequestNames, Called, Known, Once
    <2>4. CASE CleanupFailedUploads(r)
      BY <2>4, CleanupDoes DEF Begins, May, GoesOnNamed, RequestNames, Called, Known, Once, IsStale
    <2>5. CASE DeleteReplaceable(r)
      BY <2>5, DeleteReplaceableDoes
         DEF Begins, GoesOnNamed, RequestNames, Called, Known, Once, Exists
    <2> QED BY <1>4, <2>1, <2>2, <2>3, <2>4, <2>5
  <1>5. ASSUME NEW r \in Request,
               \/ InsertAsset(r) \/ MarkProcessing(r) \/ MarkFailed(r) \/ ProcessObject(r)
               \/ MarkReady(r) \/ DeleteStaleObject(r) \/ DeleteStaleRow(r) \/ MarkGone(r)
               \/ RemoveObjects(r)
        PROVE  GoesOnNamed(r)
    <2> DEFINE q == request[r]
    <2>1. q \in RequestRow /\ Sound(q) /\ RequestNames(q) /\ Called(q)
      BY InFlightSound DEF Named
    <2>2. CASE request'[r] = Idle /\ Own(r)
      BY <2>2, IdleGoesOn
    <2>3. CASE InsertAsset(r)
      <3>1. q.asset \in Asset
        BY <2>1, <2>3, InsertAssetDoes DEF Sound, LinkSound
      <3> QED BY <2>1, <2>2, <2>3, <3>1, InsertAssetDoes
              DEF Goes, Same, GoesOnNamed, RequestNames, Called
    <2>4. CASE MarkProcessing(r)
      <3>1. q.at = "markProcessing" /\ \E ok : Goes(r, ok, "processObject")
        BY <2>4, WriteUploadDoes DEF MarkProcessing
      <3> QED BY <2>1, <2>2, <3>1 DEF Goes, Same, GoesOnNamed, RequestNames, Called
    <2>5. CASE MarkFailed(r)
      <3>1. Own(r) /\ request'[r] = Idle
        BY <2>5, WriteUploadDoes DEF MarkFailed, Goes
      <3> QED BY <2>2, <3>1
    <2>6. CASE ProcessObject(r)
      BY <2>1, <2>6, ProcessObjectDoes
         DEF Processing, Goes, Same, GoesOnNamed, RequestNames, Called
    <2>7. CASE MarkReady(r) \/ RemoveObjects(r)
      BY <2>2, <2>7, MarkReadyDoes, RemoveObjectsDoes
    <2>8. CASE DeleteStaleObject(r)
      <3>1. q.todo \subseteq Asset
        BY <2>1 DEF RequestRow
      <3> QED BY <2>1, <2>8, <3>1, DeleteStaleObjectDoes DEF GoesOnNamed, RequestNames, Called
    <2>9. CASE DeleteStaleRow(r)
      BY <2>1, <2>2, <2>9, DeleteStaleRowDoes DEF Goes, Same, GoesOnNamed, RequestNames, Called
    <2>10. CASE MarkGone(r)
      BY <2>1, <2>2, <2>10, MarkGoneDoes DEF Goes, Same, GoesOnNamed, RequestNames, Called
    <2> QED BY <1>5, <2>3, <2>4, <2>5, <2>6, <2>7, <2>8, <2>9, <2>10
  <1>6. CASE InitiatePresignedUpload \/ ObjectArrives
    BY <1>1, <1>2, <1>3, <1>6, NamesGoOn DEF InitiatePresignedUpload, ObjectArrives, Answer
  <1> QED BY <1>1, <1>2, <1>3, <1>4, <1>5, <1>6, NamesGoOn DEF MediaWork

LEMMA RetentionNames ==
  ASSUME Inductive, Inductive', Named, RetentionNext, UNCHANGED regime
  PROVE  Named'
  <1>1. FilesStay
    BY RetentionStays
  <1>2. CasesStay
    BY RetentionLeaves DEF CasesStay
  <1>3. ASSUME NEW r \in Request,
               \/ CreateDeletionRequest(r) \/ ApproveDeletionRequest(r)
               \/ RejectDeletionRequest(r) \/ CancelDeletionRequest(r)
               \/ CompleteDeletionRequest(r)
        PROVE  GoesOnNamed(r) /\ UNCHANGED deletion
    <2>1. CASE CreateDeletionRequest(r)
      BY <2>1, CreateDeletionDoes DEF Begins, GoesOnNamed, RequestNames, Called, Known, rows
    <2>2. CASE ApproveDeletionRequest(r)
      BY <2>2, ApproveDoes DEF Begins, GoesOnNamed, RequestNames, Called, Known, rows
    <2>3. CASE RejectDeletionRequest(r) \/ CancelDeletionRequest(r)
      BY <2>3, RefuseDoes DEF Begins, GoesOnNamed, RequestNames, Called, Known, rows
    <2>4. CASE CompleteDeletionRequest(r)
      <3>1. \A a \in request'[r].todo : Once(a)
        BY <2>4, CompleteDoes, LinksOnce
      <3> QED BY <2>4, <3>1, CompleteDoes
              DEF Begins, May, GoesOnNamed, RequestNames, Called, Known, rows
    <2> QED BY <1>3, <2>1, <2>2, <2>3, <2>4
  <1>4. ASSUME NEW r \in Request,
               \/ InsertDeletion(r) \/ WriteApproval(r) \/ MarkPendingDeletion(r)
               \/ WriteRefusal(r) \/ SkipFlagged(r) \/ EraseObjects(r) \/ WriteDeleted(r)
               \/ IssueCertificate(r) \/ WriteCompleted(r)
        PROVE  GoesOnNamed(r)
    <2> DEFINE q == request[r]
    <2>1. q \in RequestRow /\ RequestNames(q) /\ Called(q)
      BY InFlightSound DEF Named
    <2>2. CASE request'[r] = Idle /\ Own(r)
      BY <2>2, IdleGoesOn
    <2>3. CASE InsertDeletion(r) \/ MarkPendingDeletion(r) \/ WriteRefusal(r) \/ WriteCompleted(r)
      BY <2>2, <2>3, InsertDeletionDoes, MarkPendingDoes, WriteRefusalDoes, WriteCompletedDoes
    <2>4. CASE WriteApproval(r)
      BY <2>1, <2>4, WriteApprovalDoes DEF Goes, Same, GoesOnNamed, RequestNames, Called
    <2>5. CASE SkipFlagged(r)
      BY <2>1, <2>5, SkipFlaggedDoes DEF GoesOnNamed, RequestNames, Called
    <2>6. CASE EraseObjects(r)
      BY <2>1, <2>6, EraseObjectsDoes DEF GoesOnNamed, RequestNames, Called
    <2>7. CASE WriteDeleted(r)
      BY <2>1, <2>2, <2>7, WriteDeletedDoes DEF GoesOnNamed, RequestNames, Called
    <2>8. CASE IssueCertificate(r)
      BY <2>1, <2>2, <2>8, IssueCertificateDoes DEF Goes, Same, GoesOnNamed, RequestNames, Called
    <2> QED BY <1>4, <2>3, <2>4, <2>5, <2>6, <2>7, <2>8
  <1>5. \A d \in Deletion : \A a \in deletion'[d].links : a \in Asset /\ Once(a)
    <2>1. CASE \A d \in Deletion : deletion'[d].links = deletion[d].links
      BY <2>1, LinksOnce
    <2>2. ASSUME NEW r \in Request, InsertDeletion(r)
          PROVE  \A d \in Deletion : \A a \in deletion'[d].links : a \in Asset /\ Once(a)
      <3>1. request[r].todo \subseteq Asset
        BY FilesTyped DEF RequestRow
      <3> QED BY <2>2, <3>1, InsertDeletionDoes, LinksOnce DEF Once, Exists
    <2>3. ASSUME NEW r \in Request, WriteApproval(r) \/ WriteRefusal(r) \/ WriteCompleted(r)
          PROVE  \A d \in Deletion : deletion'[d].links = deletion[d].links
      BY <2>3, WriteApprovalDoes, WriteRefusalDoes, WriteCompletedDoes DEF DeletionBecomes
    <2>4. ASSUME NEW r \in Request,
                 \/ MarkPendingDeletion(r) \/ SkipFlagged(r) \/ EraseObjects(r)
                 \/ WriteDeleted(r) \/ IssueCertificate(r)
          PROVE  UNCHANGED deletion
      BY <2>4 DEF MarkPendingDeletion, SkipFlagged, EraseObjects, WriteDeleted, IssueCertificate, rows
    <2>5. CASE SetLegalHold \/ SetInvestigationHold \/ FlagAsset \/ MoveAssetsToArchive
      BY <2>1, <2>5 DEF SetLegalHold, SetInvestigationHold, FlagAsset, MoveAssetsToArchive
    <2> QED BY <1>3, <2>1, <2>2, <2>3, <2>4, <2>5, RecoveryElapsesDoes DEF RetentionNext
  <1>6. NamesSound'
    BY <1>1, <1>2, <1>5, RetentionLeaves, SameNames
  <1>7. CASE SetLegalHold \/ SetInvestigationHold \/ FlagAsset \/ MoveAssetsToArchive \/ RecoveryElapses
    BY <1>1, <1>2, <1>6, <1>7, NamesGoOn
       DEF SetLegalHold, SetInvestigationHold, FlagAsset, MoveAssetsToArchive, RecoveryElapses, Answer
  <1> QED BY <1>1, <1>2, <1>3, <1>4, <1>6, <1>7, NamesGoOn DEF RetentionNext

\* The other rows name what they named.
LEMMA LinkNames ==
  ASSUME Inductive, Named, FilesStay, CasesStay, UNCHANGED <<deletion, finding>>,
         \A l \in Link : link'[l].asset # None =>
           /\ asset'[link'[l].asset].upload \notin {"NONE", "CLEARED"}
           /\ link'[l].case \in Case /\ case'[link'[l].case].status # "NONE"
  PROVE  NamesSound'
  <1>1. \A f \in Finding : finding[f].case \in Case \cup {None}
    BY DEF Inductive, Typed, RowsTypeOK, FindingRow
  <1>2. \A a \in Asset : Once(a)' \/ asset'[a] = NoAsset
    BY DEF FilesStay, Named, NamesSound
  <1>3. \A d \in Deletion : \A a \in deletion[d].links : Once(a)'
    BY LinksOnce DEF FilesStay
  <1>4. \A c \in Case : case'[c].status = "NONE" => case'[c] = NoCase
    BY DEF CasesStay, Named, NamesSound
  <1>5. \A f \in Finding : Known(finding[f].case)'
    BY <1>1 DEF CasesStay, Named, NamesSound, Known
  <1>6. \A l \in Link : link'[l].asset # None => link'[l].case # None
    BY CaseIsNotNone
  <1> QED BY <1>2, <1>3, <1>4, <1>5, <1>6 DEF NamesSound, Once, Known, Exists

LEMMA LinkedStands ==
  ASSUME Inductive, Named, FilesStay, CasesStay, NEW l \in Link, link[l].asset # None
  PROVE  /\ asset'[link[l].asset].upload \notin {"NONE", "CLEARED"}
         /\ link[l].case \in Case /\ case'[link[l].case].status # "NONE"
  BY LinksTyped DEF FilesStay, CasesStay, Named, NamesSound, Known, Linked, Exists

LEMMA HoldNames ==
  ASSUME Inductive, Inductive', Named, HoldNext, UNCHANGED regime
  PROVE  Named'
  <1>1. FilesStay /\ CasesStay
    BY HoldStays, HoldNextCases
  <1>2. UNCHANGED <<deletion, finding>>
    BY HoldLeaves
  <1>3. ASSUME UNCHANGED link PROVE NamesSound'
    BY <1>1, <1>2, <1>3, LinksOnce, SameNames
  <1>4. CASE MarkEnteredInError
    <2>1. NamesSound'
      BY <1>1, <1>2, <1>4, EnteredInErrorDoes, LinkedStands, LinkNames
    <2> QED BY <1>1, <1>4, <2>1, EnteredInErrorDoes, NamesGoOn
  <1>5. ASSUME NEW r \in Request, InsertLink(r) PROVE NamesSound'
    <2> DEFINE q == request[r]
    <2>1. q \in RequestRow /\ RequestNames(q)
      BY InFlightSound DEF Named
    <2>2. /\ q.asset \in Asset /\ q.case \in Case /\ case[q.case].status # "NONE"
      BY <1>5, <2>1, InsertLinkDoes DEF RequestNames, Known, RequestRow
    <2>3. UNCHANGED <<asset, case>>
      BY <1>5, InsertLinkDoes
    <2>4. ASSUME NEW l \in Link, link'[l].asset # None
          PROVE  /\ asset'[link'[l].asset].upload \notin {"NONE", "CLEARED"}
                 /\ link'[l].case \in Case /\ case'[link'[l].case].status # "NONE"
      <3>1. CASE link'[l] = link[l]
        BY <1>1, <2>4, <3>1, LinkedStands
      <3>2. CASE link'[l] # link[l]
        <4>1. Exists(q.asset) /\ link'[l].asset = q.asset /\ link'[l].case = q.case
          BY <1>5, <3>2, InsertLinkDoes
        <4> QED BY <2>2, <2>3, <4>1 DEF Exists
      <3> QED BY <3>1, <3>2
    <2> QED BY <1>1, <1>2, <2>4, LinkNames
  <1>6. ASSUME NEW r \in Request,
               \/ LinkEvidence(r) \/ ReadCaseHold(r) \/ ApplyHold(r)
               \/ RequestHoldRelease(r) \/ RecordReleaseRequest(r)
               \/ ReleaseInvestigationHold(r) \/ WriteRelease(r) \/ ListLinks(r)
               \/ CheckOtherCases(r) \/ ClearHold(r)
        PROVE  UNCHANGED link
    BY <1>6 DEF LinkEvidence, ReadCaseHold, ApplyHold, WriteHold, RequestHoldRelease,
                RecordReleaseRequest, ReleaseInvestigationHold, WriteRelease, ListLinks,
                CheckOtherCases, ClearHold, rows
  <1>7. ASSUME NEW r \in Request,
               LinkEvidence(r) \/ RequestHoldRelease(r) \/ ReleaseInvestigationHold(r)
        PROVE  GoesOnNamed(r)
    <2>1. CASE LinkEvidence(r)
      <3>1. case[request'[r].case].status # "NONE"
        BY <2>1, LinkEvidenceDoes DEF Named, NamesSound
      <3> QED BY <2>1, <3>1, LinkEvidenceDoes, CaseIsNotNone
              DEF Begins, GoesOnNamed, RequestNames, Called, Known
    <2>2. CASE RequestHoldRelease(r) \/ ReleaseInvestigationHold(r)
      <3>1. case[request'[r].case].status # "NONE"
        BY <2>2, ReleaseDoes, NothingStands DEF Named, NamesSound
      <3> QED BY <2>2, <3>1, ReleaseDoes, CaseIsNotNone
              DEF Begins, GoesOnNamed, RequestNames, Called, Known
    <2> QED BY <1>7, <2>1, <2>2
  <1>8. ASSUME NEW r \in Request,
               \/ InsertLink(r) \/ ReadCaseHold(r) \/ ApplyHold(r) \/ RecordReleaseRequest(r)
               \/ WriteRelease(r) \/ ListLinks(r) \/ CheckOtherCases(r) \/ ClearHold(r)
        PROVE  GoesOnNamed(r)
    <2> DEFINE q == request[r]
    <2>1. q \in RequestRow /\ RequestNames(q) /\ Called(q)
      BY InFlightSound DEF Named
    <2>2. CASE request'[r] = Idle /\ Own(r)
      BY <2>2, IdleGoesOn
    <2>3. CASE InsertLink(r)
      BY <2>1, <2>2, <2>3, InsertLinkDoes DEF Goes, Same, GoesOnNamed, RequestNames, Called
    <2>4. CASE ReadCaseHold(r)
      BY <2>1, <2>2, <2>4, ReadCaseHoldDoes DEF Goes, Same, GoesOnNamed, RequestNames, Called
    <2>5. CASE ApplyHold(r) \/ RecordReleaseRequest(r)
      BY <2>2, <2>5, ApplyHoldDoes, RecordReleaseDoes
    <2>6. CASE WriteRelease(r)
      BY <2>1, <2>2, <2>6, WriteReleaseDoes DEF Goes, Same, GoesOnNamed, RequestNames, Called
    <2>7. CASE ListLinks(r)
      BY <2>1, <2>7, ListLinksDoes DEF GoesOnNamed, RequestNames, Called
    <2>8. CASE CheckOtherCases(r)
      BY <2>1, <2>2, <2>8, CheckOtherDoes DEF GoesOnNamed, RequestNames, Called
    <2>9. CASE ClearHold(r)
      BY <2>1, <2>2, <2>9, ClearHoldDoes DEF Goes, Same, GoesOnNamed, RequestNames, Called
    <2> QED BY <1>8, <2>3, <2>4, <2>5, <2>6, <2>7, <2>8, <2>9
  <1> QED BY <1>1, <1>3, <1>4, <1>5, <1>6, <1>7, <1>8, NamesGoOn DEF HoldNext

\* A finding that is new, or of the case it was of.
LEMMA FindingNames ==
  ASSUME Inductive, Named, CasesStay, UNCHANGED <<asset, deletion, link>>,
         \A f \in Finding : finding'[f].case \in Case => case'[finding'[f].case].status # "NONE",
         \A f \in Finding : finding'[f].case \in Case \cup {None}
  PROVE  NamesSound'
  <1>1. FilesStay
    BY FilesStayWritten
  <1>2. \A a \in Asset : Once(a)' \/ asset'[a] = NoAsset
    BY <1>1 DEF FilesStay, Named, NamesSound
  <1>3. \A d \in Deletion : \A a \in deletion[d].links : Once(a)'
    BY <1>1, LinksOnce DEF FilesStay
  <1>4. \A c \in Case : case'[c].status = "NONE" => case'[c] = NoCase
    BY DEF CasesStay, Named, NamesSound
  <1>5. ASSUME NEW l \in Link, link[l].asset # None
        PROVE  link[l].case # None /\ Known(link[l].case)' /\ Exists(link[l].asset)'
    BY <1>1, <1>5, LinkedStands, CaseIsNotNone DEF Known, Exists
  <1> QED BY <1>2, <1>3, <1>4, <1>5 DEF NamesSound, Once, Known, Exists

LEMMA CaseNames ==
  ASSUME Inductive, Inductive', Named, CaseNext, UNCHANGED regime
  PROVE  Named'
  <1>1. FilesStay /\ CasesStay /\ UNCHANGED <<asset, deletion, link>>
    BY CasesLeaveFiles, CaseNextCases, FilesStayWritten
  <1>2. /\ \A f \in Finding : finding[f].case \in Case \cup {None}
        /\ \A f \in Finding : finding'[f].case \in Case \cup {None}
    BY DEF Inductive, Typed, RowsTypeOK, FindingRow
  <1>3. ASSUME UNCHANGED finding PROVE NamesSound'
    BY <1>1, <1>3, LinksOnce, SameNames
  <1>4. ASSUME Drafted PROVE NamesSound'
    <2>1. \A f \in Finding : finding'[f].case \in Case => case[finding'[f].case].status # "NONE"
      <3>1. \A f \in Finding : finding[f].case \in Case => case[finding[f].case].status # "NONE"
        BY CaseIsNotNone DEF Named, NamesSound, Known
      <3>2. \A c \in Case : case[c] # NoCase => case[c].status # "NONE"
        BY DEF Named, NamesSound
      <3> QED BY <1>4, <3>1, <3>2 DEF Drafted
    <2> QED BY <1>1, <1>2, <2>1, FindingNames DEF CasesStay
  <1>5. ASSUME NEW r \in Request, WriteFinding(r) PROVE NamesSound'
    <2>1. \A f \in Finding : finding'[f].case = finding[f].case
      BY <1>5, WriteFindingDoes
    <2>2. \A f \in Finding : finding'[f].case \in Case => case[finding'[f].case].status # "NONE"
      BY <2>1, CaseIsNotNone DEF Named, NamesSound, Known
    <2> QED BY <1>1, <1>2, <2>2, FindingNames DEF CasesStay
  <1>6. CASE CreateCase \/ EscalateCase \/ AssignInvestigator \/ CreateFinding \/ AmendFinding
    <2>1. UNCHANGED request
      BY <1>6, CreateCaseDoes, EscalateDoes, DraftDoes
    <2>2. UNCHANGED finding \/ Drafted
      BY <1>6, DraftDoes DEF CreateCase, EscalateCase, AssignInvestigator
    <2> QED BY <1>1, <1>3, <1>4, <2>1, <2>2, NamesGoOn
  <1>7. ASSUME NEW r \in Request,
               \/ CreateCaseFromReferral(r)
               \/ SubmitCase(r) \/ TriageCase(r) \/ BeginOrResume(r) \/ RequestInformation(r)
               \/ ReopenCase(r) \/ CloseCase(r)
               \/ SubmitFinding(r) \/ ApproveFinding(r) \/ ReturnFinding(r)
        PROVE  GoesOnNamed(r) /\ UNCHANGED finding
    <2>1. CASE CreateCaseFromReferral(r)
      BY <2>1, ReferDoes DEF Begins, GoesOnNamed, RequestNames, Called, Known, rows
    <2>2. CASE \/ SubmitCase(r) \/ TriageCase(r) \/ BeginOrResume(r) \/ RequestInformation(r)
               \/ ReopenCase(r) \/ CloseCase(r)
      BY <2>2, AskCaseDoes DEF Begins, GoesOnNamed, RequestNames, Called, Known, rows
    <2>3. CASE SubmitFinding(r) \/ ApproveFinding(r) \/ ReturnFinding(r)
      BY <2>3, AskFindingDoes
         DEF Begins, GoesOnNamed, RequestNames, Called, Known, rows, Named, NamesSound
    <2> QED BY <1>7, <2>1, <2>2, <2>3
  <1>8. ASSUME NEW r \in Request,
               InsertReferredCase(r) \/ CheckCase(r) \/ WriteCase(r) \/ WriteFinding(r)
        PROVE  GoesOnNamed(r) /\ (UNCHANGED finding \/ WriteFinding(r))
    <2> DEFINE q == request[r]
    <2>1. q \in RequestRow /\ RequestNames(q) /\ Called(q)
      BY InFlightSound DEF Named
    <2>3. CASE InsertReferredCase(r) \/ WriteCase(r)
      <3>1. Own(r) /\ request'[r] = Idle
        BY <2>3, InsertReferredDoes, WriteCaseDoes
      <3>2. UNCHANGED finding
        BY <2>3 DEF InsertReferredCase, WriteCase
      <3> QED BY <3>1, <3>2, IdleGoesOn
    <2>4. CASE CheckCase(r)
      BY <2>1, <2>4, IdleGoesOn, CheckCaseDoes
         DEF Goes, Same, GoesOnNamed, RequestNames, Called, rows
    <2>5. CASE WriteFinding(r)
      BY <2>1, <2>5, IdleGoesOn, WriteFindingDoes DEF GoesOnNamed, RequestNames, Called
    <2> QED BY <1>8, <2>3, <2>4, <2>5
  <1> QED BY <1>1, <1>3, <1>5, <1>6, <1>7, <1>8, NamesGoOn DEF CaseNext

LEMMA NamedKept ==
  ASSUME Inductive, Inductive', Named, [Work]_seen
  PROVE  Named'
  <1>1. CASE UNCHANGED seen
    <2>1. FilesStay /\ CasesStay
      BY <1>1 DEF seen, tables, rows, FilesStay, CasesStay, Once, Exists
    <2>2. NamesSound'
      BY <1>1, <2>1, LinksOnce, SameNames DEF seen, tables, rows
    <2> QED BY <1>1, <2>1, <2>2, NamesGoOn DEF seen
  <1>2. ASSUME NEW r \in Request, Crash(r), UNCHANGED regime PROVE Named'
    <2>1. FilesStay /\ CasesStay
      BY <1>2, CrashTurn DEF rows, FilesStay, CasesStay, Once, Exists
    <2>2. NamesSound'
      BY <1>2, <2>1, CrashTurn, LinksOnce, SameNames DEF rows
    <2> QED BY <1>2, <2>1, <2>2, CrashTurn, IdleGoesOn, NamesGoOn
  <1> QED BY <1>1, <1>2, MediaNames, RetentionNames, HoldNames, CaseNames DEF Work

LEMMA InitNamed == Init => Alone /\ Named
  <1> SUFFICES ASSUME Init PROVE Alone /\ Named
    OBVIOUS
  <1>1. \A r \in Request : request[r] = Idle
    BY DEF Init, Empty
  <1>2. Alone
    BY <1>1 DEF Alone
  <1>3. NamesSound
    BY NothingStands DEF Init, Empty, NamesSound, Once, Known, Exists
  <1>4. RequestNames(Idle) /\ Called(Idle)
    BY DEF RequestNames, Called, Idle, Known
  <1> QED BY <1>1, <1>2, <1>3, <1>4 DEF Named

LEMMA AlwaysNamed == Spec => []Named
  <1>1. Init => Named
    BY InitNamed
  <1>2. Inductive /\ Inductive' /\ Named /\ [Next]_vars => Named'
    BY NamedKept, Works
  <1> QED BY <1>1, <1>2, AlwaysInductive, PTL DEF Spec

LEMMA AlwaysAlone == Spec => []Alone
  <1>1. Init => Alone
    BY InitNamed
  <1>2. Inductive /\ Alone /\ [Next]_vars => Alone'
    BY AloneKept, Works
  <1> QED BY <1>1, <1>2, AlwaysInductive, PTL DEF Spec

-------------------------------------------------------------------------------
(* Each group of handlers moves requests between statements of its own,    *)
(* but for the upload to a case, which goes on to link what it stored.     *)

MediaSteps ==
  {"idle", "insertAsset", "markProcessing", "markFailed", "processObject", "storeFinal", "dropUpload", "markReady",
   "deleteStale", "deleteRow", "markGone", "removeObjects"}
RetentionSteps ==
  {"idle", "insertDeletion", "writeApproval", "markPending", "writeRefusal", "eraseNext",
   "writeDeleted", "writeCompleted"}
HoldSteps ==
  {"idle", "insertLink", "readCaseHold", "applyHold", "recordRequest", "writeRelease",
   "listLinks", "checkOther", "clearHold"}
CaseSteps == {"idle", "insertCase", "checkCase", "writeCase", "writeFinding"}

Moves(r, from, to) ==
  Own(r) /\ request[r].at \in from /\ request'[r].at \in to /\ Solo(r)

LEMMA BeginsMoves ==
  ASSUME Inductive, Alone, NEW r \in Request, NEW op, NEW at, Begins(r, op, at),
         NEW steps, "idle" \in steps, at \in steps
  PROVE  Moves(r, steps, steps)
  <1>1. Solo(r)
    BY BeginsSolo
  <1>2. Own(r) /\ request[r].at = "idle" /\ request'[r].at = at
    BY DEF Begins, Idle
  <1> QED BY <1>1, <1>2 DEF Moves

LEMMA EndsMoves ==
  ASSUME Inductive, Alone, NEW r \in Request, Own(r), request[r].at # "idle",
         NEW from, request[r].at \in from, NEW to,
         "idle" \in to, request'[r] = Idle \/ request'[r].at \in to
  PROVE  Moves(r, from, to)
  BY GoesSolo DEF Moves, Idle

LEMMA MediaMoves ==
  ASSUME Inductive, Alone, MediaWork
  PROVE  \/ UNCHANGED request /\ Calls
         \/ \E r \in Request : Moves(r, MediaSteps, MediaSteps \cup {"insertLink"})
  <1>1. CASE InitiatePresignedUpload \/ ObjectArrives
    BY <1>1 DEF InitiatePresignedUpload, ObjectArrives, Answer, Calls, May
  <1>2. ASSUME NEW r \in Request,
               \/ UploadMediaAsset(r) \/ UploadEvidence(r) \/ ConfirmUpload(r)
               \/ CleanupFailedUploads(r) \/ DeleteReplaceable(r)
        PROVE  Moves(r, MediaSteps, MediaSteps)
    <2>1. \E op : \E at \in MediaSteps : Begins(r, op, at)
      BY <1>2, UploadMediaAssetDoes, UploadEvidenceDoes, ConfirmUploadDoes, CleanupDoes,
         DeleteReplaceableDoes DEF MediaSteps
    <2> QED BY <2>1, BeginsMoves DEF MediaSteps
  <1>3. ASSUME NEW r \in Request,
               \/ InsertAsset(r) \/ MarkProcessing(r) \/ MarkFailed(r) \/ ProcessObject(r)
               \/ DeleteStaleRow(r) \/ MarkGone(r)
        PROVE  Moves(r, MediaSteps, MediaSteps \cup {"insertLink"})
    <2>1. /\ request[r].at \in MediaSteps \ {"idle"} /\ Own(r)
          /\ request'[r] = Idle \/ request'[r].at \in MediaSteps \cup {"insertLink"}
      <3>1. CASE InsertAsset(r)
        BY <3>1, InsertAssetDoes DEF MediaSteps, Goes
      <3>2. CASE MarkProcessing(r)
        BY <3>2, WriteUploadDoes DEF MediaSteps, MarkProcessing, Goes
      <3>3. CASE MarkFailed(r)
        BY <3>3, WriteUploadDoes DEF MediaSteps, MarkFailed, Goes
      <3>4. CASE ProcessObject(r)
        BY <3>4, ProcessObjectDoes DEF MediaSteps, Goes, Processing
      <3>5. CASE DeleteStaleRow(r)
        BY <3>5, DeleteStaleRowDoes DEF MediaSteps, Goes
      <3>6. CASE MarkGone(r)
        BY <3>6, MarkGoneDoes DEF MediaSteps, Goes
      <3> QED BY <1>3, <3>1, <3>2, <3>3, <3>4, <3>5, <3>6
    <2> QED BY <2>1, EndsMoves DEF MediaSteps
  <1>4. ASSUME NEW r \in Request, MarkReady(r) \/ RemoveObjects(r) \/ DeleteStaleObject(r)
        PROVE  Moves(r, MediaSteps, MediaSteps)
    <2>1. /\ request[r].at \in MediaSteps \ {"idle"} /\ Own(r)
          /\ request'[r] = Idle \/ request'[r].at \in MediaSteps
      BY <1>4, MarkReadyDoes, RemoveObjectsDoes, DeleteStaleObjectDoes DEF MediaSteps
    <2> QED BY <2>1, EndsMoves DEF MediaSteps
  <1> QED BY <1>1, <1>2, <1>3, <1>4 DEF MediaWork, Moves

LEMMA RetentionMoves ==
  ASSUME Inductive, Alone, RetentionNext
  PROVE  \/ RecoveryElapses
         \/ UNCHANGED request /\ Calls
         \/ \E r \in Request : Moves(r, RetentionSteps, RetentionSteps)
  <1>1. CASE SetLegalHold \/ SetInvestigationHold \/ FlagAsset \/ MoveAssetsToArchive
    BY <1>1 DEF SetLegalHold, SetInvestigationHold, FlagAsset, MoveAssetsToArchive,
                Answer, Calls, May
  <1>2. ASSUME NEW r \in Request,
               \/ CreateDeletionRequest(r) \/ ApproveDeletionRequest(r)
               \/ RejectDeletionRequest(r) \/ CancelDeletionRequest(r)
               \/ CompleteDeletionRequest(r)
        PROVE  Moves(r, RetentionSteps, RetentionSteps)
    <2>1. \E op : \E at \in RetentionSteps : Begins(r, op, at)
      BY <1>2, CreateDeletionDoes, ApproveDoes, RefuseDoes, CompleteDoes DEF RetentionSteps
    <2> QED BY <2>1, BeginsMoves DEF RetentionSteps
  <1>3. ASSUME NEW r \in Request,
               \/ InsertDeletion(r) \/ WriteApproval(r) \/ MarkPendingDeletion(r)
               \/ WriteRefusal(r) \/ SkipFlagged(r) \/ EraseObjects(r) \/ WriteDeleted(r)
               \/ IssueCertificate(r) \/ WriteCompleted(r)
        PROVE  Moves(r, RetentionSteps, RetentionSteps)
    <2>1. /\ request[r].at \in RetentionSteps \ {"idle"} /\ Own(r)
          /\ request'[r] = Idle \/ request'[r].at \in RetentionSteps
      BY <1>3, InsertDeletionDoes, WriteApprovalDoes, MarkPendingDoes, WriteRefusalDoes,
         SkipFlaggedDoes, EraseObjectsDoes, WriteDeletedDoes, IssueCertificateDoes,
         WriteCompletedDoes DEF RetentionSteps, Goes
    <2> QED BY <2>1, EndsMoves DEF RetentionSteps
  <1> QED BY <1>1, <1>2, <1>3 DEF RetentionNext

LEMMA HoldMoves ==
  ASSUME Inductive, Alone, HoldNext
  PROVE  \/ UNCHANGED request /\ Calls
         \/ \E r \in Request : Moves(r, HoldSteps, HoldSteps)
  <1>1. CASE MarkEnteredInError
    BY <1>1 DEF MarkEnteredInError, Answer, Calls, May
  <1>2. ASSUME NEW r \in Request,
               LinkEvidence(r) \/ RequestHoldRelease(r) \/ ReleaseInvestigationHold(r)
        PROVE  Moves(r, HoldSteps, HoldSteps)
    <2>1. \E op : \E at \in HoldSteps : Begins(r, op, at)
      BY <1>2, LinkEvidenceDoes, ReleaseDoes DEF HoldSteps
    <2> QED BY <2>1, BeginsMoves DEF HoldSteps
  <1>3. ASSUME NEW r \in Request,
               \/ InsertLink(r) \/ ReadCaseHold(r) \/ ApplyHold(r) \/ RecordReleaseRequest(r)
               \/ WriteRelease(r) \/ ListLinks(r) \/ CheckOtherCases(r) \/ ClearHold(r)
        PROVE  Moves(r, HoldSteps, HoldSteps)
    <2>1. /\ request[r].at \in HoldSteps \ {"idle"} /\ Own(r)
          /\ request'[r] = Idle \/ request'[r].at \in HoldSteps
      BY <1>3, InsertLinkDoes, ReadCaseHoldDoes, ApplyHoldDoes, RecordReleaseDoes,
         WriteReleaseDoes, ListLinksDoes, CheckOtherDoes, ClearHoldDoes DEF HoldSteps, Goes
    <2> QED BY <2>1, EndsMoves DEF HoldSteps
  <1> QED BY <1>1, <1>2, <1>3 DEF HoldNext

LEMMA CaseMoves ==
  ASSUME Inductive, Alone, CaseNext
  PROVE  \/ UNCHANGED request /\ Calls
         \/ \E r \in Request : Moves(r, CaseSteps, CaseSteps)
  <1>1. CASE CreateCase \/ EscalateCase \/ AssignInvestigator \/ CreateFinding \/ AmendFinding
    BY <1>1 DEF CreateCase, EscalateCase, AssignInvestigator, CreateFinding, AmendFinding,
                Answer, Calls, May
  <1>2. ASSUME NEW r \in Request,
               \/ CreateCaseFromReferral(r)
               \/ SubmitCase(r) \/ TriageCase(r) \/ BeginOrResume(r) \/ RequestInformation(r)
               \/ ReopenCase(r) \/ CloseCase(r)
               \/ SubmitFinding(r) \/ ApproveFinding(r) \/ ReturnFinding(r)
        PROVE  Moves(r, CaseSteps, CaseSteps)
    <2>1. \E op : \E at \in CaseSteps : Begins(r, op, at)
      BY <1>2, ReferDoes, AskCaseDoes, AskFindingDoes DEF CaseSteps
    <2> QED BY <2>1, BeginsMoves DEF CaseSteps
  <1>3. ASSUME NEW r \in Request,
               InsertReferredCase(r) \/ CheckCase(r) \/ WriteCase(r) \/ WriteFinding(r)
        PROVE  Moves(r, CaseSteps, CaseSteps)
    <2>1. /\ request[r].at \in CaseSteps \ {"idle"} /\ Own(r)
          /\ request'[r] = Idle \/ request'[r].at \in CaseSteps
      BY <1>3, InsertReferredDoes, CheckCaseDoes, WriteCaseDoes, WriteFindingDoes
         DEF CaseSteps, Goes
    <2> QED BY <2>1, EndsMoves DEF CaseSteps
  <1> QED BY <1>1, <1>2, <1>3 DEF CaseNext

\* Served one at a time, every request is at a statement of the group, or idle.
All(from, to) ==
  \A s \in Request : request[s].at \in from /\ request'[s].at \in to

LEMMA AllMove ==
  ASSUME Inductive, regime.serial, NEW from, NEW to, "idle" \in from, "idle" \in to,
         \/ UNCHANGED request /\ Calls
         \/ \E r \in Request : Moves(r, from, to)
  PROVE  All(from, to)
  <1>1. CASE UNCHANGED request /\ Calls
    BY <1>1 DEF Calls, May, Quiescent, Idle, All
  <1>2. ASSUME NEW r \in Request, Moves(r, from, to) PROVE All(from, to)
    BY <1>2 DEF Moves, Solo, Idle, All
  <1> QED BY <1>1, <1>2

LEMMA MediaAlone ==
  ASSUME Inductive, Alone, regime.serial, MediaWork
  PROVE  All(MediaSteps, MediaSteps \cup {"insertLink"})
  BY MediaMoves, AllMove DEF MediaSteps

LEMMA RetentionAlone ==
  ASSUME Inductive, Alone, regime.serial, RetentionNext, ~RecoveryElapses
  PROVE  All(RetentionSteps, RetentionSteps)
  BY RetentionMoves, AllMove DEF RetentionSteps

LEMMA HoldAlone ==
  ASSUME Inductive, Alone, regime.serial, HoldNext
  PROVE  All(HoldSteps, HoldSteps)
  BY HoldMoves, AllMove DEF HoldSteps

LEMMA CaseAlone ==
  ASSUME Inductive, Alone, regime.serial, CaseNext
  PROVE  All(CaseSteps, CaseSteps)
  BY CaseMoves, AllMove DEF CaseSteps

-------------------------------------------------------------------------------
(* What is READY stays READY, and what is not becomes READY only for a     *)
(* request that nobody else is waiting for.                                *)

\* Nobody else stores or clears the file.
UploadsStay ==
  \A a \in Asset : (Ready(a) => Ready(a)') /\ (NotYet(a) => NotYet(a)')

LEMMA UploadsUnchanged ==
  ASSUME \A a \in Asset : asset'[a].upload = asset[a].upload
  PROVE  UploadsStay
  BY DEF UploadsStay, Ready, NotYet, Once

LEMMA ReadyCarriedStays ==
  ASSUME UploadsStay, NEW q \in RequestRow, ReadyCarried(q)
  PROVE  ReadyCarried(q)'
  <1>1. q.todo \subseteq Asset
    BY DEF RequestRow
  <1>2. /\ \A a \in q.todo : Ready(a) => Ready(a)'
        /\ \A a \in q.todo : NotYet(a) => NotYet(a)'
        /\ q.asset \in Asset /\ NotYet(q.asset) => NotYet(q.asset)'
    BY <1>1 DEF UploadsStay
  <1> QED BY <1>2 DEF ReadyCarried

\* A request that goes on waits for what it waited for already.
GoesOnReady(r) == Own(r) /\ ReadyCarried(request'[r])

LEMMA ReadyGoesOn ==
  ASSUME Inductive, Inductive', ReadyInTime, InCustody, UNCHANGED regime, UploadsStay,
         \A d \in Deletion : \A a \in deletion'[d].links : a \in Asset /\ Ready(a),
         UNCHANGED request \/ \E r \in Request : GoesOnReady(r)
  PROVE  ReadyInTime'
  <1>1. ASSUME NEW s \in Request PROVE ReadyCarried(request[s])'
    <2>1. PICK q \in RequestRow : q = request'[s]
      BY DEF Inductive, Typed
    <2>2. ReadyCarried(q)
      <3>1. ReadyCarried(request[s])
        BY DEF ReadyInTime
      <3>2. CASE request'[s] = request[s]
        BY <2>1, <3>1, <3>2
      <3>3. ASSUME NEW r \in Request, GoesOnReady(r), request'[s] # request[s]
            PROVE  ReadyCarried(q)
        <4>1. s = r
          BY <3>3, FilesTyped DEF GoesOnReady, Own
        <4> QED BY <2>1, <3>3, <4>1 DEF GoesOnReady
      <3> QED BY <3>2, <3>3
    <2>3. ReadyCarried(q)'
      BY <2>2, ReadyCarriedStays
    <2> QED BY <2>1, <2>3 DEF ReadyCarried, Ready, NotYet, Once
  <1>2. \A d \in Deletion : \A a \in deletion'[d].links : Ready(a)'
    BY DEF UploadsStay
  <1> QED BY <1>1, <1>2 DEF ReadyInTime, Ready

LEMMA CoveredReady ==
  ASSUME Inductive, ReadyInTime, InCustody, NEW d \in Deletion
  PROVE  \A a \in deletion[d].links : a \in Asset /\ Ready(a)
  BY DEF Inductive, Typed, RowsTypeOK, DeletionRow, ReadyInTime

LEMMA IdleReady ==
  ASSUME NEW q, q.at \in HoldSteps \cup CaseSteps
  PROVE  ReadyCarried(q)
  BY DEF ReadyCarried, HoldSteps, CaseSteps

LEMMA IdleIsIdle == Idle.at = "idle"
  BY DEF Idle

LEMMA IdleWaits == ReadyCarried(Idle)
  BY IdleIsIdle, IdleReady DEF HoldSteps

LEMMA MediaReady ==
  ASSUME Inductive, Inductive', Alone, Named, ReadyInTime, InCustody, MediaWork, UNCHANGED regime
  PROVE  ReadyInTime'
  <1>1. \A d \in Deletion : \A a \in deletion'[d].links : a \in Asset /\ Ready(a)
    BY MediaLeaves, CoveredReady
  <1>2. CASE InitiatePresignedUpload
    <2>1. UploadsStay
      BY <1>2, InitiateDoes, NothingStands DEF UploadsStay, Ready, NotYet, Once
    <2> QED BY <1>1, <1>2, <2>1, InitiateDoes, ReadyGoesOn
  <1>3. CASE ObjectArrives
    BY <1>1, <1>3, UploadsUnchanged, ReadyGoesOn DEF ObjectArrives, Answer
  <1>4. ASSUME NEW r \in Request,
               \/ UploadMediaAsset(r) \/ UploadEvidence(r) \/ ConfirmUpload(r)
               \/ CleanupFailedUploads(r) \/ DeleteReplaceable(r)
        PROVE  ReadyInTime'
    <2>1. UNCHANGED asset
      BY <1>4 DEF UploadMediaAsset, UploadEvidence, ConfirmUpload, CleanupFailedUploads,
                  DeleteReplaceable, rows
    <2>2. CASE UploadMediaAsset(r) \/ UploadEvidence(r) \/ DeleteReplaceable(r)
      <3>1. GoesOnReady(r)
        BY <2>2, UploadMediaAssetDoes, UploadEvidenceDoes, DeleteReplaceableDoes
           DEF Begins, GoesOnReady, ReadyCarried
      <3> QED BY <1>1, <2>1, <3>1, UploadsUnchanged, ReadyGoesOn
    <2>3. CASE ConfirmUpload(r)
      <3>1. GoesOnReady(r)
        BY <2>3, ConfirmUploadDoes DEF Begins, GoesOnReady, ReadyCarried, NotYet, Once, Ready
      <3> QED BY <1>1, <2>1, <3>1, UploadsUnchanged, ReadyGoesOn
    <2>4. CASE CleanupFailedUploads(r)
      <3>1. GoesOnReady(r)
        BY <2>4, CleanupDoes DEF Begins, GoesOnReady, ReadyCarried, NotYet, Once, Ready, IsStale
      <3> QED BY <1>1, <2>1, <3>1, UploadsUnchanged, ReadyGoesOn
    <2> QED BY <1>4, <2>2, <2>3, <2>4
  <1>5. ASSUME NEW r \in Request, InsertAsset(r) PROVE ReadyInTime'
    <2>1. UploadsStay
      <3>1. \A b, k : NewAsset("READY", b, k).upload = "READY"
        BY NewFields
      <3> QED BY <1>5, <3>1, InsertAssetDoes, NothingStands DEF UploadsStay, Ready, NotYet, Once
    <2>2. GoesOnReady(r)
      BY <1>5, InsertAssetDoes, IdleWaits DEF Goes, GoesOnReady, ReadyCarried
    <2> QED BY <1>1, <2>1, <2>2, ReadyGoesOn
  <1>6. ASSUME NEW r \in Request, NEW at \in {"markProcessing", "markFailed"},
               NEW status \in {"PROCESSING", "FAILED"}, NEW next \in {"processObject", "end"},
               WriteUpload(r, at, status, next)
        PROVE  ReadyInTime'
    <2>1. request[r].at = at /\ NotYet(request[r].asset) /\ request[r].asset \in Asset
      BY <1>6, WriteUploadDoes DEF ReadyInTime, ReadyCarried
    <2>2. UploadsStay
      BY <1>6, <2>1, WriteUploadDoes DEF UploadsStay, Ready, NotYet, Once
    <2>3. GoesOnReady(r)
      BY <1>6, <2>1, WriteUploadDoes, IdleWaits DEF Goes, Same, GoesOnReady, ReadyCarried
    <2> QED BY <1>1, <2>2, <2>3, ReadyGoesOn
  <1>7. ASSUME NEW r \in Request, ProcessObject(r) PROVE ReadyInTime'
    <2>1. NotYet(request[r].asset) /\ request[r].asset \in Asset
      BY <1>7, ProcessObjectDoes DEF ReadyInTime, ReadyCarried, Processing
    <2>2. GoesOnReady(r)
      BY <1>7, <2>1, ProcessObjectDoes DEF Goes, Same, GoesOnReady, ReadyCarried
    <2>3. UNCHANGED <<asset, deletion>>
      BY <1>7, ProcessObjectDoes
    <2>4. UploadsStay
      BY <2>3, UploadsUnchanged
    <2> QED BY <1>1, <2>2, <2>3, <2>4, ReadyGoesOn
  <1>8. ASSUME NEW r \in Request, MarkReady(r) PROVE ReadyInTime'
    <2>1. request[r].at = "markReady" /\ request'[r] = Idle /\ Own(r)
      BY <1>8, MarkReadyDoes
    <2>2. regime.serial
      BY <2>1 DEF Named, Called, InCustody
    <2>3. \A s \in Request : request'[s] = Idle
      BY <2>1, <2>2, GoesSolo DEF Solo
    <2>4. \A a \in Asset : Ready(a) => Ready(a)'
      BY <1>8, MarkReadyDoes DEF Ready
    <2>5. \A d \in Deletion : \A a \in deletion'[d].links : Ready(a)'
      BY <1>1, <2>4
    <2>6. ReadyCarried(Idle)'
      BY IdleIsIdle DEF ReadyCarried
    <2>7. \A s \in Request : ReadyCarried(request[s])'
      BY <2>3, IdleIsIdle DEF ReadyCarried
    <2> QED BY <2>5, <2>7 DEF ReadyInTime, Ready
  <1>9. ASSUME NEW r \in Request, DeleteStaleObject(r) PROVE ReadyInTime'
    <2>1. request[r].todo \subseteq Asset /\ \A a \in request[r].todo : NotYet(a)
      BY <1>9, DeleteStaleObjectDoes, FilesTyped DEF ReadyInTime, ReadyCarried, RequestRow
    <2>2. GoesOnReady(r)
      BY <1>9, <2>1, DeleteStaleObjectDoes DEF GoesOnReady, ReadyCarried
    <2> QED BY <1>1, <1>9, <2>2, UploadsUnchanged, ReadyGoesOn DEF DeleteStaleObject
  <1>10. ASSUME NEW r \in Request, DeleteStaleRow(r) PROVE ReadyInTime'
    <2>1. /\ NotYet(request[r].asset) /\ request[r].asset \in Asset
          /\ \A a \in request[r].todo : NotYet(a)
      BY <1>10, DeleteStaleRowDoes DEF ReadyInTime, ReadyCarried
    <2>2. [NoAsset EXCEPT !.upload = "CLEARED"].upload = "CLEARED"
      BY DEF NoAsset
    <2>3. UploadsStay
      BY <1>10, <2>1, <2>2, DeleteStaleRowDoes DEF UploadsStay, Ready, NotYet, Once
    <2>4. GoesOnReady(r)
      BY <1>10, <2>1, DeleteStaleRowDoes, IdleWaits DEF Goes, Same, GoesOnReady, ReadyCarried
    <2> QED BY <1>1, <2>3, <2>4, ReadyGoesOn
  <1>11. ASSUME NEW r \in Request, MarkGone(r) PROVE ReadyInTime'
    <2>1. UploadsStay
      BY <1>11, MarkGoneDoes, UploadsUnchanged DEF GoneFile
    <2>2. GoesOnReady(r)
      BY <1>11, MarkGoneDoes, IdleWaits DEF Goes, Same, GoesOnReady, ReadyCarried
    <2> QED BY <1>1, <2>1, <2>2, ReadyGoesOn
  <1>12. ASSUME NEW r \in Request, RemoveObjects(r) PROVE ReadyInTime'
    <2>1. GoesOnReady(r) /\ UNCHANGED asset
      BY <1>12, RemoveObjectsDoes, IdleWaits DEF GoesOnReady
    <2> QED BY <1>1, <2>1, UploadsUnchanged, ReadyGoesOn
  <1> QED BY <1>2, <1>3, <1>4, <1>5, <1>6, <1>7, <1>8, <1>9, <1>10, <1>11, <1>12
          DEF MediaWork, MarkProcessing, MarkFailed

LEMMA RetentionUploads ==
  ASSUME Inductive, RetentionNext
  PROVE  \A a \in Asset : asset'[a].upload = asset[a].upload
  <1>1. CASE SetLegalHold \/ SetInvestigationHold
    BY <1>1, SetLegalHoldDoes, SetInvestigationHoldDoes
  <1>2. ASSUME RetentionOnly PROVE \A a \in Asset : asset'[a].upload = asset[a].upload
    BY <1>2 DEF RetentionOnly, SameFile
  <1>3. ASSUME NEW r \in Request, WriteDeleted(r)
        PROVE  \A a \in Asset : asset'[a].upload = asset[a].upload
    BY <1>3, WriteDeletedDoes DEF GoneFile
  <1>4. ASSUME NEW r \in Request,
               \/ CreateDeletionRequest(r) \/ InsertDeletion(r)
               \/ ApproveDeletionRequest(r) \/ WriteApproval(r)
               \/ RejectDeletionRequest(r) \/ CancelDeletionRequest(r) \/ WriteRefusal(r)
               \/ CompleteDeletionRequest(r) \/ SkipFlagged(r) \/ EraseObjects(r)
               \/ IssueCertificate(r) \/ WriteCompleted(r)
        PROVE  UNCHANGED asset
    BY <1>4 DEF CreateDeletionRequest, InsertDeletion, ApproveDeletionRequest, WriteApproval,
                RejectDeletionRequest, CancelDeletionRequest, WriteRefusal,
                CompleteDeletionRequest, SkipFlagged, EraseObjects, IssueCertificate,
                WriteCompleted, rows
  <1> QED BY <1>1, <1>2, <1>3, <1>4, ArchiveDoes, MarkPendingDoes
          DEF RetentionNext, FlagAsset, RecoveryElapses

LEMMA RetentionReady ==
  ASSUME Inductive, Inductive', ReadyInTime, InCustody, RetentionNext, UNCHANGED regime
  PROVE  ReadyInTime'
  <1>1. UploadsStay
    BY RetentionUploads, UploadsUnchanged
  <1>2. ASSUME NEW r \in Request,
               \/ CreateDeletionRequest(r) \/ ApproveDeletionRequest(r)
               \/ RejectDeletionRequest(r) \/ CancelDeletionRequest(r)
               \/ CompleteDeletionRequest(r)
        PROVE  GoesOnReady(r) /\ UNCHANGED deletion
    <2>1. CASE CreateDeletionRequest(r)
      BY <2>1, CreateDeletionDoes DEF Begins, GoesOnReady, ReadyCarried, rows
    <2>2. CASE ApproveDeletionRequest(r)
      BY <2>2, ApproveDoes DEF Begins, GoesOnReady, ReadyCarried, rows
    <2>3. CASE RejectDeletionRequest(r) \/ CancelDeletionRequest(r)
      BY <2>3, RefuseDoes DEF Begins, GoesOnReady, ReadyCarried, rows
    <2>4. CASE CompleteDeletionRequest(r)
      BY <2>4, CompleteDoes, CoveredReady DEF Begins, GoesOnReady, ReadyCarried, rows
    <2> QED BY <1>2, <2>1, <2>2, <2>3, <2>4
  <1>3. ASSUME NEW r \in Request,
               \/ InsertDeletion(r) \/ WriteApproval(r) \/ MarkPendingDeletion(r)
               \/ WriteRefusal(r) \/ SkipFlagged(r) \/ EraseObjects(r) \/ WriteDeleted(r)
               \/ IssueCertificate(r) \/ WriteCompleted(r)
        PROVE  GoesOnReady(r)
    <2> DEFINE q == request[r]
    <2>1. q \in RequestRow /\ ReadyCarried(q)
      BY FilesTyped DEF ReadyInTime
    <2>2. CASE InsertDeletion(r) \/ MarkPendingDeletion(r) \/ WriteRefusal(r) \/ WriteCompleted(r)
      BY <2>2, InsertDeletionDoes, MarkPendingDoes, WriteRefusalDoes, WriteCompletedDoes, IdleWaits
         DEF GoesOnReady
    <2>3. CASE WriteApproval(r)
      BY <2>3, WriteApprovalDoes DEF Goes, Same, GoesOnReady, ReadyCarried
    <2>4. CASE SkipFlagged(r)
      BY <2>1, <2>4, SkipFlaggedDoes DEF GoesOnReady, ReadyCarried
    <2>5. CASE EraseObjects(r)
      BY <2>1, <2>5, EraseObjectsDoes DEF GoesOnReady, ReadyCarried
    <2>6. CASE WriteDeleted(r)
      BY <2>1, <2>6, WriteDeletedDoes, IdleWaits DEF GoesOnReady, ReadyCarried
    <2>7. CASE IssueCertificate(r)
      BY <2>7, IssueCertificateDoes, IdleWaits DEF Goes, GoesOnReady, ReadyCarried
    <2> QED BY <1>3, <2>2, <2>3, <2>4, <2>5, <2>6, <2>7
  <1>4. \A d \in Deletion : \A a \in deletion'[d].links : a \in Asset /\ Ready(a)
    <2>1. CASE \A d \in Deletion : deletion'[d].links = deletion[d].links
      BY <2>1, CoveredReady
    <2>2. ASSUME NEW r \in Request, InsertDeletion(r)
          PROVE  \A d \in Deletion : \A a \in deletion'[d].links : a \in Asset /\ Ready(a)
      <3>1. request[r].todo \subseteq Asset /\ \A a \in request[r].todo : Ready(a)
        BY <2>2, InsertDeletionDoes, FilesTyped DEF RequestRow, ReadyInTime, ReadyCarried
      <3> QED BY <2>2, <3>1, InsertDeletionDoes, CoveredReady
    <2>3. ASSUME NEW r \in Request, WriteApproval(r) \/ WriteRefusal(r) \/ WriteCompleted(r)
          PROVE  \A d \in Deletion : deletion'[d].links = deletion[d].links
      BY <2>3, WriteApprovalDoes, WriteRefusalDoes, WriteCompletedDoes DEF DeletionBecomes
    <2>4. ASSUME NEW r \in Request,
                 \/ MarkPendingDeletion(r) \/ SkipFlagged(r) \/ EraseObjects(r)
                 \/ WriteDeleted(r) \/ IssueCertificate(r)
          PROVE  UNCHANGED deletion
      BY <2>4 DEF MarkPendingDeletion, SkipFlagged, EraseObjects, WriteDeleted, IssueCertificate, rows
    <2>5. CASE SetLegalHold \/ SetInvestigationHold \/ FlagAsset \/ MoveAssetsToArchive
      BY <2>1, <2>5 DEF SetLegalHold, SetInvestigationHold, FlagAsset, MoveAssetsToArchive
    <2> QED BY <1>2, <2>1, <2>2, <2>3, <2>4, <2>5, RecoveryElapsesDoes DEF RetentionNext
  <1>5. CASE SetLegalHold \/ SetInvestigationHold \/ FlagAsset \/ MoveAssetsToArchive \/ RecoveryElapses
    <2>1. UNCHANGED request
      BY <1>5 DEF SetLegalHold, SetInvestigationHold, FlagAsset, MoveAssetsToArchive,
                  RecoveryElapses, Answer
    <2> QED BY <1>1, <1>4, <2>1, ReadyGoesOn
  <1> QED BY <1>1, <1>2, <1>3, <1>4, <1>5, ReadyGoesOn DEF RetentionNext

LEMMA HoldUploads ==
  ASSUME Inductive, HoldNext
  PROVE  \A a \in Asset : asset'[a].upload = asset[a].upload
  <1>1. ASSUME NEW x, NEW on, HoldBecomes(x, on)
        PROVE  \A a \in Asset : asset'[a].upload = asset[a].upload
    BY <1>1 DEF HoldBecomes
  <1>2. ASSUME NEW r \in Request,
               \/ LinkEvidence(r) \/ InsertLink(r) \/ ReadCaseHold(r)
               \/ RequestHoldRelease(r) \/ RecordReleaseRequest(r)
               \/ ReleaseInvestigationHold(r) \/ WriteRelease(r) \/ ListLinks(r)
               \/ CheckOtherCases(r)
        PROVE  UNCHANGED asset
    BY <1>2 DEF LinkEvidence, InsertLink, ReadCaseHold, RequestHoldRelease, RecordReleaseRequest,
                ReleaseInvestigationHold, WriteRelease, ListLinks, CheckOtherCases, rows
  <1> QED BY <1>1, <1>2, ApplyHoldDoes, ClearHoldDoes DEF HoldNext, MarkEnteredInError

LEMMA ReadyKept ==
  ASSUME Inductive, Inductive', Alone, Named, ReadyInTime, [Work]_seen
  PROVE  ReadyInTime'
  <1> SUFFICES ASSUME InCustody PROVE ReadyInTime'
    BY DEF ReadyInTime, InCustody, Work, seen
  <1>1. UNCHANGED regime
    BY DEF Work, seen
  <1>2. CASE MediaWork
    BY <1>1, <1>2, MediaReady
  <1>3. CASE RetentionNext
    BY <1>1, <1>3, RetentionReady
  <1>4. CASE HoldNext
    <2>1. UNCHANGED request \/ \E r \in Request : GoesOnReady(r)
      BY <1>4, HoldMoves, IdleReady DEF Moves, GoesOnReady
    <2> QED BY <1>1, <1>4, <2>1, HoldLeaves, CoveredReady, HoldUploads, UploadsUnchanged, ReadyGoesOn
  <1>5. CASE CaseNext
    <2>1. UNCHANGED request \/ \E r \in Request : GoesOnReady(r)
      BY <1>5, CaseMoves, IdleReady DEF Moves, GoesOnReady
    <2> QED BY <1>1, <1>5, <2>1, CasesLeaveFiles, CoveredReady, UploadsUnchanged, ReadyGoesOn
  <1>6. ASSUME NEW r \in Request, Crash(r) PROVE ReadyInTime'
    <2>1. GoesOnReady(r) /\ UNCHANGED <<asset, deletion>>
      BY <1>6, CrashTurn, IdleWaits DEF GoesOnReady, rows
    <2> QED BY <1>1, <2>1, CoveredReady, UploadsUnchanged, ReadyGoesOn
  <1>7. CASE UNCHANGED seen
    <2>1. UNCHANGED <<asset, deletion, request>>
      BY <1>7 DEF seen, tables, rows
    <2> QED BY <1>1, <2>1, CoveredReady, UploadsUnchanged, ReadyGoesOn
  <1> QED BY <1>2, <1>3, <1>4, <1>5, <1>6, <1>7 DEF Work

LEMMA InitReady == Init => ReadyInTime
  BY NothingStands, IdleWaits DEF Init, Empty, ReadyInTime

LEMMA AlwaysReady == Spec => []ReadyInTime
  <1>1. Inductive /\ Inductive' /\ Alone /\ Named /\ ReadyInTime /\ [Next]_vars => ReadyInTime'
    BY ReadyKept, Works
  <1> QED BY <1>1, InitReady, AlwaysInductive, AlwaysNamed, AlwaysAlone, PTL DEF Spec

-------------------------------------------------------------------------------
(* The custody of the files: what a step of the handlers is to Custody.    *)

SameCustody(a) == FileOf(a)' = FileOf(a) /\ asset'[a].replaceable = asset[a].replaceable

SameMandates == \A d \in Deletion : MandateOf(d)' = MandateOf(d)

LEMMA CustodyStays ==
  ASSUME UNCHANGED regime, InCustody => (\A a \in Asset : SameCustody(a)) /\ SameMandates
  PROVE  UNCHANGED CustodyOfFiles!vars
  <1>1. InCustody' = InCustody
    BY DEF InCustody
  <1>2. CASE InCustody
    <2>1. \A a \in Asset : (IF InCustody THEN FileOf(a) ELSE "absent")'
                           = IF InCustody THEN FileOf(a) ELSE "absent"
      BY <1>1, <1>2 DEF SameCustody
    <2>2. {a \in Asset : InCustody /\ asset[a].replaceable}'
          = {a \in Asset : InCustody /\ asset[a].replaceable}
      BY <1>1, <1>2 DEF SameCustody
    <2>3. \A d \in Deletion :
            (IF InCustody THEN MandateOf(d) ELSE [by |-> None, approver |-> None, files |-> {}])'
            = IF InCustody THEN MandateOf(d) ELSE [by |-> None, approver |-> None, files |-> {}]
      BY <1>1, <1>2 DEF SameMandates
    <2> QED BY <2>1, <2>2, <2>3 DEF CustodyOfFiles!vars
  <1>3. CASE ~InCustody
    BY <1>1, <1>3 DEF CustodyOfFiles!vars
  <1> QED BY <1>2, <1>3

LEMMA FilesAs ==
  ASSUME InCustody, UNCHANGED regime, NEW x \in Asset,
         \A a \in Asset \ {x} : SameCustody(a)
  PROVE  /\ [a \in Asset |-> IF InCustody THEN FileOf(a) ELSE "absent"]'
            = [[a \in Asset |-> IF InCustody THEN FileOf(a) ELSE "absent"]
                 EXCEPT ![x] = FileOf(x)']
         /\ asset'[x].replaceable = asset[x].replaceable =>
              {a \in Asset : InCustody /\ asset[a].replaceable}'
              = {a \in Asset : InCustody /\ asset[a].replaceable}
         /\ {a \in Asset : InCustody /\ asset[a].replaceable}'
            \in {{a \in Asset : InCustody /\ asset[a].replaceable} \cup {x},
                 {a \in Asset : InCustody /\ asset[a].replaceable} \ {x}}
  <1>1. InCustody'
    BY DEF InCustody
  <1>2. [a \in Asset |-> IF InCustody THEN FileOf(a) ELSE "absent"]'
        = [[a \in Asset |-> IF InCustody THEN FileOf(a) ELSE "absent"] EXCEPT ![x] = FileOf(x)']
    BY <1>1 DEF SameCustody
  <1>3. asset'[x].replaceable = asset[x].replaceable =>
          {a \in Asset : InCustody /\ asset[a].replaceable}'
          = {a \in Asset : InCustody /\ asset[a].replaceable}
    BY <1>1 DEF SameCustody
  <1>4. {a \in Asset : InCustody /\ asset[a].replaceable}'
        \in {{a \in Asset : InCustody /\ asset[a].replaceable} \cup {x},
             {a \in Asset : InCustody /\ asset[a].replaceable} \ {x}}
    <2>1. CASE asset'[x].replaceable
      BY <1>1, <2>1 DEF SameCustody
    <2>2. CASE ~asset'[x].replaceable
      BY <1>1, <2>2 DEF SameCustody
    <2> QED BY <2>1, <2>2
  <1> QED BY <1>2, <1>3, <1>4

LEMMA MandatesAs ==
  ASSUME InCustody, UNCHANGED regime, SameMandates
  PROVE  [d \in Deletion |-> IF InCustody THEN MandateOf(d)
                             ELSE [by |-> None, approver |-> None, files |-> {}]]'
         = [d \in Deletion |-> IF InCustody THEN MandateOf(d)
                               ELSE [by |-> None, approver |-> None, files |-> {}]]
  <1>1. InCustody'
    BY DEF InCustody
  <1> QED BY <1>1 DEF SameMandates

\* A file that is not kept yet gets its kind, and may be kept from now on.
LEMMA CustodyClassifies ==
  ASSUME InCustody, UNCHANGED regime, SameMandates, NEW x \in Asset,
         \A a \in Asset \ {x} : SameCustody(a),
         FileOf(x) = "absent", FileOf(x)' \in {"absent", "kept"}
  PROVE  CustodyOfFiles!Next
  <1> DEFINE file == [a \in Asset |-> IF InCustody THEN FileOf(a) ELSE "absent"]
  <1>1. file[x] = "absent"
    OBVIOUS
  <1>2. file' \in {file, [file EXCEPT ![x] = "kept"]}
    <2>1. file' = [file EXCEPT ![x] = FileOf(x)']
      BY FilesAs
    <2>2. [file EXCEPT ![x] = "absent"] = file
      BY <1>1
    <2> HIDE DEF file
    <2> QED BY <2>1, <2>2
  <1>3. CustodyOfFiles!Classify(x)
    BY <1>1, <1>2, FilesAs, MandatesAs DEF CustodyOfFiles!Classify
  <1> QED BY <1>3 DEF CustodyOfFiles!Next

LEMMA CustodyDestroys ==
  ASSUME InCustody, UNCHANGED regime, SameMandates, NEW x \in Asset,
         \A a \in Asset \ {x} : SameCustody(a),
         asset'[x].replaceable = asset[x].replaceable,
         FileOf(x)' = "destroyed",
         \/ FileOf(x) = "absent" /\ asset[x].replaceable
         \/ /\ FileOf(x) = "kept"
            /\ \/ asset[x].replaceable
               \/ \E d \in Deletion : x \in deletion[d].links /\ deletion[d].approver # None
  PROVE  CustodyOfFiles!Next
  <1>1. CustodyOfFiles!Destroy(x)
    BY FilesAs, MandatesAs DEF CustodyOfFiles!Destroy, CustodyOfFiles!Mandated, MandateOf
  <1> QED BY <1>1 DEF CustodyOfFiles!Next

LEMMA CustodyKeeps ==
  ASSUME InCustody, UNCHANGED regime, SameMandates, NEW x \in Asset,
         \A a \in Asset \ {x} : SameCustody(a),
         asset'[x].replaceable = asset[x].replaceable,
         FileOf(x) = "absent", FileOf(x)' = "kept"
  PROVE  CustodyOfFiles!Next
  <1>1. CustodyOfFiles!Keep(x)
    BY FilesAs, MandatesAs DEF CustodyOfFiles!Keep
  <1> QED BY <1>1 DEF CustodyOfFiles!Next

LEMMA FilesSame ==
  ASSUME InCustody, UNCHANGED <<regime, asset>>
  PROVE  /\ [a \in Asset |-> IF InCustody THEN FileOf(a) ELSE "absent"]'
            = [a \in Asset |-> IF InCustody THEN FileOf(a) ELSE "absent"]
         /\ {a \in Asset : InCustody /\ asset[a].replaceable}'
            = {a \in Asset : InCustody /\ asset[a].replaceable}
  <1>1. InCustody'
    BY DEF InCustody
  <1> QED BY <1>1 DEF FileOf

LEMMA MandateChanged ==
  ASSUME InCustody, UNCHANGED regime, NEW d \in Deletion,
         \A e \in Deletion \ {d} : MandateOf(e)' = MandateOf(e)
  PROVE  [e \in Deletion |-> IF InCustody THEN MandateOf(e)
                             ELSE [by |-> None, approver |-> None, files |-> {}]]'
         = [[e \in Deletion |-> IF InCustody THEN MandateOf(e)
                                ELSE [by |-> None, approver |-> None, files |-> {}]]
              EXCEPT ![d] = MandateOf(d)']
  <1>1. InCustody'
    BY DEF InCustody
  <1> QED BY <1>1

LEMMA MandateAsked ==
  ASSUME NEW u, NEW files
  PROVE  [[by |-> None, approver |-> None, files |-> {}] EXCEPT !.by = u, !.files = files]
         = [by |-> u, approver |-> None, files |-> files]
  <1>1. PICK none : none = [by |-> None, approver |-> None, files |-> {}]
    OBVIOUS
  <1>2. PICK named : named = [by |-> u, approver |-> None, files |-> {}]
    OBVIOUS
  <1>3. [none EXCEPT !.by = u] = named
    BY <1>1, <1>2
  <1>4. [named EXCEPT !.files = files] = [by |-> u, approver |-> None, files |-> files]
    BY <1>2
  <1>5. [none EXCEPT !.by = u, !.files = files] = [[none EXCEPT !.by = u] EXCEPT !.files = files]
    OBVIOUS
  <1> QED BY <1>1, <1>3, <1>4, <1>5

LEMMA CustodyAsks ==
  ASSUME InCustody, UNCHANGED <<regime, asset>>, NEW d \in Deletion,
         \A e \in Deletion \ {d} : MandateOf(e)' = MandateOf(e),
         deletion[d] = NoDeletion,
         deletion'[d].initiator \in User, deletion'[d].approver = None,
         deletion'[d].links \subseteq {a \in Asset : Ready(a)}
  PROVE  CustodyOfFiles!Next
  <1>1. PICK u \in User, files \in SUBSET {a \in Asset : Ready(a)} :
          u = deletion'[d].initiator /\ files = deletion'[d].links
    OBVIOUS
  <1>2. MandateOf(d)' = [[by |-> None, approver |-> None, files |-> {}]
                           EXCEPT !.by = u, !.files = files]
    <2>1. MandateOf(d)' = [by |-> u, approver |-> None, files |-> files]
      BY <1>1 DEF MandateOf
    <2> QED BY <2>1, MandateAsked
  <1>3. MandateOf(d) = [by |-> None, approver |-> None, files |-> {}]
    BY NothingStands DEF MandateOf
  <1>4. files \in SUBSET {a \in Asset :
          [b \in Asset |-> IF InCustody THEN FileOf(b) ELSE "absent"][a] # "absent"}
    BY <1>1 DEF FileOf, Ready
  <1>5. CustodyOfFiles!Ask(d)
    BY <1>2, <1>3, <1>4, MandateChanged, FilesSame
       DEF CustodyOfFiles!Ask, CustodyOfFiles!NoMandate
  <1> QED BY <1>5 DEF CustodyOfFiles!Next

LEMMA CustodyApproves ==
  ASSUME InCustody, UNCHANGED <<regime, asset>>, NEW d \in Deletion,
         \A e \in Deletion \ {d} : MandateOf(e)' = MandateOf(e),
         NEW u \in User, deletion[d].initiator \notin {None, u},
         deletion'[d].initiator = deletion[d].initiator, deletion'[d].approver = u,
         deletion'[d].links = deletion[d].links
  PROVE  CustodyOfFiles!Next
  <1>1. MandateOf(d)' = [MandateOf(d) EXCEPT !.approver = u]
    BY DEF MandateOf
  <1>2. MandateOf(d).by = deletion[d].initiator
    BY DEF MandateOf
  <1>3. CustodyOfFiles!Approve(d)
    BY <1>1, <1>2, MandateChanged, FilesSame DEF CustodyOfFiles!Approve
  <1> QED BY <1>3 DEF CustodyOfFiles!Next

LEMMA RowsLeftAlone ==
  ASSUME UNCHANGED <<regime, asset, deletion>>
  PROVE  UNCHANGED CustodyOfFiles!vars
  BY CustodyStays DEF SameCustody, SameMandates, FileOf, MandateOf

\* Nothing that Custody tells apart has changed.
LEMMA OnlyDetails ==
  ASSUME UNCHANGED regime,
         \A a \in Asset : /\ asset'[a].upload = asset[a].upload /\ asset'[a].gone = asset[a].gone
                          /\ asset'[a].replaceable = asset[a].replaceable,
         \A d \in Deletion : /\ deletion'[d].initiator = deletion[d].initiator
                             /\ deletion'[d].approver = deletion[d].approver
                             /\ deletion'[d].links = deletion[d].links
  PROVE  UNCHANGED CustodyOfFiles!vars
  BY CustodyStays DEF SameCustody, SameMandates, FileOf, MandateOf

LEMMA MediaCustody ==
  ASSUME Inductive, Named, ReadyInTime, InCustody, MediaWork, UNCHANGED regime
  PROVE  [CustodyOfFiles!Next]_(CustodyOfFiles!vars)
  <1>1. CASE InitiatePresignedUpload
    <2>1. PICK x \in Asset :
            /\ asset[x] = NoAsset
            /\ asset'[x].upload = "PENDING"
            /\ \A b \in Asset \ {x} : asset'[b] = asset[b]
      BY <1>1, InitiateDoes
    <2>2. FileOf(x) = "absent" /\ FileOf(x)' = "absent" /\ \A b \in Asset \ {x} : SameCustody(b)
      BY <2>1, NothingStands DEF FileOf, SameCustody
    <2>3. SameMandates
      BY <1>1, InitiateDoes DEF SameMandates, MandateOf
    <2> QED BY <2>2, <2>3, CustodyClassifies
  <1>2. ASSUME NEW r \in Request, InsertAsset(r)
        PROVE  [CustodyOfFiles!Next]_(CustodyOfFiles!vars)
    <2>1. PICK x : x = request[r].asset
      OBVIOUS
    <2>2. x \in Asset
      BY <1>2, <2>1, InsertAssetDoes, InFlightSound DEF Sound, LinkSound
    <2>3. SameMandates /\ \A b \in Asset \ {x} : asset'[b] = asset[b]
      BY <1>2, <2>1, InsertAssetDoes DEF SameMandates, MandateOf
    <2>4. CASE asset[x] = NoAsset
      <3>1. asset'[x].upload = "READY" /\ ~asset'[x].gone
        BY <1>2, <2>1, <2>2, <2>4, InsertAssetDoes, NewFields
      <3>2. FileOf(x) = "absent" /\ FileOf(x)' = "kept" /\ \A b \in Asset \ {x} : SameCustody(b)
        BY <2>3, <2>4, <3>1, NothingStands DEF FileOf, SameCustody
      <3> QED BY <2>2, <2>3, <3>2, CustodyClassifies
    <2>5. CASE asset[x] # NoAsset
      <3>1. \A a \in Asset : asset'[a] = asset[a]
        BY <1>2, <2>1, <2>5, InsertAssetDoes
      <3> QED BY <2>3, <3>1, CustodyStays DEF SameCustody, FileOf
    <2> QED BY <2>4, <2>5
  <1>3. ASSUME NEW r \in Request, NEW at \in {"markProcessing", "markFailed"},
               NEW status \in {"PROCESSING", "FAILED"}, NEW next, WriteUpload(r, at, status, next)
        PROVE  UNCHANGED CustodyOfFiles!vars
    <2>1. NotYet(request[r].asset)
      BY <1>3, WriteUploadDoes DEF ReadyInTime, ReadyCarried
    <2>2. \A a \in Asset : SameCustody(a)
      BY <1>3, <2>1, WriteUploadDoes DEF SameCustody, FileOf, NotYet, Ready, SameHold
    <2>3. SameMandates
      BY <1>3, WriteUploadDoes DEF SameMandates, MandateOf
    <2> QED BY <2>2, <2>3, CustodyStays
  <1>4. ASSUME NEW r \in Request, MarkReady(r)
        PROVE  [CustodyOfFiles!Next]_(CustodyOfFiles!vars)
    <2>1. PICK x : x = request[r].asset
      OBVIOUS
    <2>2. x \in Asset /\ NotYet(x)
      BY <1>4, <2>1, MarkReadyDoes DEF ReadyInTime, ReadyCarried
    <2>3. /\ SameMandates /\ \A b \in Asset \ {x} : asset'[b] = asset[b]
          /\ asset'[x].replaceable = asset[x].replaceable
      BY <1>4, <2>1, <2>2, MarkReadyDoes DEF SameMandates, MandateOf, SameHold
    <2>4. FileOf(x) = "absent" /\ \A b \in Asset \ {x} : SameCustody(b)
      BY <2>2, <2>3 DEF FileOf, SameCustody, NotYet, Ready
    <2>5. CASE ~Exists(x)
      <3>1. \A a \in Asset : asset'[a] = asset[a]
        BY <1>4, <2>1, <2>5, MarkReadyDoes
      <3> QED BY <2>3, <3>1, CustodyStays DEF SameCustody, FileOf
    <2>6. CASE Exists(x) /\ ~asset[x].gone
      <3>1. FileOf(x)' = "kept"
        BY <1>4, <2>1, <2>2, <2>6, MarkReadyDoes DEF FileOf
      <3> QED BY <2>2, <2>3, <2>4, <3>1, CustodyKeeps
    <2>7. CASE Exists(x) /\ asset[x].gone
      <3>1. FileOf(x)' = "destroyed"
        BY <1>4, <2>1, <2>2, <2>7, MarkReadyDoes DEF FileOf
      <3>2. asset[x].replaceable
        BY <2>2, <2>7, CoveredReady DEF Inductive, ErasedByTwoUsers, NotYet
      <3> QED BY <2>2, <2>3, <2>4, <3>1, <3>2, CustodyDestroys
    <2> QED BY <2>5, <2>6, <2>7
  <1>5. ASSUME NEW r \in Request, DeleteStaleRow(r)
        PROVE  [CustodyOfFiles!Next]_(CustodyOfFiles!vars)
    <2>1. PICK x : x = request[r].asset
      OBVIOUS
    <2>2. x \in Asset /\ NotYet(x)
      BY <1>5, <2>1, DeleteStaleRowDoes DEF ReadyInTime, ReadyCarried
    <2>3. \A d \in Deletion : x \notin deletion[d].links
      BY <2>2, CoveredReady DEF NotYet
    <2>4. ASSUME NEW d \in Deletion PROVE deletion'[d].links = deletion[d].links
      <3>1. deletion[d].links \ {x} = deletion[d].links
        BY <2>3
      <3> QED BY <1>5, <2>1, <3>1, DeleteStaleRowDoes
    <2>5. SameMandates /\ \A b \in Asset \ {x} : asset'[b] = asset[b]
      BY <1>5, <2>1, <2>4, DeleteStaleRowDoes DEF SameMandates, MandateOf
    <2>6. [NoAsset EXCEPT !.upload = "CLEARED"].upload = "CLEARED"
      BY DEF NoAsset
    <2>7. FileOf(x) = "absent" /\ FileOf(x)' = "absent"
      BY <1>5, <2>1, <2>2, <2>6, DeleteStaleRowDoes DEF FileOf, NotYet, Ready
    <2>8. \A b \in Asset \ {x} : SameCustody(b)
      BY <2>5 DEF FileOf, SameCustody
    <2> QED BY <2>2, <2>5, <2>7, <2>8, CustodyClassifies
  <1>6. ASSUME NEW r \in Request, MarkGone(r)
        PROVE  [CustodyOfFiles!Next]_(CustodyOfFiles!vars)
    <2>1. PICK x : x = request[r].asset
      OBVIOUS
    <2>2. x \in Asset /\ (asset[x].replaceable \/ Cleared(x))
      BY <1>6, <2>1, MarkGoneDoes, InFlightSound DEF Sound, DeletionSound
    <2>3. SameMandates /\ \A b \in Asset \ {x} : asset'[b] = asset[b]
      BY <1>6, <2>1, MarkGoneDoes DEF SameMandates, MandateOf
    <2>4. \A b \in Asset \ {x} : SameCustody(b)
      BY <2>3 DEF FileOf, SameCustody
    <2>5. CASE Exists(x) /\ Ready(x) /\ ~asset[x].gone
      <3>1. /\ FileOf(x) = "kept" /\ FileOf(x)' = "destroyed" /\ asset[x].replaceable
            /\ asset'[x].replaceable = asset[x].replaceable
        BY <1>6, <2>1, <2>2, <2>5, MarkGoneDoes DEF GoneFile, SameHold, FileOf, Ready, Cleared
      <3> QED BY <2>2, <2>3, <2>4, <3>1, CustodyDestroys
    <2>6. CASE ~(Exists(x) /\ Ready(x) /\ ~asset[x].gone)
      <3>1. SameCustody(x)
        BY <1>6, <2>1, <2>2, <2>6, MarkGoneDoes
           DEF GoneFile, SameHold, FileOf, Ready, SameCustody
      <3> QED BY <2>3, <2>4, <3>1, CustodyStays
    <2> QED BY <2>5, <2>6
  <1>7. ASSUME NEW r \in Request,
               \/ UploadMediaAsset(r) \/ UploadEvidence(r) \/ ConfirmUpload(r) \/ ProcessObject(r)
               \/ CleanupFailedUploads(r) \/ DeleteStaleObject(r)
               \/ DeleteReplaceable(r) \/ RemoveObjects(r)
        PROVE  UNCHANGED <<asset, deletion>>
    BY <1>7 DEF UploadMediaAsset, UploadEvidence, ConfirmUpload, ProcessObject, ReadObject, StoreFinal,
    DropUpload, FailAfterStore,
                CleanupFailedUploads, DeleteStaleObject, DeleteReplaceable, RemoveObjects, rows
  <1> QED BY <1>1, <1>2, <1>3, <1>4, <1>5, <1>6, <1>7, RowsLeftAlone
          DEF MediaWork, MarkProcessing, MarkFailed, ObjectArrives

LEMMA RetentionCustody ==
  ASSUME Inductive, Named, ReadyInTime, InCustody, RetentionNext, UNCHANGED regime
  PROVE  [CustodyOfFiles!Next]_(CustodyOfFiles!vars)
  <1>1. CASE SetLegalHold \/ SetInvestigationHold \/ MoveAssetsToArchive
    BY <1>1, SetLegalHoldDoes, SetInvestigationHoldDoes, ArchiveDoes, OnlyDetails
       DEF RetentionOnly, SameFile, SameHold
  <1>2. ASSUME NEW r \in Request, MarkPendingDeletion(r) PROVE UNCHANGED CustodyOfFiles!vars
    BY <1>2, MarkPendingDoes, OnlyDetails DEF RetentionOnly, SameFile, SameHold
  <1>3. CASE RecoveryElapses
    BY <1>3, RecoveryElapsesDoes, OnlyDetails
  <1>4. ASSUME NEW r \in Request, WriteRefusal(r) \/ WriteCompleted(r)
        PROVE  UNCHANGED CustodyOfFiles!vars
    BY <1>4, WriteRefusalDoes, WriteCompletedDoes, OnlyDetails DEF DeletionBecomes
  <1>5. ASSUME NEW r \in Request, InsertDeletion(r)
        PROVE  [CustodyOfFiles!Next]_(CustodyOfFiles!vars)
    <2> DEFINE q == request[r]
    <2>1. /\ q.user \in User /\ q.todo \subseteq {a \in Asset : Ready(a)}
          /\ UNCHANGED asset
      BY <1>5, InsertDeletionDoes, InFlightSound
         DEF Sound, DeletionSound, ReadyInTime, ReadyCarried, RequestRow
    <2>2. CASE UNCHANGED deletion
      BY <2>1, <2>2, RowsLeftAlone
    <2>3. ASSUME NEW d \in Deletion, deletion[d] = NoDeletion,
                 deletion' = [deletion EXCEPT ![d] = [NoDeletion EXCEPT
                    !.status = "PENDING_APPROVAL", !.initiator = q.user, !.links = q.todo]]
          PROVE  CustodyOfFiles!Next
      <3>1. PICK row : row = [NoDeletion EXCEPT
              !.status = "PENDING_APPROVAL", !.initiator = q.user, !.links = q.todo]
        OBVIOUS
      <3>2. row.initiator = q.user /\ row.approver = None /\ row.links = q.todo
        BY <3>1 DEF NoDeletion
      <3>3. deletion'[d] = row /\ \A e \in Deletion \ {d} : deletion'[e] = deletion[e]
        BY <2>3, <3>1 DEF Inductive, Typed, RowsTypeOK
      <3>4. \A e \in Deletion \ {d} : MandateOf(e)' = MandateOf(e)
        BY <3>3 DEF MandateOf
      <3> QED BY <2>1, <2>3, <3>2, <3>3, <3>4, CustodyAsks
    <2> QED BY <1>5, <2>2, <2>3, InsertDeletionDoes
  <1>6. ASSUME NEW r \in Request, WriteApproval(r) PROVE CustodyOfFiles!Next
    <2> DEFINE q == request[r]
    <2>1. /\ q.row \in Deletion /\ q.user \in User
          /\ deletion[q.row].initiator \notin {None, q.user}
      BY <1>6, WriteApprovalDoes, InFlightSound DEF Sound, DeletionSound
    <2>2. \A e \in Deletion \ {q.row} : MandateOf(e)' = MandateOf(e)
      BY <1>6, WriteApprovalDoes DEF MandateOf, DeletionBecomes
    <2>3. deletion'[q.row].links = deletion[q.row].links
      BY <1>6, <2>1, WriteApprovalDoes DEF DeletionBecomes
    <2> QED BY <1>6, <2>1, <2>2, <2>3, WriteApprovalDoes, CustodyApproves
  <1>7. ASSUME NEW r \in Request, WriteDeleted(r)
        PROVE  [CustodyOfFiles!Next]_(CustodyOfFiles!vars)
    <2> DEFINE q == request[r]
    <2>1. PICK x : x = q.asset
      OBVIOUS
    <2>2. x \in Asset /\ q.row \in Deletion /\ Approved(q.row) /\ CoveredOrCleared(x, q.row)
      BY <1>7, <2>1, WriteDeletedDoes, InFlightSound DEF Sound, DeletionSound
    <2>3. SameMandates /\ \A b \in Asset \ {x} : asset'[b] = asset[b]
      BY <1>7, <2>1, WriteDeletedDoes DEF SameMandates, MandateOf
    <2>4. \A b \in Asset \ {x} : SameCustody(b)
      BY <2>3 DEF FileOf, SameCustody
    <2>5. CASE Exists(x) /\ Ready(x) /\ ~asset[x].gone
      <3>1. /\ FileOf(x) = "kept" /\ FileOf(x)' = "destroyed"
            /\ asset'[x].replaceable = asset[x].replaceable
        BY <1>7, <2>1, <2>2, <2>5, WriteDeletedDoes DEF GoneFile, SameHold, FileOf, Ready
      <3>2. x \in deletion[q.row].links /\ deletion[q.row].approver # None
        BY <2>2, <2>5 DEF Approved, CoveredOrCleared, Cleared, Exists
      <3> QED BY <2>2, <2>3, <2>4, <3>1, <3>2, CustodyDestroys
    <2>6. CASE ~(Exists(x) /\ Ready(x) /\ ~asset[x].gone)
      <3>1. SameCustody(x)
        BY <1>7, <2>1, <2>2, <2>6, WriteDeletedDoes
           DEF GoneFile, SameHold, FileOf, Ready, SameCustody
      <3> QED BY <2>3, <2>4, <3>1, CustodyStays
    <2> QED BY <2>5, <2>6
  <1>8. ASSUME NEW r \in Request,
               \/ CreateDeletionRequest(r) \/ ApproveDeletionRequest(r)
               \/ RejectDeletionRequest(r) \/ CancelDeletionRequest(r)
               \/ CompleteDeletionRequest(r) \/ SkipFlagged(r) \/ EraseObjects(r)
               \/ IssueCertificate(r)
        PROVE  UNCHANGED <<asset, deletion>>
    BY <1>8 DEF CreateDeletionRequest, ApproveDeletionRequest,
                RejectDeletionRequest, CancelDeletionRequest,
                CompleteDeletionRequest, SkipFlagged, EraseObjects, IssueCertificate, rows
  <1> QED BY <1>1, <1>2, <1>3, <1>4, <1>5, <1>6, <1>7, <1>8, RowsLeftAlone
          DEF RetentionNext, FlagAsset

LEMMA HoldCustody ==
  ASSUME Inductive, HoldNext, UNCHANGED regime
  PROVE  UNCHANGED CustodyOfFiles!vars
  <1>1. ASSUME NEW x, NEW on, HoldBecomes(x, on) PROVE UNCHANGED CustodyOfFiles!vars
    BY <1>1, OnlyDetails DEF HoldBecomes
  <1>2. ASSUME NEW r \in Request,
               \/ LinkEvidence(r) \/ InsertLink(r) \/ ReadCaseHold(r)
               \/ RequestHoldRelease(r) \/ RecordReleaseRequest(r)
               \/ ReleaseInvestigationHold(r) \/ WriteRelease(r) \/ ListLinks(r)
               \/ CheckOtherCases(r)
        PROVE  UNCHANGED <<asset, deletion>>
    BY <1>2 DEF LinkEvidence, InsertLink, ReadCaseHold, RequestHoldRelease, RecordReleaseRequest,
                ReleaseInvestigationHold, WriteRelease, ListLinks, CheckOtherCases, rows
  <1> QED BY <1>1, <1>2, ApplyHoldDoes, ClearHoldDoes, RowsLeftAlone DEF HoldNext, MarkEnteredInError

LEMMA NextCustody ==
  ASSUME Inductive, Named, ReadyInTime, [Work]_seen
  PROVE  [CustodyOfFiles!Next]_(CustodyOfFiles!vars)
  <1>1. UNCHANGED regime
    BY DEF Work, seen
  <1>2. CASE ~InCustody
    BY <1>1, <1>2, CustodyStays
  <1>3. CASE InCustody /\ (MediaWork \/ RetentionNext \/ HoldNext)
    BY <1>1, <1>3, MediaCustody, RetentionCustody, HoldCustody
  <1>4. CASE CaseNext \/ UNCHANGED seen \/ \E r \in Request : Crash(r)
    BY <1>1, <1>4, CasesLeaveFiles, RowsLeftAlone DEF seen, tables, rows, Crash
  <1> QED BY <1>2, <1>3, <1>4 DEF Work

LEMMA InitCustody == Init => CustodyOfFiles!Init
  <1> SUFFICES ASSUME Init PROVE CustodyOfFiles!Init
    OBVIOUS
  <1>1. \A a \in Asset : FileOf(a) = "absent"
    BY NothingStands DEF Init, Empty, FileOf
  <1>2. \A d \in Deletion : MandateOf(d) = [by |-> None, approver |-> None, files |-> {}]
    BY NothingStands DEF Init, Empty, MandateOf
  <1> QED BY <1>1, <1>2 DEF CustodyOfFiles!Init, CustodyOfFiles!NoMandate

\* Of ImplementsCustody (media-asset-repository.ts and retention-repository.ts): every
\* statement of every handler keeps, classifies or destroys a file, asks for a destruction
\* or approves one, as Custody allows, or is none of Custody's business - whatever dies or
\* fails, and with any number of requests in flight where no uploads are confirmed or
\* cleared away next to each other.
THEOREM CustodyIsKept == Spec => ImplementsCustody
  <1>1. Inductive /\ Named /\ ReadyInTime /\ [Next]_vars
        => [CustodyOfFiles!Next]_(CustodyOfFiles!vars)
    BY NextCustody, Works
  <1> QED BY <1>1, InitCustody, AlwaysInductive, AlwaysNamed, AlwaysReady, PTL
          DEF Spec, ImplementsCustody, CustodyOfFiles!Spec

-------------------------------------------------------------------------------
(* Holds, one request at a time.                                           *)

\* A statement of a hold or of a release that relies on what it has read.
Holding == {"readCaseHold", "applyHold", "listLinks", "checkOther", "clearHold"}

LEMMA OtherwiseHeld ==
  ASSUME NEW q, q.at \notin Holding
  PROVE  HoldCarried(q) /\ \A a : ~HoldSoon(q, a)
  BY DEF Holding, HoldCarried, HoldSoon

LEMMA ProtectedStands ==
  ASSUME Inductive, Named, NEW a \in Asset, Protected(a)
  PROVE  Exists(a) /\ Linked(a)
  <1>1. PICK l \in Link : link[l].asset = a
    BY DEF Protected
  <1>2. a # None
    BY FileIsNotNone
  <1> QED BY <1>1, <1>2 DEF Named, NamesSound, Linked

\* Nobody is at a statement of a hold, and nothing becomes protected or is let go.
LEMMA HoldsElsewhere ==
  ASSUME NotByHand, HoldsInTime, UNCHANGED regime,
         \A s \in Request : request[s].at \notin Holding /\ request'[s].at \notin Holding,
         \A a \in Asset : Protected(a)' => Protected(a) /\ (asset[a].hold => asset'[a].hold)
  PROVE  HoldsInTime'
  <1>1. \A s \in Request : \A a : ~HoldSoon(request[s], a)
    BY OtherwiseHeld
  <1>2. \A a \in Asset : Protected(a)' => asset'[a].hold
    BY <1>1 DEF HoldsInTime
  <1>3. ASSUME NEW s \in Request PROVE HoldCarried(request[s])'
    BY DEF HoldCarried, Holding
  <1> QED BY <1>2, <1>3 DEF HoldsInTime

\* The holds of a file change only where somebody sets or lifts them.
LEMMA MediaHolds ==
  ASSUME Inductive, MediaWork, NEW a \in Asset, Exists(a), Exists(a)'
  PROVE  SameHold(asset'[a], asset[a])
  <1>1. CASE InitiatePresignedUpload
    BY <1>1, InitiateDoes, NothingStands DEF Exists, SameHold
  <1>2. ASSUME NEW r \in Request, InsertAsset(r) PROVE SameHold(asset'[a], asset[a])
    BY <1>2, InsertAssetDoes, NothingStands DEF Exists, SameHold
  <1>3. ASSUME NEW r \in Request, MarkProcessing(r) \/ MarkFailed(r) \/ MarkReady(r)
        PROVE  SameHold(asset'[a], asset[a])
    BY <1>3, WriteUploadDoes, MarkReadyDoes DEF MarkProcessing, MarkFailed, SameHold
  <1>4. ASSUME NEW r \in Request, DeleteStaleRow(r) PROVE SameHold(asset'[a], asset[a])
    <2>1. [NoAsset EXCEPT !.upload = "CLEARED"].upload = "CLEARED"
      BY DEF NoAsset
    <2> QED BY <1>4, <2>1, DeleteStaleRowDoes DEF SameHold, Exists
  <1>5. ASSUME NEW r \in Request, MarkGone(r) PROVE SameHold(asset'[a], asset[a])
    BY <1>5, MarkGoneDoes DEF GoneFile, SameHold
  <1>6. ASSUME NEW r \in Request,
               \/ UploadMediaAsset(r) \/ UploadEvidence(r) \/ ConfirmUpload(r)
               \/ CleanupFailedUploads(r) \/ DeleteReplaceable(r) \/ ProcessObject(r)
               \/ DeleteStaleObject(r) \/ RemoveObjects(r)
        PROVE  UNCHANGED asset
    BY <1>6 DEF UploadMediaAsset, UploadEvidence, ConfirmUpload, CleanupFailedUploads,
                DeleteReplaceable, ProcessObject, ReadObject, StoreFinal,
                DropUpload, FailAfterStore, DeleteStaleObject, RemoveObjects, rows
  <1>7. CASE UNCHANGED asset
    BY <1>7 DEF SameHold
  <1> QED BY <1>1, <1>2, <1>3, <1>4, <1>5, <1>6, <1>7 DEF MediaWork, ObjectArrives

LEMMA RetentionHolds ==
  ASSUME Inductive, RetentionNext, NEW a \in Asset
  PROVE  /\ ~SetInvestigationHold => asset'[a].hold = asset[a].hold
         /\ ~SetInvestigationHold /\ ~SetLegalHold => asset'[a].legal = asset[a].legal
  <1>1. CASE SetLegalHold \/ SetInvestigationHold
    BY <1>1, SetLegalHoldDoes
  <1>2. ASSUME RetentionOnly PROVE SameHold(asset'[a], asset[a])
    BY <1>2 DEF RetentionOnly, SameFile
  <1>3. ASSUME NEW r \in Request, WriteDeleted(r) PROVE SameHold(asset'[a], asset[a])
    BY <1>3, WriteDeletedDoes DEF GoneFile, SameHold
  <1>4. ASSUME NEW r \in Request,
               \/ CreateDeletionRequest(r) \/ InsertDeletion(r)
               \/ ApproveDeletionRequest(r) \/ WriteApproval(r)
               \/ RejectDeletionRequest(r) \/ CancelDeletionRequest(r) \/ WriteRefusal(r)
               \/ CompleteDeletionRequest(r) \/ SkipFlagged(r) \/ EraseObjects(r)
               \/ IssueCertificate(r) \/ WriteCompleted(r)
        PROVE  UNCHANGED asset
    BY <1>4 DEF CreateDeletionRequest, InsertDeletion, ApproveDeletionRequest, WriteApproval,
                RejectDeletionRequest, CancelDeletionRequest, WriteRefusal,
                CompleteDeletionRequest, SkipFlagged, EraseObjects, IssueCertificate,
                WriteCompleted, rows
  <1> QED BY <1>1, <1>2, <1>3, <1>4, ArchiveDoes, MarkPendingDoes
          DEF RetentionNext, FlagAsset, RecoveryElapses, SameHold

LEMMA MediaHeld ==
  ASSUME Inductive, Alone, Named, HoldsInTime, NotByHand, MediaWork, UNCHANGED regime
  PROVE  HoldsInTime'
  <1>1. \A s \in Request : request[s].at \notin Holding /\ request'[s].at \notin Holding
    BY MediaAlone DEF NotByHand, All, MediaSteps, Holding
  <1>2. ASSUME NEW a \in Asset, Protected(a)'
        PROVE  Protected(a) /\ (asset[a].hold => asset'[a].hold)
    <2>1. Protected(a)
      BY <1>2, MediaLeaves DEF Protected
    <2>2. Exists(a) /\ Exists(a)'
      BY <2>1, ProtectedStands, MediaStays DEF FilesStay
    <2> QED BY <2>1, <2>2, MediaHolds DEF SameHold
  <1> QED BY <1>1, <1>2, HoldsElsewhere

LEMMA HoldsLeft ==
  ASSUME HoldsInTime, UNCHANGED <<regime, asset, case, link, request>>
  PROVE  HoldsInTime'
  BY DEF HoldsInTime, NotByHand, Protected, HoldSoon, HoldCarried, HeldElsewhere

LEMMA RetentionHeld ==
  ASSUME Inductive, Alone, Named, HoldsInTime, NotByHand, RetentionNext, UNCHANGED regime
  PROVE  HoldsInTime'
  <1>1. CASE RecoveryElapses
    BY <1>1, HoldsLeft DEF RecoveryElapses
  <1>2. CASE ~RecoveryElapses
    <2>1. \A s \in Request : request[s].at \notin Holding /\ request'[s].at \notin Holding
      BY <1>2, RetentionAlone DEF NotByHand, All, RetentionSteps, Holding
    <2>2. ~SetInvestigationHold
      BY SetInvestigationHoldDoes DEF NotByHand, May
    <2>3. \A a \in Asset : Protected(a)' => Protected(a) /\ (asset[a].hold => asset'[a].hold)
      BY <2>2, RetentionLeaves, RetentionHolds DEF Protected
    <2> QED BY <2>1, <2>3, HoldsElsewhere
  <1> QED BY <1>1, <1>2

LEMMA CaseHeld ==
  ASSUME Inductive, Alone, Named, HoldsInTime, NotByHand, CaseNext, UNCHANGED regime
  PROVE  HoldsInTime'
  <1>1. \A s \in Request : request[s].at \notin Holding /\ request'[s].at \notin Holding
    BY CaseAlone DEF NotByHand, All, CaseSteps, Holding
  <1>2. UNCHANGED <<asset, link>>
    BY CasesLeaveFiles
  <1>3. ASSUME NEW c \in Case, case[c].status # "NONE" PROVE case'[c].hold = case[c].hold
    <2>1. CASE UNCHANGED case
      BY <2>1
    <2>2. CASE CaseCreated
      BY <1>3, <2>2, NothingStands DEF CaseCreated
    <2>3. CASE EscalateCase \/ AssignInvestigator
      BY <2>3, EscalateDoes
    <2>4. ASSUME NEW r \in Request, WriteCase(r) PROVE case'[c].hold = case[c].hold
      BY <2>4, WriteCaseDoes
    <2>5. ASSUME NEW r \in Request,
               \/ CreateCaseFromReferral(r) \/ SubmitCase(r) \/ TriageCase(r) \/ BeginOrResume(r)
               \/ RequestInformation(r) \/ ReopenCase(r) \/ CheckCase(r) \/ CloseCase(r)
               \/ SubmitFinding(r) \/ ApproveFinding(r) \/ ReturnFinding(r) \/ WriteFinding(r)
          PROVE  UNCHANGED case
      BY <2>5, ReferDoes, AskCaseDoes, CheckCaseDoes, AskFindingDoes, WriteFindingDoes DEF rows
    <2> QED BY <2>1, <2>2, <2>3, <2>4, <2>5, CreateCaseDoes, InsertReferredDoes
            DEF CaseNext, CreateFinding, AmendFinding, rows
  <1>4. ASSUME NEW l \in Link, NEW a \in Asset, link[l].asset = a
        PROVE  link[l].case \in Case /\ case[link[l].case].status # "NONE"
    BY <1>4, FileIsNotNone, LinksTyped DEF Named, NamesSound, Known
  <1>5. \A a \in Asset : Protected(a)' => Protected(a)
    BY <1>2, <1>3, <1>4 DEF Protected
  <1> QED BY <1>1, <1>2, <1>5, HoldsElsewhere

\* The request that moved has the only hold to see to.
LEMMA HoldsGoOn ==
  ASSUME regime.serial, UNCHANGED regime, NEW r \in Request, Own(r), Solo(r),
         HoldCarried(request[r])',
         \A a \in Asset : Protected(a)' => asset'[a].hold \/ HoldSoon(request'[r], a)
  PROVE  HoldsInTime'
  <1>1. ASSUME NEW s \in Request PROVE HoldCarried(request[s])'
    BY IdleIsIdle DEF Solo, HoldCarried
  <1> QED BY <1>1 DEF HoldsInTime, HoldSoon

LEMMA HoldsSolo ==
  ASSUME Inductive, Alone, HoldsInTime, NotByHand, NEW r \in Request, Own(r), request[r].at # "idle"
  PROVE  /\ regime.serial /\ Solo(r) /\ HoldCarried(request[r])
         /\ \A a \in Asset : Protected(a) => asset[a].hold \/ HoldSoon(request[r], a)
  <1>1. regime.serial /\ Solo(r)
    BY GoesSolo DEF NotByHand
  <1>2. ASSUME NEW s \in Request, NEW a, HoldSoon(request[s], a) PROVE s = r
    BY <1>1, <1>2, IdleIsIdle DEF Solo, HoldSoon
  <1> QED BY <1>1, <1>2 DEF HoldsInTime

LEMMA CasesOfLinks ==
  ASSUME Inductive, Named, NEW l \in Link, NEW a \in Asset, link[l].asset = a
  PROVE  link[l].case \in Case /\ case[link[l].case].status # "NONE"
  BY FileIsNotNone, LinksTyped DEF Named, NamesSound, Known

LEMMA InsertLinkHeld ==
  ASSUME Inductive, Alone, Named, HoldsInTime, NotByHand, UNCHANGED regime,
         NEW r \in Request, InsertLink(r)
  PROVE  HoldsInTime'
  <1> DEFINE q == request[r]
  <1>1. q.at = "insertLink" /\ Goes(r, Exists(q.asset), "readCaseHold")
    BY InsertLinkDoes
  <1>2. UNCHANGED <<asset, case>>
    BY InsertLinkDoes
  <1>3. /\ regime.serial /\ Own(r) /\ Solo(r)
        /\ \A a \in Asset : Protected(a) => asset[a].hold
    BY <1>1, HoldsSolo DEF Goes, HoldSoon
  <1>4. CASE ~Exists(q.asset)
    <2>1. request'[r] = Idle /\ UNCHANGED link
      BY <1>1, <1>4, InsertLinkDoes DEF Goes
    <2>2. HoldCarried(request[r])'
      BY <2>1, IdleIsIdle DEF HoldCarried
    <2> QED BY <1>2, <1>3, <2>1, <2>2, HoldsGoOn DEF Protected
  <1>5. CASE Exists(q.asset)
    <2>1. request'[r].at = "readCaseHold" /\ request'[r].asset = q.asset /\ request'[r].case = q.case
      BY <1>1, <1>5 DEF Goes, Same
    <2>2. PICK l \in Link :
            /\ link'[l].case = q.case /\ link'[l].asset = q.asset
            /\ \A k \in Link \ {l} : link'[k] = link[k]
      BY <1>5, InsertLinkDoes
    <2>3. q.asset \in Asset
      BY <1>1 DEF Named, RequestNames
    <2>4. \A a \in Asset : Protected(a)' => asset'[a].hold \/ HoldSoon(request'[r], a)
      BY <1>2, <1>3, <2>1, <2>2 DEF Protected, HoldSoon
    <2>5. ASSUME HeldElsewhere(q.asset, q.case)' PROVE asset'[q.asset].hold
      <3>1. PICK k \in Link : /\ link'[k].asset = q'.asset /\ ~link'[k].wrong
                              /\ link'[k].case # q'.case /\ case'[link'[k].case].hold
        BY <2>5 DEF HeldElsewhere
      <3>2. k # l
        BY <2>1, <2>2, <3>1
      <3> QED BY <1>2, <1>3, <2>1, <2>2, <2>3, <3>1, <3>2 DEF Protected
    <2>6. HoldCarried(request[r])'
      BY <2>1, <2>5 DEF HoldCarried, HeldElsewhere
    <2> QED BY <1>3, <2>4, <2>6, HoldsGoOn
  <1> QED BY <1>4, <1>5

LEMMA ReadCaseHoldHeld ==
  ASSUME Inductive, Alone, Named, HoldsInTime, NotByHand, UNCHANGED regime,
         NEW r \in Request, ReadCaseHold(r)
  PROVE  HoldsInTime'
  <1> DEFINE q == request[r]
  <1>1. /\ q.at = "readCaseHold" /\ Goes(r, case[q.case].hold, "applyHold")
        /\ UNCHANGED <<asset, case, link>>
    BY ReadCaseHoldDoes DEF rows
  <1>2. /\ regime.serial /\ Own(r) /\ Solo(r) /\ HoldCarried(q)
        /\ \A a \in Asset : Protected(a) => asset[a].hold \/ a = q.asset
    BY <1>1, HoldsSolo DEF Goes, HoldSoon
  <1>3. \A a \in Asset : Protected(a)' => Protected(a)
    BY <1>1 DEF Protected
  <1>4. CASE case[q.case].hold
    <2>1. request'[r].at = "applyHold" /\ request'[r].asset = q.asset
      BY <1>1, <1>4 DEF Goes, Same
    <2>2. HoldCarried(request[r])'
      BY <2>1 DEF HoldCarried
    <2> QED BY <1>1, <1>2, <1>3, <2>1, <2>2, HoldsGoOn DEF HoldSoon
  <1>5. CASE ~case[q.case].hold
    <2>1. request'[r] = Idle
      BY <1>1, <1>5 DEF Goes
    <2>2. HoldCarried(request[r])'
      BY <2>1, IdleIsIdle DEF HoldCarried
    <2>3. ASSUME Protected(q.asset) PROVE asset[q.asset].hold
      <3>1. HeldElsewhere(q.asset, q.case)
        BY <1>5, <2>3 DEF Protected, HeldElsewhere
      <3> QED BY <1>1, <1>2, <3>1 DEF HoldCarried
    <2> QED BY <1>1, <1>2, <1>3, <2>2, <2>3, HoldsGoOn
  <1> QED BY <1>4, <1>5

LEMMA HoldWrittenHeld ==
  ASSUME Inductive, Alone, Named, HoldsInTime, NotByHand, UNCHANGED regime,
         NEW r \in Request, ApplyHold(r) \/ ClearHold(r)
  PROVE  HoldsInTime'
  <1> DEFINE q == request[r]
  <1>1. CASE ApplyHold(r)
    <2>1. /\ q.at = "applyHold" /\ Own(r) /\ request'[r] = Idle /\ HoldBecomes(q.asset, TRUE)
      BY <1>1, ApplyHoldDoes
    <2>2. /\ regime.serial /\ Solo(r)
          /\ \A a \in Asset : Protected(a) => asset[a].hold \/ a = q.asset
      BY <2>1, HoldsSolo DEF HoldSoon
    <2>3. HoldCarried(request[r])'
      BY <2>1, IdleIsIdle DEF HoldCarried
    <2>4. ASSUME NEW a \in Asset, Protected(a)' PROVE asset'[a].hold
      <3>1. Protected(a)
        BY <2>1, <2>4 DEF Protected, HoldBecomes
      <3> QED BY <2>1, <2>2, <3>1, ProtectedStands DEF HoldBecomes
    <2> QED BY <2>1, <2>2, <2>3, <2>4, HoldsGoOn
  <1>2. CASE ClearHold(r)
    <2>1. /\ q.at = "clearHold" /\ Goes(r, Exists(q.asset), "checkOther")
          /\ HoldBecomes(q.asset, FALSE)
      BY <1>2, ClearHoldDoes
    <2>2. /\ regime.serial /\ Own(r) /\ Solo(r)
          /\ ~case[q.case].hold /\ ~HeldElsewhere(q.asset, q.case)
          /\ \A a \in Asset : Protected(a) => asset[a].hold
      BY <2>1, HoldsSolo DEF HoldSoon, HoldCarried, Goes
    <2>3. ~Protected(q.asset)
      BY <2>2 DEF Protected, HeldElsewhere
    <2>4. HoldCarried(request[r])'
      BY <2>1, <2>2, IdleIsIdle DEF HoldCarried, Goes, Same, HoldBecomes
    <2>5. ASSUME NEW a \in Asset, Protected(a)' PROVE asset'[a].hold
      <3>1. Protected(a)
        BY <2>1, <2>5 DEF Protected, HoldBecomes
      <3> QED BY <2>1, <2>2, <2>3, <3>1 DEF HoldBecomes
    <2> QED BY <2>2, <2>4, <2>5, HoldsGoOn
  <1> QED BY <1>1, <1>2

LEMMA ReleaseHeld ==
  ASSUME Inductive, Alone, Named, HoldsInTime, NotByHand, UNCHANGED regime,
         NEW r \in Request, WriteRelease(r) \/ ListLinks(r) \/ CheckOtherCases(r)
  PROVE  HoldsInTime'
  <1> DEFINE q == request[r]
  <1>1. /\ q.at \in {"writeRelease", "listLinks", "checkOther"} /\ Own(r) /\ UNCHANGED <<asset, link>>
    BY WriteReleaseDoes, ListLinksDoes, CheckOtherDoes DEF Goes, rows
  <1>2. /\ regime.serial /\ Solo(r) /\ HoldCarried(q)
        /\ \A a \in Asset : Protected(a) => asset[a].hold
    BY <1>1, HoldsSolo DEF HoldSoon
  <1>3. CASE WriteRelease(r)
    <2>1. /\ request'[r].at = "listLinks" /\ request'[r].case = q.case
          /\ CaseTouched(q.case) /\ ~case'[q.case].hold
      BY <1>3, WriteReleaseDoes DEF Goes, Same
    <2>2. HoldCarried(request[r])'
      BY <2>1 DEF HoldCarried
    <2>3. \A a \in Asset : Protected(a)' => Protected(a)
      BY <1>1, <2>1, CasesOfLinks DEF Protected, CaseTouched
    <2> QED BY <1>1, <1>2, <2>2, <2>3, HoldsGoOn
  <1>4. CASE ListLinks(r) \/ CheckOtherCases(r)
    <2>1. /\ UNCHANGED case /\ ~case[q.case].hold
          /\ \/ request'[r] = Idle
             \/ request'[r].at = "checkOther" /\ request'[r].case = q.case
             \/ /\ request'[r].at = "clearHold" /\ request'[r].case = q.case
                /\ ~HeldElsewhere(request'[r].asset, request'[r].case)
      BY <1>2, <1>4, ListLinksDoes, CheckOtherDoes DEF rows, HoldCarried
    <2>2. HoldCarried(request[r])'
      BY <1>1, <2>1, IdleIsIdle DEF HoldCarried, HeldElsewhere
    <2>3. \A a \in Asset : Protected(a)' => Protected(a)
      BY <1>1, <2>1 DEF Protected
    <2> QED BY <1>1, <1>2, <2>2, <2>3, HoldsGoOn
  <1> QED BY <1>3, <1>4

LEMMA HoldHeld ==
  ASSUME Inductive, Alone, Named, HoldsInTime, NotByHand, HoldNext, UNCHANGED regime
  PROVE  HoldsInTime'
  <1>1. CASE MarkEnteredInError
    <2>1. UNCHANGED <<asset, case, request>> /\ \A s \in Request : request[s] = Idle
      BY <1>1, EnteredInErrorDoes DEF May, Quiescent, NotByHand
    <2>2. \A a \in Asset : Protected(a)' => Protected(a)
      BY <1>1, <2>1, EnteredInErrorDoes DEF Protected
    <2> QED BY <2>1, <2>2, HoldsElsewhere, IdleIsIdle DEF Holding
  <1>2. ASSUME NEW r \in Request,
               \/ LinkEvidence(r) \/ RequestHoldRelease(r) \/ ReleaseInvestigationHold(r)
        PROVE  HoldsInTime'
    <2>1. /\ \E op : \E at \in {"insertLink", "recordRequest", "writeRelease"} : Begins(r, op, at)
          /\ UNCHANGED <<asset, case, link>>
      BY <1>2, LinkEvidenceDoes, ReleaseDoes DEF rows
    <2>2. \A s \in Request : request[s].at \notin Holding /\ request'[s].at \notin Holding
      BY <2>1, BeginsSolo, IdleIsIdle DEF Begins, Solo, NotByHand, Holding
    <2> QED BY <2>1, <2>2, HoldsElsewhere DEF Protected
  <1>3. ASSUME NEW r \in Request, RecordReleaseRequest(r) PROVE HoldsInTime'
    <2>1. /\ request[r].at = "recordRequest" /\ Own(r) /\ request'[r] = Idle
          /\ UNCHANGED <<asset, link>> /\ \A c \in Case : case'[c].hold = case[c].hold
      BY <1>3, RecordReleaseDoes
    <2>2. \A s \in Request : request[s].at \notin Holding /\ request'[s].at \notin Holding
      BY <2>1, GoesSolo, IdleIsIdle DEF Solo, NotByHand, Holding
    <2>3. \A a \in Asset : Protected(a)' => Protected(a)
      BY <2>1, CasesOfLinks DEF Protected
    <2> QED BY <2>1, <2>2, <2>3, HoldsElsewhere
  <1> QED BY <1>1, <1>2, <1>3, InsertLinkHeld, ReadCaseHoldHeld, HoldWrittenHeld, ReleaseHeld
          DEF HoldNext

LEMMA HoldsKept ==
  ASSUME Inductive, Alone, Named, HoldsInTime, [Work]_seen
  PROVE  HoldsInTime'
  <1>1. UNCHANGED regime
    BY DEF Work, seen
  <1>2. CASE ~NotByHand
    BY <1>1, <1>2 DEF HoldsInTime, NotByHand
  <1>3. CASE NotByHand /\ Work
    BY <1>1, <1>3, MediaHeld, RetentionHeld, HoldHeld, CaseHeld DEF Work, Crash, NotByHand
  <1>4. CASE UNCHANGED seen
    BY <1>4, HoldsLeft DEF seen, tables, rows
  <1> QED BY <1>2, <1>3, <1>4

LEMMA InitHolds == Init => HoldsInTime
  <1> SUFFICES ASSUME Init PROVE HoldsInTime
    OBVIOUS
  <1>1. \A a \in Asset : ~Protected(a)
    BY NothingStands, FileIsNotNone DEF Init, Empty, Protected
  <1>2. \A r \in Request : HoldCarried(request[r])
    BY IdleIsIdle DEF Init, Empty, HoldCarried
  <1> QED BY <1>1, <1>2 DEF HoldsInTime

LEMMA AlwaysHolds == Spec => []HoldsInTime
  <1>1. Inductive /\ Alone /\ Named /\ HoldsInTime /\ [Next]_vars => HoldsInTime'
    BY HoldsKept, Works
  <1> QED BY <1>1, InitHolds, AlwaysInductive, AlwaysNamed, AlwaysAlone, PTL DEF Spec

\* Of CaseHoldProtects (investigation-hold-repository.ts): one request at a time, without
\* deaths and hands, what is evidence of a case on hold is on hold.
THEOREM EvidenceIsHeld == Spec => []CaseHoldProtects
  <1>1. HoldsInTime => CaseHoldProtects
    BY IdleIsIdle DEF HoldsInTime, NotByHand, CaseHoldProtects, HoldSoon, Quiescent
  <1> QED BY <1>1, AlwaysHolds, PTL

-------------------------------------------------------------------------------
(* What is destroyed is free, one request at a time.                       *)

\* A statement of a destruction that relies on what it has read of holds.
Destroying == {"markGone", "eraseNext", "writeDeleted"}

LEMMA FreeElsewhere ==
  ASSUME \A s \in Request : request'[s].at \notin Destroying
  PROVE  FreeInTime'
  BY DEF FreeInTime, FreeCarried, Destroying

\* The request that moved is the only one in flight.
LEMMA FreeGoesOn ==
  ASSUME regime.serial, UNCHANGED regime, NEW r \in Request, Solo(r), FreeCarried(request[r])'
  PROVE  FreeInTime'
  BY IdleIsIdle DEF Solo, FreeInTime, FreeCarried

LEMMA MediaFree ==
  ASSUME Inductive, Alone, FreeInTime, regime.serial, MediaWork, UNCHANGED regime
  PROVE  FreeInTime'
  <1>1. CASE InitiatePresignedUpload \/ ObjectArrives
    <2>1. \A s \in Request : request'[s] = Idle
      BY <1>1 DEF InitiatePresignedUpload, ObjectArrives, Answer, May, Quiescent
    <2> QED BY <2>1, IdleIsIdle, FreeElsewhere DEF Destroying
  <1>2. ASSUME NEW r \in Request, DeleteReplaceable(r) PROVE FreeInTime'
    <2>1. /\ \E op : \E at \in {"removeObjects", "markGone"} : Begins(r, op, at)
          /\ Unheld(request'[r].asset) /\ UNCHANGED asset
      BY <1>2, DeleteReplaceableDoes DEF rows
    <2>2. Solo(r)
      BY <2>1, BeginsSolo
    <2>3. FreeCarried(request[r])'
      BY <2>1 DEF Begins, FreeCarried, Unheld
    <2> QED BY <2>2, <2>3, FreeGoesOn
  <1>3. ASSUME NEW r \in Request,
               \/ UploadMediaAsset(r) \/ UploadEvidence(r) \/ ConfirmUpload(r)
               \/ CleanupFailedUploads(r)
        PROVE  FreeInTime'
    <2>1. \E op : \E at \in MediaSteps \ {"markGone"} : Begins(r, op, at)
      BY <1>3, UploadMediaAssetDoes, UploadEvidenceDoes, ConfirmUploadDoes, CleanupDoes
         DEF MediaSteps
    <2>2. Solo(r) /\ request'[r].at \notin Destroying
      BY <2>1, BeginsSolo DEF Begins, MediaSteps, Destroying
    <2> QED BY <2>2, FreeGoesOn DEF Destroying, FreeCarried
  <1>4. ASSUME NEW r \in Request,
               \/ InsertAsset(r) \/ MarkProcessing(r) \/ MarkFailed(r) \/ ProcessObject(r)
               \/ MarkReady(r) \/ DeleteStaleObject(r) \/ DeleteStaleRow(r) \/ MarkGone(r)
               \/ RemoveObjects(r)
        PROVE  FreeInTime'
    <2>1. Own(r) /\ request[r].at # "idle" /\ request'[r].at \notin Destroying
      <3>1. CASE InsertAsset(r)
        BY <3>1, InsertAssetDoes, IdleIsIdle DEF Goes, Destroying
      <3>2. CASE MarkProcessing(r)
        BY <3>2, WriteUploadDoes, IdleIsIdle DEF Goes, Destroying, MarkProcessing
      <3>3. CASE MarkFailed(r)
        BY <3>3, WriteUploadDoes, IdleIsIdle DEF Goes, Destroying, MarkFailed
      <3>4. CASE ProcessObject(r)
        BY <3>4, ProcessObjectDoes, IdleIsIdle DEF Goes, Destroying, Processing
      <3>5. CASE DeleteStaleRow(r)
        BY <3>5, DeleteStaleRowDoes, IdleIsIdle DEF Goes, Destroying
      <3>6. CASE MarkGone(r)
        BY <3>6, MarkGoneDoes, IdleIsIdle DEF Goes, Destroying
      <3> QED BY <1>4, <3>1, <3>2, <3>3, <3>4, <3>5, <3>6, MarkReadyDoes, DeleteStaleObjectDoes,
                 RemoveObjectsDoes, IdleIsIdle DEF Destroying
    <2>2. Solo(r)
      BY <2>1, GoesSolo
    <2> QED BY <2>1, <2>2, FreeGoesOn DEF Destroying, FreeCarried
  <1> QED BY <1>1, <1>2, <1>3, <1>4 DEF MediaWork

LEMMA RetentionFree ==
  ASSUME Inductive, Alone, FreeInTime, regime.serial, RetentionNext, UNCHANGED regime
  PROVE  FreeInTime'
  <1>1. CASE SetLegalHold \/ SetInvestigationHold \/ FlagAsset \/ MoveAssetsToArchive
    <2>1. \A s \in Request : request'[s] = Idle
      BY <1>1 DEF SetLegalHold, SetInvestigationHold, FlagAsset, MoveAssetsToArchive,
                  Answer, May, Quiescent
    <2> QED BY <2>1, IdleIsIdle, FreeElsewhere DEF Destroying
  <1>2. CASE RecoveryElapses
    BY <1>2 DEF RecoveryElapses, FreeInTime, FreeCarried, Unheld
  <1>3. ASSUME NEW r \in Request,
               \/ CreateDeletionRequest(r) \/ ApproveDeletionRequest(r)
               \/ RejectDeletionRequest(r) \/ CancelDeletionRequest(r)
        PROVE  FreeInTime'
    <2>1. \E op : \E at \in {"insertDeletion", "writeApproval", "writeRefusal"} : Begins(r, op, at)
      BY <1>3, CreateDeletionDoes, ApproveDoes, RefuseDoes
    <2>2. Solo(r) /\ request'[r].at \notin Destroying
      BY <2>1, BeginsSolo DEF Begins, Destroying
    <2> QED BY <2>2, FreeGoesOn DEF Destroying, FreeCarried
  <1>4. ASSUME NEW r \in Request, CompleteDeletionRequest(r) PROVE FreeInTime'
    <2>1. /\ Begins(r, "complete", "eraseNext") /\ UNCHANGED asset
          /\ \A a \in request'[r].todo : Erasable(a)
      BY <1>4, CompleteDoes DEF rows
    <2>2. Solo(r)
      BY <2>1, BeginsSolo
    <2>3. FreeCarried(request[r])'
      BY <2>1 DEF Begins, FreeCarried, Unheld, Erasable
    <2> QED BY <2>2, <2>3, FreeGoesOn
  <1>5. ASSUME NEW r \in Request, SkipFlagged(r) \/ EraseObjects(r) PROVE FreeInTime'
    <2> DEFINE q == request[r]
    <2>1. /\ q.at = "eraseNext" /\ Own(r) /\ UNCHANGED <<asset, flagged>>
          /\ request'[r].todo \subseteq q.todo
          /\ \/ request'[r].at = "eraseNext"
             \/ request'[r].at = "writeDeleted" /\ request'[r].asset \in request'[r].todo \ flagged
      BY <1>5, SkipFlaggedDoes, EraseObjectsDoes DEF rows
    <2>2. Solo(r) /\ \A a \in q.todo : Unheld(a)
      BY <2>1, GoesSolo DEF FreeInTime, FreeCarried
    <2>3. FreeCarried(request[r])'
      BY <2>1, <2>2 DEF FreeCarried, Unheld
    <2> QED BY <2>2, <2>3, FreeGoesOn
  <1>6. ASSUME NEW r \in Request, WriteDeleted(r) PROVE FreeInTime'
    <2> DEFINE q == request[r]
    <2>1. /\ q.at = "writeDeleted" /\ Own(r)
          /\ \/ request'[r] = Idle
             \/ request'[r].at = "eraseNext" /\ request'[r].todo \subseteq q.todo
      BY <1>6, WriteDeletedDoes
    <2>2. Solo(r) /\ q.todo \subseteq Asset /\ \A a \in q.todo : Unheld(a)
      BY <2>1, GoesSolo, FilesTyped DEF FreeInTime, FreeCarried, RequestRow
    <2>3. \A a \in Asset : SameHold(asset'[a], asset[a])
      BY <1>6, WriteDeletedDoes DEF GoneFile, SameHold
    <2>4. FreeCarried(request[r])'
      BY <2>1, <2>2, <2>3, IdleIsIdle DEF FreeCarried, Unheld, SameHold
    <2> QED BY <2>2, <2>4, FreeGoesOn
  <1>7. ASSUME NEW r \in Request,
               \/ InsertDeletion(r) \/ WriteApproval(r) \/ MarkPendingDeletion(r)
               \/ WriteRefusal(r) \/ IssueCertificate(r) \/ WriteCompleted(r)
        PROVE  FreeInTime'
    <2>1. Own(r) /\ request[r].at # "idle" /\ request'[r].at \notin Destroying
      BY <1>7, InsertDeletionDoes, WriteApprovalDoes, MarkPendingDoes, WriteRefusalDoes,
         IssueCertificateDoes, WriteCompletedDoes, IdleIsIdle DEF Goes, Destroying
    <2>2. Solo(r)
      BY <2>1, GoesSolo
    <2> QED BY <2>1, <2>2, FreeGoesOn DEF Destroying, FreeCarried
  <1> QED BY <1>1, <1>2, <1>3, <1>4, <1>5, <1>6, <1>7 DEF RetentionNext

LEMMA FreeKept ==
  ASSUME Inductive, Alone, FreeInTime, [Work]_seen
  PROVE  FreeInTime'
  <1>1. UNCHANGED regime
    BY DEF Work, seen
  <1>2. CASE ~regime.serial
    BY <1>1, <1>2 DEF FreeInTime
  <1>3. CASE regime.serial /\ (HoldNext \/ CaseNext)
    BY <1>3, HoldAlone, CaseAlone, FreeElsewhere DEF All, HoldSteps, CaseSteps, Destroying
  <1>4. ASSUME regime.serial, NEW r \in Request, Crash(r) PROVE FreeInTime'
    <2>1. Own(r) /\ request'[r] = Idle /\ request[r] # Idle
      BY <1>4, CrashTurn DEF Crash
    <2>2. Solo(r)
      BY <2>1, OwnSolo
    <2> QED BY <1>1, <1>4, <2>1, <2>2, IdleIsIdle, FreeGoesOn DEF FreeCarried
  <1>5. CASE UNCHANGED seen
    BY <1>5 DEF seen, tables, rows, FreeInTime, FreeCarried, Unheld
  <1> QED BY <1>1, <1>2, <1>3, <1>4, <1>5, MediaFree, RetentionFree DEF Work

LEMMA AlwaysFree == Spec => []FreeInTime
  <1>1. Init => FreeInTime
    BY IdleIsIdle DEF Init, Empty, FreeInTime, FreeCarried
  <1>2. Inductive /\ Alone /\ FreeInTime /\ [Next]_vars => FreeInTime'
    BY FreeKept, Works
  <1> QED BY <1>1, <1>2, AlwaysInductive, AlwaysAlone, PTL DEF Spec

\* Two statements say that a file is gone: markGone of a routine one, and writeDeleted.
Erases(r, a) ==
  /\ request[r].at \in {"markGone", "writeDeleted"} /\ Own(r)
  /\ request[r].asset = a /\ Exists(a)

LEMMA GoneByErasing ==
  ASSUME Inductive, Work, NEW a \in Asset, asset'[a].gone, ~asset[a].gone
  PROVE  \E r \in Request : Erases(r, a)
  <1>1. CASE MediaWork
    <2>1. CASE InitiatePresignedUpload
      BY <2>1, InitiateDoes
    <2>2. ASSUME NEW r \in Request,
                 \/ InsertAsset(r) \/ MarkProcessing(r) \/ MarkFailed(r) \/ MarkReady(r)
          PROVE  FALSE
      BY <2>2, InsertAssetDoes, NewFields, WriteUploadDoes, MarkReadyDoes
         DEF MarkProcessing, MarkFailed
    <2>3. ASSUME NEW r \in Request, DeleteStaleRow(r) PROVE FALSE
      <3>1. ~[NoAsset EXCEPT !.upload = "CLEARED"].gone
        BY DEF NoAsset
      <3> QED BY <2>3, <3>1, DeleteStaleRowDoes
    <2>4. ASSUME NEW r \in Request, MarkGone(r) PROVE Erases(r, a)
      BY <2>4, MarkGoneDoes DEF Erases, Goes
    <2>5. ASSUME NEW r \in Request,
                 \/ UploadMediaAsset(r) \/ UploadEvidence(r) \/ ConfirmUpload(r)
                 \/ CleanupFailedUploads(r) \/ DeleteReplaceable(r) \/ ProcessObject(r)
                 \/ DeleteStaleObject(r) \/ RemoveObjects(r)
          PROVE  UNCHANGED asset
      BY <2>5 DEF UploadMediaAsset, UploadEvidence, ConfirmUpload, CleanupFailedUploads,
                  DeleteReplaceable, ProcessObject, ReadObject, StoreFinal,
                  DropUpload, FailAfterStore, DeleteStaleObject, RemoveObjects, rows
    <2> QED BY <1>1, <2>1, <2>2, <2>3, <2>4, <2>5 DEF MediaWork, ObjectArrives
  <1>2. CASE RetentionNext
    <2>1. CASE SetLegalHold \/ SetInvestigationHold
      BY <2>1, SetLegalHoldDoes, SetInvestigationHoldDoes
    <2>2. ASSUME RetentionOnly PROVE FALSE
      BY <2>2 DEF RetentionOnly, SameFile
    <2>3. ASSUME NEW r \in Request, WriteDeleted(r) PROVE Erases(r, a)
      BY <2>3, WriteDeletedDoes DEF Erases
    <2>4. ASSUME NEW r \in Request,
                 \/ CreateDeletionRequest(r) \/ InsertDeletion(r)
                 \/ ApproveDeletionRequest(r) \/ WriteApproval(r)
                 \/ RejectDeletionRequest(r) \/ CancelDeletionRequest(r) \/ WriteRefusal(r)
                 \/ CompleteDeletionRequest(r) \/ SkipFlagged(r) \/ EraseObjects(r)
                 \/ IssueCertificate(r) \/ WriteCompleted(r)
          PROVE  UNCHANGED asset
      BY <2>4 DEF CreateDeletionRequest, InsertDeletion, ApproveDeletionRequest, WriteApproval,
                  RejectDeletionRequest, CancelDeletionRequest, WriteRefusal,
                  CompleteDeletionRequest, SkipFlagged, EraseObjects, IssueCertificate,
                  WriteCompleted, rows
    <2> QED BY <1>2, <2>1, <2>2, <2>3, <2>4, ArchiveDoes, MarkPendingDoes
            DEF RetentionNext, FlagAsset, RecoveryElapses
  <1>3. CASE HoldNext
    <2>1. ASSUME NEW x, NEW on, HoldBecomes(x, on) PROVE FALSE
      BY <2>1 DEF HoldBecomes
    <2>2. ASSUME NEW r \in Request,
                 \/ LinkEvidence(r) \/ InsertLink(r) \/ ReadCaseHold(r)
                 \/ RequestHoldRelease(r) \/ RecordReleaseRequest(r)
                 \/ ReleaseInvestigationHold(r) \/ WriteRelease(r) \/ ListLinks(r)
                 \/ CheckOtherCases(r)
          PROVE  UNCHANGED asset
      BY <2>2 DEF LinkEvidence, InsertLink, ReadCaseHold, RequestHoldRelease,
                  RecordReleaseRequest, ReleaseInvestigationHold, WriteRelease, ListLinks,
                  CheckOtherCases, rows
    <2> QED BY <1>3, <2>1, <2>2, ApplyHoldDoes, ClearHoldDoes DEF HoldNext, MarkEnteredInError
  <1> QED BY <1>1, <1>2, <1>3, CasesLeaveFiles DEF Work, Crash, rows

LEMMA GoneIsFree ==
  ASSUME Inductive, Alone, HoldsInTime, FreeInTime, Work, regime.serial,
         NEW a \in Asset, asset'[a].gone, ~asset[a].gone
  PROVE  /\ ~asset[a].legal /\ ~asset[a].hold
         /\ a \notin flagged \/ asset[a].replaceable
         /\ regime.faults \/ "manualHold" \in regime.handlers \/ ~Protected(a)
  <1>1. PICK r \in Request : Erases(r, a)
    BY GoneByErasing
  <1>2. Unheld(a) /\ (a \notin flagged \/ asset[a].replaceable)
    <2>1. FreeCarried(request[r]) /\ Sound(request[r])
      BY InFlightSound DEF FreeInTime
    <2>2. ~Cleared(a)
      BY <1>1 DEF Erases, Exists, Cleared
    <2> QED BY <1>1, <2>1, <2>2 DEF Erases, FreeCarried, Sound, DeletionSound
  <1>3. ASSUME NotByHand PROVE ~Protected(a)
    <2>1. Solo(r)
      BY <1>1, GoesSolo DEF Erases
    <2>2. \A s \in Request : ~HoldSoon(request[s], a)
      BY <1>1, <2>1, IdleIsIdle DEF Erases, HoldSoon, Solo
    <2> QED BY <1>2, <1>3, <2>2 DEF HoldsInTime, Unheld
  <1> QED BY <1>2, <1>3 DEF Unheld, NotByHand

\* Of ErasedOnlyFree (retention-repository.ts, completeDeletionRequest, and
\* media-asset-repository.ts, deleteReplaceableMediaAsset): one request at a time, no
\* step destroys what is on hold, has an open exception or is evidence of a case on hold.
THEOREM OnlyFreeFilesAreErased == Spec => ErasedOnlyFree
  <1>1. Inductive /\ Alone /\ HoldsInTime /\ FreeInTime /\ [Next]_vars =>
          [regime.serial => \A a \in Asset :
             asset'[a].gone /\ ~asset[a].gone =>
               /\ ~asset[a].legal /\ ~asset[a].hold
               /\ a \notin flagged \/ asset[a].replaceable
               /\ regime.faults \/ "manualHold" \in regime.handlers \/ ~Protected(a)]_vars
    BY GoneIsFree, Works DEF seen, tables
  <1> QED BY <1>1, AlwaysInductive, AlwaysAlone, AlwaysHolds, AlwaysFree, PTL
          DEF Spec, ErasedOnlyFree

-------------------------------------------------------------------------------
(* Findings and the cases that await their approval, one request at a time *)
(* without deaths.                                                         *)

Reviewed == regime.serial /\ ~regime.faults

ReviewSteps == {"writeFinding", "checkCase", "writeCase"}

\* Nobody is at a statement of a finding, and no case comes to await an approval.
LEMMA ReviewsElsewhere ==
  ASSUME Reviewed, ReviewsInTime, UNCHANGED <<regime, finding>>,
         \A s \in Request : request[s].at \notin ReviewSteps /\ request'[s].at \notin ReviewSteps,
         \A c \in Case : case'[c].status = "AWAITING_APPROVAL" => case[c].status = "AWAITING_APPROVAL"
  PROVE  ReviewsInTime'
  <1>1. \A c \in Case : case'[c].status = "AWAITING_APPROVAL" => Submitted(c)'
    BY DEF ReviewsInTime, BackSoon, ReviewSteps, Submitted, Reviewed
  <1>2. \A s \in Request : Reviewing(request[s])'
    BY DEF Reviewing, ReviewSteps
  <1> QED BY <1>1, <1>2 DEF ReviewsInTime

\* The request that moved has the only review to see to.
LEMMA ReviewsGoOn ==
  ASSUME regime.serial, UNCHANGED regime, NEW r \in Request, Solo(r), Reviewing(request[r])',
         \A c \in Case : case'[c].status = "AWAITING_APPROVAL" => Submitted(c)' \/ BackSoon(request'[r], c)
  PROVE  ReviewsInTime'
  <1>1. ASSUME NEW s \in Request PROVE Reviewing(request[s])'
    BY IdleIsIdle DEF Solo, Reviewing
  <1> QED BY <1>1 DEF ReviewsInTime, BackSoon

LEMMA ReviewsSolo ==
  ASSUME Inductive, Alone, ReviewsInTime, Reviewed, NEW r \in Request, Own(r),
         request[r] # Idle \/ Calls
  PROVE  /\ Solo(r) /\ Reviewing(request[r])
         /\ \A c \in Case : case[c].status = "AWAITING_APPROVAL" => Submitted(c) \/ BackSoon(request[r], c)
  <1>1. Solo(r)
    BY OwnSolo
  <1>2. ASSUME NEW s \in Request, NEW c, BackSoon(request[s], c) PROVE s = r
    BY <1>1, <1>2, IdleIsIdle DEF Solo, BackSoon, Reviewed
  <1> QED BY <1>1, <1>2 DEF ReviewsInTime, Reviewed

LEMMA CaseAskedReviewed ==
  ASSUME Inductive, Alone, ReviewsInTime, Reviewed, UNCHANGED regime, NEW r \in Request,
         \/ SubmitCase(r) \/ TriageCase(r) \/ BeginOrResume(r) \/ RequestInformation(r)
         \/ ReopenCase(r) \/ CloseCase(r)
  PROVE  ReviewsInTime'
  <1>1. /\ \E op : Begins(r, op, "writeCase")
        /\ request'[r].to # "AWAITING_APPROVAL" /\ UNCHANGED <<case, finding>>
    BY AskCaseDoes DEF rows, AskedFor
  <1>2. /\ Own(r) /\ request[r] = Idle /\ Calls /\ request'[r].at = "writeCase"
    BY <1>1 DEF Begins, Calls, May
  <1>3. /\ Solo(r)
        /\ \A c \in Case : case[c].status = "AWAITING_APPROVAL" => Submitted(c)
    BY <1>2, ReviewsSolo, IdleIsIdle DEF BackSoon
  <1>4. Reviewing(request[r])'
    BY <1>1, <1>2 DEF Reviewing
  <1> QED BY <1>1, <1>3, <1>4, ReviewsGoOn DEF Submitted, Reviewed

LEMMA CheckCaseReviewed ==
  ASSUME Inductive, Alone, ReviewsInTime, Reviewed, UNCHANGED regime, NEW r \in Request,
         CheckCase(r)
  PROVE  ReviewsInTime'
  <1> DEFINE q == request[r]
             ok == <<case[q.case].status, q.to>> \in CaseTransitions
  <1>1. q.at = "checkCase" /\ Goes(r, ok, "writeCase") /\ UNCHANGED <<case, finding>>
    BY CheckCaseDoes DEF rows
  <1>2. /\ Solo(r) /\ Reviewing(q)
        /\ \A c \in Case : case[c].status = "AWAITING_APPROVAL" => Submitted(c) \/ BackSoon(q, c)
    BY <1>1, ReviewsSolo, IdleIsIdle DEF Goes
  <1>3. CASE ok
    <2>1. request'[r].at = "writeCase" /\ request'[r].case = q.case /\ request'[r].to = q.to
      BY <1>1, <1>3 DEF Goes, Same
    <2>2. Reviewing(request[r])'
      BY <1>1, <1>2, <2>1 DEF Reviewing, Submitted
    <2>3. \A c \in Case : BackSoon(q, c) => BackSoon(request'[r], c)
      BY <2>1 DEF BackSoon
    <2> QED BY <1>1, <1>2, <2>2, <2>3, ReviewsGoOn DEF Submitted, Reviewed
  <1>4. CASE ~ok
    <2>1. request'[r] = Idle
      BY <1>1, <1>4 DEF Goes
    <2>2. Reviewing(request[r])'
      BY <2>1, IdleIsIdle DEF Reviewing
    <2>3. ASSUME NEW c \in Case, case[c].status = "AWAITING_APPROVAL" PROVE ~BackSoon(q, c)
      BY <1>4, <2>3 DEF BackSoon, CaseTransitions
    <2> QED BY <1>1, <1>2, <2>2, <2>3, ReviewsGoOn DEF Submitted, Reviewed
  <1> QED BY <1>3, <1>4

LEMMA WriteCaseReviewed ==
  ASSUME Inductive, Alone, ReviewsInTime, Reviewed, UNCHANGED regime, NEW r \in Request,
         WriteCase(r)
  PROVE  ReviewsInTime'
  <1> DEFINE q == request[r]
  <1>1. /\ q.at = "writeCase" /\ Own(r) /\ request'[r] = Idle /\ UNCHANGED finding
        /\ \A c \in Case : case'[c].status = IF c = q.case THEN q.to ELSE case[c].status
    BY WriteCaseDoes
  <1>2. /\ Solo(r) /\ Reviewing(q)
        /\ \A c \in Case : case[c].status = "AWAITING_APPROVAL" => Submitted(c) \/ BackSoon(q, c)
    BY <1>1, ReviewsSolo, IdleIsIdle
  <1>3. Reviewing(request[r])'
    BY <1>1, IdleIsIdle DEF Reviewing
  <1>4. ASSUME NEW c \in Case, case'[c].status = "AWAITING_APPROVAL" PROVE Submitted(c)
    BY <1>1, <1>2, <1>4 DEF Reviewing, BackSoon
  <1> QED BY <1>1, <1>2, <1>3, <1>4, ReviewsGoOn DEF Submitted, Reviewed

LEMMA AskFindingReviewed ==
  ASSUME Inductive, Alone, ReviewsInTime, Reviewed, UNCHANGED regime, NEW r \in Request,
         SubmitFinding(r) \/ ApproveFinding(r) \/ ReturnFinding(r)
  PROVE  ReviewsInTime'
  <1> DEFINE n == request'[r]
  <1>1. /\ \E op : Begins(r, op, "writeFinding")
        /\ n.case = finding[n.row].case
        /\ \/ finding[n.row].status = "DRAFT" /\ n.to = "SUBMITTED"
           \/ /\ finding[n.row].status = "SUBMITTED"
              /\ n.to \in {"APPROVED", "RETURNED_FOR_AMENDMENT", "REJECTED"}
        /\ UNCHANGED <<case, finding>>
    BY AskFindingDoes DEF rows
  <1>2. Own(r) /\ request[r] = Idle /\ Calls /\ n.at = "writeFinding"
    BY <1>1 DEF Begins, Calls, May
  <1>3. /\ Solo(r)
        /\ \A c \in Case : case[c].status = "AWAITING_APPROVAL" => Submitted(c)
    BY <1>2, ReviewsSolo, IdleIsIdle DEF BackSoon
  <1>4. Reviewing(request[r])'
    BY <1>1, <1>2 DEF Reviewing
  <1> QED BY <1>1, <1>3, <1>4, ReviewsGoOn DEF Submitted, Reviewed

LEMMA WriteFindingReviewed ==
  ASSUME Inductive, Alone, ReviewsInTime, Reviewed, UNCHANGED regime, NEW r \in Request,
         WriteFinding(r)
  PROVE  ReviewsInTime'
  <1> DEFINE q == request[r]
             n == request'[r]
  <1>1. /\ q.at = "writeFinding" /\ Own(r) /\ q.row \in Finding /\ UNCHANGED case
        /\ finding'[q.row].status = q.to /\ finding'[q.row].case = finding[q.row].case
        /\ \A f \in Finding \ {q.row} : finding'[f] = finding[f]
        /\ \/ CaseStatusAfter(q.to) = "NONE" /\ n = Idle
           \/ /\ CaseStatusAfter(q.to) # "NONE"
              /\ n.at = "checkCase" /\ n.to = CaseStatusAfter(q.to) /\ n.case = q.case
    BY WriteFindingDoes
  <1>2. /\ Solo(r)
        /\ finding[q.row].case = q.case
        /\ \/ finding[q.row].status = "DRAFT" /\ q.to = "SUBMITTED"
           \/ /\ finding[q.row].status = "SUBMITTED"
              /\ q.to \in {"APPROVED", "RETURNED_FOR_AMENDMENT", "REJECTED"}
        /\ \A c \in Case : case[c].status = "AWAITING_APPROVAL" => Submitted(c)
    BY <1>1, ReviewsSolo, IdleIsIdle DEF Reviewing, BackSoon
  <1>3. PICK x : x = q.case
    OBVIOUS
  <1>4. q.to \in {"SUBMITTED", "APPROVED"} \/ BackSoon(n, x)
    BY <1>1, <1>2, <1>3 DEF BackSoon, CaseStatusAfter
  <1>5. Reviewing(request[r])'
    <2>1. q.to = "SUBMITTED" => Submitted(x)'
      BY <1>1, <1>2, <1>3 DEF Submitted
    <2>2. n.at = "checkCase" /\ n.to = "AWAITING_APPROVAL" => q.to = "SUBMITTED" /\ n.case = x
      BY <1>1, <1>2, <1>3, IdleIsIdle DEF CaseStatusAfter
    <2>3. n.at \in {"idle", "checkCase"}
      BY <1>1, IdleIsIdle
    <2> QED BY <2>1, <2>2, <2>3 DEF Reviewing, Submitted
  <1>6. ASSUME NEW c \in Case, case'[c].status = "AWAITING_APPROVAL"
        PROVE  Submitted(c)' \/ BackSoon(n, c)
    <2>1. PICK g \in Finding : finding[g].case = c /\ finding[g].status \in {"SUBMITTED", "APPROVED"}
      BY <1>1, <1>2, <1>6 DEF Submitted
    <2>2. CASE g = q.row
      BY <1>1, <1>2, <1>3, <1>4, <2>1, <2>2 DEF Submitted
    <2>3. CASE g # q.row
      BY <1>1, <2>1, <2>3 DEF Submitted
    <2> QED BY <2>2, <2>3
  <1> QED BY <1>2, <1>5, <1>6, ReviewsGoOn DEF Reviewed

LEMMA CaseReviewed ==
  ASSUME Inductive, Alone, ReviewsInTime, Reviewed, CaseNext, UNCHANGED regime
  PROVE  ReviewsInTime'
  <1>1. CASE CreateCase \/ EscalateCase \/ AssignInvestigator
    <2>1. UNCHANGED <<request, finding>> /\ \A s \in Request : request[s] = Idle
      BY <1>1 DEF CreateCase, EscalateCase, AssignInvestigator, Answer, May, Quiescent, Reviewed
    <2>2. \A c \in Case : case'[c].status = "AWAITING_APPROVAL" => case[c].status = "AWAITING_APPROVAL"
      BY <1>1, CreateCaseDoes, EscalateDoes DEF CaseCreated
    <2> QED BY <2>1, <2>2, IdleIsIdle, ReviewsElsewhere DEF ReviewSteps
  <1>2. CASE CreateFinding \/ AmendFinding
    <2>1. UNCHANGED <<request, case>> /\ \A s \in Request : request[s] = Idle
      BY <1>2 DEF CreateFinding, AmendFinding, Answer, May, Quiescent, Reviewed
    <2>2. Drafted
      BY <1>2, DraftDoes
    <2>3. \A c \in Case : Submitted(c) => Submitted(c)'
      BY <2>2, NothingStands DEF Drafted, Submitted
    <2>4. \A c \in Case : case[c].status = "AWAITING_APPROVAL" => Submitted(c)
      BY <2>1, IdleIsIdle DEF ReviewsInTime, BackSoon, Reviewed
    <2>5. \A s \in Request : Reviewing(request[s])'
      BY <2>1, IdleIsIdle DEF Reviewing
    <2> QED BY <2>1, <2>3, <2>4, <2>5 DEF ReviewsInTime
  <1>3. ASSUME NEW r \in Request, CreateCaseFromReferral(r) \/ InsertReferredCase(r)
        PROVE  ReviewsInTime'
    <2>1. CASE CreateCaseFromReferral(r)
      <3>1. Begins(r, "refer", "insertCase") /\ UNCHANGED <<case, finding>>
        BY <2>1, ReferDoes DEF rows
      <3>2. \A s \in Request : request[s].at \notin ReviewSteps /\ request'[s].at \notin ReviewSteps
        BY <3>1, BeginsSolo, IdleIsIdle DEF Begins, Solo, ReviewSteps, Reviewed
      <3> QED BY <3>1, <3>2, ReviewsElsewhere
    <2>2. CASE InsertReferredCase(r)
      <3>1. /\ request[r].at = "insertCase" /\ Own(r) /\ request'[r] = Idle
            /\ CaseCreated \/ UNCHANGED rows
        BY <2>2, InsertReferredDoes
      <3>2. \A s \in Request : request[s].at \notin ReviewSteps /\ request'[s].at \notin ReviewSteps
        BY <3>1, GoesSolo, IdleIsIdle DEF Solo, ReviewSteps, Reviewed
      <3>3. /\ UNCHANGED finding
            /\ \A c \in Case : case'[c].status = "AWAITING_APPROVAL" => case[c].status = "AWAITING_APPROVAL"
        BY <3>1 DEF CaseCreated, rows
      <3> QED BY <3>2, <3>3, ReviewsElsewhere
    <2> QED BY <1>3, <2>1, <2>2
  <1> QED BY <1>1, <1>2, <1>3, CaseAskedReviewed, CheckCaseReviewed, WriteCaseReviewed,
             AskFindingReviewed, WriteFindingReviewed DEF CaseNext

LEMMA ReviewsKept ==
  ASSUME Inductive, Alone, ReviewsInTime, [Work]_seen
  PROVE  ReviewsInTime'
  <1>1. UNCHANGED regime
    BY DEF Work, seen
  <1>2. CASE ~Reviewed
    BY <1>1, <1>2 DEF ReviewsInTime, Reviewed
  <1>3. ASSUME Reviewed, MediaWork \/ RetentionNext, ~RecoveryElapses PROVE ReviewsInTime'
    <2>1. \A s \in Request : request[s].at \notin ReviewSteps /\ request'[s].at \notin ReviewSteps
      BY <1>3, MediaAlone, RetentionAlone DEF All, MediaSteps, RetentionSteps, ReviewSteps, Reviewed
    <2> QED BY <1>1, <1>3, <2>1, MediaLeaves, RetentionLeaves, ReviewsElsewhere
  <1>4. ASSUME Reviewed, HoldNext PROVE ReviewsInTime'
    <2>1. \A s \in Request : request[s].at \notin ReviewSteps /\ request'[s].at \notin ReviewSteps
      BY <1>4, HoldAlone DEF All, HoldSteps, ReviewSteps, Reviewed
    <2>2. \A c \in Case : case'[c].status = case[c].status
      <3>1. ASSUME NEW r \in Request, RecordReleaseRequest(r) \/ WriteRelease(r)
            PROVE  \A c \in Case : case'[c].status = case[c].status
        BY <3>1, RecordReleaseDoes, WriteReleaseDoes DEF CaseTouched
      <3>2. ASSUME NEW r \in Request,
                   \/ LinkEvidence(r) \/ InsertLink(r) \/ ReadCaseHold(r) \/ ApplyHold(r)
                   \/ RequestHoldRelease(r) \/ ReleaseInvestigationHold(r) \/ ListLinks(r)
                   \/ CheckOtherCases(r) \/ ClearHold(r)
            PROVE  UNCHANGED case
        BY <3>2 DEF LinkEvidence, InsertLink, ReadCaseHold, ApplyHold, WriteHold,
                    RequestHoldRelease, ReleaseInvestigationHold, ListLinks, CheckOtherCases,
                    ClearHold, rows
      <3> QED BY <1>4, <3>1, <3>2 DEF HoldNext, MarkEnteredInError
    <2> QED BY <1>1, <1>4, <2>1, <2>2, HoldLeaves, ReviewsElsewhere
  <1>5. CASE UNCHANGED seen \/ RecoveryElapses
    BY <1>1, <1>5 DEF seen, tables, rows, RecoveryElapses, ReviewsInTime, Submitted, BackSoon, Reviewing
  <1> QED BY <1>1, <1>2, <1>3, <1>4, <1>5, CaseReviewed DEF Work, Crash, Reviewed

LEMMA AlwaysReviews == Spec => []ReviewsInTime
  <1>1. Init => ReviewsInTime
    BY IdleIsIdle, NothingStands DEF Init, Empty, ReviewsInTime, Reviewing
  <1>2. Inductive /\ Alone /\ ReviewsInTime /\ [Next]_vars => ReviewsInTime'
    BY ReviewsKept, Works
  <1> QED BY <1>1, <1>2, AlwaysInductive, AlwaysAlone, PTL DEF Spec

\* Of AwaitingHasFinding (investigation-finding-repository.ts): one request at a time,
\* without deaths, a case that awaits approval has a finding to approve.
THEOREM ApprovalsHaveFindings == Spec => []AwaitingHasFinding
  <1>1. ReviewsInTime => AwaitingHasFinding
    BY IdleIsIdle DEF ReviewsInTime, AwaitingHasFinding, BackSoon, Quiescent, Submitted
  <1> QED BY <1>1, AlwaysReviews, PTL

-------------------------------------------------------------------------------
(* Certificates, one request at a time without deaths.                     *)

CertifyingSteps == {"eraseNext", "writeDeleted", "writeCompleted", "writeApproval", "writeRefusal"}

\* Who waits to certify nothing accounts for no more than anybody.
LEMMA AnyAccounts ==
  ASSUME NEW d, NEW q, NEW p, Accounted(d, q), q.at \notin CertifyingSteps
  PROVE  Accounted(d, p)
  <1>1. ~Completing(q, d) /\ q.at # "writeCompleted"
    BY DEF Completing, CertifyingSteps
  <1>2. \A a \in deletion[d].links :
          asset[a].gone /\ ~asset[a].replaceable /\ OnlyUnder(a, d) => a \in certificate[d].manifest
    BY <1>1 DEF Accounted
  <1> QED BY <1>1, <1>2 DEF Accounted

\* Certificates are issued where requests are completed.
IssuedWhereCalled == \A d \in Deletion : certificate[d].issued => "complete" \in regime.handlers

LEMMA IssuesWhereCalled ==
  ASSUME Inductive, Named, CertifiedInTime, [Work]_seen
  PROVE  IssuedWhereCalled'
  <1>1. UNCHANGED regime
    BY DEF Work, seen
  <1>2. CASE UNCHANGED certificate
    BY <1>1, <1>2 DEF CertifiedInTime, IssuedWhereCalled
  <1>3. ASSUME NEW r \in Request, IssueCertificate(r) PROVE IssuedWhereCalled'
    <2>1. "complete" \in regime.handlers
      BY <1>3, IssueCertificateDoes DEF Named, Called
    <2> QED BY <1>1, <2>1 DEF IssuedWhereCalled
  <1>4. RetentionNext => UNCHANGED certificate \/ \E r \in Request : IssueCertificate(r)
    BY DEF RetentionNext, SetLegalHold, SetInvestigationHold, FlagAsset, MoveAssetsToArchive,
           RecoveryElapses, CreateDeletionRequest, InsertDeletion, ApproveDeletionRequest,
           WriteApproval, MarkPendingDeletion, RejectDeletionRequest, CancelDeletionRequest,
           WriteRefusal, CompleteDeletionRequest, SkipFlagged, EraseObjects, WriteDeleted,
           WriteCompleted, rows
  <1> QED BY <1>2, <1>3, <1>4, MediaLeaves, HoldLeaves, CasesLeaveFiles DEF Work, Crash, seen, tables, rows

LEMMA CertifiedSolo ==
  ASSUME Inductive, Alone, CertifiedInTime, Reviewed, NEW r \in Request, Own(r),
         request[r] # Idle \/ Calls
  PROVE  /\ Solo(r) /\ CertifiedCarried(request[r])
         /\ \A d \in Deletion : Accounted(d, request[r])
  <1>1. Solo(r)
    BY OwnSolo
  <1>2. ASSUME NEW d \in Deletion PROVE Accounted(d, request[r])
    <2>1. Accounted(d, Idle) => Accounted(d, request[r])
      BY IdleIsIdle, AnyAccounts DEF CertifyingSteps
    <2>2. ASSUME NEW s \in Request, Accounted(d, request[s]) PROVE Accounted(d, request[r])
      BY <1>1, <2>1, <2>2 DEF Solo, Reviewed
    <2> QED BY <2>1, <2>2 DEF CertifiedInTime, Reviewed
  <1> QED BY <1>1, <1>2 DEF CertifiedInTime, Reviewed

\* The request that moved is the only one in flight.
LEMMA CertifiedGoesOn ==
  ASSUME Reviewed, UNCHANGED regime, IssuedWhereCalled', NEW r \in Request, Solo(r),
         CertifiedCarried(request[r])',
         \A d \in Deletion : Accounted(d, request[r])'
  PROVE  CertifiedInTime'
  <1>1. ASSUME NEW s \in Request PROVE CertifiedCarried(request[s])'
    BY IdleIsIdle DEF Solo, CertifiedCarried, Reviewed
  <1> QED BY <1>1 DEF CertifiedInTime, IssuedWhereCalled

\* Covered files and their requests and certificates are as they were.
SameAccounts ==
  /\ UNCHANGED certificate
  /\ \A d \in Deletion :
       /\ deletion'[d].links = deletion[d].links /\ deletion'[d].status = deletion[d].status
       /\ \A a \in deletion[d].links :
            /\ asset'[a].replaceable = asset[a].replaceable
            /\ asset[a].gone => asset'[a].gone
            /\ asset'[a].gone => asset[a].gone \/ asset[a].replaceable

LEMMA AccountsStay ==
  ASSUME SameAccounts, NEW d \in Deletion, NEW q, Accounted(d, q)
  PROVE  Accounted(d, q)'
  <1>1. ASSUME NEW a, OnlyUnder(a, d)' PROVE OnlyUnder(a, d)
    BY <1>1 DEF OnlyUnder, SameAccounts
  <1> QED BY <1>1 DEF Accounted, SameAccounts, Completing

LEMMA IdleAccounts ==
  ASSUME CertifiedInTime, Reviewed, \A s \in Request : request[s].at \notin CertifyingSteps
  PROVE  \A d \in Deletion : \A q : Accounted(d, q)
  BY AnyAccounts, IdleIsIdle DEF CertifiedInTime, Reviewed, CertifyingSteps

LEMMA CertifiedElsewhere ==
  ASSUME CertifiedInTime, Reviewed, UNCHANGED regime, IssuedWhereCalled', SameAccounts,
         \A s \in Request : request[s].at \notin CertifyingSteps
                            /\ request'[s].at \notin CertifyingSteps
  PROVE  CertifiedInTime'
  <1>1. \A d \in Deletion : Accounted(d, Idle)'
    BY IdleAccounts, AccountsStay DEF Idle
  <1>2. \A s \in Request : CertifiedCarried(request[s])'
    BY DEF CertifiedCarried, CertifyingSteps
  <1> QED BY <1>1, <1>2 DEF CertifiedInTime, IssuedWhereCalled

LEMMA CertifiedLeft ==
  ASSUME CertifiedInTime, UNCHANGED <<regime, asset, certificate, request>>,
         \A d \in Deletion : deletion'[d].links = deletion[d].links
                             /\ deletion'[d].status = deletion[d].status,
         Inductive, Named
  PROVE  CertifiedInTime'
  <1>1. SameAccounts
    BY DEF SameAccounts
  <1>2. ASSUME NEW d \in Deletion, NEW r \in Request, Accounted(d, request[r])
        PROVE  Accounted(d, request[r])'
    BY <1>1, <1>2, AccountsStay DEF Accounted, Completing
  <1>3. ASSUME NEW d \in Deletion, Accounted(d, Idle) PROVE Accounted(d, Idle)'
    BY <1>1, <1>3, AccountsStay DEF Idle
  <1>4. ASSUME NEW r \in Request, CertifiedCarried(request[r]) PROVE CertifiedCarried(request[r])'
    <2>1. request[r].at \in CertifyingSteps => request[r].row \in Deletion
      BY InFlightSound DEF Sound, DeletionSound, CertifyingSteps
    <2> QED BY <1>4, <2>1 DEF CertifiedCarried, Pending, CertifyingSteps
  <1> QED BY <1>2, <1>3, <1>4 DEF CertifiedInTime

\* Handlers of uploads leave covered files alone, but for the routine ones.
LEMMA MediaAccounts ==
  ASSUME Inductive, Named, ReadyInTime, InCustody, MediaWork
  PROVE  SameAccounts
  <1>1. /\ UNCHANGED certificate
        /\ \A d \in Deletion : deletion'[d].status = deletion[d].status
    BY MediaLeaves
  <1>2. CASE InitiatePresignedUpload
    BY <1>2, InitiateDoes, CoveredReady, NothingStands DEF SameAccounts, Ready
  <1>3. ASSUME NEW r \in Request, InsertAsset(r) PROVE SameAccounts
    BY <1>3, InsertAssetDoes, CoveredReady, NothingStands DEF SameAccounts, Ready
  <1>4. ASSUME NEW r \in Request, MarkProcessing(r) \/ MarkFailed(r) \/ MarkReady(r)
        PROVE  SameAccounts
    <2>1. /\ UNCHANGED deletion
          /\ \A a \in Asset : asset'[a].gone = asset[a].gone /\ SameHold(asset'[a], asset[a])
      BY <1>4, WriteUploadDoes, MarkReadyDoes DEF MarkProcessing, MarkFailed, SameHold
    <2> QED BY <1>1, <2>1, CoveredReady DEF SameAccounts, SameHold
  <1>5. ASSUME NEW r \in Request, DeleteStaleRow(r) PROVE SameAccounts
    <2>1. PICK x : x = request[r].asset
      OBVIOUS
    <2>2. NotYet(x)
      BY <1>5, <2>1, DeleteStaleRowDoes DEF ReadyInTime, ReadyCarried
    <2>3. \A d \in Deletion : deletion[d].links \ {x} = deletion[d].links
      BY <2>2, CoveredReady DEF NotYet
    <2>4. \A d \in Deletion : deletion'[d].links = deletion[d].links
      BY <1>5, <2>1, <2>3, DeleteStaleRowDoes
    <2>5. \A a \in Asset \ {x} : asset'[a] = asset[a]
      BY <1>5, <2>1, DeleteStaleRowDoes
    <2> QED BY <1>1, <2>2, <2>4, <2>5, CoveredReady DEF SameAccounts, NotYet
  <1>6. ASSUME NEW r \in Request, MarkGone(r) PROVE SameAccounts
    <2>1. UNCHANGED deletion /\ Sound(request[r]) /\ request[r].at = "markGone"
      BY <1>6, MarkGoneDoes, InFlightSound
    <2>2. ASSUME NEW a \in Asset
          PROVE  /\ asset'[a].replaceable = asset[a].replaceable
                 /\ asset[a].gone => asset'[a].gone
                 /\ asset'[a].gone => asset[a].gone \/ asset[a].replaceable
      BY <1>6, <2>1, MarkGoneDoes DEF GoneFile, SameHold, Sound, DeletionSound, Exists, Cleared
    <2> QED BY <1>1, <2>1, <2>2, CoveredReady DEF SameAccounts
  <1>7. ASSUME NEW r \in Request,
               \/ UploadMediaAsset(r) \/ UploadEvidence(r) \/ ConfirmUpload(r)
               \/ CleanupFailedUploads(r) \/ DeleteReplaceable(r) \/ ProcessObject(r)
               \/ DeleteStaleObject(r) \/ RemoveObjects(r)
        PROVE  UNCHANGED <<asset, deletion>>
    BY <1>7 DEF UploadMediaAsset, UploadEvidence, ConfirmUpload, CleanupFailedUploads,
                DeleteReplaceable, ProcessObject, ReadObject, StoreFinal,
                DropUpload, FailAfterStore, DeleteStaleObject, RemoveObjects, rows
  <1>8. CASE UNCHANGED <<asset, deletion>>
    BY <1>1, <1>8 DEF SameAccounts
  <1> QED BY <1>2, <1>3, <1>4, <1>5, <1>6, <1>7, <1>8 DEF MediaWork, ObjectArrives

\* No file that is gone comes under a request for its deletion.
LEMMA InsertDeletionCertified ==
  ASSUME Inductive, Inductive', Alone, CertifiedInTime, Reviewed, UNCHANGED regime,
         IssuedWhereCalled', NEW r \in Request, InsertDeletion(r)
  PROVE  CertifiedInTime'
  <1> DEFINE q == request[r]
  <1>1. /\ q.at = "insertDeletion" /\ Own(r) /\ request'[r] = Idle
        /\ UNCHANGED <<asset, certificate>>
    BY InsertDeletionDoes
  <1>2. Solo(r) /\ \A d \in Deletion : Accounted(d, q)
    BY <1>1, CertifiedSolo, IdleIsIdle
  <1>3. CertifiedCarried(request[r])'
    BY <1>1, IdleIsIdle DEF CertifiedCarried
  <1>4. ASSUME NEW d \in Deletion PROVE Accounted(d, request[r])'
    <2>1. Accounted(d, Idle)
      BY <1>1, <1>2, AnyAccounts DEF CertifyingSteps
    <2>2. CASE UNCHANGED deletion
      BY <1>1, <2>1, <2>2 DEF Accounted, OnlyUnder
    <2>3. ASSUME NEW x \in Deletion, deletion[x] = NoDeletion,
                 \A e \in Deletion \ {x} : deletion'[e] = deletion[e]
          PROVE  Accounted(d, request[r])'
      <3>1. deletion[x].links = {} /\ deletion[x].status = "NONE" /\ deletion[x].approver = None
        BY <2>3, NothingStands
      <3>2. CASE d # x
        <4>1. /\ deletion'[d] = deletion[d]
              /\ \A a : OnlyUnder(a, d)' => OnlyUnder(a, d)
          BY <2>3, <3>1, <3>2 DEF OnlyUnder
        <4> QED BY <1>1, <2>1, <4>1 DEF Accounted
      <3>3. CASE d = x
        <4>1. certificate[x].manifest = {} /\ ~certificate[x].issued
          BY <2>1, <3>1, <3>3, IdleIsIdle DEF Accounted
        <4>2. ASSUME NEW a \in deletion'[x].links, asset[a].gone, ~asset[a].replaceable
              PROVE  \E e \in Deletion \ {x} : a \in deletion'[e].links
          <5>1. a \in Asset
            BY DEF Inductive, Typed, RowsTypeOK, DeletionRow
          <5>2. PICK e \in Deletion : /\ a \in deletion[e].links
                                     /\ deletion[e].approver \notin {None, deletion[e].initiator}
            BY <4>2, <5>1 DEF Inductive, ErasedByTwoUsers
          <5> QED BY <2>3, <3>1, <5>2
        <4> QED BY <1>1, <3>3, <4>1, <4>2 DEF Accounted, OnlyUnder
      <3> QED BY <3>2, <3>3
    <2> QED BY <2>2, <2>3, InsertDeletionDoes
  <1> QED BY <1>2, <1>3, <1>4, CertifiedGoesOn

LEMMA AskedCertified ==
  ASSUME Inductive, Alone, CertifiedInTime, Reviewed, UNCHANGED regime, IssuedWhereCalled',
         NEW r \in Request,
         \/ CreateDeletionRequest(r) \/ ApproveDeletionRequest(r)
         \/ RejectDeletionRequest(r) \/ CancelDeletionRequest(r)
         \/ CompleteDeletionRequest(r)
  PROVE  CertifiedInTime'
  <1> DEFINE n == request'[r]
  <1>1. /\ \E op : \E at : Begins(r, op, at)
        /\ n.at \in {"insertDeletion", "writeApproval", "writeRefusal", "eraseNext"}
        /\ n.at \in {"writeApproval", "writeRefusal"} => Pending(n.row)
        /\ n.at = "eraseNext" => /\ n.row \in Deletion /\ deletion[n.row].status = "APPROVED"
                                /\ n.done = {}
        /\ UNCHANGED <<asset, deletion, certificate>>
    <2>1. CASE CreateDeletionRequest(r)
      BY <2>1, CreateDeletionDoes DEF Begins, rows
    <2>2. CASE ApproveDeletionRequest(r)
      BY <2>2, ApproveDoes DEF Begins, rows
    <2>3. CASE RejectDeletionRequest(r) \/ CancelDeletionRequest(r)
      BY <2>3, RefuseDoes DEF Begins, rows
    <2>4. CASE CompleteDeletionRequest(r)
      BY <2>4, CompleteDoes DEF Begins, rows
    <2> QED BY <2>1, <2>2, <2>3, <2>4
  <1>2. Own(r) /\ request[r] = Idle /\ Calls
    BY <1>1 DEF Begins, Calls, May
  <1>3. Solo(r) /\ \A d \in Deletion : Accounted(d, Idle)
    BY <1>2, CertifiedSolo
  <1>4. CertifiedCarried(request[r])'
    <2>1. n.at = "eraseNext" => ~certificate[n.row].issued
      BY <1>1, <1>3, IdleIsIdle DEF Accounted
    <2> QED BY <1>1, <2>1 DEF CertifiedCarried, Pending
  <1>5. ASSUME NEW d \in Deletion PROVE Accounted(d, request[r])'
    <2>1. Accounted(d, n)
      BY <1>3, IdleIsIdle, AnyAccounts DEF CertifyingSteps
    <2> QED BY <1>1, <2>1 DEF Accounted, OnlyUnder, Completing
  <1> QED BY <1>3, <1>4, <1>5, CertifiedGoesOn

\* An approval or a refusal finds its request pending, so that it was not completed.
LEMMA AnsweredCertified ==
  ASSUME Inductive, Alone, CertifiedInTime, Reviewed, UNCHANGED regime, IssuedWhereCalled',
         NEW r \in Request, WriteApproval(r) \/ WriteRefusal(r)
  PROVE  CertifiedInTime'
  <1> DEFINE q == request[r]
  <1>1. PICK status :
          /\ q.at \in {"writeApproval", "writeRefusal"} /\ Own(r) /\ q.row \in Deletion
          /\ request'[r].at \notin CertifyingSteps
          /\ DeletionBecomes(q.row, status) /\ UNCHANGED <<asset, certificate>>
    BY WriteApprovalDoes, WriteRefusalDoes, IdleIsIdle DEF Goes, CertifyingSteps
  <1>2. Solo(r) /\ CertifiedCarried(q) /\ \A d \in Deletion : Accounted(d, q)
    BY <1>1, CertifiedSolo, IdleIsIdle
  <1>3. ~certificate[q.row].issued
    BY <1>1, <1>2 DEF CertifiedCarried, Pending, Accounted
  <1>4. CertifiedCarried(request[r])'
    BY <1>1 DEF CertifiedCarried, CertifyingSteps
  <1>5. ASSUME NEW d \in Deletion PROVE Accounted(d, request[r])'
    <2>1. Accounted(d, q) /\ ~Completing(q, d) /\ q.at # "writeCompleted"
      BY <1>1, <1>2 DEF Completing
    <2>2. /\ deletion'[d].links = deletion[d].links
          /\ d # q.row => deletion'[d].status = deletion[d].status
          /\ \A a : OnlyUnder(a, d)' => OnlyUnder(a, d)
      BY <1>1 DEF DeletionBecomes, OnlyUnder
    <2> QED BY <1>1, <1>3, <2>1, <2>2 DEF Accounted
  <1> QED BY <1>2, <1>4, <1>5, CertifiedGoesOn

LEMMA WriteDeletedCertified ==
  ASSUME Inductive, Alone, CertifiedInTime, Reviewed, UNCHANGED regime, IssuedWhereCalled',
         NEW r \in Request, WriteDeleted(r), ReadyInTime, FreeInTime
  PROVE  CertifiedInTime'
  <1> DEFINE q == request[r]
             n == request'[r]
  <1>1. /\ q.at = "writeDeleted" /\ Own(r) /\ q.asset \in Asset
        /\ UNCHANGED <<deletion, certificate>>
        /\ \A a \in Asset : /\ asset'[a].replaceable = asset[a].replaceable
                            /\ asset[a].gone => asset'[a].gone
                            /\ asset'[a].gone => asset[a].gone \/ a = q.asset
    BY WriteDeletedDoes DEF GoneFile, SameHold
  <1>2. Solo(r) /\ CertifiedCarried(q) /\ \A d \in Deletion : Accounted(d, q)
    BY <1>1, CertifiedSolo, IdleIsIdle
  <1>3. q.row \in Deletion /\ CoveredOrCleared(q.asset, q.row)
    BY <1>1, InFlightSound DEF Sound, DeletionSound
  <1>4. \A d \in Deletion : \A a \in deletion[d].links : a \in Asset
    BY DEF Inductive, Typed, RowsTypeOK, DeletionRow
  <1>5. CASE Exists(q.asset)
    <2>1. n.at = "eraseNext" /\ n.done = q.done \cup {q.asset} /\ n.row = q.row
      BY <1>5, WriteDeletedDoes, IdleIsIdle
    <2>2. q.asset \in deletion[q.row].links
      BY <1>3, <1>5 DEF CoveredOrCleared, Cleared, Exists
    <2>3. asset'[q.asset].gone
      BY <1>1, <1>5, WriteDeletedDoes DEF GoneFile
    <2>4. CertifiedCarried(request[r])'
      BY <1>1, <1>2, <1>3, <1>4, <2>1, <2>2, <2>3 DEF CertifiedCarried
    <2>5. ASSUME NEW d \in Deletion PROVE Accounted(d, request[r])'
      <3>1. \A a \in deletion[d].links :
              asset'[a].gone /\ ~asset'[a].replaceable /\ OnlyUnder(a, d) =>
                a \in certificate[d].manifest \/ (n.row = d /\ a \in n.done)
        BY <1>1, <1>2, <1>3, <1>4, <2>1, <2>2 DEF Accounted, Completing, OnlyUnder
      <3>2. \A a \in certificate[d].manifest : asset'[a].gone /\ a \in deletion[d].links
        BY <1>1, <1>2, <1>4 DEF Accounted
      <3> QED BY <1>1, <1>2, <2>1, <3>1, <3>2 DEF Accounted, Completing, OnlyUnder
    <2> QED BY <1>2, <2>4, <2>5, CertifiedGoesOn
  <1>6. Exists(q.asset)
    <2>1. q.asset \in q.todo
      BY <1>1 DEF FreeInTime, FreeCarried, Reviewed
    <2> QED BY <1>1, <2>1 DEF ReadyInTime, ReadyCarried, InCustody, Reviewed, Ready, Exists
  <1> QED BY <1>5, <1>6

LEMMA ErasingCertified ==
  ASSUME Inductive, Alone, CertifiedInTime, Reviewed, UNCHANGED regime, IssuedWhereCalled',
         NEW r \in Request, SkipFlagged(r) \/ EraseObjects(r)
  PROVE  CertifiedInTime'
  <1> DEFINE q == request[r]
             n == request'[r]
  <1>1. /\ q.at = "eraseNext" /\ Own(r)
        /\ n.at \in {"eraseNext", "writeDeleted"} /\ n.row = q.row /\ n.done = q.done
        /\ UNCHANGED <<asset, deletion, certificate>>
    BY SkipFlaggedDoes, EraseObjectsDoes DEF rows
  <1>2. Solo(r) /\ CertifiedCarried(q) /\ \A d \in Deletion : Accounted(d, q)
    BY <1>1, CertifiedSolo, IdleIsIdle
  <1>3. CertifiedCarried(request[r])'
    BY <1>1, <1>2 DEF CertifiedCarried
  <1>4. ASSUME NEW d \in Deletion PROVE Accounted(d, request[r])'
    BY <1>1, <1>2 DEF Accounted, OnlyUnder, Completing
  <1> QED BY <1>2, <1>3, <1>4, CertifiedGoesOn

LEMMA IssueCertified ==
  ASSUME Inductive, Alone, CertifiedInTime, Reviewed, UNCHANGED regime, IssuedWhereCalled',
         NEW r \in Request, IssueCertificate(r)
  PROVE  CertifiedInTime'
  <1> DEFINE q == request[r]
             n == request'[r]
  <1>1. /\ q.at = "eraseNext" /\ Own(r) /\ q.row \in Deletion
        /\ \A d \in Deletion \ {q.row} : certificate'[d] = certificate[d]
        /\ UNCHANGED <<asset, deletion>>
    BY IssueCertificateDoes DEF Goes
  <1>2. Solo(r) /\ CertifiedCarried(q) /\ \A d \in Deletion : Accounted(d, q)
    BY <1>1, CertifiedSolo, IdleIsIdle
  <1>3. /\ ~certificate[q.row].issued /\ \A a \in q.done : asset[a].gone /\ a \in deletion[q.row].links
        /\ certificate[q.row].manifest = {}
    BY <1>1, <1>2 DEF CertifiedCarried, Accounted
  <1>4. /\ certificate'[q.row].issued /\ certificate'[q.row].manifest = q.done
        /\ n.at = "writeCompleted" /\ n.row = q.row
    <2>1. certificate'[q.row] = [issued |-> TRUE, manifest |-> q.done]
      BY <1>3, IssueCertificateDoes
    <2>2. Goes(r, TRUE, "writeCompleted")
      BY <1>3, IssueCertificateDoes DEF Goes
    <2> QED BY <2>1, <2>2 DEF Goes, Same
  <1>5. CertifiedCarried(request[r])'
    BY <1>4 DEF CertifiedCarried
  <1>6. ASSUME NEW d \in Deletion PROVE Accounted(d, request[r])'
    <2>1. CASE d = q.row
      BY <1>1, <1>2, <1>3, <1>4, <2>1 DEF Accounted, OnlyUnder, Completing
    <2>2. CASE d # q.row
      <3>1. Accounted(d, q) /\ ~Completing(q, d) /\ certificate'[d] = certificate[d]
        BY <1>1, <1>2, <2>2 DEF Completing
      <3> QED BY <1>1, <3>1 DEF Accounted, OnlyUnder
    <2> QED BY <2>1, <2>2
  <1> QED BY <1>2, <1>5, <1>6, CertifiedGoesOn

LEMMA CompletedCertified ==
  ASSUME Inductive, Alone, CertifiedInTime, Reviewed, UNCHANGED regime, IssuedWhereCalled',
         NEW r \in Request, WriteCompleted(r)
  PROVE  CertifiedInTime'
  <1> DEFINE q == request[r]
  <1>1. /\ q.at = "writeCompleted" /\ Own(r) /\ request'[r] = Idle /\ q.row \in Deletion
        /\ DeletionBecomes(q.row, "COMPLETED") /\ UNCHANGED <<asset, certificate>>
    BY WriteCompletedDoes
  <1>2. Solo(r) /\ \A d \in Deletion : Accounted(d, q)
    BY <1>1, CertifiedSolo, IdleIsIdle
  <1>3. CertifiedCarried(request[r])'
    BY <1>1, IdleIsIdle DEF CertifiedCarried
  <1>4. ASSUME NEW d \in Deletion PROVE Accounted(d, request[r])'
    <2>1. Accounted(d, q) /\ ~Completing(q, d)
      BY <1>1, <1>2 DEF Completing
    <2>2. /\ deletion'[d].links = deletion[d].links
          /\ d # q.row => deletion'[d].status = deletion[d].status
          /\ d = q.row => deletion'[d].status = "COMPLETED"
          /\ \A a : OnlyUnder(a, d)' => OnlyUnder(a, d)
      BY <1>1 DEF DeletionBecomes, OnlyUnder
    <2> QED BY <1>1, <2>1, <2>2 DEF Accounted
  <1> QED BY <1>2, <1>3, <1>4, CertifiedGoesOn

LEMMA RetentionCertified ==
  ASSUME Inductive, Inductive', Alone, Named, ReadyInTime, FreeInTime, CertifiedInTime, Reviewed,
         RetentionNext, UNCHANGED regime, IssuedWhereCalled'
  PROVE  CertifiedInTime'
  <1>1. CASE SetLegalHold \/ SetInvestigationHold \/ FlagAsset \/ MoveAssetsToArchive
    <2>1. \A s \in Request : request[s] = Idle /\ request'[s] = Idle
      BY <1>1 DEF SetLegalHold, SetInvestigationHold, FlagAsset, MoveAssetsToArchive,
                  Answer, May, Quiescent, Reviewed
    <2>2. UNCHANGED <<deletion, certificate>>
      BY <1>1, SetLegalHoldDoes, SetInvestigationHoldDoes, FlagAssetDoes, ArchiveDoes
    <2>3. \A a \in Asset : /\ asset'[a].replaceable = asset[a].replaceable
                          /\ asset'[a].gone = asset[a].gone
      BY <1>1, SetLegalHoldDoes, SetInvestigationHoldDoes, FlagAssetDoes, ArchiveDoes
         DEF RetentionOnly, SameFile, SameHold
    <2>4. SameAccounts
      BY <2>2, <2>3 DEF SameAccounts, Inductive, Typed, RowsTypeOK, DeletionRow
    <2> QED BY <2>1, <2>4, CertifiedElsewhere, IdleIsIdle DEF CertifyingSteps
  <1>2. CASE RecoveryElapses
    BY <1>2, RecoveryElapsesDoes, CertifiedLeft
  <1>3. ASSUME NEW r \in Request, MarkPendingDeletion(r) PROVE CertifiedInTime'
    <2>1. /\ request[r].at = "markPending" /\ Own(r) /\ request'[r] = Idle
          /\ RetentionOnly /\ UNCHANGED <<deletion, certificate>>
      BY <1>3, MarkPendingDoes
    <2>2. SameAccounts
      BY <2>1 DEF RetentionOnly, SameFile, SameHold, SameAccounts,
                  Inductive, Typed, RowsTypeOK, DeletionRow
    <2>3. \A s \in Request : request[s].at \notin CertifyingSteps /\ request'[s].at \notin CertifyingSteps
      BY <2>1, GoesSolo, IdleIsIdle DEF Solo, Reviewed, CertifyingSteps
    <2> QED BY <2>2, <2>3, CertifiedElsewhere
  <1> QED BY <1>1, <1>2, <1>3, AskedCertified, InsertDeletionCertified, AnsweredCertified,
             ErasingCertified, WriteDeletedCertified, IssueCertified, CompletedCertified
          DEF RetentionNext

LEMMA CertifiedKept ==
  ASSUME Inductive, Inductive', Alone, Named, ReadyInTime, FreeInTime, CertifiedInTime, [Work]_seen
  PROVE  CertifiedInTime'
  <1>1. UNCHANGED regime /\ IssuedWhereCalled'
    BY IssuesWhereCalled DEF Work, seen
  <1>2. CASE ~Reviewed
    BY <1>1, <1>2 DEF CertifiedInTime, Reviewed, IssuedWhereCalled
  <1>3. ASSUME Reviewed, MediaWork PROVE CertifiedInTime'
    <2>1. \A s \in Request : request[s].at \notin CertifyingSteps /\ request'[s].at \notin CertifyingSteps
      BY <1>3, MediaAlone DEF All, MediaSteps, CertifyingSteps, Reviewed
    <2> QED BY <1>1, <1>3, <2>1, MediaAccounts, CertifiedElsewhere DEF InCustody, Reviewed
  <1>4. ASSUME Reviewed, HoldNext \/ CaseNext PROVE CertifiedInTime'
    <2>1. \A s \in Request : request[s].at \notin CertifyingSteps /\ request'[s].at \notin CertifyingSteps
      BY <1>4, HoldAlone, CaseAlone DEF All, HoldSteps, CaseSteps, CertifyingSteps, Reviewed
    <2>2. \A a \in Asset : asset'[a].gone = asset[a].gone /\ asset'[a].replaceable = asset[a].replaceable
      <3>1. ASSUME NEW x, NEW on, HoldBecomes(x, on)
            PROVE  \A a \in Asset : /\ asset'[a].gone = asset[a].gone
                                   /\ asset'[a].replaceable = asset[a].replaceable
        BY <3>1 DEF HoldBecomes
      <3>2. ASSUME NEW r \in Request,
                   \/ LinkEvidence(r) \/ InsertLink(r) \/ ReadCaseHold(r)
                   \/ RequestHoldRelease(r) \/ RecordReleaseRequest(r)
                   \/ ReleaseInvestigationHold(r) \/ WriteRelease(r) \/ ListLinks(r)
                   \/ CheckOtherCases(r)
            PROVE  UNCHANGED asset
        BY <3>2 DEF LinkEvidence, InsertLink, ReadCaseHold, RequestHoldRelease,
                    RecordReleaseRequest, ReleaseInvestigationHold, WriteRelease, ListLinks,
                    CheckOtherCases, rows
      <3> QED BY <1>4, <3>1, <3>2, ApplyHoldDoes, ClearHoldDoes, CasesLeaveFiles
              DEF HoldNext, MarkEnteredInError
    <2>3. UNCHANGED <<deletion, certificate>>
      BY <1>4, HoldLeaves, CasesLeaveFiles
    <2>4. SameAccounts
      BY <2>2, <2>3 DEF SameAccounts, Inductive, Typed, RowsTypeOK, DeletionRow
    <2> QED BY <1>1, <1>4, <2>1, <2>4, CertifiedElsewhere
  <1>5. CASE UNCHANGED seen
    BY <1>5, CertifiedLeft DEF seen, tables, rows
  <1> QED BY <1>1, <1>2, <1>3, <1>4, <1>5, RetentionCertified DEF Work, Crash, Reviewed

LEMMA InitCertified == Init => CertifiedInTime
  <1> SUFFICES ASSUME Init PROVE CertifiedInTime
    OBVIOUS
  <1>1. \A d \in Deletion : deletion[d].links = {} /\ certificate[d] = NoCertificate
    BY NothingStands DEF Init, Empty
  <1>2. \A d \in Deletion : Accounted(d, Idle)
    BY <1>1 DEF Accounted, NoCertificate
  <1> QED BY <1>1, <1>2, IdleIsIdle DEF Init, Empty, CertifiedInTime, CertifiedCarried, NoCertificate

LEMMA AlwaysCertified == Spec => []CertifiedInTime
  <1>1. /\ Inductive /\ Inductive' /\ Alone /\ Named /\ ReadyInTime /\ FreeInTime
        /\ CertifiedInTime /\ [Next]_vars
        => CertifiedInTime'
    BY CertifiedKept, Works
  <1> QED BY <1>1, InitCertified, AlwaysInductive, AlwaysNamed, AlwaysAlone, AlwaysReady, AlwaysFree,
             PTL DEF Spec

\* Wherever requests are completed without deaths, they are served one at a time.
CompletedAlone ==
  \A g \in Regimes : "complete" \in g.handlers /\ ~g.faults => g.serial

\* Of CertificateIsExact (retention-repository.ts, completeDeletionRequest): where no two
\* completions race and none dies, a certificate lists the files that its request alone
\* covered and that are gone, and nothing else.
THEOREM CertificatesAreExact == CompletedAlone => (Spec => []CertificateIsExact)
  <1> SUFFICES ASSUME CompletedAlone PROVE Spec => []CertificateIsExact
    OBVIOUS
  <1>1. ASSUME Inductive, CertifiedInTime PROVE CertificateIsExact
    <2> SUFFICES ASSUME ~regime.faults, Quiescent, NEW d \in Deletion, certificate[d].issued
                 PROVE  ListsWhatIsGone(d) /\ ListsOnlyWhatIsGone(d)
      BY DEF CertificateIsExact
    <2>1. regime.serial
      BY <1>1 DEF CompletedAlone, CertifiedInTime, Inductive, Typed
    <2>2. Accounted(d, Idle)
      BY <1>1, <2>1 DEF CertifiedInTime, Quiescent
    <2> QED BY <2>2, IdleIsIdle DEF Accounted, Completing, OnlyUnder, ListsWhatIsGone, ListsOnlyWhatIsGone
  <1> QED BY <1>1, AlwaysInductive, AlwaysCertified, PTL

-------------------------------------------------------------------------------
(* Rows and their objects, as long as no process dies and the store does   *)
(* its work.                                                               *)

LEMMA UploadIsNoRequest == ASSUME NEW r \in Request PROVE r # "upload"
  BY KeyAssumption

\* The objects that rows and requests rely on stay in the bucket.
ObjectsStay ==
  \A a \in Asset :
    /\ \A k : Once(a) /\ Kept(a, k) /\ (k = "upload" => asset[a].bytes = "ASIS") => Kept(a, k)'
    /\ Once(a) => Once(a)' /\ (asset'[a].bytes = asset[a].bytes \/ Cleared(a)')
    /\ ~Once(a)' => objects[a] \subseteq objects'[a]
    /\ Settled(a) => Settled(a)'

LEMMA StoredCarriedStays ==
  ASSUME ObjectsStay, NEW r \in Request, NEW q, q.asset \in Asset,
         q.at \in {"storeFinal", "dropUpload", "markReady", "removeObjects"} => Once(q.asset),
         StoredCarried(q, r)
  PROVE  StoredCarried(q, r)'
  <1> DEFINE a == q.asset
  <1>1. ASSUME q.at = "markReady" PROVE Kept(a, FinalKey(a, r))'
    <2>1. Once(a) /\ Kept(a, FinalKey(a, r))
      BY <1>1 DEF StoredCarried
    <2>2. FinalKey(a, r) = "upload" => asset[a].bytes = "ASIS"
      BY UploadIsNoRequest DEF FinalKey
    <2>3. CASE Cleared(a)'
      BY <2>3 DEF Kept, Cleared
    <2>4. CASE asset'[a].bytes = asset[a].bytes
      <3>1. PICK k : k = FinalKey(a, r)
        OBVIOUS
      <3>2. Kept(a, k)'
        BY <2>1, <2>2, <3>1 DEF ObjectsStay
      <3>3. FinalKey(a, r)' = k
        BY <2>4, <3>1 DEF FinalKey
      <3> QED BY <3>2, <3>3
    <2> QED BY <2>1, <2>3, <2>4 DEF ObjectsStay
  <1>2. ASSUME q.at = "insertAsset", ~Once(a)' PROVE r \in objects'[a]
    BY <1>2 DEF ObjectsStay, StoredCarried
  <1>3. ASSUME q.at = "removeObjects" PROVE Settled(a)'
    BY <1>3 DEF ObjectsStay, StoredCarried, Settled
  <1>4. Once(a) => Settled(a)' \/ asset'[a].bytes = asset[a].bytes
    BY DEF ObjectsStay, Settled
  <1>5. ASSUME q.at = "storeFinal" PROVE Settled(a)' \/ asset'[a].bytes # "ASIS"
    BY <1>4, <1>5 DEF ObjectsStay, StoredCarried
  <1>6. ASSUME q.at = "dropUpload" PROVE Settled(a)' \/ asset'[a].bytes = "COMPRESSED"
    BY <1>4, <1>6 DEF ObjectsStay, StoredCarried
  <1>7. ASSUME q.at = "dropUpload" PROVE Kept(a, r)'
    BY <1>7, UploadIsNoRequest DEF ObjectsStay, StoredCarried
  <1> QED BY <1>1, <1>2, <1>3, <1>5, <1>6, <1>7 DEF StoredCarried, Settled

\* The statements that rely on objects in the bucket.
StoringSteps == {"insertAsset", "storeFinal", "dropUpload", "markReady", "removeObjects"}

LEMMA OtherwiseStored ==
  ASSUME NEW q, NEW r, q.at \notin StoringSteps
  PROVE  StoredCarried(q, r) /\ StoredCarried(q, r)'
  BY DEF StoringSteps, StoredCarried

LEMMA FileStays ==
  ASSUME ObjectsStay, NEW a \in Asset, StoredFile(a),
         Ready(a)' => /\ Ready(a) /\ asset'[a].key = asset[a].key
                      /\ asset'[a].bytes = asset[a].bytes
  PROVE  StoredFile(a)'
  <1> SUFFICES ASSUME Ready(a)'
               PROVE  Kept(a, asset[a].key)' /\ (asset'[a].key = "upload" => asset'[a].bytes = "ASIS")
    BY DEF StoredFile
  <1>1. PICK k : k = asset[a].key /\ k = asset'[a].key
    OBVIOUS
  <1>2. Kept(a, k) /\ (k = "upload" => asset[a].bytes = "ASIS") /\ Once(a)
    BY <1>1 DEF StoredFile, Ready, Once
  <1>3. Kept(a, k)'
    BY <1>2 DEF ObjectsStay
  <1> QED BY <1>1, <1>2, <1>3

\* A request that goes on has stored what it says; the others rely on what stays.
GoesOnStored(r) == Own(r) /\ StoredCarried(request[r], r)'

LEMMA StoredGoesOn ==
  ASSUME Inductive, Inductive', Named, StoredInTime, StoresWell, UNCHANGED regime, ObjectsStay,
         \A a \in Asset : StoredFile(a)',
         UNCHANGED request \/ \E r \in Request : GoesOnStored(r)
  PROVE  StoredInTime'
  <1>1. ASSUME NEW s \in Request, request'[s] = request[s] PROVE StoredCarried(request[s], s)'
    <2>1. PICK q \in RequestRow : q = request[s] /\ q = request'[s]
      BY <1>1, FilesTyped
    <2>2. StoredCarried(q, s)
      BY <2>1 DEF StoredInTime
    <2>3. CASE q.at \in StoringSteps
      <3>1. q.asset \in Asset /\ (q.at \in StoringSteps \ {"insertAsset"} => Once(q.asset))
        BY <2>1, <2>3 DEF StoringSteps, Inductive, Sound, LinkSound, Named, RequestNames
      <3>2. StoredCarried(q, s)'
        BY <2>2, <3>1, StoredCarriedStays DEF StoringSteps
      <3> QED BY <2>1, <3>2 DEF StoredCarried, Settled, FinalKey, Kept, Cleared, Once, BeingErased
    <2>4. CASE q.at \notin StoringSteps
      BY <2>1, <2>4 DEF StoringSteps, StoredCarried
    <2> QED BY <2>3, <2>4
  <1>2. \A s \in Request : StoredCarried(request[s], s)'
    <2>1. ASSUME NEW r \in Request, GoesOnStored(r), NEW s \in Request
          PROVE  StoredCarried(request[s], s)'
      <3>1. s = r \/ request'[s] = request[s]
        BY <2>1, FilesTyped DEF GoesOnStored, Own
      <3> QED BY <1>1, <2>1, <3>1 DEF GoesOnStored
    <2> QED BY <1>1, <2>1
  <1> QED BY <1>2 DEF StoredInTime

-------------------------------------------------------------------------------
(* Steps that take no object away.                                         *)

\* No request that erases a file moves.
ErasingStays == \A a \in Asset : BeingErased(a) => BeingErased(a)'

LEMMA OwnErases ==
  ASSUME Inductive, \/ UNCHANGED request
                    \/ \E r \in Request : Own(r) /\ request[r].at # "writeDeleted"
  PROVE  ErasingStays
  <1>1. ASSUME NEW r \in Request, Own(r), request[r].at # "writeDeleted" PROVE ErasingStays
    BY <1>1, FilesTyped DEF Own, ErasingStays, BeingErased
  <1> QED BY <1>1 DEF ErasingStays, BeingErased

RowStays(a) ==
  \/ Cleared(a)'
  \/ asset[a] = NoAsset
  \/ /\ ~Cleared(a) /\ Once(a)' /\ asset'[a].bytes = asset[a].bytes
     /\ asset[a].gone => asset'[a].gone
  \/ asset'[a] = asset[a]

LEMMA ObjectsOnlyGrow ==
  ASSUME ErasingStays, \A a \in Asset : RowStays(a) /\ objects[a] \subseteq objects'[a]
  PROVE  ObjectsStay
  <1> SUFFICES ASSUME NEW a \in Asset
        PROVE  /\ \A k : Once(a) /\ Kept(a, k) => Kept(a, k)'
               /\ Once(a) => Once(a)' /\ (asset'[a].bytes = asset[a].bytes \/ Cleared(a)')
               /\ ~Once(a)' => objects[a] \subseteq objects'[a]
               /\ Settled(a) => Settled(a)'
    BY DEF ObjectsStay
  <1>1. asset[a] = NoAsset => ~Once(a) /\ ~Settled(a)
    BY NothingStands DEF NoAsset, Once, Settled, Cleared
  <1>2. Cleared(a)' => Once(a)' /\ Settled(a)' /\ \A k : Kept(a, k)'
    BY DEF Cleared, Once, Settled, Kept
  <1>3. objects[a] \subseteq objects'[a] /\ (BeingErased(a) => BeingErased(a)')
    BY DEF ErasingStays
  <1>4. CASE /\ ~Cleared(a) /\ Once(a)' /\ asset'[a].bytes = asset[a].bytes
             /\ asset[a].gone => asset'[a].gone
    BY <1>3, <1>4 DEF Kept, Settled
  <1>5. CASE asset'[a] = asset[a]
    BY <1>3, <1>5 DEF Kept, Settled, Once, Cleared
  <1> QED BY <1>1, <1>2, <1>3, <1>4, <1>5 DEF RowStays

\* The row says the same of its upload and of its objects, and the bucket holds the same.
SameStore ==
  /\ UNCHANGED objects
  /\ \A a \in Asset : /\ SameObjects(asset'[a], asset[a])
                      /\ asset'[a].upload = asset[a].upload /\ asset'[a].gone = asset[a].gone
                      /\ asset'[a].replaceable = asset[a].replaceable

LEMMA SameStoreStays ==
  ASSUME SameStore, ErasingStays
  PROVE  ObjectsStay
  BY DEF SameStore, SameObjects, ErasingStays, ObjectsStay, Kept, Settled, Once, Cleared

LEMMA SameStoreStored ==
  ASSUME Inductive, Inductive', Named, StoredInTime, StoresWell, UNCHANGED regime, SameStore,
         \/ UNCHANGED request
         \/ \E r \in Request : /\ Own(r) /\ request[r].at # "writeDeleted"
                               /\ request'[r].at \notin StoringSteps
  PROVE  StoredInTime'
  <1>1. ObjectsStay
    BY OwnErases, SameStoreStays
  <1>2. \A a \in Asset : StoredFile(a)'
    BY <1>1, FileStays DEF SameStore, SameObjects, StoredInTime, Ready
  <1>3. UNCHANGED request \/ \E r \in Request : GoesOnStored(r)
    <2>1. ASSUME NEW r \in Request, Own(r), request'[r].at \notin StoringSteps
          PROVE  GoesOnStored(r)
      BY <2>1 DEF GoesOnStored, StoredCarried, StoringSteps
    <2> QED BY <2>1
  <1> QED BY <1>1, <1>2, <1>3, StoredGoesOn

LEMMA RetentionStores ==
  ASSUME Inductive, RetentionNext
  PROVE  SameStore \/ \E r \in Request : EraseObjects(r) \/ WriteDeleted(r)
  <1>1. CASE SetLegalHold \/ SetInvestigationHold \/ MoveAssetsToArchive
    BY <1>1, SetLegalHoldDoes, SetInvestigationHoldDoes, ArchiveDoes
       DEF RetentionOnly, SameFile, SameHold, SameStore
  <1>2. ASSUME NEW r \in Request, MarkPendingDeletion(r) PROVE SameStore
    BY <1>2, MarkPendingDoes DEF RetentionOnly, SameFile, SameHold, SameStore
  <1>3. ASSUME NEW r \in Request,
               \/ CreateDeletionRequest(r) \/ InsertDeletion(r)
               \/ ApproveDeletionRequest(r) \/ WriteApproval(r)
               \/ RejectDeletionRequest(r) \/ CancelDeletionRequest(r) \/ WriteRefusal(r)
               \/ CompleteDeletionRequest(r) \/ SkipFlagged(r)
               \/ IssueCertificate(r) \/ WriteCompleted(r)
        PROVE  UNCHANGED <<asset, objects>>
    BY <1>3 DEF CreateDeletionRequest, InsertDeletion, ApproveDeletionRequest, WriteApproval,
                RejectDeletionRequest, CancelDeletionRequest, WriteRefusal,
                CompleteDeletionRequest, SkipFlagged, IssueCertificate, WriteCompleted, rows
  <1>4. UNCHANGED <<asset, objects>> => SameStore
    BY DEF SameStore, SameObjects
  <1> QED BY <1>1, <1>2, <1>3, <1>4 DEF RetentionNext, FlagAsset, RecoveryElapses

LEMMA HoldStores ==
  ASSUME Inductive, HoldNext
  PROVE  SameStore
  <1>1. ASSUME NEW x, NEW on, HoldBecomes(x, on) PROVE SameStore
    BY <1>1 DEF HoldBecomes, SameStore
  <1>2. ASSUME NEW r \in Request,
               \/ LinkEvidence(r) \/ InsertLink(r) \/ ReadCaseHold(r)
               \/ RequestHoldRelease(r) \/ RecordReleaseRequest(r)
               \/ ReleaseInvestigationHold(r) \/ WriteRelease(r) \/ ListLinks(r)
               \/ CheckOtherCases(r)
        PROVE  UNCHANGED asset
    BY <1>2 DEF LinkEvidence, InsertLink, ReadCaseHold, RequestHoldRelease, RecordReleaseRequest,
                ReleaseInvestigationHold, WriteRelease, ListLinks, CheckOtherCases, rows
  <1>3. UNCHANGED <<asset, objects>> => SameStore
    BY DEF SameStore, SameObjects
  <1> QED BY <1>1, <1>2, <1>3, HoldLeaves, ApplyHoldDoes, ClearHoldDoes DEF HoldNext, MarkEnteredInError

-------------------------------------------------------------------------------
(* What is stored, and what its request says of it.                        *)

LEMMA UploadStored ==
  ASSUME Inductive, Inductive', Named, StoredInTime, StoresWell, UNCHANGED regime,
         NEW r \in Request, UploadMediaAsset(r) \/ UploadEvidence(r)
  PROVE  StoredInTime'
  <1>1. /\ Own(r) /\ request[r].at = "idle" /\ request'[r].at = "insertAsset"
        /\ request'[r].asset \in Asset /\ UNCHANGED asset
        /\ objects' = [objects EXCEPT ![request'[r].asset] = @ \cup {r}]
    BY UploadMediaAssetDoes, UploadEvidenceDoes, IdleIsIdle DEF Begins
  <1>2. /\ \A a \in Asset : objects[a] \subseteq objects'[a]
        /\ r \in objects'[request'[r].asset]
    BY <1>1 DEF Inductive, Typed, RowsTypeOK
  <1>3. ObjectsStay
    BY <1>1, <1>2, OwnErases, ObjectsOnlyGrow DEF RowStays
  <1>4. \A a \in Asset : StoredFile(a)'
    BY <1>1, <1>3, FileStays DEF StoredInTime, Ready
  <1>5. GoesOnStored(r)
    BY <1>1, <1>2 DEF GoesOnStored, StoredCarried
  <1> QED BY <1>3, <1>4, <1>5, StoredGoesOn

LEMMA InsertAssetStored ==
  ASSUME Inductive, Inductive', Named, StoredInTime, StoresWell, UNCHANGED regime,
         NEW r \in Request, InsertAsset(r)
  PROVE  StoredInTime'
  <1> DEFINE q == request[r]
  <1>1. /\ q.at = "insertAsset" /\ Own(r) /\ request'[r].at \in {"idle", "insertLink"}
        /\ UNCHANGED objects
        /\ \A a \in Asset : asset'[a] = IF a = q.asset /\ asset[a] = NoAsset
                                        THEN NewAsset("READY", q.yes, r) ELSE asset[a]
    BY InsertAssetDoes, IdleIsIdle DEF Goes
  <1>2. \A a \in Asset : RowStays(a)
    BY <1>1 DEF RowStays
  <1>3. ObjectsStay
    BY <1>1, <1>2, OwnErases, ObjectsOnlyGrow
  <1>4. ASSUME NEW a \in Asset PROVE StoredFile(a)'
    <2>1. CASE asset'[a] = asset[a]
      BY <1>3, <2>1, FileStays DEF StoredInTime, Ready
    <2>2. CASE a = q.asset /\ asset[a] = NoAsset
      <3>1. r \in objects[a]
        BY <1>1, <2>2 DEF StoredInTime, StoredCarried, Once, NoAsset
      <3>2. asset'[a].key = r /\ r # "upload"
        BY <1>1, <2>2, NewFields, UploadIsNoRequest
      <3> QED BY <1>1, <3>1, <3>2 DEF StoredFile, Kept
    <2> QED BY <1>1, <2>1, <2>2
  <1>5. GoesOnStored(r)
    BY <1>1 DEF GoesOnStored, StoredCarried
  <1> QED BY <1>3, <1>4, <1>5, StoredGoesOn

LEMMA WriteUploadStored ==
  ASSUME Inductive, Inductive', Named, StoredInTime, StoresWell, UNCHANGED regime,
         NEW r \in Request, NEW at \in {"markProcessing", "markFailed"},
         NEW status \in {"PROCESSING", "FAILED"}, NEW next \in {"processObject", "end"},
         WriteUpload(r, at, status, next)
  PROVE  StoredInTime'
  <1> DEFINE q == request[r]
  <1>1. /\ q.at = at /\ Own(r) /\ request'[r].at \notin StoringSteps /\ UNCHANGED objects
        /\ \A a \in Asset : \/ asset'[a] = asset[a]
                            \/ /\ Exists(a) /\ asset'[a].upload = status
                               /\ asset'[a].gone = asset[a].gone
                               /\ asset'[a].bytes = asset[a].bytes
    BY WriteUploadDoes, IdleIsIdle DEF Goes, SameObjects, StoringSteps
  <1>2. \A a \in Asset : RowStays(a)
    BY <1>1 DEF RowStays, Cleared, Exists, Once
  <1>3. ObjectsStay
    BY <1>1, <1>2, OwnErases, ObjectsOnlyGrow
  <1>4. \A a \in Asset : StoredFile(a)'
    BY <1>1, <1>3, FileStays DEF StoredInTime, Ready
  <1>5. GoesOnStored(r)
    BY <1>1 DEF GoesOnStored, StoredCarried, StoringSteps
  <1> QED BY <1>3, <1>4, <1>5, StoredGoesOn

\* The steps of processing store the file before anything of it is taken away.
LEMMA ProcessObjectStored ==
  ASSUME Inductive, Inductive', Named, StoredInTime, StoresWell, UNCHANGED regime,
         NEW r \in Request, ProcessObject(r)
  PROVE  StoredInTime'
  <1>0. PICK x : x = request[r].asset
    OBVIOUS
  <1>1. /\ request[r].at \in Processing /\ Own(r) /\ UNCHANGED asset
        /\ request'[r].asset = x /\ x \in Asset /\ Once(x)
    BY <1>0, ProcessObjectDoes DEF Goes, Same, Named, RequestNames, Processing
  <1>2. ErasingStays
    BY <1>1, OwnErases DEF Processing
  <1>3. StoredCarried(request[r], r)
    BY DEF StoredInTime
  <1>4. ASSUME NEW at, Goes(r, TRUE, at), ObjectsStay,
               at = "storeFinal" => Settled(x) \/ asset[x].bytes # "ASIS",
               at = "dropUpload" => Settled(x) \/ asset[x].bytes = "COMPRESSED",
               at = "dropUpload" => Kept(x, r)',
               at = "markReady" => Kept(x, FinalKey(x, r))',
               at \in {"storeFinal", "dropUpload", "markReady", "markFailed"}
        PROVE  StoredInTime'
    <2>1. \A a \in Asset : StoredFile(a)'
      BY <1>1, <1>4, FileStays DEF StoredInTime, Ready
    <2>2. request'[r].at = at /\ (Settled(x) => Settled(x)')
      BY <1>1, <1>4 DEF Goes, ObjectsStay
    <2>3. GoesOnStored(r)
      BY <1>1, <1>4, <2>2 DEF GoesOnStored, StoredCarried
    <2> QED BY <1>4, <2>1, <2>3, StoredGoesOn
  <1>5. UNCHANGED objects => ObjectsStay
    BY <1>1, <1>2, ObjectsOnlyGrow DEF RowStays
  <1>6. CASE ReadObject(r)
    <2>1. UNCHANGED objects /\ ObjectsStay
      BY <1>5, <1>6, ReadObjectDoes
    <2>2. "upload" \in objects[x] /\ asset[x].bytes = "ASIS" => Kept(x, FinalKey(x, r))'
      BY <1>1, <2>1 DEF Kept, FinalKey
    <2> QED BY <1>0, <1>4, <1>6, <2>1, <2>2, ReadObjectDoes
  <1>7. CASE StoreFinal(r)
    <2>1. /\ \A a \in Asset : objects'[a] = IF a = x THEN objects[a] \cup {r} ELSE objects[a]
          /\ \/ asset[x].bytes = "COMPRESSED" /\ Goes(r, TRUE, "dropUpload")
             \/ asset[x].bytes # "COMPRESSED" /\ Goes(r, TRUE, "markReady")
          /\ request[r].at = "storeFinal"
      BY <1>0, <1>7, StoreFinalDoes DEF StoresWell
    <2>2. ObjectsStay
      BY <1>1, <1>2, <2>1, ObjectsOnlyGrow DEF RowStays
    <2>3. Kept(x, r)' /\ (Settled(x) => \A k : Kept(x, k)')
      BY <1>1, <2>1 DEF Kept, Settled, Cleared
    <2>4. Settled(x) \/ asset[x].bytes # "ASIS"
      BY <1>0, <1>3, <2>1 DEF StoredCarried
    <2>5. PICK k : k = FinalKey(x, r) /\ FinalKey(x, r)' = k
      BY <1>1 DEF FinalKey
    <2>6. Kept(x, FinalKey(x, r))'
      BY <2>3, <2>4, <2>5 DEF FinalKey
    <2> QED BY <1>4, <2>1, <2>2, <2>3, <2>6
  <1>8. CASE DropUpload(r)
    <2>1. /\ \A a \in Asset : objects'[a] = IF a = x THEN objects[a] \ {"upload"} ELSE objects[a]
          /\ Goes(r, TRUE, "markReady") /\ request[r].at = "dropUpload"
      BY <1>0, <1>8, DropUploadDoes DEF StoresWell
    <2>2. (Settled(x) \/ asset[x].bytes = "COMPRESSED") /\ Kept(x, r)
      BY <1>0, <1>3, <2>1 DEF StoredCarried
    <2>3. ObjectsStay
      BY <1>1, <1>2, <2>1, <2>2 DEF ErasingStays, ObjectsStay, Kept, Settled, Once, Cleared
    <2>4. Kept(x, r)' /\ (Settled(x) => \A k : Kept(x, k)')
      BY <1>1, <2>2, <2>3, UploadIsNoRequest DEF ObjectsStay, Kept, Settled, Cleared
    <2>5. PICK k : k = FinalKey(x, r) /\ FinalKey(x, r)' = k
      BY <1>1 DEF FinalKey
    <2>6. Kept(x, FinalKey(x, r))'
      BY <2>2, <2>4, <2>5 DEF FinalKey
    <2> QED BY <1>4, <2>1, <2>3, <2>6
  <1>9. ~FailAfterStore(r)
    BY FailAfterStoreDoes DEF StoresWell
  <1> QED BY <1>6, <1>7, <1>8, <1>9 DEF ProcessObject

LEMMA MarkReadyStored ==
  ASSUME Inductive, Inductive', Named, StoredInTime, StoresWell, UNCHANGED regime,
         NEW r \in Request, MarkReady(r)
  PROVE  StoredInTime'
  <1>0. PICK x : x = request[r].asset
    OBVIOUS
  <1>1. /\ request[r].at = "markReady" /\ Own(r) /\ request'[r].at = "idle" /\ UNCHANGED objects
        /\ x \in Asset /\ Once(x) /\ Kept(x, FinalKey(x, r))
    BY <1>0, MarkReadyDoes, IdleIsIdle DEF Named, RequestNames, StoredInTime, StoredCarried
  <1>2. \A a \in Asset : \/ asset'[a] = asset[a]
                         \/ /\ a = x /\ Exists(x) /\ asset'[x].upload = "READY"
                            /\ asset'[x].gone = asset[x].gone
                            /\ asset'[x].bytes = asset[x].bytes
                            /\ asset'[x].key = FinalKey(x, r)
    BY <1>0, MarkReadyDoes
  <1>3. \A a \in Asset : RowStays(a)
    BY <1>2 DEF RowStays, Cleared, Exists, Once
  <1>4. ObjectsStay
    BY <1>1, <1>3, OwnErases, ObjectsOnlyGrow
  <1>5. ASSUME NEW a \in Asset PROVE StoredFile(a)'
    <2>1. CASE asset'[a] = asset[a]
      BY <1>4, <2>1, FileStays DEF StoredInTime, Ready
    <2>2. CASE /\ a = x /\ asset'[x].bytes = asset[x].bytes
               /\ asset'[x].key = FinalKey(x, r)
      <3>1. FinalKey(x, r) = "upload" => asset[x].bytes = "ASIS"
        BY UploadIsNoRequest DEF FinalKey
      <3>2. PICK k : k = FinalKey(x, r)
        OBVIOUS
      <3>3. Kept(x, k)'
        BY <1>1, <1>4, <3>1, <3>2 DEF ObjectsStay
      <3> QED BY <2>2, <3>1, <3>2, <3>3 DEF StoredFile
    <2> QED BY <1>2, <2>1, <2>2
  <1>6. GoesOnStored(r)
    BY <1>1 DEF GoesOnStored, StoredCarried
  <1> QED BY <1>4, <1>5, <1>6, StoredGoesOn

\* Clearing away runs alone, and over files that never became READY.
LEMMA DeleteStaleObjectStored ==
  ASSUME Inductive, Alone, Named, ReadyInTime, StoredInTime, StoresWell, UNCHANGED regime,
         NEW r \in Request, DeleteStaleObject(r)
  PROVE  StoredInTime'
  <1>0. PICK x : x = request'[r].asset
    OBVIOUS
  <1>1. /\ request[r].at = "deleteStale" /\ Own(r) /\ request'[r].at = "deleteRow"
        /\ x \in request[r].todo /\ UNCHANGED asset
        /\ objects' \in {objects, [objects EXCEPT ![x] = @ \ {asset[x].key}]}
    BY <1>0, DeleteStaleObjectDoes
  <1>2. regime.serial
    BY <1>1 DEF Named, Called, StoresWell
  <1>3. x \in Asset /\ ~Ready(x)
    BY <1>1, <1>2, FilesTyped DEF ReadyInTime, InCustody, ReadyCarried, NotYet, RequestRow
  <1>4. \A a \in Asset \ {x} : objects'[a] = objects[a]
    BY <1>1 DEF Inductive, Typed, RowsTypeOK
  <1>5. ErasingStays
    BY <1>1, OwnErases
  <1>6. ASSUME NEW a \in Asset PROVE StoredFile(a)'
    <2>1. CASE a = x
      BY <1>1, <1>3, <2>1 DEF StoredFile, Ready
    <2>2. CASE a # x
      BY <1>1, <1>4, <1>5, <2>2 DEF StoredInTime, StoredFile, Ready, Kept, Cleared, ErasingStays
    <2> QED BY <2>1, <2>2
  <1>7. Solo(r)
    BY <1>1, GoesSolo
  <1>8. \A s \in Request : request'[s].at \notin StoringSteps
    BY <1>1, <1>2, <1>7, IdleIsIdle DEF Solo, StoringSteps
  <1>9. \A s \in Request : StoredCarried(request[s], s)'
    BY <1>8 DEF StoredCarried, StoringSteps
  <1> QED BY <1>6, <1>9 DEF StoredInTime

LEMMA DeleteStaleRowStored ==
  ASSUME Inductive, Inductive', Named, StoredInTime, StoresWell, UNCHANGED regime,
         NEW r \in Request, DeleteStaleRow(r)
  PROVE  StoredInTime'
  <1>1. /\ request[r].at = "deleteRow" /\ Own(r) /\ request'[r].at \notin StoringSteps
        /\ UNCHANGED objects
        /\ \A a \in Asset : asset'[a] = asset[a] \/ asset'[a] = [NoAsset EXCEPT !.upload = "CLEARED"]
    BY DeleteStaleRowDoes, IdleIsIdle DEF Goes, StoringSteps
  <1>2. [NoAsset EXCEPT !.upload = "CLEARED"].upload = "CLEARED"
    BY DEF NoAsset
  <1>3. \A a \in Asset : RowStays(a)
    BY <1>1, <1>2 DEF RowStays, Cleared
  <1>4. ObjectsStay
    BY <1>1, <1>3, OwnErases, ObjectsOnlyGrow
  <1>5. \A a \in Asset : StoredFile(a)'
    BY <1>1, <1>2, <1>4, FileStays DEF StoredInTime, Ready
  <1>6. GoesOnStored(r)
    BY <1>1 DEF GoesOnStored, StoredCarried, StoringSteps
  <1> QED BY <1>4, <1>5, <1>6, StoredGoesOn

LEMMA MarkGoneStored ==
  ASSUME Inductive, Inductive', Named, StoredInTime, StoresWell, UNCHANGED regime,
         NEW r \in Request, MarkGone(r)
  PROVE  StoredInTime'
  <1>0. PICK x : x = request[r].asset
    OBVIOUS
  <1>1. /\ request[r].at = "markGone" /\ Own(r) /\ x \in Asset
        /\ \/ request'[r].at = "idle"
           \/ request'[r].at = "removeObjects" /\ request'[r].asset = x /\ asset'[x].gone
        /\ UNCHANGED objects
    BY <1>0, MarkGoneDoes, IdleIsIdle DEF Goes, Same, Named, RequestNames, GoneFile
  <1>2. \A a \in Asset : \/ asset'[a] = asset[a]
                         \/ Exists(a) /\ GoneFile(asset'[a], asset[a])
    BY MarkGoneDoes
  <1>3. \A a \in Asset : RowStays(a)
    BY <1>2 DEF RowStays, GoneFile, SameObjects, Cleared, Once, Exists
  <1>4. ObjectsStay
    BY <1>1, <1>3, OwnErases, ObjectsOnlyGrow
  <1>5. \A a \in Asset : StoredFile(a)'
    BY <1>2, <1>4, FileStays DEF StoredInTime, Ready, GoneFile, SameObjects
  <1>6. GoesOnStored(r)
    BY <1>1 DEF GoesOnStored, StoredCarried
  <1> QED BY <1>4, <1>5, <1>6, StoredGoesOn

\* What its objects are removed of, or erased of, is gone or about to be.
LEMMA ObjectsTaken ==
  ASSUME Inductive, NEW x, Once(x), UNCHANGED asset, ErasingStays,
         \A a \in Asset \ {x} : objects'[a] = objects[a],
         Settled(x) \/ BeingErased(x)'
  PROVE  ObjectsStay
  BY DEF ErasingStays, ObjectsStay, Kept, Settled, Once, Cleared

LEMMA RemoveObjectsStored ==
  ASSUME Inductive, Inductive', Named, StoredInTime, StoresWell, UNCHANGED regime,
         NEW r \in Request, RemoveObjects(r)
  PROVE  StoredInTime'
  <1>0. PICK x : x = request[r].asset
    OBVIOUS
  <1>1. /\ request[r].at = "removeObjects" /\ Own(r) /\ request'[r].at = "idle" /\ UNCHANGED asset
        /\ objects' \in {objects, [objects EXCEPT ![x] = @ \ KeysOf(x)]}
    BY <1>0, RemoveObjectsDoes, IdleIsIdle
  <1>2. Once(x) /\ Settled(x)
    BY <1>0, <1>1 DEF Named, RequestNames, StoredInTime, StoredCarried, Settled
  <1>3. \A a \in Asset \ {x} : objects'[a] = objects[a]
    BY <1>1 DEF Inductive, Typed, RowsTypeOK
  <1>4. ObjectsStay
    BY <1>1, <1>2, <1>3, OwnErases, ObjectsTaken
  <1>5. \A a \in Asset : StoredFile(a)'
    BY <1>1, <1>4, FileStays DEF StoredInTime, Ready
  <1>6. GoesOnStored(r)
    BY <1>1 DEF GoesOnStored, StoredCarried
  <1> QED BY <1>4, <1>5, <1>6, StoredGoesOn

LEMMA EraseObjectsStored ==
  ASSUME Inductive, Inductive', Named, StoredInTime, StoresWell, UNCHANGED regime,
         NEW r \in Request, EraseObjects(r)
  PROVE  StoredInTime'
  <1>0. PICK x : x = request'[r].asset
    OBVIOUS
  <1>1. /\ request[r].at = "eraseNext" /\ Own(r) /\ request'[r].at = "writeDeleted"
        /\ x \in request[r].todo /\ UNCHANGED asset
        /\ objects' \in {objects, [objects EXCEPT ![x] = @ \ KeysOf(x)]}
    BY <1>0, EraseObjectsDoes DEF Stored
  <1>2. Once(x) /\ BeingErased(x)'
    BY <1>0, <1>1 DEF Named, RequestNames, BeingErased
  <1>3. \A a \in Asset \ {x} : objects'[a] = objects[a]
    BY <1>1 DEF Inductive, Typed, RowsTypeOK
  <1>4. ObjectsStay
    BY <1>1, <1>2, <1>3, OwnErases, ObjectsTaken
  <1>5. \A a \in Asset : StoredFile(a)'
    BY <1>1, <1>4, FileStays DEF StoredInTime, Ready
  <1>6. GoesOnStored(r)
    BY <1>1 DEF GoesOnStored, StoredCarried
  <1> QED BY <1>4, <1>5, <1>6, StoredGoesOn

LEMMA WriteDeletedStored ==
  ASSUME Inductive, Inductive', Named, StoredInTime, StoresWell, UNCHANGED regime,
         NEW r \in Request, WriteDeleted(r)
  PROVE  StoredInTime'
  <1>0. PICK x : x = request[r].asset
    OBVIOUS
  <1>1. /\ request[r].at = "writeDeleted" /\ Own(r) /\ request'[r].at \in {"idle", "eraseNext"}
        /\ x \in Asset /\ UNCHANGED objects
    BY <1>0, WriteDeletedDoes, IdleIsIdle
  <1>2. \A a \in Asset : \/ asset'[a] = asset[a] /\ (a = x => ~Exists(a))
                         \/ Exists(a) /\ GoneFile(asset'[a], asset[a])
    BY <1>0, WriteDeletedDoes
  <1>3. Once(x)
    <2>1. CoveredOrCleared(x, request[r].row) /\ request[r].row \in Deletion
      BY <1>0, <1>1, InFlightSound DEF Sound, DeletionSound
    <2> QED BY <2>1 DEF CoveredOrCleared, Cleared, Once, Named, NamesSound
  <1>4. Settled(x)'
    BY <1>1, <1>2, <1>3 DEF Settled, Exists, Once, Cleared, GoneFile
  <1>5. \A a \in Asset \ {x} : BeingErased(a) => BeingErased(a)'
    BY <1>0, <1>1, FilesTyped DEF Own, BeingErased
  <1>6. ObjectsStay
    BY <1>1, <1>2, <1>4, <1>5
       DEF ObjectsStay, Kept, Settled, Once, Cleared, GoneFile, SameObjects, Exists
  <1>7. \A a \in Asset : StoredFile(a)'
    BY <1>2, <1>6, FileStays DEF StoredInTime, Ready, GoneFile, SameObjects
  <1>8. GoesOnStored(r)
    BY <1>1 DEF GoesOnStored, StoredCarried
  <1> QED BY <1>6, <1>7, <1>8, StoredGoesOn

\* The statements about deletions but the one that follows an erasure.
RestSteps == RetentionSteps \ {"writeDeleted"}

\* The other statements about deletions start no erasure and end none.
LEMMA RetentionRests ==
  ASSUME Inductive, Alone, RetentionNext, ~\E r \in Request : EraseObjects(r) \/ WriteDeleted(r)
  PROVE  \/ RecoveryElapses
         \/ UNCHANGED request /\ Calls
         \/ \E r \in Request : Moves(r, RestSteps, RestSteps)
  <1>1. CASE SetLegalHold \/ SetInvestigationHold \/ FlagAsset \/ MoveAssetsToArchive
    BY <1>1 DEF SetLegalHold, SetInvestigationHold, FlagAsset, MoveAssetsToArchive,
                Answer, Calls, May
  <1>2. ASSUME NEW r \in Request,
               \/ CreateDeletionRequest(r) \/ ApproveDeletionRequest(r)
               \/ RejectDeletionRequest(r) \/ CancelDeletionRequest(r)
               \/ CompleteDeletionRequest(r)
        PROVE  Moves(r, RestSteps, RestSteps)
    <2>1. \E op : \E at \in RestSteps : Begins(r, op, at)
      BY <1>2, CreateDeletionDoes, ApproveDoes, RefuseDoes, CompleteDoes DEF RestSteps, RetentionSteps
    <2> QED BY <2>1, BeginsMoves DEF RestSteps, RetentionSteps
  <1>3. ASSUME NEW r \in Request,
               \/ InsertDeletion(r) \/ WriteApproval(r) \/ MarkPendingDeletion(r)
               \/ WriteRefusal(r) \/ SkipFlagged(r) \/ IssueCertificate(r) \/ WriteCompleted(r)
        PROVE  Moves(r, RestSteps, RestSteps)
    <2>1. /\ request[r].at \in RestSteps \ {"idle"} /\ Own(r)
          /\ request'[r] = Idle \/ request'[r].at \in RestSteps
      BY <1>3, InsertDeletionDoes, WriteApprovalDoes, MarkPendingDoes, WriteRefusalDoes,
         SkipFlaggedDoes, IssueCertificateDoes, WriteCompletedDoes
         DEF RestSteps, RetentionSteps, Goes
    <2> QED BY <2>1, EndsMoves DEF RestSteps, RetentionSteps
  <1> QED BY <1>1, <1>2, <1>3 DEF RetentionNext

LEMMA StoredKept ==
  ASSUME Inductive, Inductive', Alone, Named, ReadyInTime, StoredInTime, [Work]_seen
  PROVE  StoredInTime'
  <1>1. UNCHANGED regime
    BY DEF Work, seen
  <1>2. CASE ~StoresWell
    BY <1>1, <1>2 DEF StoredInTime, StoresWell
  <1>3. ASSUME StoresWell, MediaWork PROVE StoredInTime'
    <2>1. CASE InitiatePresignedUpload \/ ObjectArrives
      <3>1. UNCHANGED request
        BY <2>1 DEF InitiatePresignedUpload, ObjectArrives, Answer
      <3>2. \A a \in Asset : /\ objects[a] \subseteq objects'[a] /\ RowStays(a)
                             /\ asset'[a] = asset[a] \/ asset'[a].upload = "PENDING"
        <4>1. CASE InitiatePresignedUpload
          BY <4>1, InitiateDoes DEF RowStays
        <4>2. CASE ObjectArrives
          BY <4>2 DEF ObjectArrives, RowStays, Inductive, Typed, RowsTypeOK
        <4> QED BY <2>1, <4>1, <4>2
      <3>3. ObjectsStay
        BY <3>1, <3>2, OwnErases, ObjectsOnlyGrow
      <3>4. \A a \in Asset : StoredFile(a)'
        BY <1>3, <3>2, <3>3, FileStays DEF StoredInTime, Ready
      <3> QED BY <1>1, <1>3, <3>1, <3>3, <3>4, StoredGoesOn
    <2>2. ASSUME NEW r \in Request, ConfirmUpload(r) \/ CleanupFailedUploads(r)
          PROVE  StoredInTime'
      <3>1. /\ Own(r) /\ request[r].at # "writeDeleted" /\ request'[r].at \notin StoringSteps
            /\ SameStore
        BY <2>2, ConfirmUploadDoes, CleanupDoes, IdleIsIdle
           DEF Begins, StoringSteps, SameStore, SameObjects, rows
      <3> QED BY <1>1, <1>3, <3>1, SameStoreStored
    <2>3. ASSUME NEW r \in Request, DeleteReplaceable(r) PROVE StoredInTime'
      <3>1. /\ Own(r) /\ request[r].at = "idle" /\ UNCHANGED <<asset, objects>>
            /\ \/ request'[r].at = "markGone"
               \/ request'[r].at = "removeObjects" /\ asset[request'[r].asset].gone
        BY <2>3, DeleteReplaceableDoes, IdleIsIdle DEF Begins, rows
      <3>2. SameStore
        BY <3>1 DEF SameStore, SameObjects
      <3>3. ObjectsStay
        BY <3>1, <3>2, OwnErases, SameStoreStays
      <3>4. \A a \in Asset : StoredFile(a)'
        BY <1>3, <3>1, <3>3, FileStays DEF StoredInTime, Ready
      <3>5. GoesOnStored(r)
        BY <3>1 DEF GoesOnStored, StoredCarried
      <3> QED BY <1>1, <1>3, <3>3, <3>4, <3>5, StoredGoesOn
    <2> QED BY <1>1, <1>3, <2>1, <2>2, <2>3, UploadStored, InsertAssetStored, WriteUploadStored,
               ProcessObjectStored, MarkReadyStored, DeleteStaleObjectStored,
               DeleteStaleRowStored, MarkGoneStored, RemoveObjectsStored
            DEF MediaWork, MarkProcessing, MarkFailed
  <1>4. ASSUME StoresWell, RetentionNext PROVE StoredInTime'
    <2>1. CASE SameStore /\ ~\E r \in Request : EraseObjects(r) \/ WriteDeleted(r)
      <3>1. UNCHANGED request \/ \E r \in Request : /\ Own(r) /\ request[r].at # "writeDeleted"
                                                    /\ request'[r].at \notin StoringSteps
        BY <1>4, <2>1, RetentionRests, RecoveryElapsesDoes
           DEF Moves, RestSteps, RetentionSteps, StoringSteps
      <3> QED BY <1>1, <1>4, <2>1, <3>1, SameStoreStored
    <2> QED BY <1>1, <1>4, <2>1, RetentionStores, EraseObjectsStored, WriteDeletedStored
  <1>5. ASSUME StoresWell, HoldNext \/ CaseNext PROVE StoredInTime'
    <2>1. SameStore
      BY <1>5, HoldStores, CasesLeaveFiles DEF SameStore, SameObjects
    <2>2. UNCHANGED request \/ \E r \in Request : /\ Own(r) /\ request[r].at # "writeDeleted"
                                                  /\ request'[r].at \notin StoringSteps
      BY <1>5, HoldMoves, CaseMoves DEF Moves, HoldSteps, CaseSteps, StoringSteps
    <2> QED BY <1>1, <1>5, <2>1, <2>2, SameStoreStored
  <1>6. CASE UNCHANGED seen /\ StoresWell
    <2>1. SameStore /\ UNCHANGED request
      BY <1>6 DEF SameStore, SameObjects, seen, tables, rows
    <2> QED BY <1>1, <1>6, <2>1, SameStoreStored
  <1> QED BY <1>2, <1>3, <1>4, <1>5, <1>6 DEF Work, Crash, StoresWell

LEMMA InitStored == Init => StoredInTime
  BY NothingStands, IdleIsIdle, OtherwiseStored
     DEF Init, Empty, StoredInTime, StoredFile, Ready, StoringSteps

LEMMA AlwaysStored == Spec => []StoredInTime
  <1>1. Inductive /\ Inductive' /\ Alone /\ Named /\ ReadyInTime /\ StoredInTime /\ [Next]_vars
        => StoredInTime'
    BY StoredKept, Works
  <1> QED BY <1>1, InitStored, AlwaysInductive, AlwaysNamed, AlwaysAlone, AlwaysReady, PTL DEF Spec

-------------------------------------------------------------------------------
(* One request at a time, nothing is left behind in the bucket.            *)

\* What ErasedFile says of a file that no request is storing.
Tidy(a) ==
  /\ ~Once(a) => objects[a] = {}
  /\ Ready(a) => objects[a] \subseteq KeysOf(a) \cup Late(a)
  /\ Exists(a) /\ ~Ready(a) => objects[a] \subseteq {"upload"}
  /\ asset[a].gone /\ ~asset[a].replaceable => Ready(a) /\ objects[a] \subseteq Late(a)

\* The statements that rely on what is, or is not, in the bucket, and those of an upload
\* or a confirmation that do not.
StoredOrErased == {"insertAsset", "storeFinal", "dropUpload", "markReady", "writeDeleted"}
StillSteps == MediaSteps \ StoredOrErased

LEMMA TidyIsErased ==
  ASSUME NEW a \in Asset
  PROVE  (Tidy(a) => ErasedFile(a)) /\ (Tidy(a)' => ErasedFile(a)')
  BY DEF Tidy, ErasedFile, Late

LEMMA MovedTidy ==
  ASSUME Reviewed, ErasedInTime, NEW r \in Request, Solo(r),
         request[r].at \notin {"insertAsset", "dropUpload", "markReady"}
  PROVE  \A a \in Asset : Tidy(a)
  <1>1. \A s \in Request : request[s].at \notin {"insertAsset", "dropUpload", "markReady"}
    BY IdleIsIdle DEF Solo, Reviewed
  <1> QED BY <1>1 DEF ErasedInTime, ErasedFile, Tidy, Reviewed

LEMMA RestTidy ==
  ASSUME Reviewed, ErasedInTime,
         \A s \in Request : request[s].at \notin {"insertAsset", "dropUpload", "markReady"}
  PROVE  \A a \in Asset : Tidy(a)
  BY DEF ErasedInTime, ErasedFile, Tidy, Reviewed

LEMMA ErasedGoesOn ==
  ASSUME Reviewed, UNCHANGED <<regime, late>>, NEW r \in Request, Solo(r),
         \A a \in Asset : ErasedFile(a)', ErasedCarried(request[r], r)'
  PROVE  ErasedInTime'
  <1>1. ASSUME NEW s \in Request, s # r PROVE ErasedCarried(request[s], s)'
    <2>1. request'[s].at = "idle"
      BY <1>1, IdleIsIdle DEF Solo, Reviewed
    <2> QED BY <2>1 DEF ErasedCarried
  <1> QED BY <1>1 DEF ErasedInTime

LEMMA TidyGoesOn ==
  ASSUME Reviewed, UNCHANGED <<regime, late>>, NEW r \in Request, Solo(r),
         \A a \in Asset : Tidy(a)',
         request'[r].at \notin StoredOrErased
  PROVE  ErasedInTime'
  <1>1. ErasedCarried(request[r], r)'
    BY DEF ErasedCarried, StoredOrErased
  <1> QED BY <1>1, TidyIsErased, ErasedGoesOn

\* The row stays, and its objects stay or shrink.
LEMMA TidyShrinks ==
  ASSUME UNCHANGED late, NEW a \in Asset, Tidy(a), objects'[a] \subseteq objects[a],
         SameObjects(asset'[a], asset[a]), asset'[a].upload = asset[a].upload,
         asset'[a].replaceable = asset[a].replaceable,
         asset'[a].gone => asset[a].gone \/ asset[a].replaceable \/ (Ready(a) /\ objects'[a] \subseteq Late(a))
  PROVE  Tidy(a)'
  BY DEF Tidy, Late, SameObjects, KeysOf, Once, Exists, Ready

\* Where the bucket and the rows stay, and nobody stores or erases.
LEMMA ErasedElsewhere ==
  ASSUME Reviewed, ErasedInTime, UNCHANGED <<regime, late>>, SameStore,
         \A s \in Request : /\ request[s].at \notin {"insertAsset", "dropUpload", "markReady"}
                            /\ request'[s].at \notin StoredOrErased
  PROVE  ErasedInTime'
  <1>1. \A a \in Asset : Tidy(a)
    BY RestTidy
  <1>2. \A a \in Asset : Tidy(a)'
    BY <1>1, TidyShrinks DEF SameStore
  <1>3. \A s \in Request : ErasedCarried(request[s], s)'
    BY DEF ErasedCarried, StoredOrErased
  <1> QED BY <1>2, <1>3, TidyIsErased DEF ErasedInTime

LEMMA ErasedLeft ==
  ASSUME ErasedInTime, UNCHANGED <<regime, asset, objects, late, request>>
  PROVE  ErasedInTime'
  BY DEF ErasedInTime, ErasedFile, Late, ErasedCarried, FinalKeys, FinalKey, KeysOf, Ready, Once, Exists

LEMMA UploadErased ==
  ASSUME Inductive, Alone, ErasedInTime, Reviewed, UNCHANGED <<regime, late>>,
         NEW r \in Request, UploadMediaAsset(r) \/ UploadEvidence(r)
  PROVE  ErasedInTime'
  <1>0. PICK x : x = request'[r].asset
    OBVIOUS
  <1>1. /\ \E op, at : Begins(r, op, at)
        /\ request[r].at = "idle" /\ request'[r].at = "insertAsset"
        /\ x \in Asset /\ asset[x] = NoAsset /\ UNCHANGED asset
        /\ objects' = [objects EXCEPT ![x] = @ \cup {r}]
    BY <1>0, UploadMediaAssetDoes, UploadEvidenceDoes, IdleIsIdle DEF Begins
  <1>2. Solo(r)
    BY <1>1, BeginsSolo
  <1>3. \A a \in Asset : Tidy(a)
    BY <1>1, <1>2, MovedTidy
  <1>4. \A a \in Asset : objects'[a] = IF a = x THEN objects[x] \cup {r} ELSE objects[a]
    BY <1>1 DEF Inductive, Typed, RowsTypeOK
  <1>5. ~Once(x) /\ ~Exists(x) /\ ~Ready(x) /\ ~asset[x].gone
    BY <1>1 DEF NoAsset, Once, Exists, Ready
  <1>6. ASSUME NEW a \in Asset PROVE ErasedFile(a)'
    <2>1. CASE a = x
      <3>1. objects'[x] = {r}
        BY <1>1, <1>3, <1>4, <1>5 DEF Tidy
      <3> QED BY <1>0, <1>1, <1>5, <2>1, <3>1 DEF ErasedFile, Once, Exists, Ready
    <2>2. CASE a # x
      <3>1. Tidy(a)'
        BY <1>1, <1>3, <1>4, <2>2 DEF Tidy, Late, KeysOf, Once, Exists, Ready
      <3> QED BY <3>1, TidyIsErased
    <2> QED BY <2>1, <2>2
  <1>7. ErasedCarried(request[r], r)'
    BY <1>0, <1>1, <1>5 DEF ErasedCarried, Once
  <1> QED BY <1>2, <1>6, <1>7, ErasedGoesOn

LEMMA InsertAssetErased ==
  ASSUME Inductive, Alone, Named, ErasedInTime, Reviewed, UNCHANGED <<regime, late>>,
         NEW r \in Request, InsertAsset(r)
  PROVE  ErasedInTime'
  <1>0. PICK x : x = request[r].asset
    OBVIOUS
  <1>1. /\ request[r].at = "insertAsset" /\ Own(r) /\ request'[r].at \in {"idle", "insertLink"}
        /\ UNCHANGED objects
    BY InsertAssetDoes, IdleIsIdle DEF Goes
  <1>2. Solo(r) /\ x \in Asset /\ ~Once(x) /\ asset[x] = NoAsset
    BY <1>0, <1>1, GoesSolo, InFlightSound, IdleIsIdle
       DEF Sound, LinkSound, Named, NamesSound, ErasedInTime, ErasedCarried, Reviewed
  <1>3. \A s \in Request : s # r => request[s].at = "idle"
    BY <1>2, IdleIsIdle DEF Solo, Reviewed
  <1>4. ASSUME NEW a \in Asset PROVE Tidy(a)'
    <2>1. CASE a = x
      <3>1. objects[x] \subseteq {r}
        BY <1>2, <1>3 DEF ErasedInTime, ErasedFile, Reviewed
      <3>2. asset'[x] = NewAsset("READY", request[r].yes, r)
        BY <1>0, <1>2, InsertAssetDoes
      <3>3. /\ asset'[x].upload = "READY" /\ asset'[x].key = r
            /\ ~asset'[x].gone /\ ~asset'[x].original
        BY <3>2, NewFields
      <3> QED BY <1>1, <2>1, <3>1, <3>3 DEF Tidy, Late, KeysOf, Once, Exists, Ready
    <2>2. CASE a # x
      <3>1. asset'[a] = asset[a]
        BY <1>0, <2>2, InsertAssetDoes
      <3>2. ErasedFile(a) /\ \A s \in Request : request[s].asset = a => request[s].at = "idle" \/ s = r
        BY <1>3 DEF ErasedInTime, Reviewed
      <3>3. Tidy(a)
        BY <1>0, <1>1, <1>3, <2>2, <3>2 DEF Tidy, ErasedFile
      <3> QED BY <1>1, <3>1, <3>3 DEF Tidy, Late, KeysOf, Once, Exists, Ready
    <2> QED BY <2>1, <2>2
  <1> QED BY <1>1, <1>2, <1>4, TidyGoesOn DEF StoredOrErased

LEMMA WriteUploadErased ==
  ASSUME Inductive, Alone, ReadyInTime, ErasedInTime, Reviewed, UNCHANGED <<regime, late>>,
         NEW r \in Request, NEW at \in {"markProcessing", "markFailed"},
         NEW status \in {"PROCESSING", "FAILED"}, NEW next \in {"processObject", "end"},
         WriteUpload(r, at, status, next)
  PROVE  ErasedInTime'
  <1>0. PICK x : x = request[r].asset
    OBVIOUS
  <1>1. /\ request[r].at = at /\ Own(r) /\ UNCHANGED objects
        /\ request'[r].at \notin StoredOrErased
    BY WriteUploadDoes, IdleIsIdle DEF Goes, StoredOrErased
  <1>2. Solo(r) /\ ~Ready(x)
    BY <1>0, <1>1, GoesSolo DEF ReadyInTime, ReadyCarried, InCustody, Reviewed, NotYet
  <1>3. \A a \in Asset : Tidy(a)
    BY <1>1, <1>2, MovedTidy
  <1>4. ASSUME NEW a \in Asset PROVE Tidy(a)'
    <2>1. CASE asset'[a] = asset[a]
      BY <1>1, <1>3, <2>1 DEF Tidy, Late, KeysOf, Once, Exists, Ready
    <2>2. CASE a = x /\ Exists(x)
      <3>1. /\ asset'[x].upload = status /\ asset'[x].gone = asset[x].gone
            /\ asset'[x].replaceable = asset[x].replaceable
        BY <1>0, <2>2, WriteUploadDoes DEF SameHold
      <3> QED BY <1>1, <1>2, <1>3, <2>2, <3>1 DEF Tidy, Once, Exists, Ready
    <2> QED BY <1>0, <2>1, <2>2, WriteUploadDoes
  <1> QED BY <1>1, <1>2, <1>4, TidyGoesOn

LEMMA ProcessObjectErased ==
  ASSUME Inductive, Alone, Named, ReadyInTime, ErasedInTime, Reviewed, UNCHANGED <<regime, late>>,
         NEW r \in Request, ProcessObject(r)
  PROVE  ErasedInTime'
  <1>0. PICK x : x = request[r].asset
    OBVIOUS
  <1>1. /\ request[r].at \in Processing /\ Own(r) /\ UNCHANGED asset
        /\ request'[r].asset = x
    BY <1>0, ProcessObjectDoes DEF Goes, Same
  <1>2. Solo(r) /\ x \in Asset /\ ~Ready(x) /\ Once(x)
    BY <1>0, <1>1, GoesSolo DEF ReadyInTime, ReadyCarried, InCustody, Reviewed, NotYet, Processing
  <1>3. ErasedCarried(request[r], r)
    BY DEF ErasedInTime, Reviewed
  <1>4. \A a \in Asset \ {x} : Tidy(a)
    <2>1. \A s \in Request : s # r => request[s].at = "idle"
      BY <1>2, IdleIsIdle DEF Solo, Reviewed
    <2> QED BY <1>0, <1>1, <2>1 DEF ErasedInTime, ErasedFile, Late, Tidy, Reviewed, Processing
  <1>5. ASSUME \A a \in Asset \ {x} : objects'[a] = objects[a] PROVE \A a \in Asset \ {x} : Tidy(a)'
    BY <1>1, <1>4, <1>5 DEF Tidy, Late, KeysOf, Once, Exists, Ready
  <1>6. ~Ready(x)' /\ Once(x)' /\ (Exists(x)' = Exists(x)) /\ ~(asset[x].gone /\ ~asset[x].replaceable)
    BY <1>1, <1>2 DEF ErasedInTime, ErasedFile, Reviewed, Ready, Once, Exists
  <1>7. CASE ReadObject(r)
    <2>1. /\ request[r].at = "processObject" /\ UNCHANGED objects
          /\ \/ asset[x].bytes = "ASIS" /\ request'[r].at = "markReady"
             \/ asset[x].bytes # "ASIS" /\ request'[r].at = "storeFinal"
             \/ request'[r].at = "markFailed"
      BY <1>0, <1>7, ReadObjectDoes DEF Goes
    <2>2. \A a \in Asset : Tidy(a)
      BY <1>2, <2>1, MovedTidy
    <2>3. Tidy(x)'
      BY <1>1, <1>2, <2>1, <2>2 DEF Tidy, Late, KeysOf, Once, Exists, Ready
    <2>4. ErasedCarried(request[r], r)'
      BY <1>1, <1>2, <2>1, <2>2 DEF ErasedCarried, FinalKeys, FinalKey, Exists, Tidy
    <2> QED BY <1>2, <1>5, <2>1, <2>3, <2>4, TidyIsErased, ErasedGoesOn
  <1>8. ASSUME \A a \in Asset \ {x} : objects'[a] = objects[a],
               request'[r].at \in {"dropUpload", "markReady"},
               request'[r].at = "dropUpload" /\ Exists(x) =>
                 asset[x].bytes = "COMPRESSED" /\ objects'[x] \subseteq {"upload", r},
               request'[r].at = "markReady" /\ Exists(x) => objects'[x] \subseteq FinalKeys(x, r)
        PROVE  ErasedInTime'
    <2>1. ErasedFile(x)'
      BY <1>1, <1>6, <1>8 DEF ErasedFile
    <2>2. ErasedCarried(request[r], r)'
      BY <1>1, <1>6, <1>8 DEF ErasedCarried, FinalKeys, FinalKey
    <2> QED BY <1>2, <1>5, <1>8, <2>1, <2>2, TidyIsErased, ErasedGoesOn
  <1>9. asset[x].bytes \in Bytes
    BY <1>2, FilesTyped DEF AssetRow
  <1>10. CASE StoreFinal(r)
    <2>1. /\ request[r].at = "storeFinal"
          /\ \A a \in Asset : objects'[a] = IF a = x THEN objects[a] \cup {r} ELSE objects[a]
          /\ \/ asset[x].bytes = "COMPRESSED" /\ request'[r].at = "dropUpload"
             \/ asset[x].bytes # "COMPRESSED" /\ request'[r].at = "markReady"
      BY <1>0, <1>10, StoreFinalDoes DEF Goes, Reviewed
    <2>2. \A a \in Asset : Tidy(a)
      BY <1>2, <2>1, MovedTidy
    <2>3. Exists(x) => objects'[x] \subseteq {"upload", r} /\ asset[x].bytes # "ASIS"
      <3>1. Exists(x) => objects[x] \subseteq {"upload"}
        BY <1>2, <2>2 DEF Tidy
      <3>2. objects'[x] = objects[x] \cup {r}
        BY <1>2, <2>1
      <3>3. Exists(x) => asset[x].bytes # "ASIS"
        BY <1>0, <1>3, <2>1 DEF ErasedCarried
      <3> QED BY <3>1, <3>2, <3>3
    <2>4. Exists(x) /\ asset[x].bytes = "BOTH" => objects'[x] \subseteq FinalKeys(x, r)
      BY <2>3 DEF FinalKeys, FinalKey
    <2> QED BY <1>8, <1>9, <2>1, <2>3, <2>4 DEF Bytes
  <1>11. CASE DropUpload(r)
    <2>1. /\ request[r].at = "dropUpload" /\ request'[r].at = "markReady"
          /\ \A a \in Asset : objects'[a] = IF a = x THEN objects[a] \ {"upload"} ELSE objects[a]
      BY <1>0, <1>11, DropUploadDoes DEF Goes, Reviewed
    <2>2. Exists(x) => asset[x].bytes = "COMPRESSED" /\ objects'[x] \subseteq {r}
      BY <1>0, <1>2, <1>3, <2>1 DEF ErasedCarried
    <2>3. Exists(x) => objects'[x] \subseteq FinalKeys(x, r)
      BY <2>2 DEF FinalKeys, FinalKey
    <2> QED BY <1>8, <2>1, <2>3
  <1>12. ~FailAfterStore(r)
    BY FailAfterStoreDoes DEF Reviewed
  <1> QED BY <1>7, <1>10, <1>11, <1>12 DEF ProcessObject

LEMMA MarkReadyErased ==
  ASSUME Inductive, Alone, Named, ReadyInTime, ErasedInTime, Reviewed, UNCHANGED <<regime, late>>,
         NEW r \in Request, MarkReady(r)
  PROVE  ErasedInTime'
  <1>0. PICK x : x = request[r].asset
    OBVIOUS
  <1>1. request[r].at = "markReady" /\ Own(r) /\ request'[r] = Idle /\ UNCHANGED objects
    BY MarkReadyDoes
  <1>2. Solo(r) /\ x \in Asset /\ ~Ready(x) /\ Once(x)
    BY <1>0, <1>1, GoesSolo DEF ReadyInTime, ReadyCarried, InCustody, Reviewed, NotYet
  <1>3. \A s \in Request : s # r => request[s].at = "idle"
    BY <1>2, IdleIsIdle DEF Solo, Reviewed
  <1>4. ASSUME NEW a \in Asset PROVE Tidy(a)'
    <2>1. ErasedFile(a)
      BY DEF ErasedInTime, Reviewed
    <2>2. CASE a # x \/ ~Exists(x)
      <3>1. asset'[a] = asset[a]
        BY <1>0, <2>2, MarkReadyDoes
      <3>2. Tidy(a)
        BY <1>0, <1>1, <1>2, <1>3, <2>1, <2>2 DEF Tidy, ErasedFile
      <3> QED BY <1>1, <3>1, <3>2 DEF Tidy, Late, KeysOf, Once, Exists, Ready
    <2>3. CASE a = x /\ Exists(x)
      <3>1. /\ asset'[x].upload = "READY" /\ asset'[x].gone = asset[x].gone
            /\ asset'[x].replaceable = asset[x].replaceable
            /\ asset'[x].key = FinalKey(x, r)
            /\ asset'[x].original = (asset[x].bytes = "BOTH")
        BY <1>0, <1>2, <2>3, MarkReadyDoes DEF SameHold
      <3>2. objects[x] \subseteq FinalKeys(x, r)
        BY <1>0, <1>1, <2>3 DEF ErasedInTime, ErasedCarried, Reviewed
      <3>3. KeysOf(x)' = FinalKeys(x, r)
        BY <3>1 DEF KeysOf, FinalKeys
      <3>4. ~(asset[x].gone /\ ~asset[x].replaceable)
        BY <1>2, <2>1, <2>3 DEF ErasedFile
      <3> QED BY <1>1, <2>3, <3>1, <3>2, <3>3, <3>4 DEF Tidy, Once, Exists, Ready
    <2> QED BY <2>2, <2>3
  <1> QED BY <1>1, <1>2, <1>4, IdleIsIdle, TidyGoesOn DEF StoredOrErased

LEMMA ClearingErased ==
  ASSUME Inductive, Alone, ErasedInTime, Reviewed, UNCHANGED <<regime, late>>,
         NEW r \in Request, DeleteStaleObject(r) \/ DeleteStaleRow(r)
  PROVE  ErasedInTime'
  <1>1. /\ request[r].at \in {"deleteStale", "deleteRow"} /\ Own(r)
        /\ request'[r].at \notin StoredOrErased
    BY DeleteStaleObjectDoes, DeleteStaleRowDoes, IdleIsIdle DEF Goes, StoredOrErased
  <1>2. Solo(r) /\ \A a \in Asset : Tidy(a)
    BY <1>1, GoesSolo, MovedTidy
  <1>3. CASE DeleteStaleObject(r)
    <2>1. UNCHANGED asset /\ \A a \in Asset : objects'[a] \subseteq objects[a]
      <3>1. PICK x : /\ objects' \in {objects, [objects EXCEPT ![x] = @ \ {asset[x].key}]}
                     /\ UNCHANGED asset
        BY <1>3, DeleteStaleObjectDoes
      <3> QED BY <3>1 DEF Inductive, Typed, RowsTypeOK
    <2>2. \A a \in Asset : Tidy(a)'
      BY <1>2, <2>1 DEF Tidy, Late, KeysOf, Once, Exists, Ready
    <2> QED BY <1>1, <1>2, <2>2, TidyGoesOn
  <1>4. CASE DeleteStaleRow(r)
    <2>1. /\ UNCHANGED objects
          /\ \A a \in Asset : \/ asset'[a] = asset[a]
                              \/ asset'[a] = [NoAsset EXCEPT !.upload = "CLEARED"]
      BY <1>4, DeleteStaleRowDoes
    <2>2. LET n == [NoAsset EXCEPT !.upload = "CLEARED"] IN n.upload = "CLEARED" /\ ~n.gone
      BY DEF NoAsset
    <2>3. ASSUME NEW a \in Asset PROVE Tidy(a)'
      <3>1. CASE asset'[a] = asset[a]
        BY <1>2, <2>1, <3>1 DEF Tidy, Late, KeysOf, Once, Exists, Ready
      <3>2. CASE asset'[a].upload = "CLEARED" /\ ~asset'[a].gone
        BY <3>2 DEF Tidy, Once, Exists, Ready
      <3> QED BY <2>1, <2>2, <3>1, <3>2
    <2> QED BY <1>1, <1>2, <2>3, TidyGoesOn
  <1> QED BY <1>3, <1>4

LEMMA RoutineErased ==
  ASSUME Inductive, Alone, ErasedInTime, Reviewed, UNCHANGED <<regime, late>>,
         NEW r \in Request, MarkGone(r) \/ RemoveObjects(r)
  PROVE  ErasedInTime'
  <1>0. PICK x : x = request[r].asset
    OBVIOUS
  <1>1. /\ request[r].at \in {"markGone", "removeObjects"} /\ Own(r)
        /\ request'[r].at \notin StoredOrErased
    BY MarkGoneDoes, RemoveObjectsDoes, IdleIsIdle DEF Goes, StoredOrErased
  <1>2. Solo(r) /\ \A a \in Asset : Tidy(a)
    BY <1>1, GoesSolo, MovedTidy
  <1>3. CASE MarkGone(r)
    <2>1. /\ request[r].at = "markGone" /\ UNCHANGED objects
          /\ \A a \in Asset : IF a = x /\ Exists(a) THEN GoneFile(asset'[a], asset[a])
                              ELSE asset'[a] = asset[a]
      BY <1>0, <1>3, MarkGoneDoes
    <2>2. Exists(x) => asset[x].replaceable
      BY <1>0, <2>1, InFlightSound DEF Sound, DeletionSound, Cleared, Exists
    <2>3. ASSUME NEW a \in Asset PROVE Tidy(a)'
      <3>1. CASE asset'[a] = asset[a]
        BY <1>2, <2>1, <3>1 DEF Tidy, Late, KeysOf, Once, Exists, Ready
      <3>2. CASE GoneFile(asset'[a], asset[a]) /\ asset[a].replaceable
        BY <1>2, <2>1, <3>2 DEF GoneFile, SameHold, SameObjects, Tidy, Late, KeysOf, Once, Exists, Ready
      <3> QED BY <2>1, <2>2, <3>1, <3>2
    <2> QED BY <1>1, <1>2, <2>3, TidyGoesOn
  <1>4. CASE RemoveObjects(r)
    <2>1. UNCHANGED asset /\ \A a \in Asset : objects'[a] \subseteq objects[a]
      BY <1>4, RemoveObjectsDoes DEF Inductive, Typed, RowsTypeOK
    <2>2. \A a \in Asset : Tidy(a)'
      BY <1>2, <2>1 DEF Tidy, Late, KeysOf, Once, Exists, Ready
    <2> QED BY <1>1, <1>2, <2>2, TidyGoesOn
  <1> QED BY <1>3, <1>4

LEMMA EraseObjectsErased ==
  ASSUME Inductive, Alone, ReadyInTime, ErasedInTime, Reviewed, UNCHANGED <<regime, late>>,
         NEW r \in Request, EraseObjects(r)
  PROVE  ErasedInTime'
  <1>0. PICK x : x = request'[r].asset
    OBVIOUS
  <1>1. /\ request[r].at = "eraseNext" /\ Own(r) /\ request'[r].at = "writeDeleted"
        /\ x \in request[r].todo /\ UNCHANGED asset
        /\ objects' = [objects EXCEPT ![x] = @ \ KeysOf(x)]
    BY <1>0, EraseObjectsDoes DEF Stored, Reviewed
  <1>2. Solo(r) /\ \A a \in Asset : Tidy(a)
    BY <1>1, GoesSolo, MovedTidy
  <1>3. x \in Asset /\ Ready(x)
    BY <1>1, FilesTyped DEF ReadyInTime, InCustody, ReadyCarried, Reviewed, RequestRow
  <1>4. objects'[x] \subseteq Late(x)' /\ \A a \in Asset : objects'[a] \subseteq objects[a]
    BY <1>1, <1>2, <1>3 DEF Tidy, Late, Inductive, Typed, RowsTypeOK
  <1>5. \A a \in Asset : Tidy(a)'
    BY <1>1, <1>2, <1>4 DEF Tidy, Late, KeysOf, Once, Exists, Ready
  <1>6. ErasedCarried(request[r], r)'
    BY <1>0, <1>1, <1>4 DEF ErasedCarried
  <1> QED BY <1>2, <1>5, <1>6, TidyIsErased, ErasedGoesOn

LEMMA WriteDeletedErased ==
  ASSUME Inductive, Alone, ReadyInTime, FreeInTime, ErasedInTime, Reviewed, UNCHANGED <<regime, late>>,
         NEW r \in Request, WriteDeleted(r)
  PROVE  ErasedInTime'
  <1>0. PICK x : x = request[r].asset
    OBVIOUS
  <1>1. /\ request[r].at = "writeDeleted" /\ Own(r) /\ UNCHANGED objects
        /\ request'[r].at \notin StoredOrErased
        /\ \A a \in Asset : IF a = x /\ Exists(a) THEN GoneFile(asset'[a], asset[a])
                            ELSE asset'[a] = asset[a]
    BY <1>0, WriteDeletedDoes, IdleIsIdle DEF StoredOrErased
  <1>2. Solo(r) /\ \A a \in Asset : Tidy(a)
    BY <1>1, GoesSolo, MovedTidy
  <1>3. objects[x] \subseteq Late(x) /\ x \in request[r].todo
    BY <1>0, <1>1 DEF ErasedInTime, ErasedCarried, FreeInTime, FreeCarried, Reviewed
  <1>4. Ready(x)
    BY <1>1, <1>3 DEF ReadyInTime, InCustody, ReadyCarried, Reviewed
  <1>5. ASSUME NEW a \in Asset PROVE Tidy(a)'
    <2>1. CASE asset'[a] = asset[a]
      BY <1>1, <1>2, <2>1 DEF Tidy, Late, KeysOf, Once, Exists, Ready
    <2>2. CASE a = x /\ GoneFile(asset'[a], asset[a])
      BY <1>1, <1>3, <1>4, <2>2 DEF GoneFile, Tidy, Late, Once, Exists, Ready
    <2> QED BY <1>1, <2>1, <2>2
  <1> QED BY <1>1, <1>2, <1>5, TidyGoesOn

\* Only a PUT changes what is late.
LEMMA LateStays ==
  ASSUME Work, ~ObjectArrives
  PROVE  UNCHANGED late
  BY UrlsLeft DEF Work, MediaWork, MediaKeepsUrls, InitiatePresignedUpload

\* A URL is handed out with the row of its upload.
UrlsOnce == \A a \in url : Once(a)

LEMMA UrlsOnceKept ==
  ASSUME Inductive, Named, url \subseteq Asset, UrlsOnce, [Next]_vars
  PROVE  UrlsOnce'
  <1>1. CASE UNCHANGED asset /\ url' \subseteq url
    BY <1>1 DEF UrlsOnce, Once
  <1>2. CASE FilesStay /\ url' \subseteq url
    BY <1>2 DEF UrlsOnce, FilesStay
  <1>3. CASE InitiatePresignedUpload
    <2>1. FilesStay
      BY <1>3, MediaStays DEF MediaWork
    <2>2. PICK x \in Asset : asset'[x].upload = "PENDING" /\ url' = url \cup {x}
      <3>1. PICK x \in Asset, b \in BOOLEAN, y \in Bytes :
              /\ asset' = [asset EXCEPT ![x] = [NewAsset("PENDING", b, "upload") EXCEPT !.bytes = y]]
              /\ url' = url \cup {x}
        BY <1>3 DEF InitiatePresignedUpload
      <3>2. asset'[x] = [NewAsset("PENDING", b, "upload") EXCEPT !.bytes = y]
        BY <3>1 DEF Inductive, Typed, RowsTypeOK
      <3>3. [NewAsset("PENDING", b, "upload") EXCEPT !.bytes = y].upload = "PENDING"
        BY DEF NewAsset, NoAsset
      <3> QED BY <3>1, <3>2, <3>3
    <2> QED BY <2>1, <2>2 DEF UrlsOnce, FilesStay, Once
  <1>4. CASE ObjectArrives \/ UploadUrlExpires \/ UNCHANGED vars
    BY <1>1, <1>4 DEF ObjectArrives, UploadUrlExpires, vars, rows
  <1>5. ASSUME NEW r \in Request, MediaKeepsUrls(r) \/ Crash(r) PROVE UrlsOnce'
    BY <1>1, <1>2, <1>5, UrlsLeft, MediaStays DEF MediaWork, MediaKeepsUrls, Crash, rows
  <1>6. CASE RetentionNext \/ HoldNext \/ CaseNext
    BY <1>1, <1>2, <1>6, UrlsLeft, RetentionStays, HoldStays, CasesLeaveFiles
  <1> QED BY <1>3, <1>4, <1>5, <1>6 DEF Next, MediaNext, MediaKeepsUrls, ProcessObject

LEMMA AlwaysUrlsOnce == Spec => []UrlsOnce
  <1>1. Init => UrlsOnce
    BY DEF Init, Empty, UrlsOnce
  <1> QED BY <1>1, UrlsOnceKept, AlwaysInductive, AlwaysNamed, AlwaysUrlsTyped, PTL DEF Spec

\* One request at a time, an object that arrives at a file that is READY is late.
LEMMA ArrivalErased ==
  ASSUME Inductive, ErasedInTime, Reviewed, UNCHANGED regime, UrlsOnce, ObjectArrives
  PROVE  ErasedInTime'
  <1>1. UNCHANGED request /\ \A s \in Request : request[s].at = "idle"
    BY IdleIsIdle DEF ObjectArrives, Answer, May, Quiescent, Reviewed
  <1>2. \A a \in Asset : Tidy(a)
    BY <1>1, RestTidy
  <1>3. PICK x \in url :
          /\ objects' = [objects EXCEPT ![x] = @ \cup {"upload"}]
          /\ late' = IF asset[x].upload # "PENDING" /\ "upload" \notin objects[x]
                     THEN late \cup {x} ELSE late
          /\ UNCHANGED asset
    BY DEF ObjectArrives
  <1>4. ASSUME NEW a \in Asset PROVE Tidy(a)'
    <2>1. objects'[a] = IF a = x THEN objects[a] \cup {"upload"} ELSE objects[a]
      BY <1>3 DEF Inductive, Typed, RowsTypeOK
    <2>2. CASE a # x
      BY <1>2, <1>3, <2>1, <2>2 DEF Tidy, Late, KeysOf, Once, Exists, Ready
    <2>3. CASE a = x
      <3>1. Once(a)
        BY <2>3 DEF UrlsOnce
      <3>2. Late(a) \subseteq Late(a)' /\ (Ready(a) => "upload" \in objects[a] \cup Late(a)')
        BY <1>3, <2>3 DEF Late, Ready
      <3>3. KeysOf(a)' = KeysOf(a)
        BY <1>3 DEF KeysOf
      <3> QED BY <1>2, <1>3, <2>1, <2>3, <3>1, <3>2, <3>3 DEF Tidy, Once, Exists, Ready
    <2> QED BY <2>2, <2>3
  <1>5. \A s \in Request : ErasedCarried(request[s], s)'
    BY <1>1 DEF ErasedCarried
  <1> QED BY <1>4, <1>5, TidyIsErased DEF ErasedInTime

LEMMA MediaErased ==
  ASSUME Inductive, Alone, Named, ReadyInTime, ErasedInTime, Reviewed, MediaWork, ~ObjectArrives,
         UNCHANGED <<regime, late>>
  PROVE  ErasedInTime'
  <1>1. CASE InitiatePresignedUpload
    <2>1. UNCHANGED request /\ \A s \in Request : request[s].at = "idle"
      BY <1>1, IdleIsIdle DEF InitiatePresignedUpload, Answer, May, Quiescent, Reviewed
    <2>2. \A a \in Asset : Tidy(a)
      BY <2>1, RestTidy
    <2>3. ASSUME NEW a \in Asset PROVE Tidy(a)'
      <3>1. UNCHANGED objects
        BY <1>1, InitiateDoes
      <3>2. CASE asset'[a] = asset[a]
        BY <2>2, <3>1, <3>2 DEF Tidy, Late, KeysOf, Once, Exists, Ready
      <3>3. CASE asset[a] = NoAsset /\ asset'[a].upload = "PENDING" /\ ~asset'[a].gone
        <4>1. objects[a] = {}
          BY <2>2, <3>3 DEF Tidy, NoAsset, Once
        <4> QED BY <3>1, <3>3, <4>1 DEF Tidy, Once, Exists, Ready
      <3> QED BY <1>1, <3>2, <3>3, InitiateDoes
    <2>4. \A s \in Request : ErasedCarried(request[s], s)'
      BY <2>1 DEF ErasedCarried
    <2> QED BY <2>3, <2>4, TidyIsErased DEF ErasedInTime
  <1>2. ASSUME NEW r \in Request,
               ConfirmUpload(r) \/ CleanupFailedUploads(r) \/ DeleteReplaceable(r)
        PROVE  ErasedInTime'
    <2>1. /\ \E op : \E at \in StillSteps : Begins(r, op, at)
          /\ UNCHANGED <<asset, objects>>
      BY <1>2, ConfirmUploadDoes, CleanupDoes, DeleteReplaceableDoes
         DEF MediaSteps, StillSteps, StoredOrErased, rows
    <2>2. SameStore
      BY <2>1 DEF SameStore, SameObjects
    <2>3. All(StillSteps, StillSteps)
      BY <2>1, BeginsMoves, AllMove DEF MediaSteps, StillSteps, StoredOrErased, Reviewed
    <2> QED BY <2>2, <2>3, ErasedElsewhere DEF All, StillSteps, MediaSteps, StoredOrErased
  <1> QED BY <1>1, <1>2, UploadErased, InsertAssetErased, WriteUploadErased, ProcessObjectErased,
             MarkReadyErased, ClearingErased, RoutineErased
          DEF MediaWork, MarkProcessing, MarkFailed

LEMMA ErasedKept ==
  ASSUME Inductive, Alone, Named, ReadyInTime, FreeInTime, ErasedInTime, UrlsOnce,
         [Work]_seen
  PROVE  ErasedInTime'
  <1>1. UNCHANGED regime
    BY DEF Work, seen
  <1>2. CASE ~Reviewed
    BY <1>1, <1>2 DEF ErasedInTime, Reviewed
  <1>3. ASSUME Reviewed, RetentionNext PROVE ErasedInTime'
    <2>0. UNCHANGED late
      BY <1>3, UrlsLeft
    <2>1. CASE RecoveryElapses
      BY <1>1, <2>0, <2>1, RecoveryElapsesDoes, ErasedLeft
    <2>2. CASE /\ ~RecoveryElapses
               /\ ~\E r \in Request : EraseObjects(r) \/ WriteDeleted(r)
      <3>1. All(RestSteps, RestSteps)
        BY <1>3, <2>2, RetentionRests, AllMove DEF RestSteps, RetentionSteps, Reviewed
      <3>2. SameStore
        BY <1>3, <2>2, RetentionStores
      <3> QED BY <1>1, <1>3, <2>0, <3>1, <3>2, ErasedElsewhere
             DEF All, RestSteps, RetentionSteps, StoredOrErased
    <2> QED BY <1>1, <1>3, <2>0, <2>1, <2>2, EraseObjectsErased, WriteDeletedErased
  <1>4. ASSUME Reviewed, HoldNext \/ CaseNext PROVE ErasedInTime'
    <2>1. SameStore
      BY <1>4, HoldStores, CasesLeaveFiles DEF SameStore, SameObjects
    <2>2. \A s \in Request : /\ request[s].at \notin {"insertAsset", "dropUpload", "markReady"}
                             /\ request'[s].at \notin StoredOrErased
      BY <1>4, HoldAlone, CaseAlone DEF All, HoldSteps, CaseSteps, Reviewed, StoredOrErased
    <2> QED BY <1>1, <1>4, <2>1, <2>2, UrlsLeft, ErasedElsewhere
  <1>5. CASE UNCHANGED seen
    BY <1>5, ErasedLeft DEF seen, tables
  <1>6. ASSUME Reviewed, MediaWork PROVE ErasedInTime'
    BY <1>1, <1>6, LateStays, ArrivalErased, MediaErased DEF Work
  <1> QED BY <1>1, <1>2, <1>3, <1>4, <1>5, <1>6 DEF Work, Crash, Reviewed

LEMMA InitErased == Init => ErasedInTime
  <1> SUFFICES ASSUME Init PROVE ErasedInTime
    OBVIOUS
  <1>1. \A a \in Asset : Tidy(a)
    BY DEF Init, Empty, NoAsset, Tidy, Once, Exists, Ready
  <1>2. \A r \in Request : ErasedCarried(request[r], r)
    BY IdleIsIdle DEF Init, Empty, ErasedCarried
  <1> QED BY <1>1, <1>2, TidyIsErased DEF ErasedInTime

LEMMA AlwaysErased == Spec => []ErasedInTime
  <1>1. /\ Inductive /\ Alone /\ Named /\ ReadyInTime /\ FreeInTime /\ ErasedInTime
        /\ UrlsOnce /\ [Next]_vars
        => ErasedInTime'
    BY ErasedKept, Works
  <1> QED BY <1>1, InitErased, AlwaysInductive, AlwaysNamed, AlwaysAlone, AlwaysReady, AlwaysFree,
             AlwaysUrlsOnce, PTL DEF Spec

\* Wherever unfinished uploads are cleared away without deaths, requests are served one
\* at a time.
ClearedAlone ==
  \A g \in Regimes : "cleanup" \in g.handlers /\ ~g.faults => g.serial

\* Of BucketMatchesRows (media-asset-repository.ts and completeDeletionRequest of
\* retention-repository.ts): where no process dies and nothing is cleared away next to a
\* confirmation, every file that is READY and not deleted has its object, also when
\* confirmations and deletions race; and one request at a time nothing of a deleted file
\* stays in the bucket but the upload that a PUT within the life of its URL put back
\* after the row had moved on.
THEOREM BucketIsInStep == ClearedAlone => (Spec => []BucketMatchesRows)
  <1> SUFFICES ASSUME ClearedAlone PROVE Spec => []BucketMatchesRows
    OBVIOUS
  <1>1. ASSUME Inductive, StoredInTime PROVE ReadyIsStored
    <2> SUFFICES ASSUME ~regime.faults, NEW a \in Asset, Ready(a), ~asset[a].gone, ~BeingErased(a)
                 PROVE  asset[a].key \in objects[a]
      BY DEF ReadyIsStored, Ready
    <2>1. StoresWell
      BY <1>1 DEF ClearedAlone, StoresWell, Inductive, Typed
    <2>2. Kept(a, asset[a].key)
      BY <1>1, <2>1 DEF StoredInTime, StoredFile
    <2> QED BY <2>2 DEF Kept, Cleared, Ready
  <1>2. ErasedInTime => GoneIsErased
    BY DEF ErasedInTime, ErasedFile, GoneIsErased, Late
  <1> QED BY <1>1, <1>2, AlwaysInductive, AlwaysStored, AlwaysErased, PTL DEF BucketMatchesRows

================================================================================
