---------------------------- MODULE EvidenceHolds -----------------------------
(***************************************************************************)
(* investigation-evidence-repository.ts and investigation-hold-repository: *)
(* linking a file to a case puts it on hold while the case's hold lasts,   *)
(* and releasing the case's hold sweeps its files.                         *)
(***************************************************************************)
EXTENDS Retention

\* linkEvidenceFromMediaAsset: the case and the file exist.
LinkEvidence(r) ==
  \E u \in User, a \in Asset, c \in Case :
    /\ Exists(a) /\ case[c] # NoCase
    /\ Serve(r, [Call("link", "insertLink", u) EXCEPT !.asset = a, !.case = c])
    /\ UNCHANGED rows

InsertLink(r) ==
  LET q == request[r] IN
  /\ q.at = "insertLink"
  /\ \E l \in Link :
       /\ link[l] = NoLink
       /\ link' = IF ~Exists(q.asset) THEN link ELSE
            [link EXCEPT ![l] = [NoLink EXCEPT !.case = q.case, !.asset = q.asset]]
  /\ Continue(r, Exists(q.asset), "readCaseHold")
  /\ UNCHANGED <<asset, objects, flagged, deletion, certificate, case, finding, url, late>>

\* (variant) only what is filed under a severe case is put on hold
ReadSevereHold(r) ==
  LET q == request[r] IN
  /\ q.at = "readCaseHold"
  /\ Continue(r, case[q.case].hold /\ case[q.case].severe, "applyHold")
  /\ UNCHANGED rows

\* applyHoldIfCaseActive
ReadCaseHold(r) ==
  LET q == request[r] IN
  /\ q.at = "readCaseHold"
  /\ Continue(r, case[q.case].hold, "applyHold")
  /\ UNCHANGED rows

WriteHold(r, at, on) ==
  LET q == request[r] IN
  /\ q.at = at
  /\ asset' = [asset EXCEPT ![q.asset] = IF Exists(q.asset) THEN [@ EXCEPT !.hold = on] ELSE @]
  /\ UNCHANGED <<objects, flagged, deletion, certificate, case, link, finding, url, late>>

ApplyHold(r) == WriteHold(r, "applyHold", TRUE) /\ Finish(r)

\* markEvidenceEnteredInError: the link stays, marked; the file stays on hold.
MarkEnteredInError ==
  \E l \in Link :
    /\ link[l] # NoLink /\ ~link[l].wrong
    /\ link' = [link EXCEPT ![l].wrong = TRUE]
    /\ Answer("enteredInError")
    /\ UNCHANGED <<asset, objects, flagged, deletion, certificate, case, finding, url, late>>

-------------------------------------------------------------------------------
\* Releasing the hold of a HIGH or CRITICAL case takes a second user: the first
\* call is only put on record.  (The tenant's setting for it is on.)
Confirmed(c, u) == case[c].severe => case[c].asked \notin {None, u}

RequestHoldRelease(r) ==
  \E u \in User, c \in Case :
    /\ case[c].hold /\ ~Confirmed(c, u)
    /\ Serve(r, [Call("release", "recordRequest", u) EXCEPT !.case = c])
    /\ UNCHANGED rows

RecordReleaseRequest(r) ==
  LET q == request[r] IN
  /\ q.at = "recordRequest"
  /\ case' = [case EXCEPT ![q.case].asked = q.user]
  /\ Finish(r)
  /\ UNCHANGED <<asset, objects, flagged, deletion, certificate, link, finding, url, late>>

ReleaseInvestigationHold(r) ==
  \E u \in User, c \in Case :
    /\ case[c].hold /\ Confirmed(c, u)
    /\ Serve(r, [Call("release", "writeRelease", u) EXCEPT !.case = c])
    /\ UNCHANGED rows

\* doReleaseHold
WriteRelease(r) ==
  LET q == request[r] IN
  /\ q.at = "writeRelease"
  /\ case' = [case EXCEPT ![q.case] = [@ EXCEPT !.hold = FALSE, !.releasedBy = q.user]]
  /\ Continue(r, TRUE, "listLinks")
  /\ UNCHANGED <<asset, objects, flagged, deletion, certificate, link, finding, url, late>>

ListLinks(r) ==
  LET q == request[r] IN
  /\ q.at = "listLinks"
  /\ Proceed(r, [q EXCEPT !.at = "checkOther",
       !.todo = {link[l].asset : l \in {k \in Link : link[k].case = q.case /\ ~link[k].wrong}}])
  /\ UNCHANGED rows

HeldElsewhere(a, c) ==
  \E l \in Link : /\ link[l].asset = a /\ ~link[l].wrong
                  /\ link[l].case # c /\ case[link[l].case].hold

\* One lookup per file: another case's hold keeps it.
CheckOtherCases(r) ==
  LET q == request[r] IN
  /\ q.at = "checkOther"
  /\ \/ \E a \in q.todo :
          Proceed(r, [q EXCEPT !.todo = @ \ {a}, !.asset = a,
                        !.at = IF HeldElsewhere(a, q.case) THEN "checkOther" ELSE "clearHold"])
     \/ q.todo = {} /\ Finish(r)
  /\ UNCHANGED rows

\* A file that no longer exists makes setInvestigationHold throw.
ClearHold(r) ==
  /\ WriteHold(r, "clearHold", FALSE)
  /\ Continue(r, Exists(request[r].asset), "checkOther")

HoldNext ==
  \/ MarkEnteredInError
  \/ \E r \in Request :
       \/ LinkEvidence(r) \/ InsertLink(r) \/ ReadCaseHold(r) \/ ApplyHold(r)
       \/ RequestHoldRelease(r) \/ RecordReleaseRequest(r)
       \/ ReleaseInvestigationHold(r) \/ WriteRelease(r) \/ ListLinks(r)
       \/ CheckOtherCases(r) \/ ClearHold(r)

================================================================================
