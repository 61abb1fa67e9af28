-------------------------- MODULE InvestigationCases --------------------------
(***************************************************************************)
(* investigation-case-repository.ts and investigation-finding-repository:  *)
(* the life of a case, and the findings whose submission, return and       *)
(* rejection move the case along in a second update that may be refused.   *)
(***************************************************************************)
EXTENDS EvidenceHolds

\* VALID_TRANSITIONS
CaseTransitions ==
  {<<"DRAFT", "OPEN">>, <<"DRAFT", "TRIAGE">>,
   <<"OPEN", "TRIAGE">>, <<"OPEN", "UNDER_INVESTIGATION">>,
   <<"TRIAGE", "UNDER_INVESTIGATION">>, <<"TRIAGE", "OPEN">>,
   <<"UNDER_INVESTIGATION", "AWAITING_INFORMATION">>,
   <<"UNDER_INVESTIGATION", "AWAITING_APPROVAL">>,
   <<"AWAITING_INFORMATION", "UNDER_INVESTIGATION">>,
   <<"AWAITING_APPROVAL", "UNDER_INVESTIGATION">>, <<"AWAITING_APPROVAL", "CLOSED">>,
   <<"CLOSED", "REOPENED">>,
   <<"REOPENED", "UNDER_INVESTIGATION">>, <<"REOPENED", "TRIAGE">>}

CaseStatus == {p[1] : p \in CaseTransitions}

\* createInvestigationCase, and createCaseFromReferral for the one record referred:
\* the lookup by the referral key, then the insert, which the unique key may refuse.
NewCase(severe, referral) ==
  [NoCase EXCEPT !.status = "DRAFT", !.hold = TRUE, !.severe = severe, !.referral = referral]

CreateCase ==
  \E c \in Case, severe \in BOOLEAN :
    /\ case[c] = NoCase
    /\ case' = [case EXCEPT ![c] = NewCase(severe, FALSE)]
    /\ Answer("createCase")
    /\ UNCHANGED <<asset, objects, flagged, deletion, certificate, link, finding, url, late>>

Referred == \E c \in Case : case[c].referral

CreateCaseFromReferral(r) ==
  \E u \in User, severe \in BOOLEAN :
    /\ ~Referred
    /\ Serve(r, [Call("refer", "insertCase", u) EXCEPT !.yes = severe])
    /\ UNCHANGED rows

InsertReferredCase(r) ==
  LET q == request[r] IN
  /\ q.at = "insertCase"
  /\ \E c \in Case :
       /\ case[c] = NoCase
       /\ case' = IF Referred THEN case ELSE [case EXCEPT ![c] = NewCase(q.yes, TRUE)]
  /\ Finish(r)
  /\ UNCHANGED <<asset, objects, flagged, deletion, certificate, link, finding, url, late>>

-------------------------------------------------------------------------------
\* transitionCaseStatus as a handler of its own ...
AskCase(r, op, to) ==
  \E u \in User, c \in Case :
    /\ <<case[c].status, to>> \in CaseTransitions
    /\ Serve(r, [Call(op, "writeCase", u) EXCEPT !.case = c, !.to = to])
    /\ UNCHANGED rows

\* ... and at the end of one that has already changed a finding.
CheckCase(r) ==
  LET q == request[r] IN
  /\ q.at = "checkCase"
  /\ Continue(r, <<case[q.case].status, q.to>> \in CaseTransitions, "writeCase")
  /\ UNCHANGED rows

\* Closing also gives the referral key back.
WriteCase(r) ==
  LET q == request[r] IN
  /\ q.at = "writeCase"
  /\ case' = [case EXCEPT ![q.case] = [case[q.case] EXCEPT !.status = q.to,
       !.referral = @ /\ q.to # "CLOSED",
       !.closedBy = IF q.to = "CLOSED" THEN q.user ELSE @]]
  /\ Finish(r)
  /\ UNCHANGED <<asset, objects, flagged, deletion, certificate, link, finding, url, late>>

SubmitCase(r) == AskCase(r, "submitCase", "OPEN")
TriageCase(r) == AskCase(r, "triage", "TRIAGE")
BeginOrResume(r) == AskCase(r, "investigate", "UNDER_INVESTIGATION")
RequestInformation(r) == AskCase(r, "requestInformation", "AWAITING_INFORMATION")
ReopenCase(r) == AskCase(r, "reopen", "REOPENED")

\* escalateInvestigationCase (and a triage with a priority) sets any priority.
EscalateCase ==
  \E c \in Case, severe \in BOOLEAN :
    /\ case[c] # NoCase
    /\ case' = [case EXCEPT ![c].severe = severe]
    /\ Answer("escalate")
    /\ UNCHANGED <<asset, objects, flagged, deletion, certificate, link, finding, url, late>>

AssignInvestigator ==
  \E c \in Case, u \in User :
    /\ case[c] # NoCase
    /\ case' = [case EXCEPT ![c].investigator = u]
    /\ Answer("assign")
    /\ UNCHANGED <<asset, objects, flagged, deletion, certificate, link, finding, url, late>>

\* Of a HIGH or CRITICAL case the closer may be the investigator or the approver of
\* the finding, not both.  (The tenant's separation of duties is on.)
MayClose(c, f, u) ==
  case[c].severe => ~(case[c].investigator = u /\ finding[f].approver = u)

CloseCase(r) ==
  \E u \in User, c \in Case, f \in Finding :
    /\ case[c].status = "AWAITING_APPROVAL"
    /\ finding[f].case = c /\ finding[f].status = "APPROVED"
    /\ MayClose(c, f, u)
    /\ Serve(r, [Call("close", "writeCase", u) EXCEPT !.case = c, !.to = "CLOSED"])
    /\ UNCHANGED rows

-------------------------------------------------------------------------------
NewFinding(c, u) == [NoFinding EXCEPT !.status = "DRAFT", !.case = c, !.creator = u]

\* createInvestigationFinding, and createAmendedFindingVersion, which adds a row next
\* to the one amended.
CreateFinding ==
  \E u \in User, c \in Case, f \in Finding :
    /\ case[c] # NoCase /\ finding[f] = NoFinding
    /\ finding' = [finding EXCEPT ![f] = NewFinding(c, u)]
    /\ Answer("createFinding")
    /\ UNCHANGED <<asset, objects, flagged, deletion, certificate, case, link, url, late>>

AmendFinding ==
  \E u \in User, g, f \in Finding :
    /\ finding[g].status \in {"RETURNED_FOR_AMENDMENT", "REJECTED", "APPROVED"}
    /\ finding[f] = NoFinding
    /\ finding' = [finding EXCEPT ![f] = NewFinding(finding[g].case, u)]
    /\ Answer("amend")
    /\ UNCHANGED <<asset, objects, flagged, deletion, certificate, case, link, url, late>>

AskFinding(r, op, u, f, to) ==
  /\ Serve(r, [Call(op, "writeFinding", u) EXCEPT !.row = f, !.case = finding[f].case, !.to = to])
  /\ UNCHANGED rows

SubmitFinding(r) ==
  \E u \in User, f \in Finding :
    finding[f].status = "DRAFT" /\ AskFinding(r, "submitFinding", u, f, "SUBMITTED")

\* (variant) only the submitter is kept from approving
SeparateFromSubmitter(f, u) == finding[f].submitter # u

\* assertSeparationOfDuties
Separate(f, u) == u \notin {finding[f].creator, finding[f].submitter}

ApproveFinding(r) ==
  \E u \in User, f \in Finding :
    /\ finding[f].status = "SUBMITTED" /\ Separate(f, u)
    /\ AskFinding(r, "approveFinding", u, f, "APPROVED")

\* returnFindingForAmendment and rejectInvestigationFinding
ReturnFinding(r) ==
  \E u \in User, f \in Finding, to \in {"RETURNED_FOR_AMENDMENT", "REJECTED"} :
    /\ finding[f].status = "SUBMITTED"
    /\ AskFinding(r, "returnFinding", u, f, to)

\* (variant) a rejected finding leaves the case where it is
CaseStatusAfterReturn(to) ==
  IF to = "SUBMITTED" THEN "AWAITING_APPROVAL"
  ELSE IF to = "RETURNED_FOR_AMENDMENT" THEN "UNDER_INVESTIGATION" ELSE "NONE"

\* markCaseAwaitingApproval or returnCaseToInvestigation, or no change.
CaseStatusAfter(to) ==
  IF to = "SUBMITTED" THEN "AWAITING_APPROVAL"
  ELSE IF to \in {"RETURNED_FOR_AMENDMENT", "REJECTED"} THEN "UNDER_INVESTIGATION" ELSE "NONE"

\* The finding and its approval row in one transaction, then the case.
WriteFinding(r) ==
  LET q == request[r] IN
  /\ q.at = "writeFinding"
  /\ finding' = [finding EXCEPT ![q.row] = [finding[q.row] EXCEPT !.status = q.to,
       !.submitter = IF q.to = "SUBMITTED" THEN q.user ELSE @,
       !.approver = IF q.to = "APPROVED" THEN q.user ELSE @]]
  /\ Proceed(r, IF CaseStatusAfter(q.to) = "NONE" THEN Idle ELSE
       [q EXCEPT !.at = "checkCase", !.to = CaseStatusAfter(q.to)])
  /\ UNCHANGED <<asset, objects, flagged, deletion, certificate, case, link, url, late>>

CaseNext ==
  \/ CreateCase \/ EscalateCase \/ AssignInvestigator \/ CreateFinding \/ AmendFinding
  \/ \E r \in Request :
       \/ CreateCaseFromReferral(r) \/ InsertReferredCase(r)
       \/ SubmitCase(r) \/ TriageCase(r) \/ BeginOrResume(r) \/ RequestInformation(r)
       \/ ReopenCase(r) \/ CheckCase(r) \/ WriteCase(r) \/ CloseCase(r)
       \/ SubmitFinding(r) \/ ApproveFinding(r) \/ ReturnFinding(r) \/ WriteFinding(r)

================================================================================
