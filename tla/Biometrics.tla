------------------------------- MODULE Biometrics ------------------------------
(***************************************************************************)
(* facial-enrolment-repository.ts and biometric-deletion-repository.ts:    *)
(* the versions of one driver's facial template, and the requests of two   *)
(* users that erase its encrypted material.  A transaction that starts by  *)
(* reading runs at READ COMMITTED: what it read may be gone when it writes.*)
(***************************************************************************)
EXTENDS OperationsData

CONSTANTS
  MaxVersion,   \* bound on enrolments
  Removal       \* deletion requests

ASSUME VersionAssumption == MaxVersion \in Nat
ASSUME RemovalAssumption == None \notin Removal

VARIABLES
  template,   \* of each version, its status and whether the material is there
  enrolled,   \* Driver.facialVerificationEnrolled
  removal     \* deletion requests

biometricVars == <<template, enrolled, removal>>

Version == 1 .. MaxVersion
NoTemplate == [status |-> "NONE", material |-> FALSE]
NoRemoval == [status |-> "NONE", version |-> 0, initiator |-> None, approver |-> None,
              elapsed |-> FALSE]

BiometricInit ==
  /\ template = [v \in Version |-> NoTemplate]
  /\ enrolled = FALSE
  /\ removal = [d \in Removal |-> NoRemoval]

Active == {v \in Version : template[v].status = "ACTIVE"}

\* The latest version that is not deleted, or 0.
Latest(S) == IF S = {} THEN 0 ELSE CHOOSE v \in S : \A w \in S : w <= v
Enrolments == {v \in Version : template[v] # NoTemplate}

-------------------------------------------------------------------------------
\* enrolDriver: the transaction reads the ACTIVE version ...
EnrolDriver(r) ==
  /\ Begin(r, [at |-> "writeEnrolment", version |-> Latest(Active)])
  /\ UNCHANGED biometricVars

\* (variant) the partial unique index on ACTIVE is missing
OtherActiveIgnored(old) == FALSE

\* The partial unique index refuses a second ACTIVE version.
OtherActive(old) == Active \ {old} # {}

\* ... revokes it, adds the next version and marks the driver, or rolls back.
WriteEnrolment(r) ==
  LET old == call[r].version
      new == Latest(Enrolments) + 1
  IN
  /\ At(r, "writeEnrolment")
  /\ \/ OtherActive(old) /\ UNCHANGED <<template, enrolled>>
     \/ /\ ~OtherActive(old) /\ new <= MaxVersion
        /\ template' = [v \in Version |->
             CASE v = old -> [template[v] EXCEPT !.status = "REVOKED"]
               [] v = new -> [status |-> "ACTIVE", material |-> TRUE]
               [] OTHER -> template[v]]
        /\ enrolled' = TRUE
  /\ End(r)
  /\ UNCHANGED removal

\* revokeDriverFacialTemplate
RevokeTemplate(r) ==
  /\ Active # {}
  /\ Begin(r, [at |-> "writeRevocation", version |-> Latest(Active)])
  /\ UNCHANGED biometricVars

WriteRevocation(r) ==
  /\ At(r, "writeRevocation")
  /\ template' = [template EXCEPT ![call[r].version].status = "REVOKED"]
  /\ enrolled' = FALSE
  /\ End(r)
  /\ UNCHANGED removal

-------------------------------------------------------------------------------
\* requestBiometricTemplateDeletion: for the latest version that is not deleted,
\* unless it finds a request for it that is under way.
RequestRemoval(r) ==
  \E u \in User :
    LET v == Latest({w \in Enrolments : template[w].status # "DELETED"}) IN
    /\ v # 0
    /\ Begin(r, [at |-> "findRemoval", version |-> v, user |-> u])
    /\ UNCHANGED biometricVars

FindRemoval(r) ==
  LET underWay == \E d \in Removal : /\ removal[d].version = call[r].version
                                     /\ removal[d].status \in {"PENDING_APPROVAL", "APPROVED"}
  IN
  /\ At(r, "findRemoval")
  /\ IF underWay THEN End(r) ELSE Go(r, "insertRemoval")
  /\ UNCHANGED biometricVars

InsertRemoval(r) ==
  /\ At(r, "insertRemoval")
  /\ \E d \in Removal :
       /\ removal[d] = NoRemoval
       /\ removal' = [removal EXCEPT ![d] = [NoRemoval EXCEPT
            !.status = "PENDING_APPROVAL", !.version = call[r].version, !.initiator = call[r].user]]
  /\ End(r)
  /\ UNCHANGED <<template, enrolled>>

MayApprove(d, u) == removal[d].status = "PENDING_APPROVAL" /\ removal[d].initiator # u

\* approveBiometricTemplateDeletion
ApproveRemoval(r) ==
  \E d \in Removal, u \in User :
    /\ MayApprove(d, u)
    /\ Begin(r, [at |-> "writeRemovalApproval", row |-> d, user |-> u])
    /\ UNCHANGED biometricVars

WriteRemovalApproval(r) ==
  /\ At(r, "writeRemovalApproval")
  /\ removal' = [removal EXCEPT ![call[r].row] =
       [@ EXCEPT !.status = "APPROVED", !.approver = call[r].user, !.elapsed = FALSE]]
  /\ End(r)
  /\ UNCHANGED <<template, enrolled>>

RecoveryWindowElapses ==
  \E d \in Removal :
    /\ removal[d].status = "APPROVED" /\ ~removal[d].elapsed
    /\ removal' = [removal EXCEPT ![d].elapsed = TRUE]
    /\ UNCHANGED <<call, template, enrolled>>

\* completeBiometricTemplateDeletion
CompleteRemoval(r) ==
  \E d \in Removal :
    /\ removal[d].status = "APPROVED" /\ removal[d].elapsed
    /\ Begin(r, [at |-> "eraseMaterial", row |-> d])
    /\ UNCHANGED biometricVars

EraseMaterial(r) ==
  LET d == call[r].row IN
  /\ At(r, "eraseMaterial")
  /\ template' = [template EXCEPT ![removal[d].version] = [status |-> "DELETED", material |-> FALSE]]
  /\ enrolled' = FALSE
  /\ removal' = [removal EXCEPT ![d].status = "COMPLETED"]
  /\ End(r)

BiometricServes(r) ==
  \/ EnrolDriver(r) \/ WriteEnrolment(r) \/ RevokeTemplate(r) \/ WriteRevocation(r)
  \/ RequestRemoval(r) \/ FindRemoval(r) \/ InsertRemoval(r)
  \/ ApproveRemoval(r) \/ WriteRemovalApproval(r)
  \/ CompleteRemoval(r) \/ EraseMaterial(r)

BiometricNext ==
  /\ \/ \E r \in Request : BiometricServes(r) \/ (Die(r) /\ UNCHANGED biometricVars)
     \/ RecoveryWindowElapses
  /\ UNCHANGED mode

BiometricSpec == NoCalls /\ BiometricInit /\ [][BiometricNext]_<<mode, call, biometricVars>>

-------------------------------------------------------------------------------
RemovalStatus == {"NONE", "PENDING_APPROVAL", "APPROVED", "COMPLETED"}

BiometricTypeOK ==
  /\ template \in [Version -> [status : {"NONE", "ACTIVE", "REVOKED", "DELETED"}, material : BOOLEAN]]
  /\ enrolled \in BOOLEAN
  /\ removal \in [Removal -> [status : RemovalStatus, version : 0 .. MaxVersion,
                              initiator : User \cup {None}, approver : User \cup {None},
                              elapsed : BOOLEAN]]

OneActiveTemplate == \A v, w \in Active : v = w /\ template[v].material

EnrolledIsMatchable == enrolled => Active # {}

ErasureNeedsTwoUsers ==
  \A v \in Enrolments : ~template[v].material =>
    \E d \in Removal : /\ removal[d].version = v
                       /\ removal[d].approver \notin {None, removal[d].initiator}

\* However enrolments, revocations and deletions overtake each other, a driver has at
\* most one ACTIVE version, whose material is there, and has one if marked as enrolled;
\* and the material of a version is gone only after a request for that version which
\* another user than its initiator approved.
TemplatesAreAccountable == OneActiveTemplate /\ EnrolledIsMatchable /\ ErasureNeedsTwoUsers

================================================================================
