---------------------------- MODULE OperationsProofs ---------------------------
(***************************************************************************)
(* Proofs about the smaller components, each for its own specification     *)
(* and for every number of users, requests and rows.                       *)
(***************************************************************************)
EXTENDS MobileReceipts, Biometrics, Discrepancies, Notices, BillingEmails, Telematics,
        Analytics, Trackers, TLAPS, WellFoundedInduction, SequenceTheorems

-------------------------------------------------------------------------------
(***************************************************************************)
(* Billing e-mails.  Whoever hands an e-mail over inserted the delivery of *)
(* its payment, to the same contact, and nothing was mailed for the        *)
(* payment before.                                                         *)
(***************************************************************************)
EmailRow(step, contact) == [at : step, payment : Payment, todo : SUBSET Contact, to : contact]

EmailCall ==
  {Idle}
    \cup EmailRow({"nextContact"}, Contact \cup {None})
    \cup EmailRow({"handOver", "SENT", "FAILED"}, Contact)
    \cup [at : {"recordResend"}, to : Contact]

HandsOver(r, p) == call[r].at = "handOver" /\ call[r].payment = p

EmailsSound ==
  \A p \in Payment :
    /\ mailed[p] \in {<< >>, <<followUp[p].to>>}
    /\ NoFollowUp(p) => mailed[p] = << >>
    /\ \A r \in Request : HandsOver(r, p) =>
         /\ ~NoFollowUp(p) /\ mailed[p] = << >> /\ followUp[p].to = call[r].to
         /\ \A s \in Request : HandsOver(s, p) => s = r

EmailInductive == EmailTypeOK /\ call \in [Request -> EmailCall] /\ EmailsSound

\* A request goes on with its payment.
LEMMA EmailRequestGoesOn ==
  ASSUME EmailInductive, NEW r \in Request, NEW c \in EmailCall,
         call' = [call EXCEPT ![r] = c]
  PROVE  /\ call' \in [Request -> EmailCall]
         /\ call'[r] = c /\ \A s \in Request : s # r => call'[s] = call[s]
         /\ \A s \in Request, p \in Payment :
              HandsOver(s, p)' <=> IF s = r THEN c.at = "handOver" /\ c.payment = p
                                   ELSE HandsOver(s, p)
  BY DEF EmailInductive, HandsOver

LEMMA EmailStep ==
  ASSUME EmailInductive, [EmailNext]_<<mode, call, emailVars>>
  PROVE  EmailInductive'
  <1>1. CASE UNCHANGED <<mode, call, emailVars>>
    BY <1>1 DEF EmailInductive, EmailTypeOK, EmailCall, EmailRow, EmailsSound, HandsOver, NoFollowUp,
           NoDelivery, DeliveryStatus, emailVars, Idle
  <1>2. ASSUME NEW r \in Request, SendInvoiceEmail(r) PROVE EmailInductive'
    BY <1>2 DEF SendInvoiceEmail, Begin, At, Go, End, EmailInductive, EmailTypeOK, EmailCall, EmailRow, EmailsSound, HandsOver, NoFollowUp,
           NoDelivery, DeliveryStatus, emailVars, Idle
  <1>3. ASSUME NEW r \in Request, InsertDelivery(r) PROVE EmailInductive'
    <2> DEFINE q == call[r]
    <2>1. q \in EmailRow({"nextContact"}, Contact \cup {None})
      BY <1>3 DEF InsertDelivery, At, EmailInductive, EmailCall, EmailRow, Idle
    <2>2. PICK c \in q.todo :
            IF NoFollowUp(q.payment)
            THEN /\ followUp' = [followUp EXCEPT ![q.payment] = [status |-> "PENDING", to |-> c]]
                 /\ call' = [call EXCEPT ![r] =
                      [at |-> "handOver", payment |-> q.payment, todo |-> q.todo \ {c},
                       to |-> c]]
            ELSE /\ call' = [call EXCEPT ![r] = [q EXCEPT !.todo = @ \ {c}]]
                 /\ UNCHANGED followUp
      BY <1>3 DEF InsertDelivery
    <2>3. UNCHANGED <<resend, mailed>>
      BY <1>3 DEF InsertDelivery
    <2>4. q.payment \in Payment /\ c \in Contact /\ q.at = "nextContact"
      BY <2>1 DEF EmailRow
    <2>5. CASE NoFollowUp(q.payment)
      <3> DEFINE new == [at |-> "handOver", payment |-> q.payment, todo |-> q.todo \ {c},
                         to |-> c]
      <3>1. new \in EmailRow({"handOver"}, Contact) /\ new.payment = q.payment /\ new.to = c
        BY <2>1, <2>4 DEF EmailRow
      <3>2. new \in EmailCall /\ new.at = "handOver"
        BY <3>1 DEF EmailCall, EmailRow
      <3>3. /\ followUp' = [followUp EXCEPT ![q.payment] = [status |-> "PENDING", to |-> c]]
            /\ call' = [call EXCEPT ![r] = new]
        BY <2>2, <2>5
      <3> HIDE DEF new
      <3>4. EmailTypeOK'
        BY <2>3, <2>4, <3>3 DEF EmailInductive, EmailTypeOK, DeliveryStatus
      <3>5. \A p \in Payment : NoFollowUp(p)' <=> NoFollowUp(p) /\ p # q.payment
        BY <2>4, <3>3 DEF EmailInductive, EmailTypeOK, NoFollowUp, NoDelivery
      <3>6. /\ call' \in [Request -> EmailCall]
            /\ call'[r].to = c /\ \A s \in Request : s # r => call'[s] = call[s]
            /\ \A s \in Request, p \in Payment :
                 HandsOver(s, p)' <=> IF s = r THEN p = q.payment ELSE HandsOver(s, p)
        <4>1. /\ call' \in [Request -> EmailCall]
              /\ call'[r] = new /\ \A s \in Request : s # r => call'[s] = call[s]
              /\ \A s \in Request, p \in Payment :
                   HandsOver(s, p)' <=> IF s = r THEN new.at = "handOver" /\ new.payment = p
                                        ELSE HandsOver(s, p)
          BY <3>2, <3>3, EmailRequestGoesOn
        <4> QED BY <3>1, <3>2, <4>1
      <3>7. /\ mailed[q.payment] = << >>
            /\ \A s \in Request : ~HandsOver(s, q.payment)
        BY <2>4, <2>5 DEF EmailInductive, EmailsSound
      <3>8. /\ followUp'[q.payment].to = c
            /\ \A p \in Payment : p # q.payment => followUp'[p] = followUp[p]
        BY <2>4, <3>3 DEF EmailInductive, EmailTypeOK
      <3>9. EmailsSound'
        BY <2>3, <2>4, <3>5, <3>6, <3>7, <3>8 DEF EmailInductive, EmailsSound
      <3> QED BY <3>4, <3>6, <3>9 DEF EmailInductive
    <2>6. CASE ~NoFollowUp(q.payment)
      <3> DEFINE new == [q EXCEPT !.todo = @ \ {c}]
      <3>1. new \in EmailRow({"nextContact"}, Contact \cup {None})
        BY <2>1, <2>4 DEF EmailRow
      <3>2. new \in EmailCall /\ new.at = "nextContact"
        BY <3>1 DEF EmailCall, EmailRow
      <3>3. UNCHANGED followUp /\ call' = [call EXCEPT ![r] = new]
        BY <2>2, <2>6
      <3> HIDE DEF new
      <3>4. EmailTypeOK'
        BY <2>3, <3>3 DEF EmailInductive, EmailTypeOK
      <3>5. /\ call' \in [Request -> EmailCall]
            /\ \A s \in Request, p \in Payment :
                 HandsOver(s, p)' => HandsOver(s, p) /\ call'[s] = call[s]
        BY <3>2, <3>3, EmailRequestGoesOn
      <3>6. EmailsSound'
        BY <2>3, <3>3, <3>5 DEF EmailInductive, EmailsSound, NoFollowUp
      <3> QED BY <3>4, <3>5, <3>6 DEF EmailInductive
    <2> QED BY <2>5, <2>6
  <1>4. ASSUME NEW r \in Request, HandOver(r) PROVE EmailInductive'
    <2> DEFINE q == call[r]
    <2>1. q \in EmailRow({"handOver"}, Contact)
      BY <1>4 DEF HandOver, At, EmailInductive, EmailCall, EmailRow, Idle
    <2>2. PICK status \in {"SENT", "FAILED"} : call' = [call EXCEPT ![r] = [q EXCEPT !.at = status]]
      BY <1>4 DEF HandOver, Go
    <2>3. /\ mailed' = [mailed EXCEPT ![q.payment] = Append(@, q.to)]
          /\ UNCHANGED <<followUp, resend>>
      BY <1>4 DEF HandOver
    <2>4. q.payment \in Payment /\ q.to \in Contact
      BY <2>1 DEF EmailRow
    <2> DEFINE new == [q EXCEPT !.at = status]
    <2>5. new \in EmailRow({"SENT", "FAILED"}, Contact)
      BY <2>1 DEF EmailRow
    <2>6. new \in EmailCall /\ new.at # "handOver"
      BY <2>5 DEF EmailCall, EmailRow
    <2>7. /\ call' \in [Request -> EmailCall]
          /\ \A s \in Request, p \in Payment : HandsOver(s, p)' <=> HandsOver(s, p) /\ s # r
          /\ \A s \in Request : s # r => call'[s] = call[s]
      BY <2>2, <2>6, EmailRequestGoesOn
    <2>8. EmailTypeOK'
      BY <2>3, <2>4 DEF EmailInductive, EmailTypeOK
    <2>9. HandsOver(r, q.payment) /\ mailed[q.payment] = << >> /\ followUp[q.payment].to = q.to
      BY <2>1, <2>4 DEF EmailInductive, EmailsSound, HandsOver, EmailRow
    <2>10. \A p \in Payment :
             mailed'[p] = IF p = q.payment THEN <<q.to>> ELSE mailed[p]
      BY <2>3, <2>4, <2>9 DEF EmailInductive, EmailTypeOK
    <2>11. \A s \in Request : ~NoFollowUp(q.payment) /\ (HandsOver(s, q.payment) => s = r)
      BY <2>4, <2>9 DEF EmailInductive, EmailsSound
    <2>12. EmailsSound'
      BY <2>3, <2>4, <2>7, <2>9, <2>10, <2>11 DEF EmailInductive, EmailsSound, NoFollowUp
    <2> QED BY <2>7, <2>8, <2>12 DEF EmailInductive
  <1>5. ASSUME NEW r \in Request, RecordDelivery(r) PROVE EmailInductive'
    <2> DEFINE q == call[r]
               new == [q EXCEPT !.at = "nextContact"]
    <2>1. q \in EmailRow({"SENT", "FAILED"}, Contact)
      BY <1>5 DEF RecordDelivery, EmailInductive, EmailCall, EmailRow, Idle
    <2>2. /\ followUp' = [followUp EXCEPT ![q.payment].status = q.at]
          /\ call' = [call EXCEPT ![r] = new]
          /\ UNCHANGED <<resend, mailed>>
      BY <1>5 DEF RecordDelivery, Go
    <2>3. new \in EmailRow({"nextContact"}, Contact)
      BY <2>1 DEF EmailRow
    <2>4. new \in EmailCall /\ new.at = "nextContact"
      BY <2>3 DEF EmailCall, EmailRow
    <2>5. /\ call' \in [Request -> EmailCall]
          /\ \A s \in Request, p \in Payment :
               HandsOver(s, p)' => HandsOver(s, p) /\ call'[s] = call[s]
      BY <2>2, <2>4, EmailRequestGoesOn
    <2>6. q.payment \in Payment /\ q.at \in {"SENT", "FAILED"}
      BY <2>1 DEF EmailRow
    <2>7. EmailTypeOK'
      BY <2>2, <2>6 DEF EmailInductive, EmailTypeOK, DeliveryStatus
    <2>8. \A p \in Payment : NoFollowUp(p)' <=> NoFollowUp(p) /\ p # q.payment
      <3>1. \A p \in Payment : p = q.payment => followUp'[p].status = q.at
        BY <2>2, <2>6 DEF EmailInductive, EmailTypeOK
      <3>2. \A p \in Payment : p = q.payment => ~NoFollowUp(p)'
        BY <2>6, <3>1 DEF NoFollowUp, NoDelivery
      <3> QED BY <2>2, <2>6, <3>2 DEF EmailInductive, EmailTypeOK, NoFollowUp
    <2>9. \A p \in Payment : NoFollowUp(p)' => mailed[p] = << >>
      BY <2>8 DEF EmailInductive, EmailsSound
    <2>10. \A s \in Request, p \in Payment : HandsOver(s, p)' => ~NoFollowUp(p)'
      BY <2>5, <2>8 DEF EmailInductive, EmailsSound
    <2>11. \A p \in Payment : followUp'[p].to = followUp[p].to
      BY <2>2, <2>6 DEF EmailInductive, EmailTypeOK
    <2>12. EmailsSound'
      BY <2>2, <2>5, <2>9, <2>10, <2>11 DEF EmailInductive, EmailsSound
    <2> QED BY <2>5, <2>7, <2>12 DEF EmailInductive
  <1>6. ASSUME NEW r \in Request, NoContactLeft(r) PROVE EmailInductive'
    BY <1>6 DEF NoContactLeft, At, Go, End, EmailInductive, EmailTypeOK, EmailCall, EmailRow, EmailsSound, HandsOver, NoFollowUp,
           NoDelivery, DeliveryStatus, emailVars, Idle
  <1>7. ASSUME NEW r \in Request, ResendInvoiceEmail(r) PROVE EmailInductive'
    BY <1>7 DEF ResendInvoiceEmail, Begin, At, Go, End, EmailInductive, EmailTypeOK, EmailCall, EmailRow, EmailsSound, HandsOver, NoFollowUp,
           NoDelivery, DeliveryStatus, emailVars, Idle
  <1>8. ASSUME NEW r \in Request, RecordResend(r) PROVE EmailInductive'
    BY <1>8 DEF RecordResend, At, Go, End, EmailInductive, EmailTypeOK, EmailCall, EmailRow, EmailsSound, HandsOver, NoFollowUp,
           NoDelivery, DeliveryStatus, emailVars, Idle
  <1>9. ASSUME NEW r \in Request, Die(r), UNCHANGED emailVars PROVE EmailInductive'
    BY <1>9 DEF Die, At, Go, End, EmailInductive, EmailTypeOK, EmailCall, EmailRow, EmailsSound, HandsOver, NoFollowUp,
           NoDelivery, DeliveryStatus, emailVars, Idle
  <1> QED
    BY <1>1, <1>2, <1>3, <1>4, <1>5, <1>6, <1>7, <1>8, <1>9 DEF EmailNext, EmailServes

LEMMA EmailBegins == NoCalls /\ EmailInit => EmailInductive
  BY DEF NoCalls, EmailInit, EmailInductive, EmailTypeOK, EmailCall, EmailRow, EmailsSound, HandsOver,
         NoFollowUp, NoDelivery, DeliveryStatus, Idle

LEMMA EmailKeepsItsWord == EmailInductive => OneEmailPerPayment
  BY DEF EmailInductive, EmailsSound, OneEmailPerPayment

\* However often, by whom and around which deaths a payment is reported, its e-mail is
\* handed over once at most, for the contact its delivery names.
THEOREM EmailsGoOutOnce == EmailSpec => []OneEmailPerPayment
  BY EmailBegins, EmailKeepsItsWord, EmailStep, PTL DEF EmailSpec

-------------------------------------------------------------------------------
(***************************************************************************)
(* Trackers.  Two live rows share neither vehicle nor tracker, which the   *)
(* indexes see to; a row that is about to end was live once, and, one      *)
(* request at a time, still is.                                            *)
(***************************************************************************)
OneAtATime == mode.serial =>
  \A r, s \in Request : call[r] # Idle /\ call[s] # Idle => r = s

LiveRow == [vehicle : Vehicle, tracker : Tracker, live : {TRUE}]
EndedRow == [vehicle : Vehicle, tracker : Tracker, live : {FALSE}]

TrackerCall ==
  {Idle} \cup [at : {"insertMapping"}, vehicle : Vehicle, tracker : Tracker]
    \cup [at : {"writeEnd"}, row : Mapping]

RowsDistinct ==
  \A m, n \in Mapping :
    /\ mapping[m].live /\ mapping[n].live
    /\ mapping[m].vehicle = mapping[n].vehicle \/ mapping[m].tracker = mapping[n].tracker
    => m = n

EndsARow ==
  \A r \in Request : At(r, "writeEnd") =>
    /\ mapping[call[r].row] # NoMapping
    /\ mode.serial => mapping[call[r].row].live

TrackerInductive ==
  /\ mode \in Modes /\ OneAtATime
  /\ call \in [Request -> TrackerCall]
  /\ mapping \in [Mapping -> {NoMapping} \cup LiveRow \cup EndedRow]
  /\ shown \in [Vehicle -> Tracker \cup {None}]
  /\ RowsDistinct /\ EndsARow
  /\ ShownIsCarried /\ CarriedIsShown

\* The request that ends leaves nobody else in flight, and nothing to say of itself.
LEMMA RequestEnds ==
  ASSUME NEW S, Idle \in S, call \in [Request -> S], OneAtATime, mode' = mode,
         NEW r \in Request, End(r)
  PROVE  /\ call' \in [Request -> S]
         /\ OneAtATime'
         /\ call'[r] = Idle
         /\ \A s \in Request : s # r => call'[s] = call[s]
  BY DEF End, OneAtATime

LEMMA TrackerRequestEnds ==
  ASSUME TrackerInductive, mode' = mode, NEW r \in Request, End(r)
  PROVE  /\ call' \in [Request -> TrackerCall] /\ OneAtATime'
         /\ \A s \in Request : At(s, "writeEnd")' => s # r /\ call'[s] = call[s]
  <1>1. Idle \in TrackerCall /\ call \in [Request -> TrackerCall] /\ OneAtATime
    BY DEF TrackerCall, TrackerInductive
  <1>2. /\ call' \in [Request -> TrackerCall] /\ OneAtATime' /\ call'[r] = Idle
        /\ \A s \in Request : s # r => call'[s] = call[s]
    BY <1>1, RequestEnds
  <1> QED BY <1>2 DEF At, Idle

LEMMA TrackerRequestBegins ==
  ASSUME TrackerInductive, mode' = mode, NEW r \in Request, NEW q \in TrackerCall, Begin(r, q)
  PROVE  /\ call' \in [Request -> TrackerCall] /\ OneAtATime'
         /\ call'[r] = q
         /\ \A s \in Request : s # r => call'[s] = call[s]
  BY DEF TrackerInductive, Begin, OneAtATime, Quiescent

LEMMA TrackerStep ==
  ASSUME TrackerInductive, [TrackerNext]_<<mode, call, trackerVars>>
  PROVE  TrackerInductive'
  <1>1. CASE UNCHANGED <<mode, call, trackerVars>>
    BY <1>1 DEF TrackerInductive, trackerVars, OneAtATime, RowsDistinct, EndsARow, At,
                ShownIsCarried, CarriedIsShown, Carries
  <1>2. ASSUME NEW r \in Request, CreateMapping(r), mode' = mode PROVE TrackerInductive'
    <2>1. PICK v \in Vehicle, t \in Tracker :
            Begin(r, [at |-> "insertMapping", vehicle |-> v, tracker |-> t])
      BY <1>2 DEF CreateMapping
    <2>2. [at |-> "insertMapping", vehicle |-> v, tracker |-> t] \in TrackerCall
      BY DEF TrackerCall
    <2>3. /\ call' \in [Request -> TrackerCall] /\ OneAtATime'
          /\ call'[r] = [at |-> "insertMapping", vehicle |-> v, tracker |-> t]
          /\ \A s \in Request : s # r => call'[s] = call[s]
      BY <1>2, <2>1, <2>2, TrackerRequestBegins
    <2>5. \A s \in Request : At(s, "writeEnd")' => At(s, "writeEnd") /\ call'[s] = call[s]
      BY <2>3 DEF At
    <2>4. UNCHANGED trackerVars
      BY <1>2 DEF CreateMapping
    <2> QED BY <1>2, <2>3, <2>4, <2>5 DEF TrackerInductive, trackerVars, RowsDistinct, EndsARow,
                                    ShownIsCarried, CarriedIsShown, Carries
  <1>3. ASSUME NEW r \in Request, InsertMapping(r), mode' = mode PROVE TrackerInductive'
    <2> DEFINE q == call[r]
    <2>1. q.vehicle \in Vehicle /\ q.tracker \in Tracker
      BY <1>3 DEF InsertMapping, At, TrackerInductive, TrackerCall, Idle
    <2>2. /\ call' \in [Request -> TrackerCall] /\ OneAtATime'
          /\ \A s \in Request : At(s, "writeEnd")' => At(s, "writeEnd") /\ call'[s] = call[s]
      <3>1. End(r)
        BY <1>3 DEF InsertMapping
      <3> QED BY <1>3, <3>1, TrackerRequestEnds DEF At
    <2>3. CASE UNCHANGED trackerVars
      BY <1>3, <2>2, <2>3 DEF TrackerInductive, trackerVars, RowsDistinct, EndsARow,
                              ShownIsCarried, CarriedIsShown, Carries
    <2>4. CASE ~UNCHANGED trackerVars
      <3>1. PICK m \in Mapping :
              /\ mapping[m] = NoMapping
              /\ mapping' = [mapping EXCEPT ![m] =
                   [vehicle |-> q.vehicle, tracker |-> q.tracker, live |-> TRUE]]
        BY <1>3, <2>4 DEF InsertMapping
      <3>2. shown' = [shown EXCEPT ![q.vehicle] = q.tracker] /\ ~Taken(q.vehicle, q.tracker)
        BY <1>3, <2>4 DEF InsertMapping
      <3>3. mapping' \in [Mapping -> {NoMapping} \cup LiveRow \cup EndedRow]
        BY <2>1, <3>1 DEF TrackerInductive, LiveRow
      <3>4. RowsDistinct'
        BY <2>1, <3>1, <3>2 DEF TrackerInductive, RowsDistinct, Taken
      <3>5. EndsARow'
        <4> SUFFICES ASSUME NEW s \in Request, At(s, "writeEnd")'
                     PROVE  /\ mapping'[call'[s].row] # NoMapping
                            /\ mode.serial => mapping'[call'[s].row].live
          BY <1>3 DEF EndsARow
        <4>1. /\ At(s, "writeEnd") /\ call'[s] = call[s] /\ call[s].row \in Mapping
              /\ mapping[call[s].row] # NoMapping
              /\ mode.serial => mapping[call[s].row].live
          BY <2>2 DEF TrackerInductive, EndsARow, At, TrackerCall, Idle
        <4> QED BY <3>1, <4>1 DEF TrackerInductive
      <3>6. \A v \in Vehicle, t \in Tracker :
              Carries(v, t)' <=> Carries(v, t) \/ (v = q.vehicle /\ t = q.tracker)
        <4>1. NoMapping.live = FALSE
          BY DEF NoMapping
        <4>2. mapping \in [Mapping -> {NoMapping} \cup LiveRow \cup EndedRow]
          BY DEF TrackerInductive
        <4> SUFFICES ASSUME NEW v \in Vehicle, NEW t \in Tracker
                     PROVE  Carries(v, t)' <=> Carries(v, t) \/ (v = q.vehicle /\ t = q.tracker)
          OBVIOUS
        <4>3. ASSUME NEW n \in Mapping, mapping'[n] = [vehicle |-> v, tracker |-> t, live |-> TRUE]
              PROVE  Carries(v, t) \/ (v = q.vehicle /\ t = q.tracker)
          BY <3>1, <4>2, <4>3 DEF Carries
        <4>4. ASSUME NEW n \in Mapping, mapping[n] = [vehicle |-> v, tracker |-> t, live |-> TRUE]
              PROVE  Carries(v, t)'
          <5>1. n # m
            BY <3>1, <4>1, <4>4
          <5> QED BY <3>1, <4>2, <4>4, <5>1 DEF Carries
        <4>5. ASSUME v = q.vehicle, t = q.tracker PROVE Carries(v, t)'
          BY <3>1, <4>2, <4>5 DEF Carries
        <4> QED BY <4>3, <4>4, <4>5 DEF Carries
      <3>7. \A t \in Tracker : ~Carries(q.vehicle, t)
        BY <3>2 DEF Carries, Taken
      <3>8. None \notin Tracker
        BY TrackerAssumption
      <3>9. ShownIsCarried'
        BY <2>1, <3>2, <3>6 DEF TrackerInductive, ShownIsCarried
      <3>10. CarriedIsShown'
        BY <1>3, <2>1, <3>2, <3>6, <3>7 DEF TrackerInductive, CarriedIsShown
      <3>11. shown' \in [Vehicle -> Tracker \cup {None}]
        BY <2>1, <3>2 DEF TrackerInductive
      <3> QED BY <1>3, <2>2, <3>3, <3>4, <3>5, <3>9, <3>10, <3>11 DEF TrackerInductive
    <2> QED BY <2>3, <2>4
  <1>4. ASSUME NEW r \in Request, EndMapping(r), mode' = mode PROVE TrackerInductive'
    <2>1. PICK m \in Mapping : mapping[m].live /\ Begin(r, [at |-> "writeEnd", row |-> m])
      BY <1>4 DEF EndMapping
    <2>2. [at |-> "writeEnd", row |-> m] \in TrackerCall
      BY DEF TrackerCall
    <2>3. /\ call' \in [Request -> TrackerCall] /\ OneAtATime'
          /\ call'[r] = [at |-> "writeEnd", row |-> m]
          /\ \A s \in Request : s # r => call'[s] = call[s]
      BY <1>4, <2>1, <2>2, TrackerRequestBegins
    <2>4. UNCHANGED trackerVars
      BY <1>4 DEF EndMapping
    <2>5. mapping[m] # NoMapping
      BY <2>1 DEF NoMapping
    <2>6. EndsARow'
      BY <1>4, <2>1, <2>3, <2>4, <2>5 DEF TrackerInductive, EndsARow, At, trackerVars
    <2> QED BY <1>4, <2>3, <2>4, <2>6 DEF TrackerInductive, trackerVars, RowsDistinct,
                                          ShownIsCarried, CarriedIsShown, Carries
  <1>5. ASSUME NEW r \in Request, WriteEnd(r), mode' = mode PROVE TrackerInductive'
    <2> DEFINE m == call[r].row
               v == mapping[m].vehicle
               t == mapping[m].tracker
    <2>1. At(r, "writeEnd") /\ m \in Mapping /\ mapping[m] # NoMapping
      BY <1>5 DEF WriteEnd, TrackerInductive, TrackerCall, EndsARow, At, Idle
    <2>2. /\ v \in Vehicle /\ t \in Tracker /\ mapping[m].live \in BOOLEAN
          /\ mapping[m] \in LiveRow \cup EndedRow
      BY <2>1 DEF TrackerInductive, LiveRow, EndedRow
    <2>3. /\ mapping' = [mapping EXCEPT ![m] = [mapping[m] EXCEPT !.live = FALSE]]
          /\ shown' = [shown EXCEPT ![v] = IF shown[v] = t THEN None ELSE shown[v]]
      BY <1>5 DEF WriteEnd
    <2>4. [mapping[m] EXCEPT !.live = FALSE] \in EndedRow
      BY <2>2 DEF LiveRow, EndedRow
    <2>5. /\ mapping' \in [Mapping -> {NoMapping} \cup LiveRow \cup EndedRow]
          /\ shown' \in [Vehicle -> Tracker \cup {None}]
      BY <2>1, <2>2, <2>3, <2>4 DEF TrackerInductive
    <2>6. /\ call' \in [Request -> TrackerCall] /\ OneAtATime'
          /\ \A s \in Request : At(s, "writeEnd")' => s # r /\ call'[s] = call[s]
      <3>1. End(r)
        BY <1>5 DEF WriteEnd
      <3> QED BY <1>5, <3>1, TrackerRequestEnds
    <2>7. ~mapping'[m].live /\ \A n \in Mapping : n # m => mapping'[n] = mapping[n]
      BY <2>1, <2>3, <2>4 DEF TrackerInductive, EndedRow
    <2>8. RowsDistinct'
      BY <2>7 DEF TrackerInductive, RowsDistinct
    <2>9. EndsARow'
      <3> SUFFICES ASSUME NEW s \in Request, At(s, "writeEnd")'
                   PROVE  /\ mapping'[call'[s].row] # NoMapping
                          /\ mode.serial => mapping'[call'[s].row].live
        BY <1>5 DEF EndsARow
      <3>1. s # r /\ call'[s] = call[s]
        BY <2>6
      <3>2. ~mode.serial
        BY <2>1, <3>1 DEF TrackerInductive, OneAtATime, At, Idle
      <3>3. call[s].row \in Mapping /\ mapping[call[s].row] # NoMapping
        BY <3>1 DEF TrackerInductive, TrackerCall, EndsARow, At, Idle
      <3>4. mapping'[m] # NoMapping
        <4>1. mapping'[m].vehicle = v
          BY <2>1, <2>2, <2>3 DEF TrackerInductive, LiveRow, EndedRow
        <4> QED BY <2>2, <4>1, TrackerAssumption DEF NoMapping
      <3> QED BY <2>7, <3>1, <3>2, <3>3, <3>4
    <2>10. \A w \in Vehicle, u \in Tracker :
             Carries(w, u)' <=> Carries(w, u) /\ ~(mapping[m].live /\ w = v /\ u = t)
      <3> SUFFICES ASSUME NEW w \in Vehicle, NEW u \in Tracker
                   PROVE  Carries(w, u)' <=>
                            Carries(w, u) /\ ~(mapping[m].live /\ w = v /\ u = t)
        OBVIOUS
      <3>1. ASSUME NEW n \in Mapping, mapping'[n] = [vehicle |-> w, tracker |-> u, live |-> TRUE]
            PROVE  Carries(w, u) /\ ~(mapping[m].live /\ w = v /\ u = t)
        <4>1. n # m /\ mapping[n] = mapping'[n] /\ mapping[n].live /\ mapping[n].vehicle = w
          BY <2>7, <3>1
        <4> QED BY <2>1, <3>1, <4>1 DEF Carries, TrackerInductive, RowsDistinct
      <3>2. ASSUME NEW n \in Mapping, mapping[n] = [vehicle |-> w, tracker |-> u, live |-> TRUE],
                   ~(mapping[m].live /\ w = v /\ u = t)
            PROVE  Carries(w, u)'
        <4>1. n # m
          BY <3>2
        <4> QED BY <2>7, <3>2, <4>1 DEF Carries
      <3> QED BY <3>1, <3>2 DEF Carries
    <2>11. \A w \in Vehicle : shown'[w] = IF w = v /\ shown[w] = t THEN None ELSE shown[w]
      BY <2>2, <2>3 DEF TrackerInductive
    <2>12. ShownIsCarried'
      BY <2>5, <2>10, <2>11 DEF TrackerInductive, ShownIsCarried
    <2>13. CarriedIsShown'
      <3> SUFFICES ASSUME mode.serial, NEW w \in Vehicle, NEW u \in Tracker, Carries(w, u)'
                   PROVE  shown'[w] = u
        BY <1>5 DEF CarriedIsShown
      <3>1. mapping[m].live
        BY <2>1 DEF TrackerInductive, EndsARow
      <3>2. Carries(w, u) /\ ~(w = v /\ u = t)
        BY <2>10, <3>1
      <3> QED BY <2>11, <3>2 DEF TrackerInductive, CarriedIsShown
    <2> QED BY <1>5, <2>5, <2>6, <2>8, <2>9, <2>12, <2>13 DEF TrackerInductive
  <1>6. ASSUME NEW r \in Request, Die(r), UNCHANGED trackerVars, mode' = mode
        PROVE  TrackerInductive'
    <2>1. /\ call' \in [Request -> TrackerCall] /\ OneAtATime'
          /\ \A s \in Request : At(s, "writeEnd")' => At(s, "writeEnd") /\ call'[s] = call[s]
      <3>1. End(r)
        BY <1>6 DEF Die
      <3> QED BY <1>6, <3>1, TrackerRequestEnds DEF At
    <2> QED BY <1>6, <2>1 DEF TrackerInductive, trackerVars, RowsDistinct, EndsARow,
                              ShownIsCarried, CarriedIsShown, Carries
  <1> QED
    BY <1>1, <1>2, <1>3, <1>4, <1>5, <1>6 DEF TrackerNext, TrackerServes

LEMMA TrackerBegins == NoCalls /\ TrackerInit => TrackerInductive
  BY DEF NoCalls, TrackerInit, TrackerInductive, OneAtATime, TrackerCall, NoMapping, Idle,
         RowsDistinct, EndsARow, At, ShownIsCarried, CarriedIsShown, Carries

LEMMA TrackerKeepsItsWord ==
  ASSUME TrackerInductive
  PROVE  TrackersAreShown
  <1>1. ASSUME NEW v \in Vehicle, NEW w \in Vehicle, NEW s \in Tracker, NEW t \in Tracker,
               Carries(v, s), Carries(w, t)
        PROVE  v = w <=> s = t
    <2>1. PICK m \in Mapping : mapping[m] = [vehicle |-> v, tracker |-> s, live |-> TRUE]
      BY <1>1 DEF Carries
    <2>2. PICK n \in Mapping : mapping[n] = [vehicle |-> w, tracker |-> t, live |-> TRUE]
      BY <1>1 DEF Carries
    <2>3. /\ mapping[m].live /\ mapping[m].vehicle = v /\ mapping[m].tracker = s
          /\ mapping[n].live /\ mapping[n].vehicle = w /\ mapping[n].tracker = t
      BY <2>1, <2>2
    <2>4. v = w \/ s = t => m = n
      BY <2>3 DEF TrackerInductive, RowsDistinct
    <2> QED BY <2>3, <2>4
  <1> QED BY <1>1 DEF TrackerInductive, TrackersAreShown, OneTrackerEach

\* Whatever creations and ends of mappings cross, vehicles and trackers stay paired one
\* to one, and the columns of a vehicle show no tracker that it does not carry.
THEOREM VehiclesShowTheirTracker == TrackerSpec => []TrackersAreShown
  BY TrackerBegins, TrackerKeepsItsWord, TrackerStep, PTL DEF TrackerSpec

-------------------------------------------------------------------------------
(***************************************************************************)
(* Discrepancies.  Nothing reopens one, so a count that found none open    *)
(* stays true until it is written; one request at a time every count does, *)
(* and whoever closes the last one is on the way to write RESOLVED.        *)
(***************************************************************************)
DiscrepancyCall ==
  {Idle} \cup [at : {"writeResolved", "countOpen"}, row : Discrepancy]
    \cup [at : {"writeReconciled"}, to : {"OPEN", "RESOLVED"}]

CountsHold ==
  \A r \in Request : At(r, "writeReconciled") =>
    /\ call[r].to = "RESOLVED" => open = {}
    /\ mode.serial /\ open = {} => call[r].to = "RESOLVED"

SomebodyCloses ==
  mode.serial /\ ~mode.faults /\ open = {} /\ reconciled # "RESOLVED" =>
    \E r \in Request : At(r, "countOpen") \/ At(r, "writeReconciled")

DiscrepancyInductive ==
  /\ mode \in Modes /\ OneAtATime
  /\ call \in [Request -> DiscrepancyCall]
  /\ DiscrepancyTypeOK
  /\ CountsHold /\ SomebodyCloses
  /\ reconciled = "RESOLVED" => open = {}

LEMMA DiscrepancyRequestMoves ==
  ASSUME DiscrepancyInductive, mode' = mode, NEW r \in Request, NEW q \in DiscrepancyCall,
         call' = [call EXCEPT ![r] = q], call[r] # Idle \/ (mode.serial => Quiescent)
  PROVE  /\ call' \in [Request -> DiscrepancyCall] /\ OneAtATime'
         /\ call'[r] = q
         /\ \A s \in Request : s # r => call'[s] = call[s]
  BY DEF DiscrepancyInductive, OneAtATime, Quiescent

LEMMA DiscrepancyStep ==
  ASSUME DiscrepancyInductive, [DiscrepancyNext]_<<mode, call, discrepancyVars>>
  PROVE  DiscrepancyInductive'
  <1>1. CASE UNCHANGED <<mode, call, discrepancyVars>>
    BY <1>1 DEF DiscrepancyInductive, discrepancyVars, OneAtATime, CountsHold, SomebodyCloses,
                DiscrepancyTypeOK, At
  <1>2. ASSUME NEW r \in Request, ResolveDiscrepancy(r), mode' = mode
        PROVE  DiscrepancyInductive'
    <2>1. PICK d \in open :
            /\ call[r] = Idle /\ (mode.serial => Quiescent)
            /\ call' = [call EXCEPT ![r] = [at |-> "writeResolved", row |-> d]]
      BY <1>2 DEF ResolveDiscrepancy, Begin
    <2>2. UNCHANGED discrepancyVars
      BY <1>2 DEF ResolveDiscrepancy
    <2>3. [at |-> "writeResolved", row |-> d] \in DiscrepancyCall
      BY <2>1 DEF DiscrepancyCall, DiscrepancyInductive, DiscrepancyTypeOK
    <2>4. /\ call' \in [Request -> DiscrepancyCall] /\ OneAtATime'
          /\ call'[r] = [at |-> "writeResolved", row |-> d]
          /\ \A s \in Request : s # r => call'[s] = call[s]
      BY <1>2, <2>1, <2>3, DiscrepancyRequestMoves
    <2> QED BY <1>2, <2>1, <2>2, <2>4
            DEF DiscrepancyInductive, discrepancyVars, CountsHold, SomebodyCloses,
                DiscrepancyTypeOK, At, Idle
  <1>3. ASSUME NEW r \in Request, WriteResolved(r), mode' = mode
        PROVE  DiscrepancyInductive'
    <2>1. call[r] \in [at : {"writeResolved"}, row : Discrepancy]
      BY <1>3 DEF WriteResolved, At, DiscrepancyInductive, DiscrepancyCall, Idle
    <2> DEFINE q == [call[r] EXCEPT !.at = "countOpen"]
    <2>2. q \in [at : {"countOpen"}, row : Discrepancy]
      BY <2>1
    <2>3. q \in DiscrepancyCall /\ q.at = "countOpen" /\ call[r] # Idle
      BY <2>1, <2>2 DEF DiscrepancyCall, Idle
    <2>4. /\ open' = open \ {call[r].row} /\ UNCHANGED reconciled
          /\ call' = [call EXCEPT ![r] = q]
      BY <1>3 DEF WriteResolved, Go
    <2>5. /\ call' \in [Request -> DiscrepancyCall] /\ OneAtATime'
          /\ call'[r] = q
          /\ \A s \in Request : s # r => call'[s] = call[s]
      BY <1>3, <2>3, <2>4, DiscrepancyRequestMoves
    <2>6. CountsHold'
      <3> SUFFICES ASSUME NEW s \in Request, At(s, "writeReconciled")'
                   PROVE  /\ call'[s].to = "RESOLVED" => open' = {}
                          /\ mode.serial /\ open' = {} => call'[s].to = "RESOLVED"
        BY <1>3 DEF CountsHold
      <3>1. s # r /\ call'[s] = call[s] /\ At(s, "writeReconciled")
        BY <2>3, <2>5 DEF At
      <3>2. ~mode.serial
        BY <2>3, <3>1 DEF DiscrepancyInductive, OneAtATime, At, Idle
      <3> QED BY <2>4, <3>1, <3>2 DEF DiscrepancyInductive, CountsHold
    <2>7. At(r, "countOpen")'
      BY <2>3, <2>5 DEF At
    <2> QED BY <1>3, <2>4, <2>5, <2>6, <2>7
            DEF DiscrepancyInductive, SomebodyCloses, DiscrepancyTypeOK
  <1>4. ASSUME NEW r \in Request, CountOpen(r), mode' = mode
        PROVE  DiscrepancyInductive'
    <2> DEFINE q == [at |-> "writeReconciled", to |-> Derived(r)]
    <2>1. q \in DiscrepancyCall /\ call[r] # Idle /\ call' = [call EXCEPT ![r] = q]
      BY <1>4 DEF CountOpen, At, Idle, DiscrepancyCall, Derived
    <2>2. UNCHANGED discrepancyVars
      BY <1>4 DEF CountOpen
    <2> HIDE DEF q
    <2>3. /\ call' \in [Request -> DiscrepancyCall] /\ OneAtATime'
          /\ call'[r] = q
          /\ \A s \in Request : s # r => call'[s] = call[s]
      BY <1>4, <2>1, DiscrepancyRequestMoves
    <2>4. call'[r].at = "writeReconciled" /\ (call'[r].to = "RESOLVED" <=> open = {})
      BY <2>3 DEF q, Derived
    <2>5. CountsHold'
      BY <1>4, <2>2, <2>3, <2>4 DEF DiscrepancyInductive, CountsHold, discrepancyVars, At
    <2>6. At(r, "writeReconciled")'
      BY <2>4 DEF At
    <2> QED BY <1>4, <2>2, <2>3, <2>5, <2>6
            DEF DiscrepancyInductive, SomebodyCloses, DiscrepancyTypeOK, discrepancyVars
  <1>5. ASSUME NEW r \in Request, WriteReconciled(r), mode' = mode
        PROVE  DiscrepancyInductive'
    <2>1. /\ call[r].at = "writeReconciled" /\ call[r].to \in {"OPEN", "RESOLVED"}
          /\ call[r] # Idle
      BY <1>5 DEF WriteReconciled, At, DiscrepancyInductive, DiscrepancyCall, Idle
    <2>2. /\ reconciled' = call[r].to /\ UNCHANGED open
          /\ call' = [call EXCEPT ![r] = Idle]
      BY <1>5 DEF WriteReconciled, End
    <2>3. Idle \in DiscrepancyCall
      BY DEF DiscrepancyCall
    <2>4. /\ call' \in [Request -> DiscrepancyCall] /\ OneAtATime'
          /\ call'[r] = Idle
          /\ \A s \in Request : s # r => call'[s] = call[s]
      BY <1>5, <2>1, <2>2, <2>3, DiscrepancyRequestMoves
    <2>5. CountsHold'
      BY <1>5, <2>2, <2>4 DEF DiscrepancyInductive, CountsHold, At, Idle
    <2>6. /\ reconciled' = "RESOLVED" => open = {}
          /\ mode.serial /\ open = {} => reconciled' = "RESOLVED"
      BY <2>1, <2>2 DEF DiscrepancyInductive, CountsHold, At
    <2> QED BY <1>5, <2>1, <2>2, <2>4, <2>5, <2>6
            DEF DiscrepancyInductive, SomebodyCloses, DiscrepancyTypeOK
  <1>6. ASSUME NEW r \in Request, Die(r), UNCHANGED discrepancyVars, mode' = mode
        PROVE  DiscrepancyInductive'
    <2>1. mode.faults /\ call[r] # Idle /\ call' = [call EXCEPT ![r] = Idle]
      BY <1>6 DEF Die, End
    <2>2. Idle \in DiscrepancyCall
      BY DEF DiscrepancyCall
    <2>3. /\ call' \in [Request -> DiscrepancyCall] /\ OneAtATime'
          /\ call'[r] = Idle
          /\ \A s \in Request : s # r => call'[s] = call[s]
      BY <1>6, <2>1, <2>2, DiscrepancyRequestMoves
    <2> QED BY <1>6, <2>1, <2>3
            DEF DiscrepancyInductive, CountsHold, SomebodyCloses, DiscrepancyTypeOK,
                discrepancyVars, At, Idle
  <1> QED
    BY <1>1, <1>2, <1>3, <1>4, <1>5, <1>6 DEF DiscrepancyNext, DiscrepancyServes

LEMMA DiscrepancyBegins == NoCalls /\ DiscrepancyInit => DiscrepancyInductive
  BY FoundAssumption
     DEF NoCalls, DiscrepancyInit, DiscrepancyInductive, OneAtATime, DiscrepancyCall, Idle,
         DiscrepancyTypeOK, CountsHold, SomebodyCloses, At

LEMMA DiscrepancyKeepsItsWord == DiscrepancyInductive => StatusFollowsDiscrepancies
  BY DEF DiscrepancyInductive, StatusFollowsDiscrepancies, SomebodyCloses, Quiescent, At, Idle

\* However the updates and counts of several people cross, RESOLVED is true; and one at a
\* time, without deaths, it is written in the end.
THEOREM ResolvedIsTrue == DiscrepancySpec => []StatusFollowsDiscrepancies
  BY DiscrepancyBegins, DiscrepancyKeepsItsWord, DiscrepancyStep, PTL DEF DiscrepancySpec

-------------------------------------------------------------------------------
(***************************************************************************)
(* Mobile receipts.  A receipt IN_PROGRESS has at most one request working *)
(* for it, which is the only one to write it; a key without a receipt, or  *)
(* whose work is yet to do, has had no effect but what a run that threw    *)
(* has left, and a COMPLETED one tells its only effect.                    *)
(***************************************************************************)
MobileCall == {Idle} \cup [at : MobileStep, key : Key, body : Body]

WorksFor(r, k) == call[r].at \in {"run", "finish", "complete", "release"} /\ call[r].key = k

WorkSound(r, k) ==
  /\ receipt[k].status = "IN_PROGRESS" /\ receipt[k].body = call[r].body
  /\ effect[k] = IF call[r].at = "complete" THEN <<call[r].body>> ELSE << >>
  /\ call[r].at = "finish" => call[r].body \in begun[k]
  /\ \A s \in Request : WorksFor(s, k) => s = r

WorkersSound == \A r \in Request, k \in Key : WorksFor(r, k) => WorkSound(r, k)

ReceiptsSound ==
  \A k \in Key :
    /\ receipt[k].status = "NONE" => receipt[k] = NoReceipt /\ effect[k] = << >>
    /\ receipt[k].status = "COMPLETED" => effect[k] = <<receipt[k].body>>
    /\ answered[k] # {} => effect[k] # << >> /\ answered[k] = {effect[k][1]}

MobileInductive == MobileTypeOK /\ WorkersSound /\ ReceiptsSound

\* A request that works for nobody, or goes on, takes no other's work.
LEMMA MobileRequestMoves ==
  ASSUME MobileInductive, NEW r \in Request, NEW c \in MobileCall,
         call' = [call EXCEPT ![r] = c]
  PROVE  /\ call' \in [Request -> MobileCall]
         /\ call'[r] = c
         /\ \A s \in Request : s # r => call'[s] = call[s]
         /\ \A k \in Key : WorksFor(r, k)' <=> c.at \in {"run", "finish", "complete", "release"} /\ c.key = k
         /\ \A s \in Request \ {r}, k \in Key : WorksFor(s, k)' <=> WorksFor(s, k)
  BY DEF MobileInductive, MobileTypeOK, MobileCall, WorksFor

LEMMA MobileRequestEnds ==
  ASSUME MobileInductive, NEW r \in Request, End(r)
  PROVE  /\ call' \in [Request -> MobileCall]
         /\ \A s \in Request : s # r => call'[s] = call[s]
         /\ \A s \in Request, k \in Key : WorksFor(s, k)' => s # r /\ WorksFor(s, k)
  <1>1. Idle \in MobileCall
    BY DEF MobileCall
  <1>2. call' = [call EXCEPT ![r] = Idle]
    BY DEF End
  <1>3. /\ call' \in [Request -> MobileCall]
        /\ \A s \in Request : s # r => call'[s] = call[s]
        /\ \A k \in Key : WorksFor(r, k)' <=> Idle.at \in {"run", "finish", "complete", "release"} /\ Idle.key = k
        /\ \A s \in Request \ {r}, k \in Key : WorksFor(s, k)' <=> WorksFor(s, k)
    BY <1>1, <1>2, MobileRequestMoves
  <1>4. Idle.at \notin {"run", "finish", "complete", "release"}
    BY DEF Idle
  <1> QED BY <1>3, <1>4

LEMMA MobileInFlight ==
  ASSUME MobileInductive, NEW r \in Request, call[r].at # "idle"
  PROVE  /\ call[r] \in [at : MobileStep, key : Key, body : Body]
         /\ call[r].key \in Key /\ call[r].body \in Body
         /\ call[r].at \in {"run", "finish", "complete", "release"} => WorksFor(r, call[r].key)
  BY DEF MobileInductive, MobileTypeOK, Idle, WorksFor

LEMMA MobileStepKeeps ==
  ASSUME MobileInductive, [MobileNext]_<<mode, call, mobileVars>>
  PROVE  MobileInductive'
  <1>1. CASE UNCHANGED <<mode, call, mobileVars>>
    <2>1. UNCHANGED <<mode, call, receipt, begun, effect, answered>>
      BY <1>1 DEF mobileVars
    <2>2. MobileTypeOK'
      BY <2>1 DEF MobileInductive, MobileTypeOK
    <2>3. WorkersSound'
      BY <2>1 DEF MobileInductive, WorkersSound, WorkSound, WorksFor
    <2>4. ReceiptsSound'
      BY <2>1 DEF MobileInductive, ReceiptsSound
    <2> QED BY <2>2, <2>3, <2>4 DEF MobileInductive
  <1>2. ASSUME NEW r \in Request, InsertReceipt(r), mode' = mode PROVE MobileInductive'
    <2>1. PICK k \in Key, b \in Body :
            /\ call[r] = Idle
            /\ call' = [call EXCEPT ![r] =
                 [at |-> IF receipt[k] = NoReceipt THEN "run" ELSE "readReceipt", key |-> k, body |-> b]]
            /\ receipt' = IF receipt[k] = NoReceipt
                 THEN [receipt EXCEPT ![k] = [status |-> "IN_PROGRESS", body |-> b]] ELSE receipt
            /\ UNCHANGED <<begun, effect, answered>>
      BY <1>2 DEF InsertReceipt, Begin
    <2> DEFINE c == [at |-> IF receipt[k] = NoReceipt THEN "run" ELSE "readReceipt",
                     key |-> k, body |-> b]
    <2>2. c \in MobileCall /\ c \in [at : MobileStep, key : Key, body : Body]
      BY DEF MobileCall, MobileStep
    <2>3. /\ c.at \in {"run", "finish", "complete", "release"} <=> receipt[k] = NoReceipt
          /\ c.key = k /\ c.body = b
      OBVIOUS
    <2>8. call' = [call EXCEPT ![r] = c]
      BY <2>1
    <2> HIDE DEF c
    <2>9. /\ call' \in [Request -> MobileCall] /\ call'[r] = c
          /\ \A s \in Request : s # r => call'[s] = call[s]
          /\ \A j \in Key : WorksFor(r, j)' <=> receipt[k] = NoReceipt /\ k = j
          /\ \A s \in Request \ {r}, j \in Key : WorksFor(s, j)' <=> WorksFor(s, j)
      BY <2>2, <2>3, <2>8, MobileRequestMoves
    <2>4. receipt[k] = NoReceipt => effect[k] = << >> /\ \A s \in Request : ~WorksFor(s, k)
      <3> SUFFICES ASSUME receipt[k] = NoReceipt
                   PROVE  effect[k] = << >> /\ \A s \in Request : ~WorksFor(s, k)
        OBVIOUS
      <3>1. receipt[k].status = "NONE"
        BY DEF NoReceipt
      <3>2. \A s \in Request : WorksFor(s, k) => receipt[k].status = "IN_PROGRESS"
        BY DEF MobileInductive, WorkersSound, WorkSound
      <3> QED BY <3>1, <3>2 DEF MobileInductive, ReceiptsSound
    <2>5. MobileTypeOK'
      BY <1>2, <2>1, <2>9 DEF MobileInductive, MobileTypeOK, MobileCall
    <2>6. WorkersSound'
      <3> SUFFICES ASSUME NEW s \in Request, NEW j \in Key, WorksFor(s, j)'
                   PROVE  WorkSound(s, j)'
        BY DEF WorkersSound
      <3>1. CASE s = r
        <4>1. receipt[k] = NoReceipt /\ j = k
          BY <2>9, <3>1
        <4> QED BY <2>1, <2>3, <2>4, <2>9, <3>1, <4>1 DEF WorkSound, MobileInductive, MobileTypeOK
      <3>2. CASE s # r
        <4>1. WorksFor(s, j) /\ WorkSound(s, j)
          BY <2>9, <3>2 DEF MobileInductive, WorkersSound
        <4>2. ~(receipt[k] = NoReceipt /\ j = k)
          BY <2>4, <4>1
        <4> QED BY <2>1, <2>9, <3>2, <4>1, <4>2 DEF WorkSound, MobileInductive, MobileTypeOK
      <3> QED BY <3>1, <3>2
    <2>7. ReceiptsSound'
      BY <2>1, <2>4 DEF MobileInductive, MobileTypeOK, ReceiptsSound, NoReceipt
    <2> QED BY <2>5, <2>6, <2>7 DEF MobileInductive
  <1>3. ASSUME NEW r \in Request, ReadReceipt(r), mode' = mode PROVE MobileInductive'
    <2>1. PICK q \in [at : MobileStep, key : Key, body : Body] : q = call[r] /\ q.at = "readReceipt"
      BY <1>3, MobileInFlight DEF ReadReceipt, At
    <2>2. /\ call' \in [Request -> MobileCall]
          /\ \A s \in Request : s # r => call'[s] = call[s]
          /\ \A s \in Request, j \in Key : WorksFor(s, j)' => s # r /\ WorksFor(s, j)
      BY <1>3, MobileRequestEnds DEF ReadReceipt
    <2>3. UNCHANGED <<receipt, begun, effect>> /\ answered' = IF Replays(q)
            THEN [answered EXCEPT ![q.key] = @ \cup {q.body}] ELSE answered
      BY <1>3, <2>1 DEF ReadReceipt, Answer
    <2>4. Replays(q) => effect[q.key] = <<q.body>>
      BY DEF Replays, MobileInductive, ReceiptsSound
    <2>5. MobileTypeOK'
      BY <1>3, <2>2, <2>3 DEF MobileInductive, MobileTypeOK, MobileCall
    <2>6. WorkersSound'
      <3> SUFFICES ASSUME NEW s \in Request, NEW j \in Key, WorksFor(s, j)'
                   PROVE  WorkSound(s, j)'
        BY DEF WorkersSound
      <3>1. s # r /\ WorksFor(s, j) /\ WorkSound(s, j)
        BY <2>2 DEF MobileInductive, WorkersSound
      <3> QED BY <2>2, <2>3, <3>1 DEF WorkSound
    <2>7. ReceiptsSound'
      BY <2>3, <2>4 DEF MobileInductive, MobileTypeOK, ReceiptsSound
    <2> QED BY <2>5, <2>6, <2>7 DEF MobileInductive
  <1>4. ASSUME NEW r \in Request, RunMutation(r) \/ FinishMutation(r), mode' = mode
        PROVE  MobileInductive'
    <2>1. PICK q \in [at : MobileStep, key : Key, body : Body] :
            q = call[r] /\ q.at \in {"run", "finish"} /\ WorksFor(r, q.key)
      BY <1>4, MobileInFlight DEF RunMutation, FinishMutation, At
    <2>2. /\ receipt[q.key].status = "IN_PROGRESS" /\ receipt[q.key].body = q.body
          /\ effect[q.key] = << >>
          /\ \A s \in Request : WorksFor(s, q.key) => s = r
      BY <2>1 DEF MobileInductive, WorkersSound, WorkSound
    <2>3. PICK to \in {"finish", "complete", "release"} :
            /\ call' = [call EXCEPT ![r] = [q EXCEPT !.at = to]]
            /\ begun' = IF to = "finish" THEN [begun EXCEPT ![q.key] = @ \cup {q.body}] ELSE begun
            /\ effect' = IF to = "complete" THEN [effect EXCEPT ![q.key] = <<q.body>>] ELSE effect
            /\ UNCHANGED <<receipt, answered>>
      <3>1. Append(<< >>, q.body) = <<q.body>>
        OBVIOUS
      <3> QED BY <1>4, <2>1, <2>2, <3>1 DEF RunMutation, FinishMutation, Go, MobileInductive, MobileTypeOK
    <2>4. [q EXCEPT !.at = to] \in [at : MobileStep, key : Key, body : Body]
      BY <2>3 DEF MobileStep
    <2>5. /\ call' \in [Request -> MobileCall] /\ call'[r] = [q EXCEPT !.at = to]
          /\ \A s \in Request : s # r => call'[s] = call[s]
          /\ \A j \in Key : WorksFor(r, j)' <=> q.key = j
          /\ \A s \in Request \ {r}, j \in Key : WorksFor(s, j)' <=> WorksFor(s, j)
      <3> DEFINE c == [q EXCEPT !.at = to]
      <3>1. c \in MobileCall /\ c.at \in {"run", "finish", "complete", "release"} /\ c.key = q.key
        BY <2>3, <2>4 DEF MobileCall
      <3>2. call' = [call EXCEPT ![r] = c]
        BY <2>3
      <3> HIDE DEF c
      <3>3. /\ call' \in [Request -> MobileCall] /\ call'[r] = c
            /\ \A s \in Request : s # r => call'[s] = call[s]
            /\ \A j \in Key : WorksFor(r, j)' <=> q.key = j
            /\ \A s \in Request \ {r}, j \in Key : WorksFor(s, j)' <=> WorksFor(s, j)
        BY <3>1, <3>2, MobileRequestMoves
      <3> QED BY <3>3 DEF c
    <2>6. MobileTypeOK'
      BY <1>4, <2>3, <2>5 DEF MobileInductive, MobileTypeOK, MobileCall
    <2>7. WorkersSound'
      <3> SUFFICES ASSUME NEW s \in Request, NEW j \in Key, WorksFor(s, j)'
                   PROVE  WorkSound(s, j)'
        BY DEF WorkersSound
      <3>1. CASE s = r
        BY <2>1, <2>2, <2>3, <2>5, <3>1 DEF WorkSound, MobileInductive, MobileTypeOK
      <3>2. CASE s # r
        <4>1. WorksFor(s, j) /\ WorkSound(s, j) /\ j # q.key
          BY <2>2, <2>5, <3>2 DEF MobileInductive, WorkersSound
        <4> QED BY <2>3, <2>5, <3>2, <4>1 DEF WorkSound, MobileInductive, MobileTypeOK
      <3> QED BY <3>1, <3>2
    <2>8. ReceiptsSound'
      BY <2>2, <2>3 DEF MobileInductive, MobileTypeOK, ReceiptsSound
    <2> QED BY <2>6, <2>7, <2>8 DEF MobileInductive
  <1>5. ASSUME NEW r \in Request, ReleaseReceipt(r) \/ CompleteReceipt(r), mode' = mode
        PROVE  MobileInductive'
    <2>1. PICK q \in [at : MobileStep, key : Key, body : Body] :
            /\ q = call[r] /\ q.at \in {"complete", "release"} /\ WorksFor(r, q.key)
            /\ q.at = "release" => ReleaseReceipt(r)
            /\ q.at = "complete" => CompleteReceipt(r)
      BY <1>5, MobileInFlight DEF ReleaseReceipt, CompleteReceipt, At
    <2>2. /\ receipt[q.key].status = "IN_PROGRESS" /\ receipt[q.key].body = q.body
          /\ effect[q.key] = IF q.at = "complete" THEN <<q.body>> ELSE << >>
          /\ \A s \in Request : WorksFor(s, q.key) => s = r
      BY <2>1 DEF MobileInductive, WorkersSound, WorkSound
    <2>3. /\ call' \in [Request -> MobileCall]
          /\ \A s \in Request : s # r => call'[s] = call[s]
          /\ \A s \in Request, j \in Key : WorksFor(s, j)' => s # r /\ WorksFor(s, j)
      BY <1>5, MobileRequestEnds DEF ReleaseReceipt, CompleteReceipt
    <2>4. /\ UNCHANGED <<begun, effect>>
          /\ receipt' = [receipt EXCEPT ![q.key] =
               IF q.at = "release" THEN NoReceipt ELSE [status |-> "COMPLETED", body |-> q.body]]
          /\ answered' = IF q.at = "release" THEN answered
                         ELSE [answered EXCEPT ![q.key] = @ \cup {q.body}]
      BY <2>1, <2>2 DEF ReleaseReceipt, CompleteReceipt, Answer, MobileInductive, MobileTypeOK
    <2>5. MobileTypeOK'
      BY <1>5, <2>3, <2>4 DEF MobileInductive, MobileTypeOK, MobileCall, NoReceipt
    <2>6. WorkersSound'
      <3> SUFFICES ASSUME NEW s \in Request, NEW j \in Key, WorksFor(s, j)'
                   PROVE  WorkSound(s, j)'
        BY DEF WorkersSound
      <3>1. s # r /\ WorksFor(s, j) /\ WorkSound(s, j) /\ j # q.key
        BY <2>2, <2>3 DEF MobileInductive, WorkersSound
      <3> QED BY <2>3, <2>4, <3>1 DEF WorkSound, MobileInductive, MobileTypeOK
    <2>7. ReceiptsSound'
      <3>1. CASE q.at = "release"
        BY <2>2, <2>4, <3>1 DEF MobileInductive, MobileTypeOK, ReceiptsSound, NoReceipt
      <3>2. CASE q.at = "complete"
        <4>1. effect[q.key] = <<q.body>> /\ answered[q.key] \subseteq {q.body}
          BY <2>2, <3>2 DEF MobileInductive, ReceiptsSound
        <4>2. answered'[q.key] = {q.body} /\ receipt'[q.key] = [status |-> "COMPLETED", body |-> q.body]
          BY <2>4, <3>2, <4>1 DEF MobileInductive, MobileTypeOK
        <4>3. \A k \in Key \ {q.key} : answered'[k] = answered[k] /\ receipt'[k] = receipt[k]
          BY <2>4, <3>2 DEF MobileInductive, MobileTypeOK
        <4> QED BY <2>4, <4>1, <4>2, <4>3 DEF MobileInductive, ReceiptsSound
      <3> QED BY <2>1, <3>1, <3>2
    <2> QED BY <2>5, <2>6, <2>7 DEF MobileInductive
  <1>6. ASSUME NEW r \in Request, Die(r), UNCHANGED <<mode, mobileVars>> PROVE MobileInductive'
    <2>1. /\ call' \in [Request -> MobileCall]
          /\ \A s \in Request : s # r => call'[s] = call[s]
          /\ \A s \in Request, j \in Key : WorksFor(s, j)' => s # r /\ WorksFor(s, j)
      BY <1>6, MobileRequestEnds DEF Die
    <2>2. MobileTypeOK' /\ ReceiptsSound'
      BY <1>6, <2>1 DEF MobileInductive, MobileTypeOK, MobileCall, ReceiptsSound, mobileVars
    <2>3. WorkersSound'
      <3> SUFFICES ASSUME NEW s \in Request, NEW j \in Key, WorksFor(s, j)'
                   PROVE  WorkSound(s, j)'
        BY DEF WorkersSound
      <3>1. s # r /\ WorksFor(s, j) /\ WorkSound(s, j)
        BY <2>1 DEF MobileInductive, WorkersSound
      <3> QED BY <1>6, <2>1, <3>1 DEF WorkSound, mobileVars
    <2> QED BY <2>2, <2>3 DEF MobileInductive
  <1> QED
    BY <1>1, <1>2, <1>3, <1>4, <1>5, <1>6 DEF MobileNext, MobileServes

\* Every statement of a mutation is a step of the promise, or none.
LEMMA MobileStepMaps ==
  ASSUME MobileInductive, MobileInductive', [MobileNext]_<<mode, call, mobileVars>>
  PROVE  [OnceOnlyPerKey!Next]_(OnceOnlyPerKey!vars)
  <1> SUFFICES ASSUME ~UNCHANGED <<begun, effect, answered>>
               PROVE  OnceOnlyPerKey!Next
    BY DEF OnceOnlyPerKey!vars
  <1>1. PICK r \in Request :
          ReadReceipt(r) \/ RunMutation(r) \/ FinishMutation(r) \/ CompleteReceipt(r)
    BY DEF MobileNext, MobileServes, InsertReceipt, ReleaseReceipt, Die, mobileVars
  <1>2. PICK q \in [at : MobileStep, key : Key, body : Body] :
          q = call[r] /\ (q.at # "readReceipt" => WorksFor(r, q.key))
    BY <1>1, MobileInFlight DEF ReadReceipt, RunMutation, FinishMutation, CompleteReceipt, At
  <1>3. CASE ReadReceipt(r) \/ CompleteReceipt(r)
    <2>1. /\ UNCHANGED <<begun, effect>>
          /\ answered' = [answered EXCEPT ![q.key] = @ \cup {q.body}]
      BY <1>2, <1>3 DEF ReadReceipt, CompleteReceipt, Answer
    <2>2. effect[q.key] # << >>
      BY <1>2, <1>3, <2>1 DEF ReadReceipt, CompleteReceipt, Replays, At, MobileInductive, MobileTypeOK,
                              WorkersSound, WorkSound, ReceiptsSound
    <2>3. answered'[q.key] = {effect[q.key][1]}
      BY <2>1 DEF MobileInductive, MobileTypeOK, ReceiptsSound
    <2>4. answered' = [answered EXCEPT ![q.key] = {effect[q.key][1]}]
      BY <2>1, <2>3 DEF MobileInductive, MobileTypeOK
    <2> QED BY <2>1, <2>2, <2>4 DEF OnceOnlyPerKey!Next, OnceOnlyPerKey!Hear
  <1>4. CASE RunMutation(r) \/ FinishMutation(r)
    <2>1. effect[q.key] = << >> /\ (FinishMutation(r) => q.body \in begun[q.key])
      BY <1>2, <1>4 DEF RunMutation, FinishMutation, At, MobileInductive, WorkersSound, WorkSound,
                        WorksFor
    <2>2. Append(<< >>, q.body) = <<q.body>>
      OBVIOUS
    <2>3. CASE RunMutation(r)
      <3>1. begun' = [begun EXCEPT ![q.key] = @ \cup {q.body}] /\ UNCHANGED <<effect, answered>>
        BY <1>2, <2>3 DEF RunMutation
      <3> QED BY <2>1, <3>1 DEF OnceOnlyPerKey!Next, OnceOnlyPerKey!Attempt
    <2>4. CASE FinishMutation(r)
      <3>1. effect' = [effect EXCEPT ![q.key] = <<q.body>>] /\ UNCHANGED <<begun, answered>>
        BY <1>2, <2>1, <2>2, <2>4 DEF FinishMutation, MobileInductive, MobileTypeOK
      <3> QED BY <2>1, <2>4, <3>1 DEF OnceOnlyPerKey!Next, OnceOnlyPerKey!Happen
    <2> QED BY <1>4, <2>3, <2>4
  <1> QED BY <1>1, <1>3, <1>4

LEMMA MobileBegins == NoCalls /\ MobileInit => MobileInductive /\ OnceOnlyPerKey!Init
  BY DEF NoCalls, MobileInit, MobileInductive, MobileTypeOK, WorkersSound, WorksFor, ReceiptsSound,
         NoReceipt, Idle, OnceOnlyPerKey!Init

\* However calls are repeated, cross or lose their process, the receipts implement the
\* once-only promise of idempotency keys: one run under a key that writes all it has to,
\* nothing written after it, and no answer about anything else; what the runs before it
\* wrote until they threw stays.
THEOREM ReceiptsAreOnceOnly == MobileSpec => ImplementsOnceOnly
  BY MobileBegins, MobileStepKeeps, MobileStepMaps, PTL
          DEF MobileSpec, ImplementsOnceOnly, OnceOnlyPerKey!Spec

-------------------------------------------------------------------------------
(***************************************************************************)
(* Facial templates.  The index leaves an enrolment no other ACTIVE        *)
(* version than the one it revokes, which is not the one it adds; and a    *)
(* removal keeps its version and its initiator, and an approver other than *)
(* that one once it has any.                                               *)
(***************************************************************************)
LEMMA GreatestVersion ==
  ASSUME NEW n \in Nat, NEW S \in SUBSET (1 .. n), S # {}
  PROVE  \E v \in S : \A w \in S : w <= v
  <1> DEFINE R == OpToRel(<, Nat)
             T == {m \in 0 .. n : n - m \in S}
  <1>1. PICK s \in S : TRUE
    OBVIOUS
  <1>2. n - s \in 0 .. n /\ n - (n - s) = s
    BY <1>1
  <1>3. T \subseteq Nat /\ n - s \in T
    BY <1>1, <1>2
  <1>4. \A x, y \in Nat : y < x => <<y, x>> \in R
    BY DEF OpToRel
  <1>5. IsWellFoundedOn(R, Nat)
    BY NatLessThanWellFounded
  <1> HIDE DEF R, T
  <1>6. PICK x \in T : \A y \in T : ~(<<y, x>> \in R)
    BY <1>3, <1>5, WFMin
  <1>7. \A y \in T : ~(y < x)
    BY <1>3, <1>4, <1>6
  <1> USE DEF T
  <1>8. x \in 0 .. n /\ n - x \in S
    BY <1>6
  <1>9. \A w \in S : n - w \in T
    OBVIOUS
  <1>10. \A w \in S : w <= n - x
    BY <1>7, <1>8, <1>9
  <1> QED BY <1>8, <1>10

LEMMA LatestIsGreatest ==
  ASSUME NEW S \in SUBSET Version
  PROVE  /\ Latest(S) \in S \cup {0}
         /\ S # {} => Latest(S) \in S
         /\ Latest(S) \in Nat
         /\ Latest(S) + 1 \notin S
  <1>1. CASE S = {}
    BY <1>1 DEF Latest
  <1>2. CASE S # {}
    <2>1. \E v \in S : \A w \in S : w <= v
      BY <1>2, GreatestVersion, VersionAssumption DEF Version
    <2>2. Latest(S) \in S /\ \A w \in S : w <= Latest(S)
      BY <1>2, <2>1 DEF Latest
    <2>3. S \subseteq Nat
      BY VersionAssumption DEF Version
    <2>4. PICK v \in S : v = Latest(S) /\ v \in Nat /\ \A w \in S : w <= v
      BY <2>2, <2>3
    <2>5. v + 1 \notin S
      BY <2>4
    <2> QED BY <1>2, <2>4, <2>5
  <1> QED BY <1>1, <1>2

BiometricCall ==
  {Idle}
    \cup [at : {"writeEnrolment"}, version : 0 .. MaxVersion]
    \cup [at : {"writeRevocation"}, version : Version]
    \cup [at : {"findRemoval", "insertRemoval"}, version : Version, user : User]
    \cup [at : {"writeRemovalApproval"}, row : Removal, user : User]
    \cup [at : {"eraseMaterial"}, row : Removal]

ApprovedByAnother(d) == removal[d].approver \notin {None, removal[d].initiator}

RemovalsSound ==
  \A d \in Removal :
    /\ removal[d].status # "NONE" => removal[d].version \in Version /\ removal[d].initiator \in User
    /\ removal[d].status \in {"APPROVED", "COMPLETED"} => ApprovedByAnother(d)
    /\ removal[d].approver # None => ApprovedByAnother(d) /\ removal[d].status # "NONE"

EnrolmentSound(q) ==
  /\ q.at = "writeEnrolment" => q.version = 0 \/ q.version \in Enrolments
  /\ q.at = "writeRevocation" => q.version \in Enrolments

RemovalSound(q) ==
  /\ q.at = "writeRemovalApproval" =>
       removal[q.row].status # "NONE" /\ removal[q.row].initiator # q.user
  /\ q.at = "eraseMaterial" => ApprovedByAnother(q.row)

BiometricInductive ==
  /\ BiometricTypeOK /\ call \in [Request -> BiometricCall]
  /\ TemplatesAreAccountable
  /\ RemovalsSound
  /\ \A r \in Request : EnrolmentSound(call[r]) /\ RemovalSound(call[r])

\* What no statement takes away.
BiometricKeeps ==
  /\ Enrolments \subseteq Enrolments'
  /\ \A d \in Removal :
       /\ removal[d].status # "NONE" =>
            /\ removal'[d].status # "NONE"
            /\ removal'[d].version = removal[d].version
            /\ removal'[d].initiator = removal[d].initiator
       /\ ApprovedByAnother(d) => ApprovedByAnother(d)'

\* The request that moves brings what it needs; the others still have it.
LEMMA BiometricRequestMoves ==
  ASSUME BiometricInductive, NEW r \in Request, NEW c \in BiometricCall,
         call' = [call EXCEPT ![r] = c],
         BiometricKeeps, EnrolmentSound(c)', RemovalSound(c)'
  PROVE  /\ call' \in [Request -> BiometricCall]
         /\ \A s \in Request : (EnrolmentSound(call[s]) /\ RemovalSound(call[s]))'
  <1>1. call' \in [Request -> BiometricCall] /\ call'[r] = c
        /\ \A s \in Request \ {r} : call'[s] = call[s]
    BY DEF BiometricInductive
  <1>2. ASSUME NEW s \in Request PROVE (EnrolmentSound(call[s]) /\ RemovalSound(call[s]))'
    <2>1. CASE s = r
      BY <1>1, <2>1 DEF EnrolmentSound, RemovalSound
    <2>2. CASE s # r
      <3>1. PICK q \in BiometricCall : q = call[s] /\ q = call'[s] /\ EnrolmentSound(q) /\ RemovalSound(q)
        BY <1>1, <2>2 DEF BiometricInductive
      <3>2. q.at \in {"writeRemovalApproval", "eraseMaterial"} => q.row \in Removal
        BY DEF BiometricCall, Idle
      <3>3. EnrolmentSound(q)'
        BY <3>1 DEF EnrolmentSound, BiometricKeeps
      <3>4. RemovalSound(q)'
        BY <3>1, <3>2 DEF RemovalSound, BiometricKeeps
      <3> QED BY <3>1, <3>3, <3>4 DEF EnrolmentSound, RemovalSound
    <2> QED BY <2>1, <2>2
  <1> QED BY <1>1, <1>2

LEMMA BiometricRequestEnds ==
  ASSUME BiometricInductive, NEW r \in Request, End(r), BiometricKeeps
  PROVE  /\ call' \in [Request -> BiometricCall]
         /\ \A s \in Request : (EnrolmentSound(call[s]) /\ RemovalSound(call[s]))'
  <1>1. Idle \in BiometricCall /\ EnrolmentSound(Idle)' /\ RemovalSound(Idle)'
    BY DEF BiometricCall, Idle, EnrolmentSound, RemovalSound
  <1> QED BY <1>1, BiometricRequestMoves DEF End

LEMMA BiometricRowsStand ==
  ASSUME UNCHANGED biometricVars, BiometricInductive
  PROVE  BiometricKeeps /\ BiometricTypeOK' /\ TemplatesAreAccountable' /\ RemovalsSound'
  BY DEF biometricVars, BiometricKeeps, BiometricInductive, BiometricTypeOK, TemplatesAreAccountable,
         RemovalsSound, ApprovedByAnother, Enrolments, Active, OneActiveTemplate, EnrolledIsMatchable,
         ErasureNeedsTwoUsers

LEMMA BiometricRequestServed ==
  ASSUME BiometricInductive, UNCHANGED biometricVars, NEW r \in Request, NEW c \in BiometricCall,
         call' = [call EXCEPT ![r] = c], EnrolmentSound(c), RemovalSound(c)
  PROVE  BiometricInductive'
  <1>1. BiometricKeeps /\ BiometricTypeOK' /\ TemplatesAreAccountable' /\ RemovalsSound'
    BY BiometricRowsStand
  <1>2. EnrolmentSound(c)' /\ RemovalSound(c)'
    BY DEF EnrolmentSound, RemovalSound, ApprovedByAnother, Enrolments, biometricVars
  <1>3. /\ call' \in [Request -> BiometricCall]
        /\ \A s \in Request : (EnrolmentSound(call[s]) /\ RemovalSound(call[s]))'
    BY <1>1, <1>2, BiometricRequestMoves
  <1> QED BY <1>1, <1>3 DEF BiometricInductive

LEMMA BiometricServing ==
  ASSUME BiometricInductive, mode' = mode, NEW r \in Request,
         EnrolDriver(r) \/ RevokeTemplate(r) \/ RequestRemoval(r) \/ FindRemoval(r)
           \/ ApproveRemoval(r) \/ CompleteRemoval(r)
  PROVE  BiometricInductive'
  <1>1. CASE EnrolDriver(r)
    <2> DEFINE c == [at |-> "writeEnrolment", version |-> Latest(Active)]
    <2>1. Active \in SUBSET Version /\ Active \subseteq Enrolments
      BY DEF Active, Enrolments, NoTemplate
    <2>2. Latest(Active) \in Active \cup {0}
      BY <2>1, LatestIsGreatest
    <2>3. Latest(Active) \in 0 .. MaxVersion
      <3>1. Active \subseteq 0 .. MaxVersion /\ 0 \in 0 .. MaxVersion
        BY <2>1, VersionAssumption DEF Version
      <3> QED BY <2>2, <3>1
    <2>4. c \in BiometricCall /\ EnrolmentSound(c) /\ RemovalSound(c)
      BY <2>1, <2>2, <2>3 DEF BiometricCall, EnrolmentSound, RemovalSound
    <2> QED BY <1>1, <2>4, BiometricRequestServed DEF EnrolDriver, Begin
  <1>2. CASE RevokeTemplate(r)
    <2> DEFINE c == [at |-> "writeRevocation", version |-> Latest(Active)]
    <2>1. Latest(Active) \in Version /\ Latest(Active) \in Enrolments
      <3>1. Active \in SUBSET Version /\ Active \subseteq Enrolments
        BY DEF Active, Enrolments, NoTemplate
      <3> QED BY <1>2, <3>1, LatestIsGreatest DEF RevokeTemplate
    <2>2. c \in BiometricCall /\ EnrolmentSound(c) /\ RemovalSound(c)
      BY <2>1 DEF BiometricCall, EnrolmentSound, RemovalSound
    <2> QED BY <1>2, <2>2, BiometricRequestServed DEF RevokeTemplate, Begin
  <1>3. CASE RequestRemoval(r)
    <2> DEFINE S == {w \in Enrolments : template[w].status # "DELETED"}
    <2>1. PICK u \in User :
            /\ Latest(S) # 0
            /\ Begin(r, [at |-> "findRemoval", version |-> Latest(S), user |-> u])
            /\ UNCHANGED biometricVars
      BY <1>3 DEF RequestRemoval
    <2>2. S \in SUBSET Version
      BY DEF Enrolments
    <2>3. Latest(S) \in Version
      BY <2>1, <2>2, LatestIsGreatest
    <2> DEFINE c == [at |-> "findRemoval", version |-> Latest(S), user |-> u]
    <2>4. c \in BiometricCall /\ EnrolmentSound(c) /\ RemovalSound(c)
      BY <2>3 DEF BiometricCall, EnrolmentSound, RemovalSound
    <2> QED BY <2>1, <2>4, BiometricRequestServed DEF Begin
  <1>4. CASE FindRemoval(r)
    <2>1. CASE End(r)
      <3>1. Idle \in BiometricCall /\ EnrolmentSound(Idle) /\ RemovalSound(Idle)
        BY DEF BiometricCall, Idle, EnrolmentSound, RemovalSound
      <3> QED BY <1>4, <2>1, <3>1, BiometricRequestServed DEF FindRemoval, End
    <2>2. CASE Go(r, "insertRemoval")
      <3>1. PICK q \in [at : {"findRemoval"}, version : Version, user : User] : q = call[r]
        BY <1>4 DEF FindRemoval, At, BiometricInductive, BiometricCall, Idle
      <3> DEFINE c == [q EXCEPT !.at = "insertRemoval"]
      <3>2. c \in BiometricCall /\ EnrolmentSound(c) /\ RemovalSound(c)
        BY DEF BiometricCall, EnrolmentSound, RemovalSound
      <3>3. call' = [call EXCEPT ![r] = c]
        BY <2>2, <3>1 DEF Go, BiometricInductive
      <3> QED BY <1>4, <3>2, <3>3, BiometricRequestServed DEF FindRemoval
    <2> QED BY <1>4, <2>1, <2>2 DEF FindRemoval
  <1>5. CASE ApproveRemoval(r)
    <2>1. PICK d \in Removal, u \in User :
            /\ MayApprove(d, u)
            /\ call' = [call EXCEPT ![r] = [at |-> "writeRemovalApproval", row |-> d, user |-> u]]
            /\ UNCHANGED biometricVars
      BY <1>5 DEF ApproveRemoval, Begin
    <2> DEFINE c == [at |-> "writeRemovalApproval", row |-> d, user |-> u]
    <2>2. c \in BiometricCall /\ EnrolmentSound(c) /\ RemovalSound(c)
      BY <2>1 DEF BiometricCall, EnrolmentSound, RemovalSound, MayApprove
    <2> QED BY <2>1, <2>2, BiometricRequestServed
  <1>6. CASE CompleteRemoval(r)
    <2>1. PICK d \in Removal :
            /\ removal[d].status = "APPROVED"
            /\ call' = [call EXCEPT ![r] = [at |-> "eraseMaterial", row |-> d]]
            /\ UNCHANGED biometricVars
      BY <1>6 DEF CompleteRemoval, Begin
    <2> DEFINE c == [at |-> "eraseMaterial", row |-> d]
    <2>2. c \in BiometricCall /\ EnrolmentSound(c) /\ RemovalSound(c)
      BY <2>1 DEF BiometricCall, EnrolmentSound, RemovalSound, BiometricInductive, RemovalsSound
    <2> QED BY <2>1, <2>2, BiometricRequestServed
  <1> QED BY <1>1, <1>2, <1>3, <1>4, <1>5, <1>6

TemplateRow == [status : {"NONE", "ACTIVE", "REVOKED", "DELETED"}, material : BOOLEAN]

LEMMA TemplatesWritten ==
  ASSUME BiometricInductive, mode' = mode, NEW r \in Request,
         WriteEnrolment(r) \/ WriteRevocation(r)
  PROVE  BiometricInductive'
  <1>1. removal' = removal /\ End(r)
    BY DEF WriteEnrolment, WriteRevocation
  <1>2. RemovalsSound'
    BY <1>1 DEF BiometricInductive, RemovalsSound, ApprovedByAnother
  <1>3. template' \in [Version -> TemplateRow]
        /\ enrolled' \in BOOLEAN /\ Enrolments \subseteq Enrolments'
        /\ OneActiveTemplate' /\ EnrolledIsMatchable'
        /\ \A v \in Version : template'[v] # NoTemplate /\ ~template'[v].material
             => v \in Enrolments /\ ~template[v].material
    <2>1. CASE WriteRevocation(r)
      <3>1. PICK v \in Enrolments : v = call[r].version /\ v \in Version
        BY <2>1 DEF WriteRevocation, At, BiometricInductive, BiometricCall, Idle, EnrolmentSound
      <3>2. template' = [template EXCEPT ![v].status = "REVOKED"] /\ enrolled' = FALSE
        BY <2>1, <3>1 DEF WriteRevocation
      <3>9. PICK was \in TemplateRow : was = template[v]
        BY <3>1 DEF BiometricInductive, BiometricTypeOK, TemplateRow
      <3>10. [was EXCEPT !.status = "REVOKED"] \in TemplateRow
        BY DEF TemplateRow
      <3>11. /\ template'[v] = [was EXCEPT !.status = "REVOKED"]
             /\ \A w \in Version \ {v} : template'[w] = template[w] /\ template[w] \in TemplateRow
        BY <3>1, <3>2, <3>9 DEF BiometricInductive, BiometricTypeOK, TemplateRow
      <3>12. template'[v].status = "REVOKED" /\ template'[v].material = was.material
        BY <3>11 DEF TemplateRow
      <3>3. \A w \in Version :
              /\ w # v => template'[w] = template[w]
              /\ template'[v].status = "REVOKED"
              /\ template'[v].material = template[v].material
              /\ template'[w] \in TemplateRow
        BY <3>9, <3>10, <3>11, <3>12
      <3>4. template' \in [Version -> TemplateRow]
        BY <3>2, <3>3 DEF BiometricInductive, BiometricTypeOK
      <3>5. Enrolments \subseteq Enrolments'
        BY <3>3 DEF Enrolments, NoTemplate
      <3>6. Active' \subseteq Active /\ \A w \in Active' : w # v
        BY <3>3 DEF Active
      <3>7. OneActiveTemplate' /\ EnrolledIsMatchable'
        BY <3>2, <3>3, <3>6 DEF BiometricInductive, TemplatesAreAccountable, OneActiveTemplate,
           EnrolledIsMatchable
      <3>8. \A w \in Version : template'[w] # NoTemplate /\ ~template'[w].material
             => w \in Enrolments /\ ~template[w].material
        BY <3>3 DEF Enrolments
      <3> QED BY <3>2, <3>4, <3>5, <3>7, <3>8
    <2>2. CASE WriteEnrolment(r)
      <3>1. PICK q \in [at : {"writeEnrolment"}, version : 0 .. MaxVersion] :
              q = call[r] /\ EnrolmentSound(q)
        BY <2>2 DEF WriteEnrolment, At, BiometricInductive, BiometricCall, Idle
      <3> DEFINE old == q.version
                 new == Latest(Enrolments) + 1
      <3>2. CASE UNCHANGED <<template, enrolled>>
        <4>1. Enrolments' = Enrolments /\ Active' = Active
          BY <3>2 DEF Enrolments, Active
        <4>2. template' \in [Version -> TemplateRow] /\ enrolled' \in BOOLEAN
          BY <3>2 DEF BiometricInductive, BiometricTypeOK, TemplateRow
        <4>3. OneActiveTemplate' /\ EnrolledIsMatchable'
          BY <3>2, <4>1 DEF BiometricInductive, TemplatesAreAccountable, OneActiveTemplate,
             EnrolledIsMatchable
        <4> QED BY <3>2, <4>1, <4>2, <4>3 DEF Enrolments
      <3>3. CASE ~UNCHANGED <<template, enrolled>>
        <4>1. /\ ~OtherActive(old) /\ new <= MaxVersion /\ enrolled' = TRUE
              /\ template' = [v \in Version |->
                   CASE v = old -> [template[v] EXCEPT !.status = "REVOKED"]
                     [] v = new -> [status |-> "ACTIVE", material |-> TRUE]
                     [] OTHER -> template[v]]
          BY <2>2, <3>1, <3>3 DEF WriteEnrolment
        <4>2. Latest(Enrolments) \in Nat /\ new \notin Enrolments
          BY LatestIsGreatest DEF Enrolments
        <4>3. new \in Version /\ new # old
          BY <3>1, <4>1, <4>2, VersionAssumption DEF EnrolmentSound, Version
        <4>4. template[new] = NoTemplate
          BY <4>2, <4>3 DEF Enrolments
        <4> HIDE DEF old, new
        <4>5. /\ template'[new] = [status |-> "ACTIVE", material |-> TRUE]
              /\ \A v \in Version :
                   /\ v = old => template'[v] = [template[v] EXCEPT !.status = "REVOKED"]
                   /\ v # old /\ v # new => template'[v] = template[v]
          BY <4>1, <4>3
        <4>11. template'[new].status = "ACTIVE" /\ template'[new].material /\ template'[new] \in TemplateRow
          BY <4>5 DEF TemplateRow
        <4>12. ASSUME old \in Version
               PROVE  /\ template'[old].status = "REVOKED" /\ template'[old] \in TemplateRow
                      /\ template'[old].material = template[old].material
                      /\ template'[old] # NoTemplate
          <5>1. PICK was \in TemplateRow : was = template[old]
            BY <4>12 DEF BiometricInductive, BiometricTypeOK, TemplateRow
          <5>2. template'[old] = [was EXCEPT !.status = "REVOKED"]
            BY <4>5, <4>12, <5>1
          <5>3. [was EXCEPT !.status = "REVOKED"] \in TemplateRow
            BY DEF TemplateRow
          <5>4. template'[old].status = "REVOKED" /\ template'[old].material = was.material
            BY <5>2 DEF TemplateRow
          <5>5. NoTemplate.status = "NONE"
            BY DEF NoTemplate
          <5> QED BY <5>1, <5>2, <5>3, <5>4, <5>5
        <4>6. Active' = {new}
          <5>1. new \in Active'
            BY <4>3, <4>11 DEF Active
          <5>2. ASSUME NEW v \in Active' PROVE v = new
            <6>1. v \in Version /\ template'[v].status = "ACTIVE"
              BY DEF Active
            <6>2. v # old
              BY <4>12, <6>1
            <6>3. v # new => v \in Active \ {old}
              BY <4>5, <6>1, <6>2 DEF Active
            <6> QED BY <4>1, <6>3 DEF OtherActive
          <5> QED BY <5>1, <5>2
        <4>7. OneActiveTemplate' /\ EnrolledIsMatchable'
          BY <4>6, <4>11 DEF OneActiveTemplate, EnrolledIsMatchable
        <4>8. template' \in [Version -> TemplateRow]
          <5>1. \A v \in Version : template'[v] \in TemplateRow
            BY <4>5, <4>11, <4>12 DEF BiometricInductive, BiometricTypeOK, TemplateRow
          <5> QED BY <4>1, <5>1
        <4>9. Enrolments \subseteq Enrolments'
          <5>1. ASSUME NEW v \in Enrolments PROVE template'[v] # NoTemplate
            BY <4>2, <4>5, <4>12 DEF Enrolments
          <5> QED BY <5>1 DEF Enrolments
        <4>10. \A v \in Version : template'[v] # NoTemplate /\ ~template'[v].material
                 => v \in Enrolments /\ ~template[v].material
          <5> SUFFICES ASSUME NEW v \in Version, template'[v] # NoTemplate, ~template'[v].material
                       PROVE  v \in Enrolments /\ ~template[v].material
            OBVIOUS
          <5>1. CASE v = old
            <6>1. old \in Enrolments
              BY <3>1, <5>1, VersionAssumption DEF EnrolmentSound, Version, old
            <6> QED BY <4>12, <5>1, <6>1
          <5>2. CASE v = new
            BY <4>11, <5>2
          <5>3. CASE v # old /\ v # new
            BY <4>5, <5>3 DEF Enrolments
          <5> QED BY <5>1, <5>2, <5>3
        <4> QED BY <4>1, <4>7, <4>8, <4>9, <4>10
      <3> QED BY <3>2, <3>3
    <2> QED BY <2>1, <2>2
  <1>4. ErasureNeedsTwoUsers'
    BY <1>1, <1>3 DEF BiometricInductive, TemplatesAreAccountable, ErasureNeedsTwoUsers, Enrolments
  <1>5. BiometricKeeps
    BY <1>1, <1>3 DEF BiometricKeeps, ApprovedByAnother
  <1>6. /\ call' \in [Request -> BiometricCall]
        /\ \A s \in Request : (EnrolmentSound(call[s]) /\ RemovalSound(call[s]))'
    BY <1>1, <1>5, BiometricRequestEnds
  <1>7. BiometricTypeOK'
    BY <1>1, <1>3 DEF BiometricInductive, BiometricTypeOK, TemplateRow
  <1> QED BY <1>2, <1>3, <1>4, <1>6, <1>7 DEF BiometricInductive, TemplatesAreAccountable

RemovalRow == [status : RemovalStatus, version : 0 .. MaxVersion,
               initiator : User \cup {None}, approver : User \cup {None}, elapsed : BOOLEAN]

\* A removal is written that keeps what it had.
LEMMA RemovalWritten ==
  ASSUME BiometricInductive, NEW d \in Removal, NEW row \in RemovalRow,
         removal' = [removal EXCEPT ![d] = row],
         UNCHANGED <<template, enrolled>>,
         row.status # "NONE", row.version \in Version, row.initiator \in User,
         removal[d].status # "NONE" =>
           row.version = removal[d].version /\ row.initiator = removal[d].initiator,
         row.status \in {"APPROVED", "COMPLETED"} \/ row.approver # None
           \/ removal[d].approver # None
           => row.approver \notin {None, row.initiator}
  PROVE  /\ BiometricKeeps /\ BiometricTypeOK' /\ RemovalsSound'
         /\ TemplatesAreAccountable'
  <1>1. removal'[d] = row /\ \A e \in Removal \ {d} : removal'[e] = removal[e]
    BY DEF BiometricInductive, BiometricTypeOK
  <1>2. \A e \in Removal : ApprovedByAnother(e) => ApprovedByAnother(e)'
    BY <1>1 DEF ApprovedByAnother
  <1>3. \A e \in Removal : removal[e].status # "NONE" =>
          /\ removal'[e].status # "NONE"
          /\ removal'[e].version = removal[e].version
          /\ removal'[e].initiator = removal[e].initiator
    BY <1>1
  <1>4. BiometricKeeps
    BY <1>2, <1>3 DEF BiometricKeeps, Enrolments
  <1>5. BiometricTypeOK'
    BY DEF BiometricInductive, BiometricTypeOK, RemovalRow
  <1>6. RemovalsSound'
    <2>1. ASSUME NEW e \in Removal
          PROVE  /\ removal'[e].status # "NONE" => removal'[e].version \in Version /\ removal'[e].initiator \in User
                 /\ removal'[e].status \in {"APPROVED", "COMPLETED"} => ApprovedByAnother(e)'
                 /\ removal'[e].approver # None => ApprovedByAnother(e)' /\ removal'[e].status # "NONE"
      <3>1. CASE e = d
        BY <1>1, <3>1 DEF ApprovedByAnother
      <3>2. CASE e # d
        BY <1>1, <3>2 DEF ApprovedByAnother, BiometricInductive, RemovalsSound
      <3> QED BY <3>1, <3>2
    <2> QED BY <2>1 DEF RemovalsSound
  <1>7. \A e \in Removal : ApprovedByAnother(e) => removal[e].status # "NONE"
    BY DEF BiometricInductive, RemovalsSound, ApprovedByAnother
  <1>8. ErasureNeedsTwoUsers'
    <2>1. ASSUME NEW v \in Enrolments, ~template[v].material
          PROVE  \E e \in Removal : removal'[e].version = v /\ ApprovedByAnother(e)'
      <3>1. PICK e \in Removal : removal[e].version = v /\ ApprovedByAnother(e)
        BY <2>1 DEF BiometricInductive, TemplatesAreAccountable, ErasureNeedsTwoUsers, ApprovedByAnother
      <3> QED BY <1>2, <1>3, <1>7, <3>1
    <2> QED BY <2>1 DEF ErasureNeedsTwoUsers, ApprovedByAnother, Enrolments
  <1>9. OneActiveTemplate' /\ EnrolledIsMatchable'
    BY DEF BiometricInductive, TemplatesAreAccountable, OneActiveTemplate, EnrolledIsMatchable, Active
  <1> QED BY <1>4, <1>5, <1>6, <1>8, <1>9 DEF TemplatesAreAccountable

LEMMA RemovalsWritten ==
  ASSUME BiometricInductive, mode' = mode, NEW r \in Request,
         InsertRemoval(r) \/ WriteRemovalApproval(r)
  PROVE  BiometricInductive'
  <1>1. CASE InsertRemoval(r)
    <2>7. PICK q \in [at : {"findRemoval", "insertRemoval"}, version : Version, user : User] : q = call[r]
      BY <1>1 DEF InsertRemoval, At, BiometricInductive, BiometricCall, Idle
    <2>1. PICK d \in Removal :
            /\ removal[d] = NoRemoval
            /\ removal' = [removal EXCEPT ![d] = [NoRemoval EXCEPT
                 !.status = "PENDING_APPROVAL", !.version = q.version, !.initiator = q.user]]
      BY <1>1, <2>7 DEF InsertRemoval
    <2>2. PICK row : row = [NoRemoval EXCEPT
                 !.status = "PENDING_APPROVAL", !.version = q.version, !.initiator = q.user]
      OBVIOUS
    <2>3. /\ row \in RemovalRow /\ row.status = "PENDING_APPROVAL" /\ row.approver = None
          /\ row.version \in Version /\ row.initiator \in User
      <3>1. q.version \in Version /\ q.version \in 0 .. MaxVersion
        BY VersionAssumption DEF Version
      <3> QED BY <2>2, <3>1 DEF RemovalRow, RemovalStatus, NoRemoval
    <2>4. removal[d].status = "NONE" /\ removal[d].approver = None
      BY <2>1 DEF NoRemoval
    <2>5. End(r) /\ UNCHANGED <<template, enrolled>> /\ removal' = [removal EXCEPT ![d] = row]
      BY <1>1, <2>1, <2>2 DEF InsertRemoval
    <2>6. BiometricKeeps /\ BiometricTypeOK' /\ RemovalsSound' /\ TemplatesAreAccountable'
      BY <2>3, <2>4, <2>5, RemovalWritten
    <2> QED BY <2>5, <2>6, BiometricRequestEnds DEF BiometricInductive
  <1>2. CASE WriteRemovalApproval(r)
    <2>1. PICK q \in [at : {"writeRemovalApproval"}, row : Removal, user : User] :
            q = call[r] /\ RemovalSound(q)
      BY <1>2 DEF WriteRemovalApproval, At, BiometricInductive, BiometricCall, Idle
    <2>2. PICK was \in RemovalRow : was = removal[q.row]
      BY DEF BiometricInductive, BiometricTypeOK, RemovalRow
    <2>3. /\ was.version \in Version /\ was.initiator \in User /\ was.initiator # q.user
      BY <2>1, <2>2 DEF RemovalSound, BiometricInductive, RemovalsSound
    <2>4. PICK row : row = [was EXCEPT !.status = "APPROVED", !.approver = q.user, !.elapsed = FALSE]
      OBVIOUS
    <2>5. /\ row \in RemovalRow /\ row.status = "APPROVED" /\ row.approver = q.user
          /\ row.version = was.version /\ row.initiator = was.initiator
      BY <2>4 DEF RemovalRow, RemovalStatus
    <2>6. End(r) /\ UNCHANGED <<template, enrolled>> /\ removal' = [removal EXCEPT ![q.row] = row]
      BY <1>2, <2>1, <2>2, <2>4 DEF WriteRemovalApproval
    <2>7. q.user # None
      BY NobodyAssumption
    <2>8. BiometricKeeps /\ BiometricTypeOK' /\ RemovalsSound' /\ TemplatesAreAccountable'
      BY <2>2, <2>3, <2>5, <2>6, <2>7, RemovalWritten
    <2> QED BY <2>6, <2>8, BiometricRequestEnds DEF BiometricInductive
  <1> QED BY <1>1, <1>2

LEMMA BiometricStep ==
  ASSUME BiometricInductive, [BiometricNext]_<<mode, call, biometricVars>>
  PROVE  BiometricInductive'
  <1>1. CASE UNCHANGED <<mode, call, biometricVars>>
    <2>1. BiometricKeeps /\ BiometricTypeOK' /\ TemplatesAreAccountable' /\ RemovalsSound'
      BY <1>1, BiometricRowsStand
    <2>2. \A r \in Request : (EnrolmentSound(call[r]) /\ RemovalSound(call[r]))'
      BY <1>1 DEF BiometricInductive, EnrolmentSound, RemovalSound, ApprovedByAnother, Enrolments,
                  biometricVars
    <2> QED BY <1>1, <2>1, <2>2 DEF BiometricInductive
  <1>2. ASSUME NEW r \in Request, EraseMaterial(r), mode' = mode PROVE BiometricInductive'
    <2>1. PICK d \in Removal : d = call[r].row /\ ApprovedByAnother(d)
      BY <1>2 DEF EraseMaterial, At, BiometricInductive, BiometricCall, Idle, RemovalSound
    <2>2. PICK was \in RemovalRow : was = removal[d]
      BY DEF BiometricInductive, BiometricTypeOK, RemovalRow
    <2>3. was.version \in Version /\ was.initiator \in User /\ was.approver \notin {None, was.initiator}
      BY <2>1, <2>2 DEF BiometricInductive, RemovalsSound, ApprovedByAnother
    <2>4. PICK row : row = [was EXCEPT !.status = "COMPLETED"]
      OBVIOUS
    <2>5. /\ row \in RemovalRow /\ row.status = "COMPLETED" /\ row.approver = was.approver
          /\ row.version = was.version /\ row.initiator = was.initiator
      BY <2>4 DEF RemovalRow, RemovalStatus
    <2>6. PICK v \in Version : v = was.version
      BY <2>3
    <2>7. /\ template' = [template EXCEPT ![v] = [status |-> "DELETED", material |-> FALSE]]
          /\ enrolled' = FALSE /\ removal' = [removal EXCEPT ![d] = row] /\ End(r)
      BY <1>2, <2>1, <2>2, <2>4, <2>6 DEF EraseMaterial
    <2>8. /\ removal'[d] = row /\ \A e \in Removal \ {d} : removal'[e] = removal[e]
          /\ template'[v] = [status |-> "DELETED", material |-> FALSE]
          /\ \A w \in Version \ {v} : template'[w] = template[w]
      BY <2>7 DEF BiometricInductive, BiometricTypeOK
    <2>9. BiometricKeeps
      <3>1. template'[v] # NoTemplate
        BY <2>8 DEF NoTemplate
      <3>2. Enrolments \subseteq Enrolments'
        BY <2>8, <3>1 DEF Enrolments
      <3>3. \A e \in Removal :
              /\ removal[e].status # "NONE" =>
                   /\ removal'[e].status # "NONE"
                   /\ removal'[e].version = removal[e].version
                   /\ removal'[e].initiator = removal[e].initiator
              /\ ApprovedByAnother(e) => ApprovedByAnother(e)'
        BY <2>2, <2>5, <2>8 DEF ApprovedByAnother
      <3> QED BY <3>2, <3>3 DEF BiometricKeeps
    <2>10. BiometricTypeOK'
      BY <2>5, <2>7 DEF BiometricInductive, BiometricTypeOK, RemovalRow
    <2>11. RemovalsSound'
      <3>1. ASSUME NEW e \in Removal
            PROVE  /\ removal'[e].status # "NONE" => removal'[e].version \in Version /\ removal'[e].initiator \in User
                   /\ removal'[e].status \in {"APPROVED", "COMPLETED"} => ApprovedByAnother(e)'
                   /\ removal'[e].approver # None => ApprovedByAnother(e)' /\ removal'[e].status # "NONE"
        <4>1. CASE e = d
          BY <2>3, <2>5, <2>8, <4>1 DEF ApprovedByAnother
        <4>2. CASE e # d
          BY <2>8, <4>2 DEF ApprovedByAnother, BiometricInductive, RemovalsSound
        <4> QED BY <4>1, <4>2
      <3> QED BY <3>1 DEF RemovalsSound
    <2>12. ErasureNeedsTwoUsers'
      <3> SUFFICES ASSUME NEW w \in Version, template'[w] # NoTemplate, ~template'[w].material
                   PROVE  \E e \in Removal : removal'[e].version = w /\ ApprovedByAnother(e)'
        BY DEF ErasureNeedsTwoUsers, ApprovedByAnother, Enrolments
      <3>1. CASE w = v
        BY <2>3, <2>5, <2>6, <2>8, <3>1 DEF ApprovedByAnother
      <3>2. CASE w # v
        <4>1. PICK e \in Removal : removal[e].version = w /\ ApprovedByAnother(e)
          BY <2>8, <3>2 DEF BiometricInductive, TemplatesAreAccountable, ErasureNeedsTwoUsers,
                            ApprovedByAnother, Enrolments
        <4>2. e # d
          BY <2>2, <2>6, <3>2, <4>1
        <4> QED BY <2>8, <4>1, <4>2 DEF ApprovedByAnother
      <3> QED BY <3>1, <3>2
    <2>13. OneActiveTemplate' /\ EnrolledIsMatchable'
      <3>1. Active' \subseteq Active /\ \A w \in Active' : w # v
        BY <2>8 DEF Active
      <3> QED BY <2>7, <2>8, <3>1 DEF BiometricInductive, TemplatesAreAccountable, OneActiveTemplate,
                                     EnrolledIsMatchable, Active
    <2> QED BY <2>7, <2>9, <2>10, <2>11, <2>12, <2>13, BiometricRequestEnds
            DEF BiometricInductive, TemplatesAreAccountable
  <1>3. ASSUME RecoveryWindowElapses, mode' = mode PROVE BiometricInductive'
    <2>1. PICK d \in Removal :
            /\ removal[d].status = "APPROVED"
            /\ removal' = [removal EXCEPT ![d].elapsed = TRUE]
            /\ UNCHANGED <<call, template, enrolled>>
      BY <1>3 DEF RecoveryWindowElapses
    <2>2. PICK was \in RemovalRow : was = removal[d]
      BY DEF BiometricInductive, BiometricTypeOK, RemovalRow
    <2>3. /\ was.status = "APPROVED" /\ was.version \in Version /\ was.initiator \in User
          /\ was.approver \notin {None, was.initiator}
      BY <2>1, <2>2 DEF BiometricInductive, RemovalsSound, ApprovedByAnother
    <2>4. PICK row : row = [was EXCEPT !.elapsed = TRUE]
      OBVIOUS
    <2>5. /\ row \in RemovalRow /\ row.status = was.status /\ row.approver = was.approver
          /\ row.version = was.version /\ row.initiator = was.initiator
      BY <2>4 DEF RemovalRow
    <2>6. removal' = [removal EXCEPT ![d] = row]
      BY <2>1, <2>2, <2>4
    <2>7. BiometricKeeps /\ BiometricTypeOK' /\ RemovalsSound' /\ TemplatesAreAccountable'
      BY <2>1, <2>2, <2>3, <2>5, <2>6, RemovalWritten
    <2>8. \A r \in Request : (EnrolmentSound(call[r]) /\ RemovalSound(call[r]))'
      <3>1. ASSUME NEW r \in Request PROVE (EnrolmentSound(call[r]) /\ RemovalSound(call[r]))'
        <4>1. PICK q \in BiometricCall : q = call[r] /\ q = call'[r] /\ EnrolmentSound(q) /\ RemovalSound(q)
          BY <2>1 DEF BiometricInductive
        <4>2. q.at \in {"writeRemovalApproval", "eraseMaterial"} => q.row \in Removal
          BY DEF BiometricCall, Idle
        <4>3. EnrolmentSound(q)'
          BY <2>7, <4>1 DEF EnrolmentSound, BiometricKeeps
        <4>4. RemovalSound(q)'
          BY <2>7, <4>1, <4>2 DEF RemovalSound, BiometricKeeps
        <4> QED BY <4>1, <4>3, <4>4 DEF EnrolmentSound, RemovalSound
      <3> QED BY <3>1
    <2> QED BY <2>1, <2>7, <2>8 DEF BiometricInductive
  <1>4. ASSUME NEW r \in Request, Die(r), UNCHANGED biometricVars, mode' = mode PROVE BiometricInductive'
    <2>1. Idle \in BiometricCall /\ EnrolmentSound(Idle) /\ RemovalSound(Idle)
      BY DEF BiometricCall, Idle, EnrolmentSound, RemovalSound
    <2> QED BY <1>4, <2>1, BiometricRequestServed DEF Die, End
  <1> QED
    BY <1>1, <1>2, <1>3, <1>4, BiometricServing, TemplatesWritten, RemovalsWritten
       DEF BiometricNext, BiometricServes

LEMMA BiometricBegins == NoCalls /\ BiometricInit => BiometricInductive
  <1> SUFFICES ASSUME NoCalls, BiometricInit PROVE BiometricInductive
    OBVIOUS
  <1>1. Enrolments = {} /\ Active = {}
    BY DEF BiometricInit, Enrolments, Active, NoTemplate
  <1>2. BiometricTypeOK
    <2>1. NoTemplate \in [status : {"NONE", "ACTIVE", "REVOKED", "DELETED"}, material : BOOLEAN]
      BY DEF NoTemplate
    <2>2. 0 \in 0 .. MaxVersion /\ "NONE" \in RemovalStatus
      BY VersionAssumption DEF RemovalStatus
    <2>3. NoRemoval \in [status : RemovalStatus, version : 0 .. MaxVersion,
                         initiator : User \cup {None}, approver : User \cup {None},
                         elapsed : BOOLEAN]
      BY <2>2 DEF NoRemoval
    <2> QED BY <2>1, <2>3 DEF BiometricInit, BiometricTypeOK
  <1>3. TemplatesAreAccountable
    BY <1>1 DEF BiometricInit, TemplatesAreAccountable, OneActiveTemplate, EnrolledIsMatchable,
                ErasureNeedsTwoUsers
  <1>4. RemovalsSound
    BY DEF BiometricInit, RemovalsSound, NoRemoval
  <1>5. call \in [Request -> BiometricCall]
        /\ \A r \in Request : EnrolmentSound(call[r]) /\ RemovalSound(call[r])
    BY DEF NoCalls, BiometricCall, Idle, EnrolmentSound, RemovalSound
  <1> QED BY <1>2, <1>3, <1>4, <1>5 DEF BiometricInductive

LEMMA BiometricKeepsItsWord == BiometricInductive => TemplatesAreAccountable
  BY DEF BiometricInductive

\* However enrolments, revocations and removals overtake each other: one ACTIVE version at
\* most, matchable, and no material erased without a second user.
THEOREM TemplatesStayAccountable == BiometricSpec => []TemplatesAreAccountable
  BY BiometricBegins, BiometricKeepsItsWord, BiometricStep, PTL DEF BiometricSpec

-------------------------------------------------------------------------------
(***************************************************************************)
(* Analytics.  A calculation that is about to update an indicator found it *)
(* under its own version, which an indicator never changes; and one        *)
(* request at a time, a decision starts from the status it read and finds  *)
(* the indicator without a case if it is about to link one.                *)
(***************************************************************************)
Event == [from : IndicatorStatus, to : IndicatorStatus]

IndicatorRow ==
  [status : IndicatorStatus, version : 0 .. MaxRule, explained : 0 .. MaxRule, last : 0 .. MaxDay,
   case : Case \cup {None}]

RunCall == [at : {"find", "update", "checkCooldown", "create"}, to : Day, rule : Rule, last : Day]

StatusCall == [at : {"writeStatus"}, window : Window, from : IndicatorStatus,
               to : {"REVIEWED", "DISMISSED", "OPEN"}]

PickCall == [at : {"pickCase"}, window : Window, from : IndicatorStatus]

LinkCall == [at : {"linkCase"}, window : Window, from : IndicatorStatus, case : Case]

AnalyticsCall ==
  {Idle} \cup [at : {"writeRule"}, edited : 1 .. MaxRule] \cup [at : {"readRule"}, to : Day]
    \cup RunCall \cup StatusCall \cup PickCall \cup LinkCall

Story(i, events) ==
  /\ i.explained = i.version
  /\ i.status = "NONE" => i = NoIndicator /\ events = << >>
  /\ i.status # "NONE" => i.status = LedTo(events)
  /\ (\E k \in DOMAIN events : events[k].to = "ESCALATED") => i.case # None

IsChain(events) ==
  \A i \in DOMAIN events : events[i].from = LedTo(SubSeq(events, 1, i - 1))

Deciding == {"writeStatus", "pickCase", "linkCase"}

CallHolds(q) ==
  /\ q.at = "update" => indicator[WindowOf(q)].status # "NONE" /\ SameVersion(q)
  /\ q.at \in Deciding => indicator[q.window].status # "NONE"

CallFits(q) ==
  /\ q.at \in Deciding => q.from = indicator[q.window].status
  /\ q.at \in {"pickCase", "linkCase"} => indicator[q.window].case = None

Links(r, c) == call[r].at = "linkCase" /\ call[r].window = opened[c] /\ call[r].case = c

LinkedOrLinking ==
  \A c \in Case : opened[c] # None =>
    indicator[opened[c]].case = c \/ \E r \in Request : Links(r, c)

StoriesHold == \A w \in Window : Story(indicator[w], chronology[w])

StoriesAreChains == \A w \in Window : IsChain(chronology[w])

AnalyticsInductive ==
  /\ AnalyticsTypeOK /\ mode \in Modes
  /\ call \in [Request -> AnalyticsCall]
  /\ StoriesHold
  /\ OneAtATime
  /\ \A r \in Request : CallHolds(call[r]) /\ (mode.serial => CallFits(call[r]))
  /\ mode.serial => StoriesAreChains
  /\ mode.serial /\ ~mode.faults => LinkedOrLinking

\* Before the first event an indicator is open, before another where the last one led.
LEMMA EventsBefore ==
  ASSUME NEW s \in Seq(Event), NEW i \in 1 .. Len(s)
  PROVE  LedTo(SubSeq(s, 1, i - 1)) = IF i = 1 THEN "OPEN" ELSE s[i - 1].to
  <1>1. Len(s) \in Nat /\ \A k \in 1 .. Len(s) : s[k] \in Event
    BY LenProperties, ElementOfSeq
  <1>2. \A k \in 1 .. i - 1 : s[k] \in Event
    BY <1>1
  <1>3. /\ SubSeq(s, 1, i - 1) \in Seq(Event)
        /\ Len(SubSeq(s, 1, i - 1)) = IF 1 <= i - 1 THEN (i - 1) - 1 + 1 ELSE 0
        /\ \A k \in 1 .. (i - 1) - 1 + 1 : SubSeq(s, 1, i - 1)[k] = s[1 + k - 1]
    <2> HIDE DEF Event
    <2> QED BY <1>1, <1>2, SubSeqProperties
  <1> DEFINE p == SubSeq(s, 1, i - 1)
  <1>4. CASE i = 1
    <2>1. Len(p) = 0 /\ p \in Seq(Event)
      BY <1>3, <1>4
    <2>2. p = << >>
      BY <2>1
    <2> QED BY <1>4, <2>2 DEF LedTo
  <1>5. CASE i # 1
    <2>1. Len(p) = i - 1 /\ p[i - 1] = s[i - 1] /\ i - 1 \in Nat \ {0}
      BY <1>1, <1>3, <1>5
    <2>2. p # << >>
      BY <2>1
    <2> QED BY <1>5, <2>1, <2>2 DEF LedTo
  <1> QED BY <1>4, <1>5

LEMMA ChainGrows ==
  ASSUME NEW s \in Seq(Event), NEW e \in Event, IsChain(s), e.from = LedTo(s)
  PROVE  IsChain(Append(s, e))
  <1> DEFINE a == Append(s, e)
             n == Len(s)
  <1>1. n \in Nat /\ DOMAIN s = 1 .. n
    BY LenProperties
  <1>2. /\ a \in Seq(Event) /\ Len(a) = n + 1
        /\ \A i \in 1 .. n : a[i] = s[i]
        /\ a[n + 1] = e
    <2> HIDE DEF Event
    <2> QED BY AppendProperties
  <1>3. DOMAIN a = 1 .. n + 1
    BY <1>2, LenProperties
  <1> HIDE DEF a
  <1>4. \A i \in 1 .. n + 1 : LedTo(SubSeq(a, 1, i - 1)) = IF i = 1 THEN "OPEN" ELSE a[i - 1].to
    BY <1>2, EventsBefore
  <1>5. \A i \in 1 .. n : LedTo(SubSeq(s, 1, i - 1)) = IF i = 1 THEN "OPEN" ELSE s[i - 1].to
    BY EventsBefore
  <1>6. LedTo(s) = IF n = 0 THEN "OPEN" ELSE s[n].to
    <2>1. s = << >> <=> n = 0
      BY <1>1
    <2> QED BY <2>1 DEF LedTo
  <1>7. ASSUME NEW i \in 1 .. n + 1 PROVE a[i].from = LedTo(SubSeq(a, 1, i - 1))
    <2>1. CASE i = n + 1
      <3>1. n # 0 => a[n] = s[n]
        BY <1>1, <1>2
      <3> QED BY <1>1, <1>2, <1>4, <1>6, <2>1, <3>1
    <2>2. CASE i # n + 1
      <3>1. i \in 1 .. n /\ (i # 1 => i - 1 \in 1 .. n)
        BY <1>1, <2>2
      <3>2. s[i].from = LedTo(SubSeq(s, 1, i - 1))
        BY <1>1, <3>1 DEF IsChain
      <3> QED BY <1>2, <1>4, <1>5, <3>1, <3>2
    <2> QED BY <2>1, <2>2
  <1> QED BY <1>3, <1>7 DEF IsChain, a

\* A decision takes the story of its indicator on.
LEMMA StoryGoesOn ==
  ASSUME NEW i \in IndicatorRow, NEW s \in Seq(Event), Story(i, s), i.status # "NONE",
         NEW e \in Event, e.to # "NONE",
         NEW j \in IndicatorRow, j.status = e.to,
         j.version = i.version, j.explained = i.explained,
         i.case # None \/ e.to = "ESCALATED" => j.case # None
  PROVE  Append(s, e) \in Seq(Event) /\ Story(j, Append(s, e))
  <1> DEFINE a == Append(s, e)
             n == Len(s)
  <1>1. n \in Nat /\ DOMAIN s = 1 .. n
    BY LenProperties
  <1>2. /\ a \in Seq(Event) /\ Len(a) = n + 1 /\ a # << >>
        /\ \A k \in 1 .. n : a[k] = s[k]
        /\ a[n + 1] = e
    <2> HIDE DEF Event
    <2> QED BY AppendProperties
  <1>3. DOMAIN a = 1 .. n + 1
    BY <1>2, LenProperties
  <1> HIDE DEF a
  <1>4. LedTo(a) = e.to
    BY <1>2 DEF LedTo
  <1>5. (\E k \in DOMAIN a : a[k].to = "ESCALATED") => j.case # None
    <2> SUFFICES ASSUME NEW k \in 1 .. n + 1, a[k].to = "ESCALATED" PROVE j.case # None
      BY <1>3
    <2>1. CASE k = n + 1
      BY <1>2, <2>1
    <2>2. CASE k # n + 1
      <3>1. k \in 1 .. n
        BY <1>1, <2>2
      <3> QED BY <1>1, <1>2, <3>1 DEF Story
    <2> QED BY <2>1, <2>2
  <1>6. Story(j, a)
    BY <1>4, <1>5 DEF Story
  <1> QED BY <1>2, <1>6 DEF a

\* What no statement takes from an indicator.
IndicatorsKeep ==
  \A w \in Window : indicator[w].status # "NONE" =>
    indicator'[w].status # "NONE" /\ indicator'[w].version = indicator[w].version

\* The request that moves brings what it needs; the others still have it.
LEMMA AnalyticsRequestMoves ==
  ASSUME AnalyticsInductive, mode' = mode, NEW r \in Request, NEW c \in AnalyticsCall,
         call' = [call EXCEPT ![r] = c],
         call[r] # Idle \/ (mode.serial => Quiescent),
         IndicatorsKeep, CallHolds(c)', mode.serial => CallFits(c)'
  PROVE  /\ call' \in [Request -> AnalyticsCall] /\ call'[r] = c
         /\ \A s \in Request \ {r} : call'[s] = call[s]
         /\ OneAtATime'
         /\ \A s \in Request : (CallHolds(call[s]) /\ (mode.serial => CallFits(call[s])))'
  <1>1. call' \in [Request -> AnalyticsCall] /\ call'[r] = c
        /\ \A s \in Request \ {r} : call'[s] = call[s]
    BY DEF AnalyticsInductive
  <1>2. mode.serial => \A s \in Request \ {r} : call[s] = Idle
    BY DEF AnalyticsInductive, OneAtATime, Quiescent
  <1>3. OneAtATime'
    BY <1>1, <1>2 DEF OneAtATime
  <1>4. ASSUME NEW s \in Request PROVE (CallHolds(call[s]) /\ (mode.serial => CallFits(call[s])))'
    <2>1. CASE s = r
      BY <1>1, <2>1 DEF CallHolds, CallFits, SameVersion
    <2>2. CASE s # r
      <3>1. PICK q \in AnalyticsCall : q = call[s] /\ q = call'[s] /\ CallHolds(q)
        BY <1>1, <2>2 DEF AnalyticsInductive
      <3>2. (q.at = "update" => WindowOf(q) \in Window) /\ (q.at \in Deciding => q.window \in Window)
        <4>1. q \in RunCall => WindowOf(q) \in Window
          BY DEF RunCall, WindowOf, Window, Rule
        <4> QED BY <4>1 DEF AnalyticsCall, Idle, Deciding, RunCall, StatusCall, PickCall, LinkCall
      <3>3. CallHolds(q)'
        BY <3>1, <3>2 DEF CallHolds, SameVersion, IndicatorsKeep
      <3>4. mode.serial => q = Idle
        BY <1>2, <2>2, <3>1
      <3>5. mode.serial => CallFits(q)'
        BY <3>4 DEF CallFits, Deciding, Idle
      <3> QED BY <3>1, <3>3, <3>5 DEF CallHolds, CallFits, SameVersion
    <2> QED BY <2>1, <2>2
  <1> QED BY <1>1, <1>3, <1>4

LEMMA AnalyticsRequestEnds ==
  ASSUME AnalyticsInductive, mode' = mode, NEW r \in Request, End(r), call[r] # Idle, IndicatorsKeep
  PROVE  /\ call' \in [Request -> AnalyticsCall]
         /\ \A s \in Request \ {r} : call'[s] = call[s]
         /\ OneAtATime'
         /\ \A s \in Request : (CallHolds(call[s]) /\ (mode.serial => CallFits(call[s])))'
  <1>1. Idle \in AnalyticsCall /\ CallHolds(Idle)' /\ CallFits(Idle)'
    BY DEF AnalyticsCall, Idle, CallHolds, CallFits, Deciding
  <1> QED BY <1>1, AnalyticsRequestMoves DEF End

\* A statement that only reads.
LEMMA AnalyticsRequestServed ==
  ASSUME AnalyticsInductive, mode' = mode, UNCHANGED analyticsVars,
         NEW r \in Request, NEW c \in AnalyticsCall, call' = [call EXCEPT ![r] = c],
         call[r] # Idle \/ (mode.serial => Quiescent),
         call[r].at # "linkCase" \/ mode.faults,
         CallHolds(c), mode.serial => CallFits(c)
  PROVE  AnalyticsInductive'
  <1>1. AnalyticsTypeOK' /\ StoriesHold' /\ (mode.serial => StoriesAreChains)' /\ IndicatorsKeep
    BY DEF AnalyticsInductive, AnalyticsTypeOK, StoriesHold, StoriesAreChains, IndicatorsKeep, analyticsVars
  <1>2. CallHolds(c)' /\ (mode.serial => CallFits(c)')
    BY DEF CallHolds, CallFits, SameVersion, analyticsVars
  <1>3. /\ call' \in [Request -> AnalyticsCall]
        /\ \A s \in Request \ {r} : call'[s] = call[s]
        /\ OneAtATime'
        /\ \A s \in Request : (CallHolds(call[s]) /\ (mode.serial => CallFits(call[s])))'
    BY <1>1, <1>2, AnalyticsRequestMoves
  <1>4. (mode.serial /\ ~mode.faults => LinkedOrLinking)'
    <2> SUFFICES ASSUME mode.serial, ~mode.faults, NEW o \in Case, opened[o] # None
                 PROVE  indicator[opened[o]].case = o \/ \E s \in Request : Links(s, o)'
      BY DEF LinkedOrLinking, analyticsVars
    <2>1. CASE indicator[opened[o]].case = o
      BY <2>1
    <2>2. CASE \E s \in Request : Links(s, o)
      BY <1>3, <2>2 DEF Links, analyticsVars
    <2> QED BY <2>1, <2>2 DEF AnalyticsInductive, LinkedOrLinking
  <1> QED BY <1>1, <1>3, <1>4 DEF AnalyticsInductive

LEMMA AnalyticsRequestBegins ==
  ASSUME AnalyticsInductive, mode' = mode, UNCHANGED analyticsVars,
         NEW r \in Request, NEW c \in AnalyticsCall, Begin(r, c), CallHolds(c), CallFits(c)
  PROVE  AnalyticsInductive'
  <1>1. call' = [call EXCEPT ![r] = c] /\ (mode.serial => Quiescent)
    BY DEF Begin
  <1>2. call[r].at # "linkCase"
    BY DEF Begin, Idle
  <1> QED BY <1>1, <1>2, AnalyticsRequestServed

LEMMA AnalyticsServing ==
  ASSUME AnalyticsInductive, mode' = mode, NEW r \in Request,
         \/ EditRule(r) \/ Calculate(r) \/ ReadRule(r) \/ FindIndicator(r) \/ CheckCooldown(r)
         \/ TransitionIndicator(r) \/ EscalateIndicator(r) \/ FindCase(r)
         \/ Die(r) /\ UNCHANGED analyticsVars
  PROVE  AnalyticsInductive'
  <1>1. Idle \in AnalyticsCall /\ CallHolds(Idle) /\ CallFits(Idle)
    BY DEF AnalyticsCall, Idle, CallHolds, CallFits, Deciding
  <1>2. CASE EditRule(r)
    <2> DEFINE c == [at |-> "writeRule", edited |-> rule.version]
    <2>1. c \in AnalyticsCall /\ CallHolds(c) /\ CallFits(c)
      BY DEF AnalyticsCall, CallHolds, CallFits, Deciding, AnalyticsInductive, AnalyticsTypeOK, Rule
    <2>2. Begin(r, c) /\ UNCHANGED analyticsVars
      BY <1>2 DEF EditRule
    <2> QED BY <2>1, <2>2, AnalyticsRequestBegins
  <1>3. CASE Calculate(r)
    <2> DEFINE c == [at |-> "readRule", to |-> day]
    <2>1. c \in AnalyticsCall /\ CallHolds(c) /\ CallFits(c)
      BY DEF AnalyticsCall, CallHolds, CallFits, Deciding, AnalyticsInductive, AnalyticsTypeOK
    <2>2. Begin(r, c) /\ UNCHANGED analyticsVars
      BY <1>3 DEF Calculate
    <2> QED BY <2>1, <2>2, AnalyticsRequestBegins
  <1>4. CASE ReadRule(r)
    <2>1. call[r] # Idle /\ call[r].at # "linkCase" /\ UNCHANGED analyticsVars
      BY <1>4 DEF ReadRule, At, Idle
    <2>2. CASE End(r)
      BY <1>1, <2>1, <2>2, AnalyticsRequestServed DEF End
    <2>3. CASE ~End(r)
      <3>1. PICK q \in [at : {"readRule"}, to : Day] : q = call[r]
        BY <1>4 DEF ReadRule, At, AnalyticsInductive, AnalyticsCall, Idle, RunCall, StatusCall, PickCall, LinkCall
      <3>2. PICK last \in 1 .. q.to :
              call' = [call EXCEPT ![r] = [at |-> "find", to |-> q.to, rule |-> rule, last |-> last]]
        BY <1>4, <2>3, <3>1 DEF ReadRule
      <3> DEFINE c == [at |-> "find", to |-> q.to, rule |-> rule, last |-> last]
      <3>3. c \in RunCall
        BY DayAssumption DEF RunCall, Day, AnalyticsInductive, AnalyticsTypeOK
      <3>4. c \in AnalyticsCall /\ CallHolds(c) /\ CallFits(c)
        BY <3>3 DEF AnalyticsCall, CallHolds, CallFits, Deciding
      <3> QED BY <2>1, <3>2, <3>4, AnalyticsRequestServed
    <2> QED BY <2>2, <2>3
  <1>5. CASE FindIndicator(r) \/ CheckCooldown(r)
    <2>1. /\ call[r] # Idle /\ call[r].at # "linkCase" /\ UNCHANGED analyticsVars
          /\ call[r].at \in {"find", "checkCooldown"}
      BY <1>5 DEF FindIndicator, CheckCooldown, At, Idle
    <2>2. CASE End(r)
      BY <1>1, <2>1, <2>2, AnalyticsRequestServed DEF End
    <2>3. CASE ~End(r)
      <3>1. PICK q \in RunCall : q = call[r] /\ q.at \in {"find", "checkCooldown"}
        BY <2>1 DEF AnalyticsInductive, AnalyticsCall, Idle, RunCall, StatusCall, PickCall, LinkCall
      <3>2. PICK to \in {"update", "checkCooldown", "create"} :
              /\ Go(r, to)
              /\ to = "update" => indicator[WindowOf(q)] # NoIndicator /\ SameVersion(q)
        BY <1>5, <2>3, <3>1 DEF FindIndicator, CheckCooldown
      <3> DEFINE c == [q EXCEPT !.at = to]
      <3>3. c \in RunCall /\ c.at = to /\ c.to = q.to /\ c.rule = q.rule
        BY DEF RunCall
      <3>4. WindowOf(q) \in Window /\ WindowOf(c) = WindowOf(q)
        BY <3>3 DEF RunCall, WindowOf, Window, Rule
      <3>5. to = "update" => indicator[WindowOf(q)].status # "NONE"
        BY <3>2, <3>4 DEF AnalyticsInductive, StoriesHold, Story
      <3>6. call' = [call EXCEPT ![r] = c]
        BY <3>1, <3>2 DEF Go
      <3> HIDE DEF c
      <3>7. c \in AnalyticsCall /\ CallHolds(c) /\ CallFits(c)
        BY <3>2, <3>3, <3>4, <3>5 DEF AnalyticsCall, CallHolds, CallFits, Deciding, SameVersion
      <3> QED BY <2>1, <3>6, <3>7, AnalyticsRequestServed
    <2> QED BY <2>2, <2>3
  <1>6. CASE TransitionIndicator(r)
    <2>1. PICK w \in Window, to \in {"REVIEWED", "DISMISSED", "OPEN"} :
            /\ indicator[w].status \in MayBecome(to)
            /\ Begin(r, [at |-> "writeStatus", window |-> w, from |-> indicator[w].status, to |-> to])
            /\ UNCHANGED analyticsVars
      BY <1>6 DEF TransitionIndicator
    <2> DEFINE c == [at |-> "writeStatus", window |-> w, from |-> indicator[w].status, to |-> to]
    <2>2. indicator[w].status \in IndicatorStatus \ {"NONE"}
      BY <2>1 DEF MayBecome, IndicatorStatus
    <2>3. c \in AnalyticsCall /\ CallHolds(c) /\ CallFits(c)
      BY <2>2 DEF AnalyticsCall, StatusCall, CallHolds, CallFits, Deciding
    <2> QED BY <2>1, <2>3, AnalyticsRequestBegins
  <1>7. CASE EscalateIndicator(r)
    <2>1. PICK w \in Window :
            /\ indicator[w].status \notin {"NONE", "DISMISSED"}
            /\ Unlinked(w)
            /\ Begin(r, [at |-> "pickCase", window |-> w, from |-> indicator[w].status])
            /\ UNCHANGED analyticsVars
      BY <1>7 DEF EscalateIndicator
    <2> DEFINE c == [at |-> "pickCase", window |-> w, from |-> indicator[w].status]
    <2>2. indicator[w].status \in IndicatorStatus
      BY DEF AnalyticsInductive, AnalyticsTypeOK
    <2>3. c \in AnalyticsCall /\ CallHolds(c) /\ CallFits(c)
      BY <2>1, <2>2 DEF AnalyticsCall, PickCall, CallHolds, CallFits, Deciding, Unlinked
    <2> QED BY <2>1, <2>3, AnalyticsRequestBegins
  <1>8. CASE FindCase(r)
    <2>1. PICK q \in PickCall : q = call[r] /\ CallHolds(q) /\ (mode.serial => CallFits(q))
      BY <1>8 DEF FindCase, At, AnalyticsInductive, AnalyticsCall, Idle, RunCall, StatusCall, PickCall, LinkCall
    <2>2. PICK k \in Case : Picked(r, k)
      BY <1>8 DEF FindCase
    <2> DEFINE c == [at |-> "linkCase", window |-> q.window, from |-> q.from, case |-> k]
    <2>3. c \in LinkCall /\ CallHolds(c) /\ (mode.serial => CallFits(c))
      BY <2>1 DEF LinkCall, PickCall, CallHolds, CallFits, Deciding
    <2>4. c \in AnalyticsCall /\ call' = [call EXCEPT ![r] = c]
      BY <2>1, <2>2, <2>3 DEF AnalyticsCall, Picked, AnalyticsInductive
    <2>5. call[r] # Idle /\ call[r].at # "linkCase" /\ UNCHANGED analyticsVars
      BY <1>8 DEF FindCase, At, Idle
    <2> QED BY <2>3, <2>4, <2>5, AnalyticsRequestServed
  <1>9. CASE Die(r) /\ UNCHANGED analyticsVars
    BY <1>1, <1>9, AnalyticsRequestServed DEF Die, End
  <1> QED BY <1>2, <1>3, <1>4, <1>5, <1>6, <1>7, <1>8, <1>9

LEMMA LinksStay ==
  ASSUME AnalyticsInductive, mode' = mode, opened' = opened,
         NEW r \in Request, call[r].at # "linkCase", \A s \in Request \ {r} : call'[s] = call[s],
         \A w \in Window : indicator[w].case # None => indicator'[w].case = indicator[w].case
  PROVE  (mode.serial /\ ~mode.faults => LinkedOrLinking)'
  <1> SUFFICES ASSUME mode.serial, ~mode.faults, NEW o \in Case, opened[o] # None
               PROVE  indicator'[opened[o]].case = o \/ \E s \in Request : Links(s, o)'
    BY DEF LinkedOrLinking
  <1>1. opened[o] \in Window
    BY DEF AnalyticsInductive, AnalyticsTypeOK
  <1>2. CASE indicator[opened[o]].case = o
    BY <1>1, <1>2, CaseAssumption
  <1>3. CASE \E s \in Request : Links(s, o)
    BY <1>3 DEF Links
  <1> QED BY <1>2, <1>3 DEF AnalyticsInductive, LinkedOrLinking

\* A calculation writes its indicator, or the rule changes.
LEMMA CalculationsWritten ==
  ASSUME AnalyticsInductive, mode' = mode, NEW r \in Request,
         WriteRule(r) \/ UpdateIndicator(r) \/ CreateIndicator(r)
  PROVE  AnalyticsInductive'
  <1>1. call[r] # Idle /\ call[r].at # "linkCase" /\ End(r)
    BY DEF WriteRule, UpdateIndicator, CreateIndicator, At, Idle
  <1>2. ASSUME IndicatorsKeep, AnalyticsTypeOK', StoriesHold', UNCHANGED <<chronology, opened>>,
               \A w \in Window : indicator[w].case # None => indicator'[w].case = indicator[w].case
        PROVE  AnalyticsInductive'
    <2>1. /\ call' \in [Request -> AnalyticsCall]
          /\ \A s \in Request \ {r} : call'[s] = call[s]
          /\ OneAtATime'
          /\ \A s \in Request : (CallHolds(call[s]) /\ (mode.serial => CallFits(call[s])))'
      BY <1>1, <1>2, AnalyticsRequestEnds
    <2>2. (mode.serial /\ ~mode.faults => LinkedOrLinking)'
      BY <1>1, <1>2, <2>1, LinksStay
    <2>3. (mode.serial => StoriesAreChains)'
      BY <1>2 DEF AnalyticsInductive, StoriesAreChains
    <2> QED BY <1>2, <2>1, <2>2, <2>3 DEF AnalyticsInductive
  <1>3. CASE WriteRule(r)
    <2>1. rule' \in Rule /\ UNCHANGED <<day, indicator, chronology, opened>>
      BY <1>3 DEF WriteRule, AnalyticsInductive, AnalyticsTypeOK
    <2>2. IndicatorsKeep /\ AnalyticsTypeOK' /\ StoriesHold'
      BY <2>1 DEF IndicatorsKeep, AnalyticsInductive, AnalyticsTypeOK, StoriesHold
    <2> QED BY <1>2, <2>1, <2>2
  <1>4. CASE UpdateIndicator(r) \/ CreateIndicator(r)
    <2>1. PICK q \in RunCall : /\ q = call[r] /\ CallHolds(q)
                               /\ UpdateIndicator(r) => q.at = "update"
      BY <1>4 DEF UpdateIndicator, CreateIndicator, At, AnalyticsInductive, AnalyticsCall, Idle,
                  RunCall, StatusCall, PickCall, LinkCall
    <2>2. PICK w \in Window : w = WindowOf(q)
      BY DEF RunCall, WindowOf, Window, Rule
    <2>3. PICK i \in IndicatorRow : i = indicator[w] /\ Story(i, chronology[w])
      BY DEF AnalyticsInductive, AnalyticsTypeOK, IndicatorRow, StoriesHold
    <2>4. PICK j \in IndicatorRow :
            /\ indicator' = [indicator EXCEPT ![w] = j]
            /\ Story(j, chronology[w])
            /\ i.status # "NONE" => j.status # "NONE" /\ j.version = i.version
            /\ i.case # None => j.case = i.case
      <3>1. q.last \in 0 .. MaxDay /\ q.rule.version \in 0 .. MaxRule
        BY DayAssumption, RuleAssumption DEF RunCall, Rule, Day
      <3>2. CASE UpdateIndicator(r)
        <4>1. i.status # "NONE" /\ i.version = q.rule.version
          BY <2>1, <2>2, <2>3, <3>2 DEF CallHolds, SameVersion
        <4> DEFINE j == [i EXCEPT !.last = q.last, !.explained = q.rule.version]
        <4>2. j \in IndicatorRow /\ j.status = i.status /\ j.version = i.version /\ j.case = i.case
              /\ j.explained = q.rule.version
          BY <3>1 DEF IndicatorRow
        <4>3. indicator' = [indicator EXCEPT ![w] = j]
          BY <2>1, <2>2, <2>3, <3>2 DEF UpdateIndicator
        <4> HIDE DEF j
        <4>4. Story(j, chronology[w])
          BY <2>3, <4>1, <4>2 DEF Story
        <4> QED BY <4>2, <4>3, <4>4
      <3>3. CASE CreateIndicator(r) /\ indicator[w] # NoIndicator
        <4>1. indicator' = indicator
          BY <2>1, <2>2, <3>3 DEF CreateIndicator
        <4>2. indicator' = [indicator EXCEPT ![w] = i]
          BY <2>3, <4>1 DEF AnalyticsInductive, AnalyticsTypeOK
        <4> QED BY <2>3, <4>2
      <3>4. CASE CreateIndicator(r) /\ indicator[w] = NoIndicator
        <4> DEFINE j == [status |-> "OPEN", version |-> q.rule.version, explained |-> q.rule.version,
                         last |-> q.last, case |-> None]
        <4>1. indicator' = [indicator EXCEPT ![w] = j]
          BY <2>1, <2>2, <3>4 DEF CreateIndicator
        <4>2. i.status = "NONE" /\ i.case = None
          BY <2>3, <3>4 DEF NoIndicator
        <4>3. chronology[w] = << >>
          BY <2>3, <4>2 DEF Story
        <4>4. j \in IndicatorRow
          BY <3>1 DEF IndicatorRow, IndicatorStatus
        <4>5. Story(j, << >>)
          BY DEF Story, LedTo
        <4> QED BY <4>1, <4>2, <4>3, <4>4, <4>5
      <3> QED BY <1>4, <3>2, <3>3, <3>4
    <2>5. UNCHANGED <<day, rule, chronology, opened>>
      BY <1>4 DEF UpdateIndicator, CreateIndicator
    <2>6. IndicatorsKeep /\ AnalyticsTypeOK' /\ StoriesHold'
      BY <2>3, <2>4, <2>5 DEF IndicatorsKeep, AnalyticsInductive, AnalyticsTypeOK, StoriesHold, IndicatorRow
    <2>7. \A v \in Window : indicator[v].case # None => indicator'[v].case = indicator[v].case
      BY <2>3, <2>4 DEF AnalyticsInductive, AnalyticsTypeOK
    <2> QED BY <1>2, <2>5, <2>6, <2>7
  <1> QED BY <1>3, <1>4

\* A decision writes the status with its event.
LEMMA DecisionsWritten ==
  ASSUME AnalyticsInductive, mode' = mode, NEW r \in Request, WriteStatus(r) \/ LinkCase(r)
  PROVE  AnalyticsInductive'
  <1>1. PICK q \in StatusCall \cup LinkCall :
          /\ q = call[r] /\ CallHolds(q) /\ (mode.serial => CallFits(q))
          /\ WriteStatus(r) => q \in StatusCall
          /\ LinkCase(r) => q \in LinkCall
    BY DEF WriteStatus, LinkCase, At, AnalyticsInductive, AnalyticsCall, Idle, RunCall, StatusCall,
           PickCall, LinkCall
  <1>2. PICK w \in Window : w = q.window
    BY DEF StatusCall, LinkCall
  <1>3. PICK i \in IndicatorRow, events \in Seq(Event) :
          i = indicator[w] /\ events = chronology[w] /\ Story(i, events)
    BY DEF AnalyticsInductive, AnalyticsTypeOK, IndicatorRow, Event, StoriesHold
  <1>4. PICK e \in Event : e = [from |-> q.from, to |-> IF q.at = "linkCase" THEN "ESCALATED" ELSE q.to]
    <2>1. q \in StatusCall => q.from \in IndicatorStatus /\ q.to \in IndicatorStatus
      BY DEF StatusCall, IndicatorStatus
    <2>2. q \in LinkCall => q.from \in IndicatorStatus /\ q.at = "linkCase"
      BY DEF LinkCall
    <2>3. "ESCALATED" \in IndicatorStatus
      BY DEF IndicatorStatus
    <2> DEFINE to == IF q.at = "linkCase" THEN "ESCALATED" ELSE q.to
    <2>4. q.from \in IndicatorStatus /\ to \in IndicatorStatus
      BY <1>1, <2>1, <2>2, <2>3
    <2> HIDE DEF to
    <2>5. [from |-> q.from, to |-> to] \in Event
      BY <2>4 DEF Event
    <2> QED BY <2>5 DEF to
  <1>5. /\ i.status # "NONE" /\ e.from = q.from /\ e.to # "NONE"
        /\ mode.serial => q.from = i.status
        /\ q.at \in {"writeStatus", "linkCase"}
    BY <1>1, <1>2, <1>3, <1>4 DEF CallHolds, CallFits, Deciding, StatusCall, LinkCall
  <1>6. PICK j \in IndicatorRow :
          /\ indicator' = [indicator EXCEPT ![w] = j]
          /\ j.status = e.to /\ j.version = i.version /\ j.explained = i.explained
          /\ j.case = IF q.at = "linkCase" THEN q.case ELSE i.case
          /\ q.at = "linkCase" => q.case \in Case
    <2>1. CASE WriteStatus(r)
      <3> DEFINE j == [i EXCEPT !.status = q.to]
      <3>1. q.at = "writeStatus" /\ q.to = e.to
        BY <1>1, <1>4, <2>1 DEF StatusCall
      <3>2. j \in IndicatorRow /\ j.status = e.to /\ j.version = i.version
            /\ j.explained = i.explained /\ j.case = i.case
        BY <3>1 DEF IndicatorRow, Event
      <3>3. indicator' = [indicator EXCEPT ![w] = j]
        BY <1>1, <1>2, <1>3, <2>1 DEF WriteStatus
      <3> QED BY <3>1, <3>2, <3>3
    <2>2. CASE LinkCase(r)
      <3> DEFINE j == [i EXCEPT !.status = "ESCALATED", !.case = q.case]
      <3>1. q.at = "linkCase" /\ "ESCALATED" = e.to /\ q.case \in Case
        BY <1>1, <1>4, <2>2 DEF LinkCall
      <3>2. j \in IndicatorRow /\ j.status = e.to /\ j.version = i.version
            /\ j.explained = i.explained /\ j.case = q.case
        BY <3>1 DEF IndicatorRow, Event
      <3>3. indicator' = [indicator EXCEPT ![w] = j]
        BY <1>1, <1>2, <1>3, <2>2 DEF LinkCase
      <3> QED BY <3>1, <3>2, <3>3
    <2> QED BY <2>1, <2>2
  <1>7. /\ chronology' = [chronology EXCEPT ![w] = Append(events, e)]
        /\ UNCHANGED <<day, rule, opened>> /\ End(r) /\ call[r] # Idle
    <2>1. CASE WriteStatus(r)
      <3>1. q.at = "writeStatus" /\ e = [from |-> q.from, to |-> q.to]
        BY <1>1, <1>4, <2>1 DEF StatusCall
      <3> QED BY <1>1, <1>2, <1>3, <2>1, <3>1 DEF WriteStatus, Happened, At, Idle
    <2>2. CASE LinkCase(r)
      <3>1. q.at = "linkCase" /\ e = [from |-> q.from, to |-> "ESCALATED"]
        BY <1>1, <1>4, <2>2 DEF LinkCall
      <3> QED BY <1>1, <1>2, <1>3, <2>2, <3>1 DEF LinkCase, Happened, At, Idle
    <2> QED BY <2>1, <2>2
  <1>8. Append(events, e) \in Seq(Event) /\ Story(j, Append(events, e))
    <2>1. i.case # None \/ e.to = "ESCALATED" => j.case # None
      <3>1. q.at # "linkCase" => e.to # "ESCALATED"
        BY <1>1, <1>4, <1>5 DEF StatusCall, LinkCall
      <3> QED BY <1>6, <3>1, CaseAssumption
    <2> QED BY <1>3, <1>5, <1>6, <2>1, StoryGoesOn
  <1>9. AnalyticsTypeOK'
    <2>1. /\ indicator' \in [Window -> IndicatorRow]
          /\ chronology' \in [Window -> Seq(Event)]
      BY <1>6, <1>7, <1>8 DEF AnalyticsInductive, AnalyticsTypeOK, IndicatorRow, Event
    <2> QED BY <1>7, <2>1 DEF AnalyticsInductive, AnalyticsTypeOK, IndicatorRow, Event
  <1>10. StoriesHold' /\ IndicatorsKeep
    BY <1>3, <1>5, <1>6, <1>7, <1>8 DEF StoriesHold, IndicatorsKeep, AnalyticsInductive, AnalyticsTypeOK
  <1>11. (mode.serial => StoriesAreChains)'
    <2> SUFFICES ASSUME mode.serial, NEW v \in Window PROVE IsChain(chronology'[v])
      BY DEF StoriesAreChains
    <2>1. CASE v = w
      <3>1. IsChain(events) /\ e.from = LedTo(events)
        BY <1>3, <1>5 DEF AnalyticsInductive, StoriesAreChains, Story
      <3>2. IsChain(Append(events, e))
        BY <3>1, ChainGrows
      <3>3. chronology'[v] = Append(events, e)
        BY <1>7, <2>1 DEF AnalyticsInductive, AnalyticsTypeOK
      <3> QED BY <3>2, <3>3
    <2>2. CASE v # w
      <3>1. chronology'[v] = chronology[v]
        BY <1>7, <2>2 DEF AnalyticsInductive, AnalyticsTypeOK
      <3> QED BY <3>1 DEF AnalyticsInductive, StoriesAreChains
    <2> QED BY <2>1, <2>2
  <1>12. /\ call' \in [Request -> AnalyticsCall]
         /\ \A s \in Request \ {r} : call'[s] = call[s]
         /\ OneAtATime'
         /\ \A s \in Request : (CallHolds(call[s]) /\ (mode.serial => CallFits(call[s])))'
    BY <1>7, <1>10, AnalyticsRequestEnds
  <1>13. (mode.serial /\ ~mode.faults => LinkedOrLinking)'
    <2>1. CASE q.at # "linkCase"
      <3>1. \A v \in Window : indicator[v].case # None => indicator'[v].case = indicator[v].case
        BY <1>3, <1>6, <2>1 DEF AnalyticsInductive, AnalyticsTypeOK
      <3> QED BY <1>1, <1>7, <1>12, <2>1, <3>1, LinksStay
    <2>2. CASE q.at = "linkCase"
      <3> SUFFICES ASSUME mode.serial, ~mode.faults, NEW o \in Case, opened[o] # None
                   PROVE  indicator'[opened[o]].case = o
        BY <1>7 DEF LinkedOrLinking
      <3>1. opened[o] \in Window
        BY DEF AnalyticsInductive, AnalyticsTypeOK
      <3>2. i.case = None
        BY <1>1, <1>2, <1>3, <2>2 DEF CallFits
      <3>3. indicator'[w] = j /\ \A v \in Window \ {w} : indicator'[v] = indicator[v]
        BY <1>6 DEF AnalyticsInductive, AnalyticsTypeOK
      <3>4. CASE indicator[opened[o]].case = o
        <4>1. opened[o] # w
          BY <1>3, <3>2, <3>4, CaseAssumption
        <4> QED BY <3>1, <3>3, <3>4, <4>1
      <3>5. CASE indicator[opened[o]].case # o
        <4>1. PICK s \in Request : Links(s, o)
          BY <3>5 DEF AnalyticsInductive, LinkedOrLinking
        <4>2. s = r
          BY <1>7, <4>1 DEF AnalyticsInductive, OneAtATime, Links, Idle
        <4>3. q.window = opened[o] /\ q.case = o
          BY <1>1, <4>1, <4>2 DEF Links
        <4> QED BY <1>2, <1>6, <2>2, <3>3, <4>3
      <3> QED BY <3>4, <3>5
    <2> QED BY <2>1, <2>2
  <1> QED BY <1>9, <1>10, <1>11, <1>12, <1>13 DEF AnalyticsInductive

\* A case opened for an indicator is on its way to it.
LEMMA CaseOpened ==
  ASSUME AnalyticsInductive, mode' = mode, NEW r \in Request, OpenCase(r)
  PROVE  AnalyticsInductive'
  <1>1. PICK q \in PickCall : q = call[r] /\ CallHolds(q) /\ (mode.serial => CallFits(q))
    BY DEF OpenCase, At, AnalyticsInductive, AnalyticsCall, Idle, RunCall, StatusCall, PickCall, LinkCall
  <1>2. PICK k \in Case : /\ opened' = [opened EXCEPT ![k] = q.window]
                          /\ Picked(r, k)
                          /\ UNCHANGED <<day, rule, indicator, chronology>>
    BY <1>1 DEF OpenCase
  <1> DEFINE c == [at |-> "linkCase", window |-> q.window, from |-> q.from, case |-> k]
  <1>3. c \in LinkCall /\ CallHolds(c)' /\ (mode.serial => CallFits(c)')
    BY <1>1, <1>2 DEF LinkCall, PickCall, CallHolds, CallFits, Deciding
  <1>4. c \in AnalyticsCall /\ call' = [call EXCEPT ![r] = c]
    BY <1>1, <1>2, <1>3 DEF AnalyticsCall, Picked, AnalyticsInductive
  <1>5. call[r] # Idle /\ call[r].at # "linkCase" /\ IndicatorsKeep
    BY <1>2 DEF OpenCase, At, Idle, IndicatorsKeep
  <1>6. /\ call' \in [Request -> AnalyticsCall] /\ call'[r] = c
        /\ \A s \in Request \ {r} : call'[s] = call[s]
        /\ OneAtATime'
        /\ \A s \in Request : (CallHolds(call[s]) /\ (mode.serial => CallFits(call[s])))'
    BY <1>3, <1>4, <1>5, AnalyticsRequestMoves
  <1>7. q.window \in Window
    BY DEF PickCall
  <1>8. AnalyticsTypeOK' /\ StoriesHold' /\ (mode.serial => StoriesAreChains)'
    BY <1>2, <1>7 DEF AnalyticsInductive, AnalyticsTypeOK, StoriesHold, StoriesAreChains
  <1>9. (mode.serial /\ ~mode.faults => LinkedOrLinking)'
    <2> SUFFICES ASSUME mode.serial, ~mode.faults, NEW o \in Case, opened'[o] # None
                 PROVE  indicator'[opened'[o]].case = o \/ \E s \in Request : Links(s, o)'
      BY DEF LinkedOrLinking
    <2>1. CASE o = k
      <3>1. opened'[o] = q.window
        BY <1>2, <2>1 DEF AnalyticsInductive, AnalyticsTypeOK
      <3>2. call'[r].at = "linkCase" /\ call'[r].window = q.window /\ call'[r].case = o
        BY <1>6, <2>1
      <3> QED BY <3>1, <3>2 DEF Links
    <2>2. CASE o # k
      <3>1. opened'[o] = opened[o]
        BY <1>2, <2>2 DEF AnalyticsInductive, AnalyticsTypeOK
      <3>2. indicator[opened[o]].case = o \/ \E s \in Request : Links(s, o)
        BY <3>1 DEF AnalyticsInductive, LinkedOrLinking
      <3>3. \A s \in Request : Links(s, o) => Links(s, o)'
        BY <1>5, <1>6, <3>1 DEF Links
      <3> QED BY <1>2, <3>1, <3>2, <3>3
    <2> QED BY <2>1, <2>2
  <1> QED BY <1>6, <1>8, <1>9 DEF AnalyticsInductive

LEMMA AnalyticsStep ==
  ASSUME AnalyticsInductive, [AnalyticsNext]_<<mode, call, analyticsVars>>
  PROVE  AnalyticsInductive'
  <1>1. ASSUME DayPasses \/ UNCHANGED <<day, call, rule, indicator, chronology, opened>>, mode' = mode
        PROVE  AnalyticsInductive'
    <2>1. UNCHANGED <<call, rule, indicator, chronology, opened>> /\ day' \in Day
      BY <1>1, DayAssumption DEF DayPasses, Day, AnalyticsInductive, AnalyticsTypeOK
    <2>2. AnalyticsTypeOK' /\ StoriesHold' /\ OneAtATime' /\ (mode.serial => StoriesAreChains)'
      BY <1>1, <2>1 DEF AnalyticsInductive, AnalyticsTypeOK, StoriesHold, OneAtATime, StoriesAreChains
    <2>3. \A r \in Request : (CallHolds(call[r]) /\ (mode.serial => CallFits(call[r])))'
      BY <1>1, <2>1 DEF AnalyticsInductive, CallHolds, CallFits, SameVersion
    <2>4. (mode.serial /\ ~mode.faults => LinkedOrLinking)'
      BY <1>1, <2>1 DEF AnalyticsInductive, LinkedOrLinking, Links
    <2> QED BY <1>1, <2>1, <2>2, <2>3, <2>4 DEF AnalyticsInductive
  <1> QED
    BY <1>1, AnalyticsServing, CalculationsWritten, DecisionsWritten, CaseOpened
       DEF AnalyticsNext, AnalyticsServes, analyticsVars

LEMMA AnalyticsBegins == NoCalls /\ AnalyticsInit => AnalyticsInductive
  <1> SUFFICES ASSUME NoCalls, AnalyticsInit PROVE AnalyticsInductive
    OBVIOUS
  <1>1. NoIndicator \in IndicatorRow /\ << >> \in Seq(Event)
    BY DayAssumption, RuleAssumption DEF NoIndicator, IndicatorRow, IndicatorStatus
  <1>2. AnalyticsTypeOK
    BY <1>1, DayAssumption DEF AnalyticsInit, AnalyticsTypeOK, IndicatorRow, Event, Day
  <1>3. StoriesHold /\ StoriesAreChains /\ LinkedOrLinking
    BY DEF AnalyticsInit, StoriesHold, Story, NoIndicator, StoriesAreChains, IsChain, LinkedOrLinking
  <1>4. /\ call \in [Request -> AnalyticsCall] /\ OneAtATime /\ mode \in Modes
        /\ \A r \in Request : CallHolds(call[r]) /\ CallFits(call[r])
    BY DEF NoCalls, AnalyticsCall, OneAtATime, CallHolds, CallFits, Deciding, Idle
  <1> QED BY <1>2, <1>3, <1>4 DEF AnalyticsInductive

LEMMA AnalyticsKeepsItsWord == AnalyticsInductive => IndicatorsAreAccountable
  <1> SUFFICES ASSUME AnalyticsInductive PROVE IndicatorsAreAccountable
    OBVIOUS
  <1>1. ExplainedByItsRule /\ EscalatedIsLinked
    BY DEF AnalyticsInductive, StoriesHold, Story, ExplainedByItsRule, EscalatedIsLinked
  <1>2. StatusIsLastEvent
    BY DEF AnalyticsInductive, StoriesHold, Story, StatusIsLastEvent, NoIndicator
  <1>3. ChronologyIsAChain
    BY DEF AnalyticsInductive, StoriesAreChains, IsChain, ChronologyIsAChain
  <1>4. OpenedIsLinked
    BY DEF AnalyticsInductive, LinkedOrLinking, Links, OpenedIsLinked, Quiescent, Idle
  <1> QED BY <1>1, <1>2, <1>3, <1>4 DEF IndicatorsAreAccountable

\* However calculations, versions of the rule and decisions cross, an indicator is
\* explained by the version it quotes, its status is where its last event led, and one
\* ever escalated has a case; one at a time its events form a chain, and without deaths
\* it has no second case.
THEOREM IndicatorsStayAccountable == AnalyticsSpec => []IndicatorsAreAccountable
  BY AnalyticsBegins, AnalyticsKeepsItsWord, AnalyticsStep, PTL DEF AnalyticsSpec

-------------------------------------------------------------------------------
(***************************************************************************)
(* Notices.  A live job owns the notices it has listed, the request that   *)
(* queued a notice owns it while it is PENDING, and nobody else's rows are *)
(* written.  A notice that may be listed was counted as often as it was    *)
(* handed over but for the runs that failed to record it, and delivered    *)
(* only by those and where the provider threw; only while its owner is     *)
(* between the provider and the update, or has died there, is the count    *)
(* one behind, and then the job's RUNNING row or the status keeps it from  *)
(* being listed.                                                           *)
(***************************************************************************)
NoticeWork ==
  [at : {"list", "nextBatch", "send", "writeSent", "writeFailed"},
   job : Job \cup {"none"}, todo : SUBSET Notice, batch : SUBSET Notice]

NoticeCall == {Idle} \cup NoticeWork

Writing(q) == q.at \in {"writeSent", "writeFailed"}
Sending(q) == q.at = "send" \/ Writing(q)

Holding(q, n) == q # Idle /\ (n \in q.todo \/ (Sending(q) /\ n \in q.batch))

Covers(q, n) == q # Idle /\ q.job \in Job /\ n \in NoticesOf(q.job)

Untold(n) ==
  handed[n] <= notice[n].attempts + lost[n] /\ delivered[n] <= lost[n] + denied[n]

Told(n) == denied[n] < delivered[n] /\ delivered[n] <= 1 + lost[n] + denied[n]

Listable(n) == notice[n].status = "FAILED" \/ (n \notin Queued /\ notice[n].status = "PENDING")

Counted(n) == Listable(n) => Untold(n)

StatusFor(job) ==
  CASE job = "none" -> {"PENDING"} [] job = "retry" -> {"FAILED"} [] job = "deliver" -> {"PENDING", "FAILED"}

NoticeSound(q) ==
  q # Idle =>
    /\ q.job \in Job =>
         /\ q.job \in running /\ q.todo \subseteq NoticesOf(q.job)
         /\ Sending(q) => q.batch \subseteq NoticesOf(q.job) /\ q.todo \cap q.batch = {}
    /\ q.job = "none" => Sending(q) /\ q.todo = {} /\ q.batch \subseteq Queued
    /\ \A n \in Notice : Holding(q, n) =>
         notice[n].attempts < MaxAttempts /\ notice[n].status \in StatusFor(q.job)
    /\ q.at = "send" => \A n \in q.batch : Untold(n)
    /\ Writing(q) => \A n \in q.batch :
         /\ handed[n] <= notice[n].attempts + 1 + lost[n]
         /\ IF q.at = "writeSent" THEN Told(n) ELSE delivered[n] <= lost[n] + denied[n]
    /\ \A n \in Notice : Covers(q, n) /\ ~(Writing(q) /\ n \in q.batch) => Counted(n)

NoticeRowsSound ==
  \A n \in Notice :
    /\ handed[n] <= MaxAttempts + lost[n]
    /\ denied[n] <= delivered[n] /\ delivered[n] <= 1 + lost[n] + denied[n]
    /\ notice[n].status = "SENT" => Told(n)
    /\ notice[n].status = "NONE" => notice[n] = NoNotice /\ handed[n] = 0 /\ delivered[n] = 0
    /\ \A job \in Job \ running : n \in NoticesOf(job) => Counted(n)

Apart(p, q) ==
  p # Idle /\ q # Idle /\ p.job = q.job => p.job = "none" /\ p.batch \cap q.batch = {}

NoticeInductive ==
  /\ NoticeTypeOK /\ NoticeRowsSound
  /\ call \in [Request -> NoticeCall]
  /\ \A r \in Request : NoticeSound(call[r])
  /\ \A r, s \in Request : r # s => Apart(call[r], call[s])

Same(n) ==
  /\ notice'[n].status = notice[n].status /\ notice'[n].attempts = notice[n].attempts
  /\ handed'[n] = handed[n] /\ delivered'[n] = delivered[n]
  /\ denied'[n] = denied[n] /\ lost'[n] = lost[n]

\* A notice has one owner, and a job's notice belongs to no other job.
LEMMA HeldOnce ==
  ASSUME NEW p \in NoticeCall, NEW q \in NoticeCall, NoticeSound(p), NoticeSound(q), Apart(p, q),
         NEW n \in Notice, Holding(p, n)
  PROVE  ~Holding(q, n) /\ (p.job \in Job => ~Covers(q, n))
  <1>1. p # Idle /\ p.job \in Job \cup {"none"}
    BY DEF Holding, NoticeCall, NoticeWork
  <1>2. q # Idle => q.job \in Job \cup {"none"}
    BY DEF NoticeCall, NoticeWork
  <1>3. p.job \in Job => n \in NoticesOf(p.job)
    BY <1>1 DEF NoticeSound, Holding
  <1>4. p.job = "none" => n \in p.batch /\ n \in Queued
    BY <1>1 DEF NoticeSound, Holding
  <1>5. q # Idle /\ q.job \in Job /\ Holding(q, n) => n \in NoticesOf(q.job)
    BY DEF NoticeSound, Holding
  <1>6. q # Idle /\ q.job = "none" /\ Holding(q, n) => n \in q.batch /\ n \in Queued
    BY DEF NoticeSound, Holding
  <1>7. /\ notice[n].status \in StatusFor(p.job)
        /\ Holding(q, n) => notice[n].status \in StatusFor(q.job)
    BY <1>1 DEF NoticeSound, Holding
  <1>8. \A i, j \in Job : i # j => NoticesOf(i) \cap NoticesOf(j) = {}
    BY DEF Job, NoticesOf
  <1>9. CASE p.job \in Job
    <2>1. ~Covers(q, n)
      BY <1>1, <1>3, <1>8, <1>9 DEF Covers, Apart, Job
    <2>2. ~Holding(q, n)
      <3> SUFFICES ASSUME Holding(q, n) PROVE FALSE
        OBVIOUS
      <3>1. q # Idle /\ q.job = "none" /\ n \in Queued
        BY <1>2, <1>5, <1>6, <2>1 DEF Covers, Holding
      <3>2. p.job = "retry"
        BY <1>3, <1>9, <3>1 DEF Job, NoticesOf
      <3> QED BY <1>7, <3>1, <3>2 DEF StatusFor
    <2> QED BY <2>1, <2>2
  <1>10. CASE p.job = "none"
    <2>1. ~Holding(q, n)
      <3> SUFFICES ASSUME Holding(q, n) PROVE FALSE
        OBVIOUS
      <3>1. q # Idle
        BY DEF Holding
      <3>2. CASE q.job = "none"
        BY <1>1, <1>4, <1>6, <1>10, <3>1, <3>2 DEF Apart
      <3>3. CASE q.job \in Job
        <4>1. q.job = "retry"
          BY <1>4, <1>5, <1>10, <3>1, <3>3 DEF Job, NoticesOf
        <4> QED BY <1>7, <1>10, <4>1 DEF StatusFor
      <3> QED BY <1>2, <3>1, <3>2, <3>3
    <2> QED BY <1>10, <2>1 DEF Job
  <1> QED BY <1>1, <1>9, <1>10

\* Steps about other rows leave a request what it relies on.
LEMMA NoticeSoundStays ==
  ASSUME NEW q \in NoticeCall, NoticeSound(q),
         q # Idle /\ q.job \in Job => q.job \in running',
         \A n \in Notice : Same(n) \/ (~Holding(q, n) /\ (Counted(n)' \/ ~Covers(q, n)))
  PROVE  NoticeSound(q)'
  <1> SUFFICES ASSUME q # Idle PROVE NoticeSound(q)'
    BY DEF NoticeSound
  <1>1. q.todo \subseteq Notice /\ q.batch \subseteq Notice /\ q.job \in Job \cup {"none"}
    BY DEF NoticeCall, NoticeWork
  <1>2. \A n \in Notice : Same(n) => (Counted(n)' <=> Counted(n)) /\ (Untold(n)' <=> Untold(n))
    BY DEF Same, Counted, Untold, Listable
  <1>3. \A n \in Notice : Holding(q, n) => Same(n)
    OBVIOUS
  <1>4. \A n \in Notice : Holding(q, n) =>
          notice'[n].attempts < MaxAttempts /\ notice'[n].status \in StatusFor(q.job)
    BY <1>3 DEF NoticeSound, Same
  <1>5. Sending(q) => \A n \in q.batch : Holding(q, n) /\ n \in Notice
    BY <1>1 DEF Holding
  <1>6. q.at = "send" => \A n \in q.batch : Untold(n)'
    BY <1>2, <1>3, <1>5 DEF NoticeSound, Sending
  <1>7. Writing(q) => \A n \in q.batch :
          /\ handed'[n] <= notice'[n].attempts + 1 + lost'[n]
          /\ IF q.at = "writeSent" THEN Told(n)' ELSE delivered'[n] <= lost'[n] + denied'[n]
    BY <1>3, <1>5 DEF NoticeSound, Sending, Same, Told
  <1>8. \A n \in Notice : Covers(q, n) /\ ~(Writing(q) /\ n \in q.batch) => Counted(n)'
    BY <1>2 DEF NoticeSound
  <1>9. q.job \in Job =>
          /\ q.job \in running' /\ q.todo \subseteq NoticesOf(q.job)
          /\ Sending(q) => q.batch \subseteq NoticesOf(q.job) /\ q.todo \cap q.batch = {}
    BY DEF NoticeSound
  <1>10. q.job = "none" => Sending(q) /\ q.todo = {} /\ q.batch \subseteq Queued
    BY DEF NoticeSound
  <1> QED BY <1>4, <1>6, <1>7, <1>8, <1>9, <1>10
          DEF NoticeSound, Holding, Covers, Sending, Writing

\* The request that moves writes its own rows or new ones.
LEMMA NoticeRequestMoves ==
  ASSUME NoticeInductive, NEW r \in Request, NEW c \in NoticeCall,
         call' = [call EXCEPT ![r] = c],
         NoticeTypeOK', NoticeRowsSound', NoticeSound(c)',
         \A n \in Notice :
           \/ Same(n)
           \/ Holding(call[r], n) /\ (Counted(n)' \/ call[r].job \in Job)
           \/ notice[n].status = "NONE" /\ Counted(n)',
         \A job \in running \ running' : call[r] # Idle /\ call[r].job = job,
         c # Idle =>
           \/ call[r] # Idle /\ c.job = call[r].job /\ (c.job = "none" => c.batch = call[r].batch)
           \/ c.job \in Job \ running
           \/ c.job = "none" /\ \A n \in c.batch : notice[n].status = "NONE"
  PROVE  NoticeInductive'
  <1>1. /\ call' \in [Request -> NoticeCall] /\ call'[r] = c
        /\ \A s \in Request \ {r} : call'[s] = call[s]
    BY DEF NoticeInductive
  <1>2. PICK p \in NoticeCall : p = call[r] /\ NoticeSound(p)
    BY DEF NoticeInductive
  <1>3. ASSUME NEW s \in Request \ {r} PROVE NoticeSound(call[s])' /\ Apart(c, call[s])'
    <2>1. PICK q \in NoticeCall : q = call[s] /\ q = call'[s] /\ NoticeSound(q) /\ Apart(p, q)
      BY <1>1, <1>2 DEF NoticeInductive
    <2>2. q # Idle /\ q.job \in Job => q.job \in running /\ q.job \in running'
      <3>1. q # Idle /\ q.job \in Job => q.job \in running
        BY <2>1 DEF NoticeSound
      <3>2. ~(q # Idle /\ p # Idle /\ q.job \in Job /\ q.job = p.job)
        BY <2>1 DEF Apart, Job
      <3> QED BY <1>2, <3>1, <3>2
    <2>3. \A n \in Notice : notice[n].status = "NONE" => ~Holding(q, n)
      <3>1. \A n \in Notice : Holding(q, n) => notice[n].status \in StatusFor(q.job)
        BY <2>1 DEF NoticeSound, Holding
      <3>2. q # Idle => "NONE" \notin StatusFor(q.job)
        BY DEF NoticeCall, NoticeWork, StatusFor, Job
      <3> QED BY <3>1, <3>2 DEF Holding
    <2>4. \A n \in Notice : Holding(p, n) => ~Holding(q, n) /\ (p.job \in Job => ~Covers(q, n))
      BY <1>2, <2>1, HeldOnce
    <2>5. \A n \in Notice : Same(n) \/ (~Holding(q, n) /\ (Counted(n)' \/ ~Covers(q, n)))
      BY <1>2, <2>3, <2>4
    <2>6. NoticeSound(q)'
      BY <2>1, <2>2, <2>5, NoticeSoundStays
    <2>7. Apart(c, q)
      <3> SUFFICES ASSUME c # Idle, q # Idle, c.job = q.job PROVE c.job = "none" /\ c.batch \cap q.batch = {}
        BY DEF Apart
      <3>1. CASE p # Idle /\ c.job = p.job /\ (c.job = "none" => c.batch = p.batch)
        BY <2>1, <3>1 DEF Apart
      <3>2. CASE c.job \in Job \ running
        BY <2>2, <3>2
      <3>3. CASE c.job = "none" /\ \A n \in c.batch : notice[n].status = "NONE"
        <4>1. Sending(q) /\ q.batch \subseteq Notice
          BY <2>1, <3>3 DEF NoticeSound, NoticeCall, NoticeWork
        <4>2. \A n \in q.batch : Holding(q, n) /\ n \in Notice
          BY <4>1 DEF Holding
        <4> QED BY <2>3, <3>3, <4>2
      <3> QED BY <1>2, <3>1, <3>2, <3>3
    <2> QED BY <2>1, <2>6, <2>7 DEF NoticeSound, Apart, Holding, Covers, Sending, Writing
  <1>4. NoticeSound(call[r])'
    BY <1>1 DEF NoticeSound, Holding, Covers, Sending, Writing
  <1>5. \A s \in Request : NoticeSound(call[s])'
    BY <1>3, <1>4
  <1>6. \A s, t \in Request : s # t => Apart(call[s], call[t])'
    <2>1. \A s \in Request \ {r} : Apart(call'[r], call'[s]) /\ Apart(call'[s], call'[r])
      BY <1>1, <1>3 DEF Apart
    <2>2. \A s, t \in Request \ {r} : s # t => Apart(call'[s], call'[t])
      BY <1>1 DEF NoticeInductive
    <2> QED BY <2>1, <2>2
  <1> QED BY <1>1, <1>5, <1>6 DEF NoticeInductive

\* Rows that come into being, or wait no longer.
LEMMA NoticeRowsMove ==
  ASSUME NoticeInductive, UNCHANGED <<call, running>>, NoticeTypeOK', NoticeRowsSound',
         \A n \in Notice : Same(n) \/ (notice[n].status = "NONE" /\ Counted(n)')
  PROVE  NoticeInductive'
  <1>1. ASSUME NEW s \in Request PROVE NoticeSound(call[s])'
    <2>1. PICK q \in NoticeCall : q = call[s] /\ q = call'[s] /\ NoticeSound(q)
      BY DEF NoticeInductive
    <2>2. \A n \in Notice : Holding(q, n) => notice[n].status \in StatusFor(q.job)
      BY <2>1 DEF NoticeSound, Holding
    <2>3. q # Idle => "NONE" \notin StatusFor(q.job)
      BY DEF NoticeCall, NoticeWork, StatusFor, Job
    <2>4. \A n \in Notice : Same(n) \/ (~Holding(q, n) /\ (Counted(n)' \/ ~Covers(q, n)))
      BY <2>2, <2>3 DEF Holding
    <2>5. q # Idle /\ q.job \in Job => q.job \in running'
      BY <2>1 DEF NoticeSound
    <2>6. NoticeSound(q)'
      BY <2>1, <2>4, <2>5, NoticeSoundStays
    <2> QED BY <2>1, <2>6 DEF NoticeSound, Holding, Covers, Sending, Writing
  <1>2. \A s, t \in Request : s # t => Apart(call[s], call[t])'
    BY DEF NoticeInductive, Apart
  <1> QED BY <1>1, <1>2 DEF NoticeInductive

\* Notices are generated, and back-offs elapse.
LEMMA NoticesAppear ==
  ASSUME NoticeInductive, \/ GenerateNotice
                          \/ \E n \in Notice : BackoffElapses(n)
                          \/ UNCHANGED <<call, noticeVars>>
  PROVE  NoticeInductive'
  <1>1. CASE GenerateNotice
    <2>1. PICK n \in Notice \ Queued :
            /\ notice[n] = NoNotice
            /\ notice' = [notice EXCEPT ![n].status = "PENDING"]
            /\ UNCHANGED <<call, running, handed, delivered, denied, lost>>
      BY <1>1 DEF GenerateNotice, tallies
    <2>2. /\ notice'[n].status = "PENDING" /\ notice'[n].attempts = 0
          /\ notice'[n] \in [status : {"PENDING"}, attempts : {0}, waiting : {FALSE}]
          /\ \A m \in Notice \ {n} : notice'[m] = notice[m]
          /\ notice[n].status = "NONE" /\ handed[n] = 0 /\ delivered[n] = 0
      <3>1. notice[n].status = "NONE" /\ handed[n] = 0 /\ delivered[n] = 0
        BY <2>1 DEF NoNotice, NoticeInductive, NoticeRowsSound
      <3>2. /\ notice'[n] = [NoNotice EXCEPT !.status = "PENDING"]
            /\ \A m \in Notice \ {n} : notice'[m] = notice[m]
        BY <2>1 DEF NoticeInductive, NoticeTypeOK
      <3>3. [NoNotice EXCEPT !.status = "PENDING"] \in
              [status : {"PENDING"}, attempts : {0}, waiting : {FALSE}]
        BY DEF NoNotice
      <3> QED BY <3>1, <3>2, <3>3
    <2>3. NoticeTypeOK'
      BY <2>1, <2>2 DEF NoticeInductive, NoticeTypeOK, MaxAttempts
    <2>4. \A m \in Notice \ {n} : Same(m) /\ (Counted(m) => Counted(m)')
      BY <2>1, <2>2 DEF Same, Counted, Listable, Untold
    <2>5. Counted(n)'
      <3>1. lost[n] \in Nat /\ denied[n] \in Nat
        BY DEF NoticeInductive, NoticeTypeOK
      <3> QED BY <2>1, <2>2, <3>1 DEF Counted, Untold
    <2>6. NoticeRowsSound'
      BY <2>1, <2>2, <2>4, <2>5 DEF NoticeInductive, NoticeRowsSound, Same, Told, MaxAttempts
    <2> QED BY <2>1, <2>2, <2>3, <2>4, <2>5, <2>6, NoticeRowsMove
  <1>2. CASE \E n \in Notice : BackoffElapses(n)
    <2>1. PICK n \in Notice :
            /\ notice[n].waiting
            /\ notice' = [notice EXCEPT ![n].waiting = FALSE]
            /\ UNCHANGED <<call, running, handed, delivered, denied, lost>>
      BY <1>2 DEF BackoffElapses, tallies
    <2>2. notice[n].status # "NONE"
      BY <2>1 DEF NoticeInductive, NoticeRowsSound, NoNotice
    <2>3. NoticeTypeOK' /\ \A m \in Notice : Same(m) /\ (Counted(m) => Counted(m)')
      BY <2>1 DEF NoticeInductive, NoticeTypeOK, Same, Counted, Listable, Untold
    <2>4. \A m \in Notice \ {n} : notice'[m] = notice[m]
      BY <2>1 DEF NoticeInductive, NoticeTypeOK
    <2>5. NoticeRowsSound'
      BY <2>1, <2>2, <2>3, <2>4 DEF NoticeInductive, NoticeRowsSound, Same, Told
    <2> QED BY <2>1, <2>3, <2>5, NoticeRowsMove
  <1>3. CASE UNCHANGED <<call, noticeVars>>
    BY <1>3, NoticeRowsMove
       DEF noticeVars, tallies, NoticeInductive, NoticeTypeOK, NoticeRowsSound, Same, Counted,
           Listable, Untold, Told
  <1> QED BY <1>1, <1>2, <1>3

\* A request that is served carries what it relies on.
LEMMA NoticeAtWork ==
  ASSUME NoticeInductive, NEW r \in Request, call[r] # Idle
  PROVE  call[r] \in NoticeWork /\ NoticeSound(call[r])
  BY DEF NoticeInductive, NoticeCall

\* Statements that leave the notices alone.
LEMMA NoticeJobsMove ==
  ASSUME NoticeInductive, UNCHANGED <<notice, handed, delivered, denied, lost>>, running' \subseteq Job,
         NEW r \in Request, NEW c \in NoticeCall, call' = [call EXCEPT ![r] = c], NoticeSound(c)',
         \A job \in running \ running' : call[r] # Idle /\ call[r].job = job /\ ~Writing(call[r]),
         c # Idle => \/ call[r] # Idle /\ c.job = call[r].job /\ c.job # "none"
                     \/ c.job \in Job \ running
  PROVE  NoticeInductive'
  <1>1. NoticeTypeOK' /\ \A n \in Notice : Same(n) /\ (Counted(n)' <=> Counted(n))
    BY DEF NoticeInductive, NoticeTypeOK, Same, Counted, Listable, Untold
  <1>2. \A job \in running \ running', n \in Notice : n \in NoticesOf(job) => Counted(n)
    <2> SUFFICES ASSUME NEW job \in running \ running', NEW n \in Notice, n \in NoticesOf(job)
                 PROVE  Counted(n)
      OBVIOUS
    <2>1. Covers(call[r], n) /\ job \in Job
      BY DEF Covers, NoticeInductive, NoticeTypeOK
    <2> QED BY <2>1, NoticeAtWork DEF NoticeSound
  <1>3. NoticeRowsSound'
    BY <1>1, <1>2 DEF NoticeInductive, NoticeRowsSound, Same, Told
  <1> QED BY <1>1, <1>3, NoticeRequestMoves DEF Job

\* A job starts, lists, takes the next group, ends or dies.
LEMMA NoticeJobsServed ==
  ASSUME NoticeInductive, NEW r \in Request,
         \/ StartJob(r) \/ ListNotices(r) \/ NextBatch(r) \/ FinishJob(r)
         \/ Die(r) /\ UNCHANGED noticeVars
  PROVE  NoticeInductive'
  <1>1. Idle \in NoticeCall /\ NoticeSound(Idle)'
    BY DEF NoticeCall, NoticeSound
  <1>2. running \subseteq Job
    BY DEF NoticeInductive, NoticeTypeOK
  <1>3. CASE StartJob(r)
    <2>1. PICK job \in Job :
            /\ job \notin running /\ call[r] = Idle
            /\ call' = [call EXCEPT ![r] = [at |-> "list", job |-> job, todo |-> {}, batch |-> {}]]
            /\ running' = running \cup {job}
            /\ UNCHANGED <<notice, handed, delivered, denied, lost>>
      BY <1>3 DEF StartJob, Free, Begin, tallies
    <2> DEFINE c == [at |-> "list", job |-> job, todo |-> {}, batch |-> {}]
    <2>2. c \in NoticeCall
      BY DEF NoticeCall, NoticeWork
    <2>3. \A n \in NoticesOf(job) \cap Notice : Counted(n)'
      BY <2>1 DEF NoticeInductive, NoticeRowsSound, Counted, Listable, Untold
    <2>4. NoticeSound(c)'
      BY <2>1, <2>3 DEF NoticeSound, Holding, Covers, Sending, Writing, Job
    <2> QED BY <1>2, <2>1, <2>2, <2>4, NoticeJobsMove
  <1>4. CASE ListNotices(r) \/ NextBatch(r) \/ FinishJob(r)
    <2>1. call[r] # Idle /\ call[r].at \in {"list", "nextBatch"}
      <3>1. call[r].at = "list" \/ call[r].at = "nextBatch"
        BY <1>4 DEF ListNotices, NextBatch, FinishJob, At
      <3> QED BY <3>1 DEF Idle
    <2>2. PICK q \in NoticeWork : q = call[r] /\ NoticeSound(q) /\ q # Idle
      BY <2>1, NoticeAtWork
    <2>3. q.at \in {"list", "nextBatch"} /\ q.job \in Job /\ q.job # "none" /\ q.job \in running
          /\ q.todo \subseteq NoticesOf(q.job) /\ q.todo \subseteq Notice
      BY <2>1, <2>2 DEF NoticeSound, NoticeWork, Sending, Writing, Job
    <2>4. \A n \in NoticesOf(q.job) \cap Notice : Counted(n)
      BY <2>2, <2>3 DEF NoticeSound, Covers, Writing
    <2>5. CASE ListNotices(r)
      <3>1. /\ call' = [call EXCEPT ![r] = [q EXCEPT !.at = "nextBatch", !.todo = Listed(q.job)]]
            /\ UNCHANGED <<running, notice, handed, delivered, denied, lost>>
        BY <2>2, <2>5 DEF ListNotices, noticeVars, tallies
      <3>2. Listed(q.job) \subseteq NoticesOf(q.job) /\ NoticesOf(q.job) \subseteq Notice
        BY QueuedAssumption DEF Listed, NoticesOf
      <3>3. PICK c \in NoticeWork :
              /\ c.at = "nextBatch" /\ c.job = q.job /\ c.todo = Listed(q.job) /\ c # Idle
              /\ call' = [call EXCEPT ![r] = c]
        <4> DEFINE d == [q EXCEPT !.at = "nextBatch", !.todo = Listed(q.job)]
        <4>1. d \in NoticeWork /\ d.at = "nextBatch" /\ d.job = q.job /\ d.todo = Listed(q.job)
              /\ d # Idle
          BY <3>2 DEF NoticeWork, Idle
        <4> QED BY <3>1, <4>1
      <3>4. \A n \in Listed(q.job) :
              notice[n].attempts < MaxAttempts /\ notice[n].status \in StatusFor(q.job)
        BY <2>3 DEF Listed, Due, StatusFor, Job
      <3>5. NoticeSound(c)'
        <4>1. /\ ~Sending(c)' /\ ~Writing(c)' /\ c.at # "send" /\ c.job \in Job /\ c.job # "none"
              /\ c.job \in running'
          BY <2>3, <3>1, <3>3 DEF Sending, Writing
        <4>2. \A n \in Notice : Holding(c, n)' => n \in Listed(q.job)
          BY <3>3, <4>1 DEF Holding
        <4>3. \A n \in Notice : Holding(c, n)' =>
                notice'[n].attempts < MaxAttempts /\ notice'[n].status \in StatusFor(c.job)
          BY <3>1, <3>3, <3>4, <4>2
        <4>4. \A n \in Notice : Covers(c, n)' => Counted(n)'
          BY <2>4, <3>1, <3>3 DEF Covers, Counted, Listable, Untold
        <4>5. c.todo \subseteq NoticesOf(c.job)
          BY <3>2, <3>3
        <4> QED BY <4>1, <4>3, <4>4, <4>5 DEF NoticeSound
      <3>6. c \in NoticeCall /\ running' \subseteq Job /\ running \ running' = {}
        BY <1>2, <3>1, <3>3 DEF NoticeCall
      <3>7. UNCHANGED <<notice, handed, delivered, denied, lost>> /\ call[r] # Idle /\ c.job = call[r].job
            /\ c.job # "none"
        BY <2>2, <2>3, <3>1, <3>3
      <3> QED BY <2>2, <2>3, <3>1, <3>3, <3>5, <3>6, <3>7, NoticeJobsMove
    <2>6. CASE NextBatch(r)
      <3>1. PICK batch \in SUBSET q.todo :
              /\ call' = [call EXCEPT ![r] =
                   [q EXCEPT !.at = "send", !.batch = batch, !.todo = q.todo \ batch]]
              /\ UNCHANGED <<running, notice, handed, delivered, denied, lost>>
        BY <2>2, <2>6 DEF NextBatch, noticeVars, tallies
      <3> DEFINE c == [q EXCEPT !.at = "send", !.batch = batch, !.todo = q.todo \ batch]
      <3>2. /\ c \in NoticeWork /\ c.at = "send" /\ c.job = q.job
            /\ c.todo = q.todo \ batch /\ c.batch = batch /\ c # Idle
            /\ call' = [call EXCEPT ![r] = c]
        BY <2>3, <3>1 DEF NoticeWork, Idle
      <3> HIDE DEF c
      <3>3. \A n \in q.todo :
              /\ n \in Notice
              /\ notice[n].attempts < MaxAttempts /\ notice[n].status \in StatusFor(q.job)
        BY <2>2, <2>3 DEF NoticeSound, Holding
      <3>4. \A n \in q.todo : Listable(n)
        BY <2>3, <3>3 DEF StatusFor, Listable, Job, NoticesOf
      <3>5. \A n \in q.todo : Untold(n)
        BY <2>3, <2>4, <3>3, <3>4 DEF Counted
      <3>6. NoticeSound(c)'
        BY <2>3, <2>4, <3>1, <3>2, <3>3, <3>5
           DEF NoticeSound, Holding, Covers, Sending, Writing, Counted, Listable, Untold
      <3>8. c \in NoticeCall /\ running' \subseteq Job /\ running \ running' = {}
        BY <1>2, <3>1, <3>2 DEF NoticeCall
      <3> QED BY <2>2, <2>3, <3>1, <3>2, <3>6, <3>8, NoticeJobsMove
    <2>7. CASE FinishJob(r)
      <3>1. /\ call' = [call EXCEPT ![r] = Idle]
            /\ running' = running \ {q.job}
            /\ UNCHANGED <<notice, handed, delivered, denied, lost>>
        BY <2>2, <2>7 DEF FinishJob, Released, End, tallies
      <3>2. ~Writing(q)
        BY <2>3 DEF Writing
      <3> QED BY <1>1, <1>2, <2>2, <3>1, <3>2, NoticeJobsMove
    <2> QED BY <1>4, <2>5, <2>6, <2>7
  <1>5. CASE Die(r) /\ UNCHANGED noticeVars
    BY <1>1, <1>2, <1>5, NoticeJobsMove DEF Die, End, noticeVars, tallies
  <1> QED BY <1>3, <1>4, <1>5

\* A request takes new notices on and writes those it has.
LEMMA NoticesQueued ==
  ASSUME NoticeInductive, NEW r \in Request, QueueNotice(r)
  PROVE  NoticeInductive'
  <1>1. PICK n \in Queued :
          /\ notice[n] = NoNotice /\ call[r] = Idle
          /\ notice' = [notice EXCEPT ![n].status = "PENDING"]
          /\ call' = [call EXCEPT ![r] = [at |-> "send", job |-> "none", todo |-> {}, batch |-> {n}]]
          /\ UNCHANGED <<running, handed, delivered, denied, lost>>
    BY DEF QueueNotice, Begin, tallies
  <1>2. n \in Notice
    BY QueuedAssumption
  <1>3. notice[n].status = "NONE" /\ handed[n] = 0 /\ delivered[n] = 0
    BY <1>1, <1>2 DEF NoNotice, NoticeInductive, NoticeRowsSound
  <1>4. /\ notice'[n] = [NoNotice EXCEPT !.status = "PENDING"]
        /\ \A m \in Notice \ {n} : notice'[m] = notice[m]
    BY <1>1, <1>2 DEF NoticeInductive, NoticeTypeOK
  <1>5. notice'[n] \in [status : {"PENDING"}, attempts : {0}, waiting : {FALSE}]
        /\ notice'[n].status = "PENDING" /\ notice'[n].attempts = 0
    BY <1>4 DEF NoNotice
  <1>6. NoticeTypeOK'
    BY <1>1, <1>2, <1>4, <1>5 DEF NoticeInductive, NoticeTypeOK, MaxAttempts
  <1>7. Untold(n)' /\ Counted(n)'
    <2>1. lost[n] \in Nat /\ denied[n] \in Nat
      BY <1>2 DEF NoticeInductive, NoticeTypeOK
    <2> QED BY <1>1, <1>3, <1>5, <2>1 DEF Untold, Counted
  <1>8. \A m \in Notice \ {n} : Same(m) /\ (Counted(m) => Counted(m)')
    BY <1>1, <1>4 DEF Same, Counted, Listable, Untold
  <1>9. NoticeRowsSound'
    BY <1>1, <1>3, <1>4, <1>5, <1>7, <1>8 DEF NoticeInductive, NoticeRowsSound, Same, Told, MaxAttempts
  <1> DEFINE c == [at |-> "send", job |-> "none", todo |-> {}, batch |-> {n}]
  <1>10. c \in NoticeCall /\ c.job = "none" /\ c.batch = {n}
    BY <1>2 DEF NoticeCall, NoticeWork
  <1>11. NoticeSound(c)'
    BY <1>5, <1>7 DEF NoticeSound, Holding, Covers, Sending, Writing, Job, StatusFor, MaxAttempts
  <1> QED BY <1>1, <1>3, <1>6, <1>7, <1>8, <1>9, <1>10, <1>11, NoticeRequestMoves

\* What a retry gives up, it had listed.
LEMMA NoticesGivenUp ==
  ASSUME NoticeInductive, NEW r \in Request, GiveUp(r)
  PROVE  NoticeInductive'
  <1>1. call[r].at = "nextBatch" /\ call[r].job = "retry" /\ call[r] # Idle
    BY DEF GiveUp, At, Idle
  <1>2. PICK q \in NoticeWork : q = call[r] /\ NoticeSound(q) /\ q # Idle
    BY <1>1, NoticeAtWork
  <1>3. PICK n \in q.todo :
          /\ notice' = [notice EXCEPT ![n] =
               IF notice[n].status = "FAILED"
               THEN [notice[n] EXCEPT !.attempts = MaxAttempts, !.waiting = FALSE] ELSE notice[n]]
          /\ call' = [call EXCEPT ![r] = [q EXCEPT !.todo = q.todo \ {n}]]
          /\ UNCHANGED <<running, handed, delivered, denied, lost>>
    BY <1>2 DEF GiveUp, tallies
  <1>4. q.todo \subseteq Notice /\ q.job = "retry" /\ q.job \in Job /\ q.job # "none" /\ q.at = "nextBatch"
    BY <1>1, <1>2 DEF NoticeWork, Job
  <1>5. ~Writing(q) /\ ~Sending(q) /\ q.job \in running /\ q.todo \subseteq NoticesOf(q.job)
    BY <1>2, <1>4 DEF NoticeSound, Writing, Sending
  <1>6. Holding(q, n) /\ Covers(q, n) /\ n \in Notice
    BY <1>2, <1>4, <1>5 DEF Holding, Covers
  <1>7. notice[n].status = "FAILED" /\ Untold(n)
    BY <1>2, <1>4, <1>5, <1>6 DEF NoticeSound, StatusFor, Counted, Listable
  <1>8. notice[n] \in [status : {"NONE", "PENDING", "SENT", "FAILED"},
                       attempts : 0 .. MaxAttempts, waiting : BOOLEAN]
        /\ {handed[n], lost[n]} \subseteq Nat
    BY <1>6 DEF NoticeInductive, NoticeTypeOK
  <1>9. /\ notice'[n] \in [status : {"FAILED"}, attempts : {MaxAttempts}, waiting : {FALSE}]
        /\ notice'[n].status = "FAILED" /\ notice'[n].attempts = MaxAttempts
        /\ \A m \in Notice \ {n} : notice'[m] = notice[m]
    BY <1>3, <1>6, <1>7, <1>8 DEF NoticeInductive, NoticeTypeOK
  <1>10. NoticeTypeOK'
    <2>1. \A m \in Notice : notice'[m] \in [status : {"NONE", "PENDING", "SENT", "FAILED"},
                                            attempts : 0 .. MaxAttempts, waiting : BOOLEAN]
      <3>1. MaxAttempts \in 0 .. MaxAttempts
        BY DEF MaxAttempts
      <3>2. notice'[n] \in [status : {"NONE", "PENDING", "SENT", "FAILED"},
                            attempts : 0 .. MaxAttempts, waiting : BOOLEAN]
        BY <1>9, <3>1
      <3>3. \A m \in Notice \ {n} :
              notice'[m] \in [status : {"NONE", "PENDING", "SENT", "FAILED"},
                              attempts : 0 .. MaxAttempts, waiting : BOOLEAN]
        BY <1>9 DEF NoticeInductive, NoticeTypeOK
      <3> QED BY <3>2, <3>3
    <2>2. notice' = [m \in Notice |-> notice'[m]]
      BY <1>3 DEF NoticeInductive, NoticeTypeOK
    <2> QED BY <1>3, <2>1, <2>2 DEF NoticeInductive, NoticeTypeOK
  <1>11. Untold(n)' /\ Counted(n)'
    BY <1>3, <1>7, <1>8, <1>9 DEF Untold, Counted, MaxAttempts
  <1>12. \A m \in Notice \ {n} : Same(m) /\ (Counted(m) => Counted(m)')
    BY <1>3, <1>9 DEF Same, Counted, Listable, Untold
  <1>13. NoticeRowsSound'
    BY <1>3, <1>6, <1>7, <1>9, <1>11, <1>12 DEF NoticeInductive, NoticeRowsSound, Same, Told
  <1> DEFINE c == [q EXCEPT !.todo = q.todo \ {n}]
  <1>14. c \in NoticeWork /\ c.todo = q.todo \ {n} /\ c.at = "nextBatch" /\ c.job = "retry" /\ c # Idle
    BY <1>4 DEF NoticeWork, Idle
  <1>15. call' = [call EXCEPT ![r] = c]
    BY <1>3
  <1> HIDE DEF c
  <1>16. NoticeSound(c)'
    <2>1. ~Writing(c)' /\ ~Sending(c)' /\ c.job \in running' /\ c.todo \subseteq NoticesOf(c.job)
      BY <1>3, <1>4, <1>5, <1>14 DEF Writing, Sending
    <2>2. \A m \in Notice : Holding(c, m)' =>
            notice'[m].attempts < MaxAttempts /\ notice'[m].status \in StatusFor(c.job)
      BY <1>2, <1>4, <1>9, <1>14, <2>1 DEF NoticeSound, Holding
    <2>3. \A m \in Notice : Covers(c, m)' => Counted(m)'
      BY <1>2, <1>4, <1>5, <1>11, <1>12, <1>14 DEF NoticeSound, Covers
    <2> QED BY <1>14, <2>1, <2>2, <2>3 DEF NoticeSound
  <1>17. c \in NoticeCall /\ running \ running' = {}
    BY <1>3, <1>14 DEF NoticeCall
  <1>18. \A m \in Notice : Same(m) \/ (Holding(call[r], m) /\ Counted(m)')
    BY <1>2, <1>6, <1>11, <1>12
  <1> QED BY <1>1, <1>10, <1>13, <1>14, <1>15, <1>16, <1>17, <1>18, NoticeRequestMoves

\* What a request in the middle of sending knows of the notices it sends.
LEMMA NoticesInHand ==
  ASSUME NoticeInductive, NEW q \in NoticeWork, NoticeSound(q), Sending(q), NEW n \in q.batch
  PROVE  /\ n \in Notice /\ Holding(q, n)
         /\ notice[n].attempts < MaxAttempts /\ notice[n].attempts \in Nat
         /\ notice[n].status \in {"PENDING", "FAILED"}
         /\ {handed[n], delivered[n], denied[n], lost[n]} \subseteq Nat
         /\ denied[n] <= delivered[n]
         /\ q.job = "none" => ~Listable(n)
         /\ \A job \in Job : n \in NoticesOf(job) => q.job = job \/ ~Listable(n)
         /\ q.job \in Job => q.job \in running
  <1>1. n \in Notice /\ q # Idle /\ q.job \in Job \cup {"none"}
    BY DEF NoticeWork, Idle, Sending, Writing
  <1>2. Holding(q, n)
    BY <1>1 DEF Holding
  <1>3. notice[n].attempts < MaxAttempts /\ notice[n].status \in StatusFor(q.job)
    BY <1>1, <1>2 DEF NoticeSound
  <1>4. notice[n].status \in {"PENDING", "FAILED"}
    BY <1>1, <1>3 DEF StatusFor, Job
  <1>5. q.job = "none" => ~Listable(n)
    <2> SUFFICES ASSUME q.job = "none" PROVE ~Listable(n)
      OBVIOUS
    <2>1. n \in Queued /\ notice[n].status = "PENDING"
      BY <1>1, <1>3 DEF NoticeSound, StatusFor
    <2> QED BY <2>1 DEF Listable
  <1>6. \A job \in Job : n \in NoticesOf(job) => q.job = job \/ ~Listable(n)
    BY <1>1, <1>5 DEF NoticeSound, NoticesOf, Job
  <1>7. q.job \in Job => q.job \in running
    BY <1>1 DEF NoticeSound
  <1>8. /\ notice[n].attempts \in Nat /\ {handed[n], delivered[n], denied[n], lost[n]} \subseteq Nat
        /\ denied[n] <= delivered[n]
    BY <1>1 DEF NoticeInductive, NoticeTypeOK, NoticeRowsSound
  <1> QED BY <1>1, <1>2, <1>3, <1>4, <1>5, <1>6, <1>7, <1>8

\* The provider may deliver it, and throw or not: the count is one behind.
LEMMA NoticesHandedOver ==
  ASSUME NoticeInductive, NEW r \in Request, Send(r)
  PROVE  NoticeInductive'
  <1>1. call[r].at = "send" /\ call[r] # Idle
    BY DEF Send, At, Idle
  <1>2. PICK q \in NoticeWork : q = call[r] /\ NoticeSound(q) /\ q # Idle
    BY <1>1, NoticeAtWork
  <1>3. q.batch \subseteq Notice /\ q.todo \subseteq Notice /\ Sending(q) /\ ~Writing(q)
        /\ q.at = "send" /\ q.job \in Job \cup {"none"}
    BY <1>1, <1>2 DEF NoticeWork, Sending, Writing
  <1>4. PICK at \in {"writeSent", "writeFailed"}, done \in SUBSET q.batch, threw \in SUBSET q.batch :
          /\ call' = [call EXCEPT ![r] = [q EXCEPT !.at = at]]
          /\ handed' = Count(handed, q.batch)
          /\ delivered' = Count(delivered, done) /\ denied' = Count(denied, threw)
          /\ IF at = "writeSent" THEN done = q.batch /\ threw = {} ELSE done = threw
          /\ UNCHANGED <<running, notice, lost>>
    <2>1. /\ delivered = Count(delivered, {}) /\ denied = Count(denied, {})
      BY DEF Count, NoticeInductive, NoticeTypeOK
    <2>2. CASE /\ Go(r, "writeSent") /\ delivered' = Count(delivered, q.batch) /\ UNCHANGED denied
      BY <1>2, <2>1, <2>2 DEF Send, Go
    <2>3. CASE Go(r, "writeFailed") /\ UNCHANGED <<delivered, denied>>
      BY <1>2, <2>1, <2>3 DEF Send, Go
    <2>4. CASE /\ Go(r, "writeFailed")
               /\ delivered' = Count(delivered, q.batch) /\ denied' = Count(denied, q.batch)
      BY <1>2, <2>4 DEF Send, Go
    <2> QED BY <1>2, <2>2, <2>3, <2>4 DEF Send
  <1>5. /\ handed \in [Notice -> Nat] /\ delivered \in [Notice -> Nat]
        /\ denied \in [Notice -> Nat] /\ lost \in [Notice -> Nat]
    BY DEF NoticeInductive, NoticeTypeOK
  <1>6. /\ handed' \in [Notice -> Nat] /\ delivered' \in [Notice -> Nat] /\ denied' \in [Notice -> Nat]
        /\ \A n \in q.batch :
             /\ handed'[n] = handed[n] + 1
             /\ delivered'[n] = IF n \in done THEN delivered[n] + 1 ELSE delivered[n]
             /\ denied'[n] = IF n \in threw THEN denied[n] + 1 ELSE denied[n]
        /\ \A n \in Notice \ q.batch : handed'[n] = handed[n] /\ delivered'[n] = delivered[n]
                                        /\ denied'[n] = denied[n]
    BY <1>3, <1>4, <1>5 DEF Count
  <1>7. NoticeTypeOK'
    BY <1>4, <1>5, <1>6 DEF NoticeInductive, NoticeTypeOK
  <1>8. \A n \in q.batch :
          /\ n \in Notice /\ Holding(q, n)
          /\ notice[n].attempts < MaxAttempts /\ notice[n].attempts \in Nat
          /\ notice[n].status \in {"PENDING", "FAILED"} /\ denied[n] <= delivered[n]
          /\ q.job = "none" => ~Listable(n)
          /\ \A job \in Job : n \in NoticesOf(job) => q.job = job \/ ~Listable(n)
          /\ q.job \in Job => q.job \in running
    BY <1>2, <1>3, NoticesInHand
  <1>9. \A n \in q.batch :
          /\ handed'[n] <= notice[n].attempts + 1 + lost[n]
          /\ denied'[n] <= delivered'[n]
          /\ IF at = "writeSent" THEN Told(n)' ELSE delivered'[n] <= lost[n] + denied'[n]
    <2> SUFFICES ASSUME NEW n \in q.batch
                 PROVE  /\ handed'[n] <= notice[n].attempts + 1 + lost[n]
                        /\ denied'[n] <= delivered'[n]
                        /\ IF at = "writeSent" THEN Told(n)' ELSE delivered'[n] <= lost[n] + denied'[n]
      OBVIOUS
    <2>1. Untold(n)
      BY <1>2, <1>3 DEF NoticeSound
    <2> QED BY <1>3, <1>4, <1>5, <1>6, <1>8, <2>1 DEF Untold, Told
  <1>10. \A n \in Notice \ q.batch : Same(n) /\ (Counted(n) => Counted(n)')
    BY <1>4, <1>6 DEF Same, Counted, Listable, Untold
  <1>11. \A n \in q.batch : Listable(n)' <=> Listable(n)
    BY <1>4 DEF Listable
  <1>12. NoticeRowsSound'
    <2> SUFFICES ASSUME NEW n \in Notice
                 PROVE  (/\ handed[n] <= MaxAttempts + lost[n]
                         /\ denied[n] <= delivered[n] /\ delivered[n] <= 1 + lost[n] + denied[n]
                         /\ notice[n].status = "SENT" => Told(n)
                         /\ notice[n].status = "NONE" =>
                              notice[n] = NoNotice /\ handed[n] = 0 /\ delivered[n] = 0
                         /\ \A job \in Job \ running : n \in NoticesOf(job) => Counted(n))'
      BY DEF NoticeRowsSound
    <2>1. CASE n \in q.batch
      <3>1. /\ handed'[n] <= MaxAttempts + lost'[n]
            /\ denied'[n] <= delivered'[n] /\ delivered'[n] <= 1 + lost'[n] + denied'[n]
        BY <1>4, <1>5, <1>6, <1>8, <1>9, <2>1 DEF MaxAttempts, Told
      <3>2. notice'[n].status \notin {"SENT", "NONE"}
        BY <1>4, <1>8, <2>1
      <3>3. \A job \in Job \ running' : n \in NoticesOf(job) => Counted(n)'
        BY <1>4, <1>8, <1>11, <2>1 DEF Counted
      <3> QED BY <3>1, <3>2, <3>3
    <2>2. CASE n \notin q.batch
      BY <1>4, <1>10, <2>2 DEF NoticeInductive, NoticeRowsSound, Same, Told
    <2> QED BY <2>1, <2>2
  <1> DEFINE c == [q EXCEPT !.at = at]
  <1>13. /\ c \in NoticeWork /\ c.at = at /\ c.todo = q.todo /\ c.batch = q.batch /\ c.job = q.job
         /\ c # Idle /\ call' = [call EXCEPT ![r] = c]
    BY <1>4 DEF NoticeWork, Idle
  <1> HIDE DEF c
  <1>14. NoticeSound(c)'
    <2>1. Writing(c)' /\ Sending(c)' /\ c.at # "send"
      BY <1>13 DEF Writing, Sending
    <2>2. c.job \in Job => c.job \in running' /\ c.todo \subseteq NoticesOf(c.job)
                           /\ c.batch \subseteq NoticesOf(c.job) /\ c.todo \cap c.batch = {}
      BY <1>2, <1>3, <1>4, <1>13 DEF NoticeSound
    <2>3. c.job = "none" => c.todo = {} /\ c.batch \subseteq Queued
      BY <1>2, <1>3, <1>13 DEF NoticeSound
    <2>4. \A n \in Notice : Holding(c, n)' => Holding(q, n)
      BY <1>2, <1>3, <1>13 DEF Holding
    <2>5. \A n \in Notice : Holding(c, n)' =>
            notice'[n].attempts < MaxAttempts /\ notice'[n].status \in StatusFor(c.job)
      BY <1>2, <1>4, <1>13, <2>4 DEF NoticeSound
    <2>6. \A n \in Notice : Covers(c, n)' /\ n \notin c.batch => Counted(n)'
      BY <1>2, <1>3, <1>10, <1>13 DEF NoticeSound, Covers
    <2>7. \A n \in c.batch :
            /\ handed'[n] <= notice'[n].attempts + 1 + lost'[n]
            /\ IF c.at = "writeSent" THEN Told(n)' ELSE delivered'[n] <= lost'[n] + denied'[n]
      BY <1>4, <1>9, <1>13
    <2> QED BY <2>1, <2>2, <2>3, <2>5, <2>6, <2>7 DEF NoticeSound
  <1>15. c \in NoticeCall /\ running \ running' = {}
    BY <1>4, <1>13 DEF NoticeCall
  <1>16. \A n \in Notice : Same(n) \/ (Holding(call[r], n) /\ (Counted(n)' \/ call[r].job \in Job))
    <2>1. \A n \in q.batch : Counted(n)' \/ q.job \in Job
      BY <1>3, <1>8, <1>11 DEF Counted
    <2> QED BY <1>2, <1>8, <1>10, <2>1
  <1> QED BY <1>1, <1>2, <1>7, <1>12, <1>13, <1>14, <1>15, <1>16, NoticeRequestMoves

\* The update makes the count good, and what stays FAILED was not delivered.
LEMMA NoticesWritten ==
  ASSUME NoticeInductive, NEW r \in Request, WriteSent(r) \/ WriteFailed(r)
  PROVE  NoticeInductive'
  <1>1. PICK at \in {"writeSent", "writeFailed"} :
          WriteOutcome(r, at, IF at = "writeSent" THEN "SENT" ELSE "FAILED")
    BY DEF WriteSent, WriteFailed
  <1>2. call[r].at = at /\ call[r] # Idle
    BY <1>1 DEF WriteOutcome, At, Idle
  <1>3. PICK q \in NoticeWork : q = call[r] /\ NoticeSound(q) /\ q # Idle
    BY <1>2, NoticeAtWork
  <1>4. q.batch \subseteq Notice /\ q.todo \subseteq Notice /\ Sending(q) /\ Writing(q)
        /\ q.at = at /\ q.job \in Job \cup {"none"}
    BY <1>2, <1>3 DEF NoticeWork, Sending, Writing
  <1>5. PICK status \in {"SENT", "FAILED"} :
          /\ status = (IF at = "writeSent" THEN "SENT" ELSE "FAILED")
          /\ notice' = [n \in Notice |-> IF n \in q.batch THEN Attempted(n, q.batch, status) ELSE notice[n]]
          /\ call' = [call EXCEPT ![r] = IF q.job = "none" THEN Idle ELSE [q EXCEPT !.at = "nextBatch"]]
          /\ UNCHANGED <<running, handed, delivered, denied, lost>>
    BY <1>1, <1>3 DEF WriteOutcome, Go, End, tallies
  <1>6. \A n \in q.batch :
          /\ n \in Notice /\ Holding(q, n)
          /\ notice[n].attempts < MaxAttempts /\ notice[n].attempts \in Nat
          /\ {handed[n], delivered[n], denied[n], lost[n]} \subseteq Nat /\ denied[n] <= delivered[n]
    BY <1>3, <1>4, NoticesInHand
  <1>7. \A n \in q.batch :
          /\ handed[n] <= notice[n].attempts + 1 + lost[n]
          /\ IF at = "writeSent" THEN Told(n) ELSE delivered[n] <= lost[n] + denied[n]
    BY <1>3, <1>4 DEF NoticeSound
  <1>8. \A n \in q.batch :
          /\ notice'[n] \in [status : {status}, attempts : {notice[n].attempts + 1}, waiting : BOOLEAN]
          /\ notice'[n].status = status /\ notice'[n].attempts = notice[n].attempts + 1
    BY <1>5, <1>6 DEF Attempted
  <1>9. \A n \in Notice \ q.batch : notice'[n] = notice[n]
    BY <1>5
  <1>10. NoticeTypeOK'
    <2>1. \A n \in Notice : notice'[n] \in [status : {"NONE", "PENDING", "SENT", "FAILED"},
                                            attempts : 0 .. MaxAttempts, waiting : BOOLEAN]
      BY <1>6, <1>8, <1>9 DEF NoticeInductive, NoticeTypeOK, MaxAttempts
    <2> QED BY <1>5, <2>1 DEF NoticeInductive, NoticeTypeOK
  <1>11. \A n \in q.batch : Counted(n)' /\ handed'[n] <= MaxAttempts + lost'[n]
                            /\ denied'[n] <= delivered'[n] /\ delivered'[n] <= 1 + lost'[n] + denied'[n]
                            /\ (status = "SENT" => Told(n)')
    BY <1>5, <1>6, <1>7, <1>8 DEF Counted, Listable, Untold, Told, MaxAttempts
  <1>12. \A n \in Notice \ q.batch : Same(n) /\ (Counted(n) => Counted(n)')
    BY <1>5, <1>9 DEF Same, Counted, Listable, Untold
  <1>13. NoticeRowsSound'
    BY <1>5, <1>8, <1>9, <1>11, <1>12 DEF NoticeInductive, NoticeRowsSound, Same, Told
  <1>14. \A n \in Notice : Same(n) \/ (Holding(call[r], n) /\ Counted(n)')
    BY <1>3, <1>6, <1>11, <1>12
  <1>15. running \ running' = {}
    BY <1>5
  <1>16. CASE q.job = "none"
    <2>1. Idle \in NoticeCall /\ NoticeSound(Idle)' /\ call' = [call EXCEPT ![r] = Idle]
      BY <1>5, <1>16 DEF NoticeCall, NoticeSound
    <2> QED BY <1>10, <1>13, <1>14, <1>15, <2>1, NoticeRequestMoves
  <1>17. CASE q.job \in Job
    <2> DEFINE c == [q EXCEPT !.at = "nextBatch"]
    <2>1. /\ c \in NoticeWork /\ c.at = "nextBatch" /\ c.todo = q.todo /\ c.job = q.job
          /\ c # Idle /\ call' = [call EXCEPT ![r] = c] /\ c.job # "none"
      BY <1>5, <1>17 DEF NoticeWork, Idle, Job
    <2> HIDE DEF c
    <2>2. ~Writing(c)' /\ ~Sending(c)' /\ c.job \in running' /\ c.todo \subseteq NoticesOf(c.job)
          /\ q.todo \cap q.batch = {}
      BY <1>3, <1>4, <1>5, <1>17, <2>1 DEF Writing, Sending, NoticeSound
    <2>3. \A n \in Notice : Holding(c, n)' => Holding(q, n) /\ n \notin q.batch
      BY <1>3, <2>1, <2>2 DEF Holding
    <2>4. \A n \in Notice : Holding(c, n)' =>
            notice'[n].attempts < MaxAttempts /\ notice'[n].status \in StatusFor(c.job)
      BY <1>3, <1>9, <2>1, <2>3 DEF NoticeSound
    <2>5. \A n \in Notice : Covers(c, n)' => Counted(n)'
      BY <1>3, <1>11, <1>12, <2>1 DEF NoticeSound, Covers
    <2>6. NoticeSound(c)'
      BY <2>1, <2>2, <2>4, <2>5 DEF NoticeSound
    <2>7. c \in NoticeCall
      BY <2>1 DEF NoticeCall
    <2> QED BY <1>3, <1>10, <1>13, <1>14, <1>15, <2>1, <2>6, <2>7, NoticeRequestMoves
  <1> QED BY <1>4, <1>16, <1>17

\* A run that fails between the provider and the update is one more that nobody counts.
LEMMA NoticesUnrecorded ==
  ASSUME NoticeInductive, NEW r \in Request, FailJob(r)
  PROVE  NoticeInductive'
  <1>1. PICK q \in NoticeWork : q = call[r] /\ NoticeSound(q) /\ q # Idle
    BY NoticeAtWork DEF FailJob
  <1>2. q.job \in Job /\ q.at # "send" /\ q.batch \subseteq Notice
    BY <1>1 DEF FailJob, NoticeWork
  <1>3. PICK batch \in SUBSET Notice :
          /\ batch = IF Writing(q) THEN q.batch ELSE {}
          /\ call' = [call EXCEPT ![r] = Idle] /\ running' = running \ {q.job}
          /\ lost' = Count(lost, batch)
          /\ UNCHANGED <<notice, handed, delivered, denied>>
    BY <1>1, <1>2 DEF FailJob, Released, End, Writing
  <1>4. /\ lost' \in [Notice -> Nat]
        /\ \A n \in batch : lost'[n] = lost[n] + 1
        /\ \A n \in Notice \ batch : lost'[n] = lost[n]
    BY <1>3 DEF Count, NoticeInductive, NoticeTypeOK
  <1>5. NoticeTypeOK'
    BY <1>3, <1>4 DEF NoticeInductive, NoticeTypeOK
  <1>6. \A n \in Notice \ batch : Same(n) /\ (Counted(n) => Counted(n)')
    BY <1>3, <1>4 DEF Same, Counted, Listable, Untold
  <1>7. \A n \in batch :
          /\ Holding(q, n) /\ notice[n].status \notin {"NONE", "SENT"}
          /\ Counted(n)' /\ handed'[n] <= MaxAttempts + lost'[n]
          /\ denied'[n] <= delivered'[n] /\ delivered'[n] <= 1 + lost'[n] + denied'[n]
    <2> SUFFICES ASSUME NEW n \in batch
                 PROVE  /\ Holding(q, n) /\ notice[n].status \notin {"NONE", "SENT"}
                        /\ Counted(n)' /\ handed'[n] <= MaxAttempts + lost'[n]
                        /\ denied'[n] <= delivered'[n] /\ delivered'[n] <= 1 + lost'[n] + denied'[n]
      OBVIOUS
    <2>1. n \in q.batch /\ Writing(q) /\ Sending(q)
      BY <1>3 DEF Sending
    <2>2. /\ handed[n] <= notice[n].attempts + 1 + lost[n]
          /\ IF q.at = "writeSent" THEN Told(n) ELSE delivered[n] <= lost[n] + denied[n]
      BY <1>1, <2>1 DEF NoticeSound
    <2>3. /\ Holding(q, n) /\ notice[n].status \in {"PENDING", "FAILED"} /\ denied[n] <= delivered[n]
          /\ notice[n].attempts < MaxAttempts /\ notice[n].attempts \in Nat
          /\ {handed[n], delivered[n], denied[n], lost[n]} \subseteq Nat
      BY <1>1, <2>1, NoticesInHand
    <2> QED BY <1>3, <1>4, <2>2, <2>3 DEF Counted, Untold, Told, MaxAttempts
  <1>8. NoticeRowsSound'
    <2>1. ASSUME NEW n \in Notice, n \in NoticesOf(q.job) PROVE Counted(n)'
      <3>1. CASE n \in batch
        BY <1>7, <3>1
      <3>2. CASE n \notin batch
        <4>1. Counted(n)
          BY <1>1, <1>2, <1>3, <2>1, <3>2 DEF NoticeSound, Covers
        <4> QED BY <1>6, <3>2, <4>1
      <3> QED BY <3>1, <3>2
    <2>2. \A n \in Notice : \A job \in Job \ running' : n \in NoticesOf(job) => Counted(n)'
      BY <1>3, <1>6, <1>7, <2>1 DEF NoticeInductive, NoticeRowsSound
    <2> QED BY <1>3, <1>6, <1>7, <2>2 DEF NoticeInductive, NoticeRowsSound, Same, Told
  <1>9. Idle \in NoticeCall /\ NoticeSound(Idle)'
    BY DEF NoticeCall, NoticeSound
  <1>10. \A n \in Notice : Same(n) \/ (Holding(call[r], n) /\ Counted(n)')
    BY <1>1, <1>6, <1>7
  <1>11. \A job \in running \ running' : call[r] # Idle /\ call[r].job = job
    BY <1>1, <1>3
  <1> QED BY <1>3, <1>5, <1>8, <1>9, <1>10, <1>11, NoticeRequestMoves

LEMMA NoticeBegins == NoCalls /\ NoticeInit => NoticeInductive
  BY DEF NoCalls, NoticeInit, NoticeInductive, NoticeTypeOK, NoticeRowsSound, NoticeCall, NoticeSound,
         Apart, Counted, Untold, NoNotice, MaxAttempts

LEMMA NoticeStep == NoticeInductive /\ [NoticeNext]_<<mode, call, noticeVars>> => NoticeInductive'
  <1> SUFFICES ASSUME NoticeInductive, [NoticeNext]_<<mode, call, noticeVars>>
               PROVE  NoticeInductive'
    OBVIOUS
  <1>1. ASSUME NEW r \in Request, NoticeServes(r) \/ (Die(r) /\ UNCHANGED noticeVars)
        PROVE  NoticeInductive'
    BY <1>1, NoticesQueued, NoticeJobsServed, NoticesGivenUp, NoticesHandedOver, NoticesWritten,
       NoticesUnrecorded DEF NoticeServes
  <1>2. CASE GenerateNotice \/ (\E n \in Notice : BackoffElapses(n)) \/ UNCHANGED <<call, noticeVars>>
    BY <1>2, NoticesAppear
  <1> QED BY <1>1, <1>2 DEF NoticeNext

LEMMA NoticeKeepsItsWord == NoticeInductive => NoticesGoOutOnce
  BY DEF NoticeInductive, NoticeRowsSound, NoticesGoOutOnce, AtMostThreeAttempts, DeliveredOnce, Told

\* Of NoticesGoOutOnce (DECISIONS.md D-055, run-job.ts), for any number of notices,
\* processes, deaths, failing runs and throwing providers: three attempts at most and one
\* delivery at most, but for what failing runs left unrecorded and throwing providers
\* delivered; and what is SENT was delivered.
THEOREM NoticesStayCounted == NoticeSpec => []NoticesGoOutOnce
  BY NoticeBegins, NoticeStep, NoticeKeepsItsWord, PTL DEF NoticeSpec

-------------------------------------------------------------------------------
(***************************************************************************)
(* Telematics, one sync at a time.  Until a sync has come to a kind it has *)
(* seen, the open exception of that kind is the one it read and says one   *)
(* observation less than the streak; of the kinds it has done, and of all  *)
(* of them once it is over, the exception says the streak.                 *)
(***************************************************************************)
EpisodeRow == [kind : Violation \cup {None}, count : Nat, severity : {"MEDIUM", "HIGH"}, open : BOOLEAN]

EpisodesRead == UNION {[E -> EpisodeRow] : E \in SUBSET Nat}

SyncCall ==
  {Idle}
    \cup [at : {"readEpisodes"}, seen : SUBSET Violation]
    \cup [at : {"clear", "raise"}, seen : SUBSET Violation, found : SUBSET Nat, read : EpisodesRead]

OpenOf(v) == {e \in OpenEpisodes : episode[e].kind = v}

Tells(v, k) ==
  /\ OpenOf(v) = {} <=> k = 0
  /\ \A e \in OpenOf(v) :
       /\ episode[e].count = k
       /\ episode[e].severity = "HIGH" <=> v \in Severe \/ k >= EscalationThreshold

TellsStreaks == \A v \in Violation : Tells(v, streak[v])

\* A kind that was seen and not raised yet is one observation behind.
Behind(v) == streak[v] # 0 /\ Tells(v, streak[v] - 1)

SyncSound(q) ==
  /\ q.at \in {"readEpisodes", "clear"} /\ ~mode.faults =>
       \A v \in Violation : IF v \in q.seen THEN Behind(v) ELSE streak[v] = 0
  /\ q.at = "clear" =>
       q.found = OpenEpisodes /\ \A e \in q.found : q.read[e] = episode[e]
  /\ q.at = "raise" =>
       /\ \A e \in q.found : e \in OpenEpisodes /\ q.read[e].kind = episode[e].kind
       /\ \A e \in OpenEpisodes : episode[e].kind \in q.seen =>
            e \in q.found /\ q.read[e] = episode[e]
       /\ ~mode.faults =>
            \A v \in Violation : IF v \in q.seen THEN Behind(v) ELSE Tells(v, streak[v])

EpisodesSound ==
  /\ episode \in Seq(EpisodeRow)
  /\ streak \in [Violation -> Nat]
  /\ \A e \in OpenEpisodes : episode[e].kind \in Violation
  /\ \A d, e \in OpenEpisodes : episode[d].kind = episode[e].kind => d = e

OneSyncAtATime == \A r, s \in Request : call[r] # Idle /\ call[s] # Idle => r = s

TelematicsInductive ==
  /\ mode \in Modes
  /\ mode.serial =>
       /\ call \in [Request -> SyncCall] /\ OneSyncAtATime
       /\ EpisodesSound
       /\ \A r \in Request : SyncSound(call[r])
       /\ Quiescent /\ ~mode.faults => TellsStreaks

\* The sync that is served goes on, or is over.
LEMMA SyncGoesOn ==
  ASSUME TelematicsInductive, mode.serial, UNCHANGED mode,
         NEW r \in Request, call[r] # Idle \/ Quiescent,
         NEW c \in SyncCall, call' = [call EXCEPT ![r] = c],
         EpisodesSound', SyncSound(c)', c = Idle => mode.faults \/ TellsStreaks'
  PROVE  TelematicsInductive'
  <1>1. /\ call' \in [Request -> SyncCall] /\ call'[r] = c
        /\ \A s \in Request \ {r} : call'[s] = Idle
    BY DEF TelematicsInductive, OneSyncAtATime, Quiescent
  <1>2. SyncSound(call[r])'
    BY <1>1 DEF SyncSound
  <1>3. \A s \in Request \ {r} : SyncSound(call[s])'
    BY <1>1 DEF SyncSound, Idle
  <1>4. \A s \in Request : SyncSound(call[s])'
    BY <1>2, <1>3
  <1>5. OneSyncAtATime'
    BY <1>1 DEF OneSyncAtATime
  <1>6. Quiescent' /\ ~mode'.faults => TellsStreaks'
    BY <1>1 DEF Quiescent
  <1> QED BY <1>1, <1>4, <1>5, <1>6 DEF TelematicsInductive

\* A sync that is served carries what it relies on.
LEMMA SyncAtWork ==
  ASSUME TelematicsInductive, mode.serial, NEW r \in Request, call[r] # Idle
  PROVE  call[r] \in SyncCall \ {Idle} /\ SyncSound(call[r]) /\ EpisodesSound
  BY DEF TelematicsInductive

\* Statements about other kinds leave what the exceptions of one tell.
LEMMA TellsStays ==
  ASSUME NEW v, NEW k, OpenOf(v)' = OpenOf(v), \A e \in OpenOf(v) : episode'[e] = episode[e]
  PROVE  Tells(v, k)' <=> Tells(v, k)
  BY DEF Tells

\* An update replaces one exception.
LEMMA EpisodeWritten ==
  ASSUME EpisodesSound, NEW e \in OpenEpisodes, NEW row \in EpisodeRow,
         episode' = [episode EXCEPT ![e] = row]
  PROVE  /\ episode' \in Seq(EpisodeRow) /\ DOMAIN episode' = DOMAIN episode
         /\ episode'[e] = row
         /\ \A d \in DOMAIN episode \ {e} : episode'[d] = episode[d]
  <1>1. episode \in Seq(EpisodeRow) /\ e \in 1 .. Len(episode) /\ DOMAIN episode = 1 .. Len(episode)
    BY LenProperties DEF EpisodesSound, OpenEpisodes
  <1>2. episode' \in Seq(EpisodeRow)
    BY <1>1, ExceptSeq
  <1> QED BY <1>1, <1>2

\* An insert adds one.
LEMMA EpisodeAdded ==
  ASSUME EpisodesSound, NEW row \in EpisodeRow, episode' = Append(episode, row)
  PROVE  /\ episode' \in Seq(EpisodeRow)
         /\ DOMAIN episode' = DOMAIN episode \cup {Len(episode) + 1}
         /\ Len(episode) + 1 \notin DOMAIN episode
         /\ episode'[Len(episode) + 1] = row
         /\ \A d \in DOMAIN episode : episode'[d] = episode[d]
  <1>1. episode \in Seq(EpisodeRow) /\ Len(episode) \in Nat /\ DOMAIN episode = 1 .. Len(episode)
    BY LenProperties DEF EpisodesSound
  <1>2. /\ episode' \in Seq(EpisodeRow) /\ Len(episode') = Len(episode) + 1
        /\ \A i \in 1 .. Len(episode) : episode'[i] = episode[i]
        /\ episode'[Len(episode) + 1] = row
    BY <1>1, AppendProperties
  <1>3. DOMAIN episode' = 1 .. Len(episode')
    BY <1>2, LenProperties
  <1> QED BY <1>1, <1>2, <1>3

\* Outside of the statements that write the exceptions, they stay sound.
LEMMA EpisodesStay ==
  ASSUME EpisodesSound, UNCHANGED episode, streak' \in [Violation -> Nat]
  PROVE  EpisodesSound' /\ OpenEpisodes' = OpenEpisodes /\ \A v, k : Tells(v, k)' <=> Tells(v, k)
  BY DEF EpisodesSound, OpenEpisodes, Tells, OpenOf

\* The streaks of all kinds move on with the reading.
LEMMA SyncBegins ==
  ASSUME TelematicsInductive, mode.serial, UNCHANGED mode, NEW r \in Request,
         SyncWithoutReading(r) \/ SyncVehicle(r)
  PROVE  TelematicsInductive'
  <1>1. CASE SyncWithoutReading(r)
    <2>1. UNCHANGED <<call, episode, streak>>
      BY <1>1 DEF SyncWithoutReading
    <2> QED BY <2>1 DEF TelematicsInductive, OneSyncAtATime, EpisodesSound, SyncSound, Quiescent,
                        TellsStreaks, Behind, Tells, OpenOf, OpenEpisodes
  <1>2. CASE SyncVehicle(r)
    <2>1. PICK seen \in SUBSET Violation :
            /\ Quiescent
            /\ call' = [call EXCEPT ![r] = [at |-> "readEpisodes", seen |-> seen]]
            /\ streak' = Observed(seen) /\ UNCHANGED episode
      BY <1>2 DEF SyncVehicle, Begin
    <2> DEFINE c == [at |-> "readEpisodes", seen |-> seen]
    <2>2. c \in SyncCall /\ c # Idle /\ c.at = "readEpisodes" /\ c.seen = seen
      BY DEF SyncCall, Idle
    <2>3. EpisodesSound /\ streak \in [Violation -> Nat]
      BY DEF TelematicsInductive, EpisodesSound
    <2>4. /\ streak' \in [Violation -> Nat]
          /\ \A v \in Violation : streak'[v] = IF v \in seen THEN streak[v] + 1 ELSE 0
      BY <2>1, <2>3 DEF Observed
    <2>5. EpisodesSound' /\ \A v, k : Tells(v, k)' <=> Tells(v, k)
      BY <2>1, <2>3, <2>4, EpisodesStay
    <2>6. ~mode.faults => \A v \in seen : Behind(v)'
      <3> SUFFICES ASSUME ~mode.faults, NEW v \in seen PROVE streak'[v] # 0 /\ Tells(v, streak[v] - 1)'
        BY DEF Behind
      <3>1. Tells(v, streak[v]) /\ streak[v] \in Nat
        BY <2>1, <2>3 DEF TelematicsInductive, TellsStreaks
      <3>2. streak'[v] # 0 /\ streak'[v] - 1 = streak[v]
        BY <2>4, <3>1
      <3>3. PICK k \in Nat : k = streak[v]
        BY <3>1
      <3>4. Tells(v, k)'
        BY <2>5, <3>1, <3>3
      <3> QED BY <3>2, <3>3, <3>4 DEF Tells
    <2>7. SyncSound(c)'
      BY <2>1, <2>2, <2>4, <2>6 DEF SyncSound
    <2>8. call' = [call EXCEPT ![r] = c]
      BY <2>1
    <2> HIDE DEF c
    <2> QED BY <2>1, <2>2, <2>5, <2>7, <2>8, SyncGoesOn
  <1> QED BY <1>1, <1>2

\* What is read is what is open.
LEMMA EpisodesAreRead ==
  ASSUME TelematicsInductive, mode.serial, UNCHANGED mode, NEW r \in Request, ReadEpisodes(r)
  PROVE  TelematicsInductive'
  <1>1. call[r].at = "readEpisodes" /\ call[r] # Idle
    BY DEF ReadEpisodes, At, Idle
  <1>2. PICK q \in SyncCall \ {Idle} : q = call[r] /\ SyncSound(q) /\ q.at = "readEpisodes"
    BY <1>1, SyncAtWork
  <1>3. EpisodesSound /\ q.seen \in SUBSET Violation
    BY <1>1, <1>2, SyncAtWork DEF SyncCall
  <1>4. PICK c : /\ c = [at |-> "clear", seen |-> q.seen, found |-> OpenEpisodes,
                         read |-> [e \in OpenEpisodes |-> episode[e]]]
                 /\ call' = [call EXCEPT ![r] = c]
                 /\ UNCHANGED <<episode, streak>>
    BY <1>2 DEF ReadEpisodes, telematicsVars
  <1>5. /\ c.at = "clear" /\ c.seen = q.seen /\ c.found = OpenEpisodes /\ c # Idle
        /\ \A e \in OpenEpisodes : c.read[e] = episode[e]
    BY <1>4 DEF Idle
  <1>6. c \in SyncCall
    <2>1. OpenEpisodes \in SUBSET Nat /\ \A e \in OpenEpisodes : episode[e] \in EpisodeRow
      BY <1>3, LenProperties DEF OpenEpisodes, EpisodesSound
    <2>2. [e \in OpenEpisodes |-> episode[e]] \in EpisodesRead
      BY <2>1 DEF EpisodesRead
    <2> QED BY <1>3, <1>4, <2>1, <2>2 DEF SyncCall
  <1>7. /\ EpisodesSound' /\ OpenEpisodes' = OpenEpisodes
        /\ \A v, k : Tells(v, k)' <=> Tells(v, k)
    BY <1>3, <1>4, EpisodesStay DEF EpisodesSound
  <1>8. SyncSound(c)'
    <2>1. ~mode.faults => \A v \in Violation : IF v \in c.seen THEN Behind(v)' ELSE streak'[v] = 0
      BY <1>2, <1>4, <1>5, <1>7 DEF SyncSound, Behind, Tells, OpenOf, OpenEpisodes
    <2>2. \A e \in c.found : c.read[e] = episode'[e]
      BY <1>4, <1>5
    <2> QED BY <1>5, <1>7, <2>1, <2>2 DEF SyncSound
  <1> QED BY <1>1, <1>4, <1>5, <1>6, <1>7, <1>8, SyncGoesOn

\* Exceptions of kinds no longer seen are over, and theirs are the streaks that are 0.
LEMMA EpisodesAreCleared ==
  ASSUME TelematicsInductive, mode.serial, UNCHANGED mode, NEW r \in Request, ClearEpisode(r)
  PROVE  TelematicsInductive'
  <1>1. call[r].at = "clear" /\ call[r] # Idle
    BY DEF ClearEpisode, At, Idle
  <1>2. PICK q \in SyncCall \ {Idle} : q = call[r] /\ SyncSound(q) /\ q.at = "clear"
    BY <1>1, SyncAtWork
  <1>3. /\ q \in [at : {"clear", "raise"}, seen : SUBSET Violation, found : SUBSET Nat, read : EpisodesRead]
        /\ q.found = OpenEpisodes /\ \A e \in q.found : q.read[e] = episode[e]
    BY <1>2 DEF SyncCall, SyncSound
  <1>4. EpisodesSound /\ UNCHANGED streak /\ streak' \in [Violation -> Nat]
    BY <1>1, SyncAtWork DEF EpisodesSound, ClearEpisode
  <1>5. CASE Over(q) = {}
    <2> DEFINE c == [q EXCEPT !.at = "raise"]
    <2>1. call' = [call EXCEPT ![r] = c] /\ UNCHANGED episode
      BY <1>2, <1>5 DEF ClearEpisode, Go
    <2>2. /\ c \in SyncCall /\ c # Idle /\ c.at = "raise" /\ c.seen = q.seen
          /\ c.found = q.found /\ c.read = q.read
      BY <1>3 DEF SyncCall, Idle
    <2> HIDE DEF c
    <2>3. /\ EpisodesSound' /\ OpenEpisodes' = OpenEpisodes
          /\ \A v, k : Tells(v, k)' <=> Tells(v, k)
      BY <1>4, <2>1, EpisodesStay
    <2>4. \A e \in OpenEpisodes : episode[e].kind \in q.seen
      BY <1>3, <1>5 DEF Over
    <2>5. ~mode.faults => \A v \in Violation : IF v \in c.seen THEN Behind(v)' ELSE Tells(v, streak[v])'
      <3> SUFFICES ASSUME ~mode.faults, NEW v \in Violation
                   PROVE  IF v \in c.seen THEN Behind(v)' ELSE Tells(v, streak[v])'
        OBVIOUS
      <3>1. CASE v \in q.seen
        BY <1>2, <1>4, <2>1, <2>2, <3>1 DEF SyncSound, Behind, Tells, OpenOf, OpenEpisodes
      <3>2. CASE v \notin q.seen
        <4>1. streak'[v] = 0 /\ OpenOf(v)' = {}
          BY <1>2, <1>4, <2>1, <2>3, <2>4, <3>2 DEF SyncSound, OpenOf
        <4> QED BY <2>2, <3>2, <4>1 DEF Tells
      <3> QED BY <3>1, <3>2
    <2>6. SyncSound(c)'
      BY <1>3, <2>1, <2>2, <2>3, <2>5 DEF SyncSound
    <2> QED BY <1>1, <2>1, <2>2, <2>3, <2>6, SyncGoesOn
  <1>6. CASE Over(q) # {}
    <2>1. PICK e \in Over(q) :
            /\ episode' = [episode EXCEPT ![e] = Resolved]
            /\ call' = [call EXCEPT ![r] = [q EXCEPT !.found = q.found \ {e}]]
      BY <1>2, <1>6 DEF ClearEpisode
    <2> DEFINE c == [q EXCEPT !.found = q.found \ {e}]
    <2>2. call' = [call EXCEPT ![r] = c]
      BY <2>1
    <2>3. /\ c \in SyncCall /\ c # Idle /\ c.at = "clear" /\ c.seen = q.seen
          /\ c.found = q.found \ {e} /\ c.read = q.read
      BY <1>2, <1>3 DEF SyncCall, Idle
    <2> HIDE DEF c
    <2>4. e \in OpenEpisodes /\ episode[e].kind \notin q.seen
      BY <1>3 DEF Over
    <2>5. Resolved \in EpisodeRow /\ ~Resolved.open
      BY DEF Resolved, EpisodeRow
    <2>6. /\ episode' \in Seq(EpisodeRow) /\ DOMAIN episode' = DOMAIN episode
          /\ episode'[e] = Resolved
          /\ \A d \in DOMAIN episode \ {e} : episode'[d] = episode[d]
      BY <1>4, <2>1, <2>4, <2>5, EpisodeWritten
    <2>7. OpenEpisodes' = OpenEpisodes \ {e} /\ \A d \in OpenEpisodes \ {e} : episode'[d] = episode[d]
      BY <2>5, <2>6 DEF OpenEpisodes
    <2>8. EpisodesSound'
      BY <1>4, <2>6, <2>7 DEF EpisodesSound
    <2>9. \A v \in q.seen : \A k : Tells(v, k)' <=> Tells(v, k)
      <3> SUFFICES ASSUME NEW v \in q.seen, NEW k PROVE Tells(v, k)' <=> Tells(v, k)
        OBVIOUS
      <3>1. OpenOf(v)' = OpenOf(v) /\ \A d \in OpenOf(v) : episode'[d] = episode[d]
        BY <2>4, <2>7 DEF OpenOf
      <3> QED BY <3>1, TellsStays
    <2>10. ~mode.faults => \A v \in Violation : IF v \in c.seen THEN Behind(v)' ELSE streak'[v] = 0
      <3> SUFFICES ASSUME ~mode.faults, NEW v \in Violation
                   PROVE  IF v \in c.seen THEN Behind(v)' ELSE streak'[v] = 0
        OBVIOUS
      <3>1. IF v \in q.seen THEN Behind(v) ELSE streak[v] = 0
        BY <1>2 DEF SyncSound
      <3>2. CASE v \in q.seen
        <4>1. PICK k : k = streak[v] - 1
          OBVIOUS
        <4>2. Tells(v, k)'
          BY <2>9, <3>1, <3>2, <4>1 DEF Behind
        <4> QED BY <1>4, <2>3, <3>1, <3>2, <4>1, <4>2 DEF Behind, Tells
      <3> QED BY <1>4, <2>3, <3>1, <3>2
    <2>11. SyncSound(c)'
      BY <1>3, <2>3, <2>7, <2>10 DEF SyncSound
    <2> QED BY <1>1, <2>2, <2>3, <2>8, <2>11, SyncGoesOn
  <1> QED BY <1>5, <1>6

\* The kind that is written catches up with its streak.
LEMMA EpisodesAreRaised ==
  ASSUME TelematicsInductive, mode.serial, UNCHANGED mode, NEW r \in Request, RaiseEpisode(r)
  PROVE  TelematicsInductive'
  <1>1. call[r].at = "raise" /\ call[r] # Idle
    BY DEF RaiseEpisode, At, Idle
  <1>2. PICK q \in SyncCall \ {Idle} : q = call[r] /\ SyncSound(q) /\ q.at = "raise"
    BY <1>1, SyncAtWork
  <1>3. q \in [at : {"clear", "raise"}, seen : SUBSET Violation, found : SUBSET Nat, read : EpisodesRead]
    BY <1>2 DEF SyncCall
  <1>4. EpisodesSound /\ UNCHANGED streak /\ streak' \in [Violation -> Nat]
    BY <1>1, SyncAtWork DEF EpisodesSound, RaiseEpisode
  <1>5. CASE q.seen = {}
    <2>1. call' = [call EXCEPT ![r] = Idle] /\ UNCHANGED episode
      BY <1>2, <1>5 DEF RaiseEpisode, End
    <2>2. EpisodesSound' /\ \A v, k : Tells(v, k)' <=> Tells(v, k)
      BY <1>4, <2>1, EpisodesStay
    <2>3. ~mode.faults => TellsStreaks'
      BY <1>2, <1>4, <1>5, <2>1 DEF SyncSound, TellsStreaks, Tells, OpenOf, OpenEpisodes
    <2>4. Idle \in SyncCall /\ SyncSound(Idle)'
      BY DEF SyncCall, SyncSound, Idle
    <2> QED BY <1>1, <2>1, <2>2, <2>3, <2>4, SyncGoesOn
  <1>6. CASE q.seen # {}
    <2>1. PICK v \in q.seen :
            /\ call' = [call EXCEPT ![r] = [q EXCEPT !.seen = q.seen \ {v}]]
            /\ IF EpisodesOf(v, q) # {}
               THEN \E e \in EpisodesOf(v, q) :
                      episode' = [episode EXCEPT ![e] = SeenAgain(episode[e], q.read[e].count + 1)]
               ELSE episode' = Append(episode,
                      [kind |-> v, count |-> 1, severity |-> SeverityOf(v), open |-> TRUE])
      BY <1>2, <1>6 DEF RaiseEpisode
    <2> DEFINE c == [q EXCEPT !.seen = q.seen \ {v}]
    <2>2. call' = [call EXCEPT ![r] = c]
      BY <2>1
    <2>3. /\ c \in SyncCall /\ c # Idle /\ c.at = "raise" /\ c.seen = q.seen \ {v}
          /\ c.found = q.found /\ c.read = q.read
      BY <1>2, <1>3 DEF SyncCall, Idle
    <2> HIDE DEF c
    <2>4. v \in Violation /\ v # None /\ streak[v] \in Nat
      BY <1>3, <1>4, SevereAssumption
    <2>5. ~mode.faults => Behind(v)
      BY <1>2, <2>4 DEF SyncSound
    <2>6. \A e \in OpenOf(v) : e \in q.found /\ q.read[e] = episode[e]
      BY <1>2 DEF SyncSound, OpenOf
    \* Whatever is written, it is the open exception of the kind.
    <2>7. ASSUME NEW e \in Nat, NEW row \in EpisodeRow,
                 episode' \in Seq(EpisodeRow), episode'[e] = row, row.kind = v, row.open,
                 DOMAIN episode' = DOMAIN episode \cup {e},
                 \A d \in DOMAIN episode \ {e} : episode'[d] = episode[d],
                 OpenOf(v) \subseteq {e}, e \in OpenEpisodes => e \in OpenOf(v),
                 ~mode.faults => /\ row.count = streak[v]
                                 /\ row.severity = "HIGH" <=> v \in Severe \/ row.count >= EscalationThreshold
          PROVE  TelematicsInductive'
      <3>1. /\ OpenEpisodes' = OpenEpisodes \cup {e}
            /\ \A d \in OpenEpisodes \ {e} : episode'[d] = episode[d] /\ episode[d].kind # v
        BY <2>7 DEF OpenEpisodes, OpenOf
      <3>2. EpisodesSound'
        BY <1>4, <2>4, <2>7, <3>1 DEF EpisodesSound
      <3>3. OpenOf(v)' = {e}
        BY <2>7, <3>1 DEF OpenOf
      <3>4. ~mode.faults => Tells(v, streak[v])'
        BY <1>4, <2>5, <2>7, <3>3 DEF Tells, Behind
      <3>5. \A u \in Violation \ {v} : \A k : Tells(u, k)' <=> Tells(u, k)
        <4> SUFFICES ASSUME NEW u \in Violation \ {v}, NEW k PROVE Tells(u, k)' <=> Tells(u, k)
          OBVIOUS
        <4>1. OpenOf(u)' = OpenOf(u) /\ \A d \in OpenOf(u) : episode'[d] = episode[d]
          BY <2>7, <3>1 DEF OpenOf
        <4> QED BY <4>1, TellsStays
      <3>6. ~mode.faults => \A u \in Violation \ {v} :
              IF u \in c.seen THEN Behind(u)' ELSE Tells(u, streak[u])'
        <4> SUFFICES ASSUME ~mode.faults, NEW u \in Violation \ {v}
                     PROVE  IF u \in c.seen THEN Behind(u)' ELSE Tells(u, streak[u])'
          OBVIOUS
        <4>1. IF u \in q.seen THEN Behind(u) ELSE Tells(u, streak[u])
          BY <1>2 DEF SyncSound
        <4>2. PICK k : k = IF u \in q.seen THEN streak[u] - 1 ELSE streak[u]
          OBVIOUS
        <4>3. Tells(u, k)'
          BY <3>5, <4>1, <4>2 DEF Behind
        <4> QED BY <1>4, <2>3, <4>1, <4>2, <4>3 DEF Behind, Tells
      <3>7. /\ \A d \in c.found : d \in OpenEpisodes' /\ c.read[d].kind = episode'[d].kind
            /\ \A d \in OpenEpisodes' : episode'[d].kind \in c.seen =>
                 d \in c.found /\ c.read[d] = episode'[d]
        <4>1. \A d \in q.found : d \in OpenEpisodes /\ q.read[d].kind = episode[d].kind
          BY <1>2 DEF SyncSound
        <4>2. \A d \in OpenEpisodes : episode[d].kind \in q.seen => d \in q.found /\ q.read[d] = episode[d]
          BY <1>2 DEF SyncSound
        <4>3. e \in OpenEpisodes => episode[e].kind = v
          BY <2>7 DEF OpenOf
        <4> QED BY <2>3, <2>7, <3>1, <4>1, <4>2, <4>3
      <3>8. ~mode.faults => \A u \in Violation : IF u \in c.seen THEN Behind(u)' ELSE Tells(u, streak[u])'
        BY <2>3, <3>4, <3>6
      <3>9. SyncSound(c)'
        BY <2>3, <3>7, <3>8 DEF SyncSound
      <3> QED BY <1>1, <2>2, <2>3, <3>2, <3>9, SyncGoesOn
    <2>8. CASE EpisodesOf(v, q) # {}
      <3>1. PICK e \in EpisodesOf(v, q) :
              episode' = [episode EXCEPT ![e] = SeenAgain(episode[e], q.read[e].count + 1)]
        BY <2>1, <2>8
      <3>2. e \in OpenEpisodes /\ e \in OpenOf(v) /\ q.read[e] = episode[e]
        BY <1>2, <2>6 DEF EpisodesOf, SyncSound, OpenOf
      <3>3. PICK old \in EpisodeRow : old = episode[e] /\ old.open /\ old.kind = v /\ e \in Nat
        BY <1>4, <3>2, LenProperties DEF EpisodesSound, OpenEpisodes, OpenOf
      <3> DEFINE row == SeenAgain(old, old.count + 1)
      <3>4. /\ row \in EpisodeRow /\ row.open /\ row.kind = v /\ row.count = old.count + 1
            /\ row.severity = (IF Persistent(old.count + 1) THEN "HIGH" ELSE old.severity)
        <4>1. PICK severity \in {"MEDIUM", "HIGH"} :
                severity = IF Persistent(old.count + 1) THEN "HIGH" ELSE old.severity
          BY DEF EpisodeRow
        <4>2. old.count + 1 \in Nat
          BY DEF EpisodeRow
        <4> QED BY <3>3, <4>1, <4>2 DEF EpisodeRow, SeenAgain
      <3>5. episode' = [episode EXCEPT ![e] = row]
        BY <3>1, <3>2, <3>3
      <3> HIDE DEF row
      <3>6. /\ episode' \in Seq(EpisodeRow) /\ DOMAIN episode' = DOMAIN episode
            /\ episode'[e] = row
            /\ \A d \in DOMAIN episode \ {e} : episode'[d] = episode[d]
        BY <1>4, <3>2, <3>4, <3>5, EpisodeWritten
      <3>7. OpenOf(v) \subseteq {e} /\ e \in DOMAIN episode
        BY <1>4, <3>2 DEF EpisodesSound, OpenOf, OpenEpisodes
      <3>8. ~mode.faults => /\ row.count = streak[v]
                            /\ row.severity = "HIGH" <=> v \in Severe \/ row.count >= EscalationThreshold
        <4> SUFFICES ASSUME ~mode.faults
                     PROVE  /\ row.count = streak[v]
                            /\ row.severity = "HIGH" <=> v \in Severe \/ row.count >= EscalationThreshold
          OBVIOUS
        <4>1. /\ old.count = streak[v] - 1 /\ old.count \in Nat
              /\ old.severity = "HIGH" <=> v \in Severe \/ streak[v] - 1 >= EscalationThreshold
          BY <2>5, <3>2, <3>3 DEF Behind, Tells, EpisodeRow
        <4> QED BY <2>4, <3>4, <4>1 DEF Persistent, EscalationThreshold
      <3>9. DOMAIN episode' = DOMAIN episode \cup {e}
        BY <3>6, <3>7
      <3> QED BY <2>7, <3>2, <3>3, <3>4, <3>6, <3>7, <3>8, <3>9
    <2>9. CASE EpisodesOf(v, q) = {}
      <3> DEFINE row == [kind |-> v, count |-> 1, severity |-> SeverityOf(v), open |-> TRUE]
                 e == Len(episode) + 1
      <3>1. /\ row \in EpisodeRow /\ row.kind = v /\ row.open /\ row.count = 1
            /\ row.severity = SeverityOf(v)
        BY <2>4 DEF EpisodeRow, SeverityOf
      <3>2. episode' = Append(episode, row)
        BY <2>1, <2>9
      <3> HIDE DEF row
      <3>3. /\ episode' \in Seq(EpisodeRow) /\ DOMAIN episode' = DOMAIN episode \cup {e}
            /\ e \notin DOMAIN episode /\ episode'[e] = row
            /\ \A d \in DOMAIN episode : episode'[d] = episode[d]
        BY <1>4, <3>1, <3>2, EpisodeAdded
      <3>4. e \in Nat
        BY <1>4, LenProperties DEF EpisodesSound
      <3>5. PICK n \in Nat : n = e
        BY <3>4
      <3> HIDE DEF e
      <3>6. OpenOf(v) = {}
        BY <2>6, <2>9 DEF EpisodesOf, OpenOf
      <3>7. n \notin OpenEpisodes
        BY <3>3, <3>5 DEF OpenEpisodes
      <3>8. ~mode.faults => /\ row.count = streak[v]
                            /\ row.severity = "HIGH" <=> v \in Severe \/ row.count >= EscalationThreshold
        BY <2>4, <2>5, <3>1, <3>6 DEF Behind, Tells, SeverityOf, EscalationThreshold
      <3> QED BY <2>7, <3>1, <3>3, <3>5, <3>6, <3>7, <3>8
    <2> QED BY <2>8, <2>9
  <1> QED BY <1>5, <1>6

LEMMA TelematicsBegins == NoCalls /\ TelematicsInit => TelematicsInductive
  <1> SUFFICES ASSUME NoCalls, TelematicsInit PROVE TelematicsInductive
    OBVIOUS
  <1>1. OpenEpisodes = {} /\ episode \in Seq(EpisodeRow)
    BY DEF TelematicsInit, OpenEpisodes
  <1> QED BY <1>1 DEF NoCalls, TelematicsInit, TelematicsInductive, SyncCall, OneSyncAtATime,
                      EpisodesSound, SyncSound, TellsStreaks, Tells, OpenOf, Idle

LEMMA TelematicsStep == TelematicsInductive /\ [TelematicsNext]_<<mode, call, telematicsVars>> => TelematicsInductive'
  <1> SUFFICES ASSUME TelematicsInductive, [TelematicsNext]_<<mode, call, telematicsVars>>, mode.serial
               PROVE  TelematicsInductive'
    BY DEF TelematicsInductive, TelematicsNext
  <1>1. ASSUME NEW r \in Request, TelematicsServes(r), UNCHANGED mode
        PROVE  TelematicsInductive'
    BY <1>1, SyncBegins, EpisodesAreRead, EpisodesAreCleared, EpisodesAreRaised DEF TelematicsServes
  <1>2. ASSUME NEW r \in Request, Die(r), UNCHANGED <<mode, telematicsVars>>
        PROVE  TelematicsInductive'
    <2>1. call' = [call EXCEPT ![r] = Idle] /\ call[r] # Idle /\ mode.faults
          /\ UNCHANGED <<episode, streak>>
      BY <1>2 DEF Die, End, telematicsVars
    <2>2. EpisodesSound'
      BY <2>1, EpisodesStay DEF TelematicsInductive, EpisodesSound
    <2>3. Idle \in SyncCall /\ SyncSound(Idle)'
      BY DEF SyncCall, SyncSound, Idle
    <2> QED BY <1>2, <2>1, <2>2, <2>3, SyncGoesOn
  <1>3. CASE UNCHANGED <<mode, call, telematicsVars>>
    BY <1>3 DEF telematicsVars, TelematicsInductive, OneSyncAtATime, EpisodesSound, SyncSound,
                Quiescent, TellsStreaks, Behind, Tells, OpenOf, OpenEpisodes
  <1> QED BY <1>1, <1>2, <1>3 DEF TelematicsNext

LEMMA TelematicsKeepsItsWord == TelematicsInductive => EpisodesAreStreaks
  <1> SUFFICES ASSUME TelematicsInductive, mode.serial PROVE EpisodesAreStreaks
    BY DEF EpisodesAreStreaks, OneOpenEpisode, EpisodeOfEveryStreak
  <1>1. OneOpenEpisode
    BY DEF TelematicsInductive, EpisodesSound, OneOpenEpisode
  <1>2. EpisodeOfEveryStreak
    BY DEF TelematicsInductive, TellsStreaks, Tells, OpenOf, EpisodeOfEveryStreak
  <1> QED BY <1>1, <1>2 DEF EpisodesAreStreaks

\* Of EpisodesAreStreaks (telematics-repository.ts), for any number of kinds, exceptions
\* and syncs: one at a time, the exceptions tell the streaks.
THEOREM EpisodesTellStreaks == TelematicsSpec => []EpisodesAreStreaks
  BY TelematicsBegins, TelematicsStep, TelematicsKeepsItsWord, PTL DEF TelematicsSpec

================================================================================
