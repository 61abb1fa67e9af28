---------------------------- MODULE SideBySideProofs ---------------------------
(***************************************************************************)
(* The smaller components as TLC checks them, side by side: one moves and  *)
(* the others keep their initial rows.  What is proved for each of them    *)
(* alone holds for all of them here, and every table and every request     *)
(* keeps its shape.                                                        *)
(***************************************************************************)
EXTENDS MCOperations, OperationsProofs

-------------------------------------------------------------------------------
(***************************************************************************)
(* Counts of observations stay in their bounds: a sync begins only where   *)
(* every open exception can be seen once more, and until it has raised an  *)
(* exception nobody else does.                                             *)
(***************************************************************************)
RoomLeft(q) ==
  /\ q.at = "readEpisodes" => \A e \in OpenEpisodes : episode[e].count < MaxStreak
  /\ q.at \in {"clear", "raise"} => \A e \in q.found : q.read[e].count < MaxStreak
  /\ q.at \in {"readEpisodes", "clear", "raise"} => q.seen = {} \/ MaxStreak > 0

TelematicsFits == mode.serial => TelematicsTypeOK /\ \A r \in Request : RoomLeft(call[r])

\* The only sync at work goes on with room for what it has yet to raise.
LEMMA RoomIsLeft ==
  ASSUME TelematicsInductive, mode.serial, UNCHANGED mode,
         NEW r \in Request, call[r] # Idle \/ Quiescent,
         NEW c, call' = [call EXCEPT ![r] = c], RoomLeft(c)', TelematicsTypeOK'
  PROVE  TelematicsFits'
  <1>1. call'[r] = c /\ \A s \in Request \ {r} : call'[s] = Idle
    BY DEF TelematicsInductive, OneSyncAtATime, Quiescent
  <1>2. \A s \in Request : RoomLeft(call[s])'
    BY <1>1 DEF RoomLeft, Idle
  <1> QED BY <1>2 DEF TelematicsFits

LEMMA SyncsBeginWithRoom ==
  ASSUME TelematicsInductive, TelematicsFits, mode.serial, UNCHANGED mode, NEW r \in Request,
         SyncWithoutReading(r) \/ SyncVehicle(r) \/ ReadEpisodes(r)
  PROVE  TelematicsFits'
  <1>1. CASE SyncWithoutReading(r)
    <2>1. TelematicsTypeOK' /\ UNCHANGED <<call, episode>>
      BY <1>1 DEF SyncWithoutReading, TelematicsFits, TelematicsTypeOK
    <2> QED BY <2>1 DEF TelematicsFits, RoomLeft, OpenEpisodes
  <1>2. CASE SyncVehicle(r)
    <2>1. PICK seen \in SUBSET Violation :
            /\ \A v \in seen : streak[v] < MaxStreak
            /\ \A e \in OpenEpisodes : episode[e].count < MaxStreak
            /\ Quiescent
            /\ call' = [call EXCEPT ![r] = [at |-> "readEpisodes", seen |-> seen]]
            /\ gps' = "ACTIVE" /\ streak' = Observed(seen) /\ UNCHANGED episode
      BY <1>2 DEF SyncVehicle, Begin
    <2>2. streak' \in [Violation -> 0 .. MaxStreak]
      BY <2>1, EpisodeAssumption DEF Observed, TelematicsFits, TelematicsTypeOK
    <2>3. TelematicsTypeOK'
      BY <2>1, <2>2 DEF TelematicsFits, TelematicsTypeOK
    <2>4. RoomLeft([at |-> "readEpisodes", seen |-> seen])'
      <3>1. seen = {} \/ MaxStreak > 0
        BY <2>1, EpisodeAssumption DEF TelematicsFits, TelematicsTypeOK
      <3> QED BY <2>1, <3>1 DEF RoomLeft, OpenEpisodes
    <2> QED BY <2>1, <2>3, <2>4, RoomIsLeft
  <1>3. CASE ReadEpisodes(r)
    <2>1. PICK c : /\ c = [at |-> "clear", seen |-> call[r].seen, found |-> OpenEpisodes,
                           read |-> [e \in OpenEpisodes |-> episode[e]]]
                   /\ call' = [call EXCEPT ![r] = c]
                   /\ UNCHANGED telematicsVars
      BY <1>3 DEF ReadEpisodes
    <2>2. call[r].at = "readEpisodes" /\ call[r] # Idle
      BY <1>3 DEF ReadEpisodes, At, Idle
    <2>3. \A e \in OpenEpisodes : episode[e].count < MaxStreak
      BY <2>2 DEF TelematicsFits, RoomLeft
    <2>4. c.at = "clear" /\ c.found = OpenEpisodes /\ \A e \in OpenEpisodes : c.read[e] = episode[e]
      BY <2>1
    <2>5. RoomLeft(c)'
      BY <2>1, <2>2, <2>3, <2>4 DEF TelematicsFits, RoomLeft
    <2>6. TelematicsTypeOK'
      BY <2>1 DEF TelematicsFits, TelematicsTypeOK, telematicsVars
    <2> QED BY <2>1, <2>2, <2>5, <2>6, RoomIsLeft
  <1> QED BY <1>1, <1>2, <1>3

LEMMA ClearedLeavesRoom ==
  ASSUME TelematicsInductive, TelematicsFits, mode.serial, UNCHANGED mode, NEW r \in Request,
         ClearEpisode(r)
  PROVE  TelematicsFits'
  <1>1. call[r].at = "clear" /\ call[r] # Idle
    BY DEF ClearEpisode, At, Idle
  <1>2. PICK q \in SyncCall \ {Idle} : q = call[r] /\ SyncSound(q) /\ q.at = "clear"
    BY <1>1, SyncAtWork
  <1>3. RoomLeft(q) /\ q \in [at : {"clear", "raise"}, seen : SUBSET Violation, found : SUBSET Nat, read : EpisodesRead]
    BY <1>2 DEF TelematicsFits, SyncCall
  <1>4. CASE Over(q) = {}
    <2>1. call' = [call EXCEPT ![r] = [q EXCEPT !.at = "raise"]] /\ UNCHANGED telematicsVars
      BY <1>2, <1>4 DEF ClearEpisode, Go, telematicsVars, TelematicsInductive
    <2>2. TelematicsTypeOK'
      BY <2>1 DEF TelematicsFits, TelematicsTypeOK, telematicsVars
    <2>3. RoomLeft([q EXCEPT !.at = "raise"])'
      BY <1>2, <1>3 DEF RoomLeft
    <2> QED BY <1>1, <2>1, <2>2, <2>3, RoomIsLeft
  <1>5. CASE Over(q) # {}
    <2>1. PICK e \in Over(q) :
            /\ episode' = [episode EXCEPT ![e] = Resolved]
            /\ call' = [call EXCEPT ![r] = [q EXCEPT !.found = @ \ {e}]]
            /\ UNCHANGED <<gps, streak>>
      BY <1>2, <1>5 DEF ClearEpisode, TelematicsInductive
    <2>2. e \in 1 .. Len(episode) /\ episode \in Seq(Episode)
      BY <1>2, <2>1, LenProperties DEF Over, SyncSound, OpenEpisodes, TelematicsFits, TelematicsTypeOK
    <2>3. Resolved \in Episode
      BY EpisodeAssumption DEF Resolved, Episode
    <2>4. episode' \in Seq(Episode) /\ Len(episode') = Len(episode)
      BY <2>1, <2>2, <2>3, ExceptSeq
    <2>5. TelematicsTypeOK'
      BY <2>1, <2>4 DEF TelematicsFits, TelematicsTypeOK
    <2>6. RoomLeft([q EXCEPT !.found = @ \ {e}])'
      BY <1>2, <1>3 DEF RoomLeft
    <2> QED BY <1>1, <2>1, <2>5, <2>6, RoomIsLeft
  <1> QED BY <1>4, <1>5

LEMMA RaisedLeavesRoom ==
  ASSUME TelematicsInductive, TelematicsFits, mode.serial, UNCHANGED mode, NEW r \in Request,
         RaiseEpisode(r)
  PROVE  TelematicsFits'
  <1>1. call[r].at = "raise" /\ call[r] # Idle /\ UNCHANGED <<gps, streak>>
    BY DEF RaiseEpisode, At, Idle
  <1>2. PICK q \in SyncCall \ {Idle} : q = call[r] /\ SyncSound(q) /\ q.at = "raise"
    BY <1>1, SyncAtWork
  <1>3. RoomLeft(q) /\ q \in [at : {"clear", "raise"}, seen : SUBSET Violation, found : SUBSET Nat, read : EpisodesRead]
    BY <1>2 DEF TelematicsFits, SyncCall
  <1>4. CASE q.seen = {}
    <2>1. call' = [call EXCEPT ![r] = Idle] /\ UNCHANGED episode
      BY <1>2, <1>4 DEF RaiseEpisode, End
    <2>2. TelematicsTypeOK'
      BY <1>1, <2>1 DEF TelematicsFits, TelematicsTypeOK
    <2>3. RoomLeft(Idle)'
      BY DEF RoomLeft, Idle
    <2> QED BY <1>1, <2>1, <2>2, <2>3, RoomIsLeft
  <1>5. CASE q.seen # {}
    <2>1. PICK v \in q.seen :
            /\ call' = [call EXCEPT ![r] = [q EXCEPT !.seen = @ \ {v}]]
            /\ IF EpisodesOf(v, q) # {}
               THEN \E e \in EpisodesOf(v, q) :
                      episode' = [episode EXCEPT ![e] = SeenAgain(episode[e], q.read[e].count + 1)]
               ELSE /\ Len(episode) < MaxEpisodes
                    /\ episode' = Append(episode,
                         [kind |-> v, count |-> 1, severity |-> SeverityOf(v), open |-> TRUE])
      BY <1>2, <1>5 DEF RaiseEpisode, TelematicsInductive
    <2>2. RoomLeft([q EXCEPT !.seen = @ \ {v}])'
      BY <1>2, <1>3 DEF RoomLeft
    <2>3. /\ episode \in Seq(Episode) /\ Len(episode) \in 0 .. MaxEpisodes
          /\ DOMAIN episode = 1 .. Len(episode) /\ MaxEpisodes \in Nat /\ MaxStreak \in Nat
      BY LenProperties, EpisodeAssumption DEF TelematicsFits, TelematicsTypeOK
    <2>4. CASE EpisodesOf(v, q) # {}
      <3>1. PICK e \in EpisodesOf(v, q) :
              episode' = [episode EXCEPT ![e] = SeenAgain(episode[e], q.read[e].count + 1)]
        BY <2>1, <2>4
      <3>2. e \in q.found /\ e \in OpenEpisodes
        BY <1>2, <3>1 DEF EpisodesOf, SyncSound
      <3>3. e \in 1 .. Len(episode) /\ episode[e] \in Episode
        BY <2>3, <3>2 DEF OpenEpisodes
      <3>4. q.read[e] = episode[e]
        BY <1>2, <2>1, <3>1, <3>2 DEF EpisodesOf, SyncSound
      <3>5. q.read[e].count + 1 \in 1 .. MaxStreak
        <4>1. q.read[e].count \in 0 .. MaxStreak
          BY <3>3, <3>4 DEF Episode
        <4>2. q.read[e].count < MaxStreak
          BY <1>2, <1>3, <3>2 DEF RoomLeft
        <4> QED BY <2>3, <4>1, <4>2
      <3>6. PICK row : row = SeenAgain(episode[e], q.read[e].count + 1)
        OBVIOUS
      <3>7. row \in Episode
        <4>1. PICK severity \in {"MEDIUM", "HIGH"} :
                row = [episode[e] EXCEPT !.count = q.read[e].count + 1, !.severity = severity]
          BY <3>3, <3>6 DEF SeenAgain, Episode
        <4>2. q.read[e].count + 1 \in 0 .. MaxStreak
          BY <3>5
        <4> QED BY <3>3, <4>1, <4>2 DEF Episode
      <3>8. episode' = [episode EXCEPT ![e] = row]
        BY <3>1, <3>6
      <3>9. episode' \in Seq(Episode) /\ Len(episode') = Len(episode)
        BY <2>3, <3>3, <3>7, <3>8, ExceptSeq
      <3>10. TelematicsTypeOK'
        BY <1>1, <3>9 DEF TelematicsFits, TelematicsTypeOK
      <3> QED BY <1>1, <2>1, <2>2, <3>10, RoomIsLeft
    <2>5. CASE EpisodesOf(v, q) = {}
      <3>1. PICK row : row = [kind |-> v, count |-> 1, severity |-> SeverityOf(v), open |-> TRUE]
        OBVIOUS
      <3>2. v \in Violation /\ streak[v] \in 0 .. MaxStreak
        BY <1>3, <2>1 DEF TelematicsFits, TelematicsTypeOK
      <3>3. 1 \in 0 .. MaxStreak
        BY <1>2, <1>3, <1>5, <2>3 DEF RoomLeft
      <3>4. row \in Episode
        BY <3>1, <3>2, <3>3 DEF Episode, SeverityOf
      <3>5. episode' = Append(episode, row) /\ Len(episode) < MaxEpisodes
        BY <2>1, <2>5, <3>1
      <3>6. episode' \in Seq(Episode) /\ Len(episode') = Len(episode) + 1
        BY <2>3, <3>4, <3>5, AppendProperties
      <3>7. TelematicsTypeOK'
        BY <1>1, <2>3, <3>5, <3>6 DEF TelematicsFits, TelematicsTypeOK
      <3> QED BY <1>1, <2>1, <2>2, <3>7, RoomIsLeft
    <2> QED BY <2>4, <2>5
  <1> QED BY <1>4, <1>5

LEMMA TelematicsStaysInBounds ==
  ASSUME TelematicsInductive, TelematicsFits, mode.serial,
         [TelematicsNext]_<<mode, call, telematicsVars>>
  PROVE  TelematicsFits'
  <1>1. ASSUME NEW r \in Request, TelematicsServes(r), UNCHANGED mode
        PROVE  TelematicsFits'
    BY <1>1, SyncsBeginWithRoom, ClearedLeavesRoom, RaisedLeavesRoom DEF TelematicsServes
  <1>2. ASSUME NEW r \in Request, Die(r), UNCHANGED <<mode, telematicsVars>>
        PROVE  TelematicsFits'
    <2>1. call' = [call EXCEPT ![r] = Idle] /\ call[r] # Idle
      BY <1>2 DEF Die, End
    <2>2. RoomLeft(Idle)'
      BY DEF RoomLeft, Idle
    <2>3. TelematicsTypeOK'
      BY <1>2 DEF TelematicsFits, TelematicsTypeOK, telematicsVars
    <2> QED BY <1>2, <2>1, <2>2, <2>3, RoomIsLeft
  <1>3. CASE UNCHANGED <<mode, call, telematicsVars>>
    BY <1>3 DEF telematicsVars, TelematicsFits, TelematicsTypeOK, RoomLeft, OpenEpisodes
  <1> QED BY <1>1, <1>2, <1>3 DEF TelematicsNext

-------------------------------------------------------------------------------
(***************************************************************************)
(* The rows of the components that do not move are the initial ones, which *)
(* have their shape and break no promise, whoever is in flight.            *)
(***************************************************************************)
AllKeepTheirWord ==
  /\ TemplatesAreAccountable /\ StatusFollowsDiscrepancies /\ NoticesGoOutOnce
  /\ OneEmailPerPayment /\ EpisodesAreStreaks /\ IndicatorsAreAccountable /\ TrackersAreShown

LEMMA InitialRowsFit ==
  /\ BiometricInit => BiometricTypeOK
  /\ DiscrepancyInit => DiscrepancyTypeOK
  /\ NoticeInit => NoticeTypeOK
  /\ EmailInit => EmailTypeOK
  /\ TelematicsInit => TelematicsTypeOK
  /\ AnalyticsInit => AnalyticsTypeOK
  /\ TrackerInit => TrackerTypeOK
  <1>1. BiometricInit => BiometricTypeOK
    <2>1. NoTemplate \in [status : {"NONE", "ACTIVE", "REVOKED", "DELETED"}, material : BOOLEAN]
      BY DEF NoTemplate
    <2>2. NoRemoval \in [status : RemovalStatus, version : 0 .. MaxVersion,
                         initiator : User \cup {None}, approver : User \cup {None},
                         elapsed : BOOLEAN]
      BY VersionAssumption DEF NoRemoval, RemovalStatus
    <2> QED BY <2>1, <2>2 DEF BiometricInit, BiometricTypeOK
  <1>2. DiscrepancyInit => DiscrepancyTypeOK
    BY DEF DiscrepancyInit, DiscrepancyTypeOK
  <1>3. NoticeInit => NoticeTypeOK
    BY DEF NoticeInit, NoticeTypeOK, NoNotice, MaxAttempts
  <1>4. EmailInit => EmailTypeOK
    BY DEF EmailInit, EmailTypeOK, NoDelivery, DeliveryStatus
  <1>5. TelematicsInit => TelematicsTypeOK
    BY EpisodeAssumption DEF TelematicsInit, TelematicsTypeOK
  <1>6. AnalyticsInit => AnalyticsTypeOK
    <2>1. NoIndicator \in IndicatorRow /\ << >> \in Seq(Event)
      BY DayAssumption, RuleAssumption DEF NoIndicator, IndicatorRow, IndicatorStatus
    <2> QED BY <2>1, DayAssumption DEF AnalyticsInit, AnalyticsTypeOK, IndicatorRow, Event, Day
  <1>7. TrackerInit => TrackerTypeOK
    BY DEF TrackerInit, TrackerTypeOK, NoMapping
  <1> QED BY <1>1, <1>2, <1>3, <1>4, <1>5, <1>6, <1>7

LEMMA InitialRowsKeepTheirWord ==
  /\ BiometricInit => TemplatesAreAccountable
  /\ DiscrepancyInit => StatusFollowsDiscrepancies
  /\ NoticeInit => NoticesGoOutOnce
  /\ EmailInit => OneEmailPerPayment
  /\ TelematicsInit => EpisodesAreStreaks
  /\ AnalyticsInit => IndicatorsAreAccountable
  /\ TrackerInit => TrackersAreShown
  <1>1. BiometricInit => TemplatesAreAccountable
    <2>1. BiometricInit => Enrolments = {} /\ Active = {}
      BY DEF BiometricInit, Enrolments, Active, NoTemplate
    <2> QED BY <2>1 DEF BiometricInit, TemplatesAreAccountable, OneActiveTemplate,
                        EnrolledIsMatchable, ErasureNeedsTwoUsers, NoRemoval
  <1>2. DiscrepancyInit => StatusFollowsDiscrepancies
    BY FoundAssumption DEF DiscrepancyInit, StatusFollowsDiscrepancies
  <1>3. NoticeInit => NoticesGoOutOnce
    BY DEF NoticeInit, NoticesGoOutOnce, AtMostThreeAttempts, DeliveredOnce, MaxAttempts, NoNotice
  <1>4. EmailInit => OneEmailPerPayment
    BY DEF EmailInit, OneEmailPerPayment
  <1>5. TelematicsInit => EpisodesAreStreaks
    BY DEF TelematicsInit, EpisodesAreStreaks, OneOpenEpisode, EpisodeOfEveryStreak, OpenEpisodes
  <1>6. AnalyticsInit => IndicatorsAreAccountable
    BY DEF AnalyticsInit, IndicatorsAreAccountable, ExplainedByItsRule, EscalatedIsLinked,
           StatusIsLastEvent, ChronologyIsAChain, OpenedIsLinked, NoIndicator
  <1>7. TrackerInit => TrackersAreShown
    <2> SUFFICES ASSUME TrackerInit PROVE TrackersAreShown
      OBVIOUS
    <2>1. \A v, t : ~Carries(v, t)
      <3>1. \A m \in Mapping : mapping[m].live = FALSE
        BY DEF TrackerInit, NoMapping
      <3> QED BY <3>1 DEF Carries
    <2>2. \A v \in Vehicle : shown[v] = None
      BY DEF TrackerInit
    <2> QED BY <2>1, <2>2 DEF TrackersAreShown, OneTrackerEach, ShownIsCarried, CarriedIsShown
  <1> QED BY <1>1, <1>2, <1>3, <1>4, <1>5, <1>6, <1>7

-------------------------------------------------------------------------------
(***************************************************************************)
(* The component that moves satisfies its own invariant.                   *)
(***************************************************************************)
SideBySide ==
  /\ part \in Parts /\ mode \in Modes
  /\ part = "episodes" => mode.serial
  /\ IF part = "receipts" THEN MobileInductive ELSE MobileInit
  /\ IF part = "templates" THEN BiometricInductive ELSE BiometricInit
  /\ IF part = "discrepancies" THEN DiscrepancyInductive ELSE DiscrepancyInit
  /\ IF part = "notices" THEN NoticeInductive ELSE NoticeInit
  /\ IF part = "emails" THEN EmailInductive ELSE EmailInit
  /\ IF part = "episodes" THEN TelematicsInductive /\ TelematicsFits ELSE TelematicsInit
  /\ IF part = "indicators" THEN AnalyticsInductive ELSE AnalyticsInit
  /\ IF part = "trackers" THEN TrackerInductive ELSE TrackerInit

LEMMA SideBySideBegins == MCInit => SideBySide
  <1> SUFFICES ASSUME MCInit PROVE SideBySide
    OBVIOUS
  <1>1. part \in Parts /\ mode \in Modes /\ (part = "episodes" => mode.serial)
    BY DEF MCInit, Regimes, Regime, NoCalls
  <1>2. TelematicsFits
    BY InitialRowsFit DEF MCInit, NoCalls, TelematicsFits, RoomLeft, Idle
  <1> QED
    BY <1>1, <1>2, MobileBegins, BiometricBegins, DiscrepancyBegins, NoticeBegins, EmailBegins,
       TelematicsBegins, AnalyticsBegins, TrackerBegins
       DEF MCInit, SideBySide

\* Who does not move keeps its rows; who moves, its invariant.
LEMMA SideBySideStays ==
  ASSUME SideBySide, [MCNext]_vars
  PROVE  SideBySide'
  <1>1. part' = part /\ part \in Parts /\ (MCNext \/ UNCHANGED vars)
    BY DEF SideBySide, MCNext, vars
  <1>2. part # "receipts" => MobileInit'
    BY <1>1 DEF SideBySide, MCNext, AllBut, vars, MobileInit, mobileVars
  <1>3. part # "templates" => BiometricInit'
    BY <1>1 DEF SideBySide, MCNext, AllBut, vars, BiometricInit, biometricVars
  <1>4. part # "discrepancies" => DiscrepancyInit'
    BY <1>1 DEF SideBySide, MCNext, AllBut, vars, DiscrepancyInit, discrepancyVars
  <1>5. part # "notices" => NoticeInit'
    BY <1>1 DEF SideBySide, MCNext, AllBut, vars, NoticeInit, noticeVars, tallies
  <1>6. part # "emails" => EmailInit'
    BY <1>1 DEF SideBySide, MCNext, AllBut, vars, EmailInit, emailVars
  <1>7. part # "episodes" => TelematicsInit'
    BY <1>1 DEF SideBySide, MCNext, AllBut, vars, TelematicsInit, telematicsVars
  <1>8. part # "indicators" => AnalyticsInit'
    BY <1>1 DEF SideBySide, MCNext, AllBut, vars, AnalyticsInit, analyticsVars
  <1>9. part # "trackers" => TrackerInit'
    BY <1>1 DEF SideBySide, MCNext, AllBut, vars, TrackerInit, trackerVars
  <1>10. mode' = mode
    BY <1>1 DEF MCNext, vars, MobileNext, BiometricNext, DiscrepancyNext, NoticeNext, EmailNext,
                TelematicsNext, AnalyticsNext, TrackerNext
  <1>11. part = "receipts" => MobileInductive'
    <2>1. part = "receipts" => [MobileNext]_<<mode, call, mobileVars>>
      BY <1>1 DEF MCNext, vars
    <2> QED BY <2>1, MobileStepKeeps DEF SideBySide
  <1>12. part = "templates" => BiometricInductive'
    <2>1. part = "templates" => [BiometricNext]_<<mode, call, biometricVars>>
      BY <1>1 DEF MCNext, vars
    <2> QED BY <2>1, BiometricStep DEF SideBySide
  <1>13. part = "discrepancies" => DiscrepancyInductive'
    <2>1. part = "discrepancies" => [DiscrepancyNext]_<<mode, call, discrepancyVars>>
      BY <1>1 DEF MCNext, vars
    <2> QED BY <2>1, DiscrepancyStep DEF SideBySide
  <1>14. part = "notices" => NoticeInductive'
    <2>1. part = "notices" => [NoticeNext]_<<mode, call, noticeVars>>
      BY <1>1 DEF MCNext, vars
    <2> QED BY <2>1, NoticeStep DEF SideBySide
  <1>15. part = "emails" => EmailInductive'
    <2>1. part = "emails" => [EmailNext]_<<mode, call, emailVars>>
      BY <1>1 DEF MCNext, vars
    <2> QED BY <2>1, EmailStep DEF SideBySide
  <1>16. part = "episodes" => TelematicsInductive' /\ TelematicsFits'
    <2>1. part = "episodes" => [TelematicsNext]_<<mode, call, telematicsVars>>
      BY <1>1 DEF MCNext, vars
    <2> QED BY <2>1, TelematicsStep, TelematicsStaysInBounds DEF SideBySide
  <1>17. part = "indicators" => AnalyticsInductive'
    <2>1. part = "indicators" => [AnalyticsNext]_<<mode, call, analyticsVars>>
      BY <1>1 DEF MCNext, vars
    <2> QED BY <2>1, AnalyticsStep DEF SideBySide
  <1>18. part = "trackers" => TrackerInductive'
    <2>1. part = "trackers" => [TrackerNext]_<<mode, call, trackerVars>>
      BY <1>1 DEF MCNext, vars
    <2> QED BY <2>1, TrackerStep DEF SideBySide
  <1> QED
    BY <1>1, <1>2, <1>3, <1>4, <1>5, <1>6, <1>7, <1>8, <1>9, <1>10, <1>11, <1>12, <1>13, <1>14,
       <1>15, <1>16, <1>17, <1>18 DEF SideBySide

LEMMA SideBySideAlways == MCSpec => []SideBySide
  BY SideBySideBegins, SideBySideStays, PTL DEF MCSpec

-------------------------------------------------------------------------------
\* Every table of every component and every request keeps its shape, and what is tried is
\* counted up to its bound: three attempts of a notice (MAX_RETRY_ATTEMPTS), and an
\* observation of a telematics exception for every sync that sees it.
THEOREM OperationsKeepTheirShape == MCSpec => []OperationsTypeOK
  <1>1. SideBySide => OperationsTypeOK
    <2> SUFFICES ASSUME SideBySide PROVE OperationsTypeOK
      OBVIOUS
    <2>1. part \in Parts /\ (part = "receipts" => MobileTypeOK)
      BY DEF SideBySide, MobileInductive
    <2>2. BiometricTypeOK /\ DiscrepancyTypeOK /\ NoticeTypeOK /\ EmailTypeOK /\ AnalyticsTypeOK
      BY InitialRowsFit DEF SideBySide, BiometricInductive, DiscrepancyInductive, NoticeInductive,
                            EmailInductive, AnalyticsInductive
    <2>3. TelematicsTypeOK
      BY InitialRowsFit DEF SideBySide, TelematicsFits
    <2>4. TrackerTypeOK
      <3>1. ASSUME NEW row \in {NoMapping} \cup LiveRow \cup EndedRow
            PROVE  row \in [vehicle : Vehicle \cup {None}, tracker : Tracker \cup {None},
                            live : BOOLEAN]
        <4>1. NoMapping \in [vehicle : Vehicle \cup {None}, tracker : Tracker \cup {None},
                             live : BOOLEAN]
          BY DEF NoMapping
        <4>2. CASE row \in LiveRow \cup EndedRow
          BY <4>2 DEF LiveRow, EndedRow
        <4> QED BY <3>1, <4>1, <4>2
      <3> QED BY <3>1, InitialRowsFit DEF SideBySide, TrackerInductive, TrackerTypeOK
    <2> QED BY <2>1, <2>2, <2>3, <2>4 DEF OperationsTypeOK
  <1> QED BY <1>1, SideBySideAlways, PTL

\* Side by side, every component keeps the promise that is proved for it alone.
THEOREM OperationsKeepTheirWord == MCSpec => []AllKeepTheirWord
  <1>1. SideBySide => AllKeepTheirWord
    BY InitialRowsKeepTheirWord, BiometricKeepsItsWord, DiscrepancyKeepsItsWord, NoticeKeepsItsWord,
       EmailKeepsItsWord, TelematicsKeepsItsWord, AnalyticsKeepsItsWord, TrackerKeepsItsWord
       DEF SideBySide, AllKeepTheirWord
  <1> QED BY <1>1, SideBySideAlways, PTL

\* And the receipts implement the once-only promise of idempotency keys, whichever
\* component moves.
THEOREM ReceiptsAreOnceOnlySideBySide == MCSpec => ImplementsOnceOnly
  <1>1. MCInit => OnceOnlyPerKey!Init
    BY MobileBegins DEF MCInit
  <1>2. SideBySide /\ SideBySide' /\ [MCNext]_vars => [OnceOnlyPerKey!Next]_(OnceOnlyPerKey!vars)
    <2> SUFFICES ASSUME SideBySide, SideBySide', [MCNext]_vars
                 PROVE  [OnceOnlyPerKey!Next]_(OnceOnlyPerKey!vars)
      OBVIOUS
    <2>1. CASE part = "receipts"
      <3>1. part' = part /\ [MobileNext]_<<mode, call, mobileVars>>
        BY <2>1 DEF MCNext, vars
      <3> QED BY <2>1, <3>1, MobileStepMaps DEF SideBySide
    <2>2. CASE part # "receipts"
      BY <2>2 DEF MCNext, AllBut, vars, mobileVars, OnceOnlyPerKey!vars
    <2> QED BY <2>1, <2>2
  <1> QED
    BY <1>1, <1>2, SideBySideAlways, PTL DEF MCSpec, ImplementsOnceOnly, OnceOnlyPerKey!Spec

================================================================================
