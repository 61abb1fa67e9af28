------------------------------- MODULE Telematics ------------------------------
(***************************************************************************)
(* telematics-repository.ts: a sync of a vehicle evaluates its policy and  *)
(* reconciles what it finds with the open exceptions of the vehicle, one   *)
(* per kind of violation and episode.  Reads of the episodes come first,   *)
(* then one statement per episode.                                         *)
(***************************************************************************)
EXTENDS OperationsData, Sequences

CONSTANTS
  Violation,     \* kinds of violation
  Severe,        \* those that are raised HIGH
  MaxEpisodes,   \* bound on exceptions of one vehicle
  MaxStreak      \* bound on the syncs that see one kind

ASSUME SevereAssumption == Severe \subseteq Violation /\ None \notin Violation
ASSUME EpisodeAssumption == MaxEpisodes \in Nat /\ MaxStreak \in Nat

EscalationThreshold == 3

VARIABLES
  gps,       \* Vehicle.gpsStatus
  episode,   \* exceptions of the vehicle, in the order of their creation
  streak     \* of each kind, how many evaluations in a row have seen it

telematicsVars == <<gps, episode, streak>>

TelematicsInit ==
  /\ gps = "UNKNOWN"
  /\ episode = << >>
  /\ streak = [v \in Violation |-> 0]

\* What a resolved exception said no longer matters to a sync.
Resolved == [kind |-> None, count |-> 0, severity |-> "MEDIUM", open |-> FALSE]

OpenEpisodes == {e \in DOMAIN episode : episode[e].open}

\* Of the kinds seen, another observation in a row.
Observed(seen) == [v \in Violation |-> IF v \in seen THEN streak[v] + 1 ELSE 0]

\* syncVehicleTelematics: no answer, a stale one or one without a position evaluates
\* nothing.
SyncWithoutReading(r) ==
  /\ call[r] = Idle
  /\ mode.serial => Quiescent
  /\ gps' \in {"INACTIVE", "ACTIVE"}
  /\ UNCHANGED <<call, episode, streak>>

\* A fresh reading; evaluateVehiclePolicyCompliance finds what violates the policy.
SyncVehicle(r) ==
  \E seen \in SUBSET Violation :
    /\ \A v \in seen : streak[v] < MaxStreak
    /\ \A e \in OpenEpisodes : episode[e].count < MaxStreak
    /\ Begin(r, [at |-> "readEpisodes", seen |-> seen])
    /\ gps' = "ACTIVE"
    /\ streak' = Observed(seen)
    /\ UNCHANGED episode

\* reconcileTelematicsViolations: the open episodes, as they are now.
ReadEpisodes(r) ==
  /\ At(r, "readEpisodes")
  /\ call' = [call EXCEPT ![r] =
       [at |-> "clear", seen |-> @.seen, found |-> OpenEpisodes,
        read |-> [e \in OpenEpisodes |-> episode[e]]]]
  /\ UNCHANGED telematicsVars

\* Episodes whose kind is no longer seen.
Over(q) == {e \in q.found : q.read[e].kind \notin q.seen}

ClearEpisode(r) ==
  /\ At(r, "clear")
  /\ IF Over(call[r]) = {}
     THEN Go(r, "raise") /\ UNCHANGED episode
     ELSE \E e \in Over(call[r]) :
            /\ episode' = [episode EXCEPT ![e] = Resolved]
            /\ call' = [call EXCEPT ![r].found = @ \ {e}]
  /\ UNCHANGED <<gps, streak>>

\* Those found for a kind: the first of them is the episode.
EpisodesOf(v, q) == {e \in q.found : q.read[e].kind = v}

SeverityOf(v) == IF v \in Severe THEN "HIGH" ELSE "MEDIUM"

\* (variant) escalation one observation late
PersistentLate(count) == count > EscalationThreshold

Persistent(count) == count >= EscalationThreshold

SeenAgain(row, count) ==
  [row EXCEPT !.count = count, !.severity = IF Persistent(count) THEN "HIGH" ELSE row.severity]

\* Another observation of what was read, or a new exception.
RaiseEpisode(r) ==
  LET q == call[r] IN
  /\ At(r, "raise")
  /\ IF q.seen = {}
     THEN End(r) /\ UNCHANGED episode
     ELSE \E v \in q.seen :
            /\ call' = [call EXCEPT ![r].seen = @ \ {v}]
            /\ IF EpisodesOf(v, q) # {}
               THEN \E e \in EpisodesOf(v, q) :
                      episode' = [episode EXCEPT ![e] = SeenAgain(episode[e], q.read[e].count + 1)]
               ELSE /\ Len(episode) < MaxEpisodes
                    /\ episode' = Append(episode,
                         [kind |-> v, count |-> 1, severity |-> SeverityOf(v), open |-> TRUE])
  /\ UNCHANGED <<gps, streak>>

TelematicsServes(r) ==
  \/ SyncWithoutReading(r) \/ SyncVehicle(r) \/ ReadEpisodes(r)
  \/ ClearEpisode(r) \/ RaiseEpisode(r)

TelematicsNext ==
  /\ \E r \in Request : TelematicsServes(r) \/ (Die(r) /\ UNCHANGED telematicsVars)
  /\ UNCHANGED mode

TelematicsSpec ==
  NoCalls /\ TelematicsInit /\ [][TelematicsNext]_<<mode, call, telematicsVars>>

-------------------------------------------------------------------------------
Episode == [kind : Violation \cup {None}, count : 0 .. MaxStreak,
            severity : {"MEDIUM", "HIGH"}, open : BOOLEAN]

TelematicsTypeOK ==
  /\ gps \in {"UNKNOWN", "INACTIVE", "ACTIVE"}
  /\ episode \in Seq(Episode) /\ Len(episode) <= MaxEpisodes
  /\ streak \in [Violation -> 0 .. MaxStreak]

OneOpenEpisode ==
  mode.serial => \A d, e \in OpenEpisodes : episode[d].kind = episode[e].kind => d = e

EpisodeOfEveryStreak ==
  mode.serial /\ ~mode.faults /\ Quiescent =>
    \A v \in Violation :
      LET mine == {e \in OpenEpisodes : episode[e].kind = v} IN
      /\ mine = {} <=> streak[v] = 0
      /\ \A e \in mine :
           /\ episode[e].count = streak[v]
           /\ episode[e].severity = "HIGH" <=> v \in Severe \/ streak[v] >= EscalationThreshold

\* One sync at a time, a kind of violation has one open exception at most, also when
\* syncs die between two of their statements; where none dies, an open exception says
\* how many syncs in a row have seen its kind, there is one for every kind the last
\* evaluation saw and for no other, and what was seen three times in a row is HIGH.
EpisodesAreStreaks == OneOpenEpisode /\ EpisodeOfEveryStreak

================================================================================
