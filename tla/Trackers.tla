-------------------------------- MODULE Trackers -------------------------------
(***************************************************************************)
(* tracker-mapping-repository.ts: which tracker a vehicle carries, as      *)
(* effective-dated mappings, and the copy in the columns of the vehicle.   *)
(* A transaction checks first and writes later.                            *)
(***************************************************************************)
EXTENDS OperationsData

CONSTANTS
  Vehicle,
  Tracker,   \* assets of the providers
  Mapping    \* rows

ASSUME TrackerAssumption == None \notin Tracker /\ None \notin Vehicle

VARIABLES
  mapping,   \* of each row, the vehicle, the tracker, and whether it has no end yet
  shown      \* Vehicle.gpsProvider and gpsDeviceReference

trackerVars == <<mapping, shown>>

NoMapping == [vehicle |-> None, tracker |-> None, live |-> FALSE]

TrackerInit ==
  /\ mapping = [m \in Mapping |-> NoMapping]
  /\ shown = [v \in Vehicle |-> None]

\* (variant) the index on the tracker is missing
TakenVehicle(v, t) == \E m \in Mapping : mapping[m].live /\ mapping[m].vehicle = v

\* tracker_mapping_active_vehicle_key, tracker_mapping_active_asset_key
Taken(v, t) ==
  \E m \in Mapping : mapping[m].live /\ (mapping[m].vehicle = v \/ mapping[m].tracker = t)

\* createTrackerMapping: the friendly checks ...
CreateMapping(r) ==
  \E v \in Vehicle, t \in Tracker :
    /\ \A m \in Mapping : mapping[m].live => mapping[m].vehicle # v /\ mapping[m].tracker # t
    /\ Begin(r, [at |-> "insertMapping", vehicle |-> v, tracker |-> t])
    /\ UNCHANGED trackerVars

\* ... then the row, unless an index refuses it, and the columns.
InsertMapping(r) ==
  LET q == call[r] IN
  /\ At(r, "insertMapping")
  /\ \/ Taken(q.vehicle, q.tracker) /\ UNCHANGED trackerVars
     \/ /\ ~Taken(q.vehicle, q.tracker)
        /\ \E m \in Mapping :
             /\ mapping[m] = NoMapping
             /\ mapping' = [mapping EXCEPT ![m] =
                  [vehicle |-> q.vehicle, tracker |-> q.tracker, live |-> TRUE]]
        /\ shown' = [shown EXCEPT ![q.vehicle] = q.tracker]
  /\ End(r)

\* endTrackerMapping: a mapping without an end ...
EndMapping(r) ==
  \E m \in Mapping :
    /\ mapping[m].live
    /\ Begin(r, [at |-> "writeEnd", row |-> m])
    /\ UNCHANGED trackerVars

\* ... gets one, and the columns are cleared if they still show its tracker.
WriteEnd(r) ==
  LET m == call[r].row IN
  /\ At(r, "writeEnd")
  /\ mapping' = [mapping EXCEPT ![m].live = FALSE]
  /\ shown' = [shown EXCEPT ![mapping[m].vehicle] =
       IF @ = mapping[m].tracker THEN None ELSE @]
  /\ End(r)

TrackerServes(r) ==
  CreateMapping(r) \/ InsertMapping(r) \/ EndMapping(r) \/ WriteEnd(r)

TrackerNext ==
  /\ \E r \in Request : TrackerServes(r) \/ (Die(r) /\ UNCHANGED trackerVars)
  /\ UNCHANGED mode

TrackerSpec == NoCalls /\ TrackerInit /\ [][TrackerNext]_<<mode, call, trackerVars>>

-------------------------------------------------------------------------------
TrackerTypeOK ==
  /\ mapping \in [Mapping -> [vehicle : Vehicle \cup {None}, tracker : Tracker \cup {None},
                              live : BOOLEAN]]
  /\ shown \in [Vehicle -> Tracker \cup {None}]

Carries(v, t) ==
  \E m \in Mapping : mapping[m] = [vehicle |-> v, tracker |-> t, live |-> TRUE]

OneTrackerEach ==
  \A v, w \in Vehicle, s, t \in Tracker :
    Carries(v, s) /\ Carries(w, t) => (v = w <=> s = t)

ShownIsCarried == \A v \in Vehicle : shown[v] # None => Carries(v, shown[v])

CarriedIsShown ==
  mode.serial => \A v \in Vehicle, t \in Tracker : Carries(v, t) => shown[v] = t

\* However mappings are created and ended at the same time, a vehicle carries one tracker
\* and a tracker is on one vehicle, and the columns of a vehicle show no tracker it does
\* not carry; one at a time they show the one it carries.
TrackersAreShown == OneTrackerEach /\ ShownIsCarried /\ CarriedIsShown

================================================================================
