----------------------------- MODULE EvidenceData -----------------------------
(***************************************************************************)
(* The tables of the evidence: media files and their objects in storage,   *)
(* deletion requests and their certificates, investigation cases, the      *)
(* links that make a file evidence of a case, and the findings.  As in the *)
(* gate workflow a handler is a chain of statements, and a request carries *)
(* what its earlier statements read.                                       *)
(***************************************************************************)
EXTENDS Naturals, FiniteSets

CONSTANTS
  Asset, Deletion, Case, Link, Finding,   \* row identifiers
  User, Request,
  None,                                   \* a null column
  Regimes    \* ways of being served: which handlers are called, whether one
             \* request at a time, and whether processes die and storage fails

Identifier == UNION {Asset, Deletion, Case, Link, Finding, User}

ASSUME NoneAssumption == None \notin Identifier
ASSUME KeyAssumption == "upload" \notin Request
ASSUME RegimeAssumption ==
  \A g \in Regimes : {g.serial, g.faults} \subseteq BOOLEAN

VARIABLES
  regime,        \* the way of this behaviour; it does not change
  asset,         \* media assets, each of its own idempotency key
  objects,       \* of each asset, the objects the bucket holds
  flagged,       \* assets whose gate event has an unresolved exception
  deletion,      \* deletion requests
  certificate,   \* of each deletion request, its certificate
  case,          \* investigation cases
  link,          \* evidence links of cases
  finding,       \* findings of cases
  url,           \* assets whose upload URL is valid
  late,          \* (history) assets whose uploaded object a PUT put back late
  request        \* the requests in flight

rows == <<asset, objects, flagged, deletion, certificate, case, link, finding, url, late>>
vars == <<regime, rows, request>>

-------------------------------------------------------------------------------
(* An object is named by the presigned upload or by the request that       *)
(* stored it; a row names the object it was last given, and the original   *)
(* next to it where the category keeps originals.                          *)

Key == {"upload"} \cup Request

NoAsset == [upload |-> "NONE", replaceable |-> FALSE, bytes |-> "ASIS", key |-> None,
            original |-> FALSE, retention |-> "ACTIVE", gone |-> FALSE, legal |-> FALSE,
            hold |-> FALSE]
NoDeletion == [status |-> "NONE", initiator |-> None, approver |-> None,
               elapsed |-> FALSE, links |-> {}]
NoCertificate == [issued |-> FALSE, manifest |-> {}]
NoCase == [status |-> "NONE", hold |-> FALSE, severe |-> FALSE, asked |-> None,
           releasedBy |-> None, investigator |-> None, closedBy |-> None, referral |-> FALSE]
NoLink == [case |-> None, asset |-> None, wrong |-> FALSE]
NoFinding == [status |-> "NONE", case |-> None, creator |-> None, submitter |-> None,
              approver |-> None]

Idle == [at |-> "idle", op |-> "none", user |-> None, asset |-> None, case |-> None,
         row |-> None, to |-> "NONE", yes |-> FALSE, todo |-> {}, done |-> {}]

Empty ==
  /\ asset = [a \in Asset |-> NoAsset]
  /\ objects = [a \in Asset |-> {}]
  /\ flagged = {}
  /\ deletion = [d \in Deletion |-> NoDeletion]
  /\ certificate = [d \in Deletion |-> NoCertificate]
  /\ case = [c \in Case |-> NoCase]
  /\ link = [l \in Link |-> NoLink]
  /\ finding = [f \in Finding |-> NoFinding]
  /\ url = {} /\ late = {}
  /\ request = [r \in Request |-> Idle]

Init == regime \in Regimes /\ Empty

-------------------------------------------------------------------------------
Quiescent == \A r \in Request : request[r] = Idle

May(op) == op \in regime.handlers /\ (regime.serial => Quiescent)

Call(op, at, u) == [Idle EXCEPT !.op = op, !.at = at, !.user = u]

\* A handler that runs on after its first statement ...
Serve(r, call) ==
  /\ request[r] = Idle
  /\ May(call.op)
  /\ request' = [request EXCEPT ![r] = call]

\* ... and one whose only statement that matters is its update.
Answer(op) == May(op) /\ UNCHANGED request

Continue(r, ok, at) ==
  request' = [request EXCEPT ![r] = IF ok THEN [@ EXCEPT !.at = at] ELSE Idle]

Proceed(r, call) == request' = [request EXCEPT ![r] = call]

Finish(r) == Proceed(r, Idle)

Crash(r) ==
  /\ regime.faults
  /\ request[r] # Idle
  /\ Finish(r)
  /\ UNCHANGED rows

\* A call to the object store does its work, or fails.
Stored(before, after) == {after} \cup (IF regime.faults THEN {before} ELSE {})

\* A row that was cleared away does not come back: another upload is another asset.
Exists(a) == asset[a].upload \notin {"NONE", "CLEARED"}

================================================================================
