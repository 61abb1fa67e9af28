------------------------------- MODULE GateData -------------------------------
(***************************************************************************)
(* The tables the gate workflow reads and writes, and the requests that    *)
(* are being served.  The database runs each statement on its own (READ    *)
(* COMMITTED, no transaction around a handler), so a handler is a chain of *)
(* steps, one per statement whose place among other requests' statements   *)
(* matters, and a request record carries what earlier statements read.     *)
(* A request whose first check fails changes nothing: its first step is    *)
(* then simply not enabled.                                                *)
(***************************************************************************)
EXTENDS GateStates, Naturals, FiniteSets

CONSTANTS
  Movement, Event, Exception, Attempt, Fallback,   \* row identifiers
  User, Request,
  None,               \* a null column
  RateLimit,          \* VERIFICATION_ATTEMPT_RATE_LIMIT
  AllowSelfApprove,   \* Tenant.allowSelfApproveMovement
  Serial,             \* TRUE: a request starts only when none is in flight
  MayCrash,           \* TRUE: a request may die between two statements
  Operations          \* the handlers the users call

Identifier == UNION {Movement, Event, Exception, Attempt, Fallback, User}

ASSUME NoneAssumption == None \notin Identifier
ASSUME RateAssumption == RateLimit \in Nat
ASSUME SwitchAssumption == {AllowSelfApprove, Serial, MayCrash} \subseteq BOOLEAN

VARIABLES
  movement,         \* movement authorisations
  available,        \* of each movement's driver and vehicle, those available
  event,            \* gate events
  earlier,          \* of each gate event, those completed before it (completedAt)
  exception,        \* exceptions raised on gate events
  attempt,          \* facial verification attempts, by idempotency key
  fallback,         \* manual verification fallback requests
  reconciliation,   \* the departure and return leg paired for a movement
  request           \* the requests in flight

rows == <<movement, available, event, earlier, exception, attempt, fallback,
          reconciliation>>
vars == <<rows, request>>

-------------------------------------------------------------------------------
Direction == {"ENTRY", "EXIT"}
Identity == {"VERIFIED", "NOT_VERIFIED", "MANUAL_FALLBACK_APPROVED"}

NoMovement == [status |-> "NONE", requester |-> None, approver |-> None]
NoEvent == [status |-> "NONE", movement |-> None, direction |-> "NONE",
            decision |-> "NONE", identity |-> "NONE", item |-> "NONE"]
NoException == [event |-> None, serious |-> FALSE, item |-> FALSE,
                raisedBy |-> None, resolvedBy |-> None, outcome |-> "NONE"]
NoAttempt == [event |-> None, recent |-> FALSE]
NoFallback == [event |-> None, status |-> "NONE", requestedBy |-> None,
               approvedBy |-> None]
NoPair == [departure |-> None, return |-> None]

Idle == [at |-> "idle", op |-> "none", user |-> None, movement |-> None,
         event |-> None, row |-> None, to |-> "NONE", arg |-> "NONE",
         seen |-> "NONE"]

Init ==
  /\ movement = [m \in Movement |-> NoMovement]
  /\ available = [m \in Movement |-> {"driver", "vehicle"}]
  /\ event = [e \in Event |-> NoEvent]
  /\ earlier = [e \in Event |-> {}]
  /\ exception = [x \in Exception |-> NoException]
  /\ attempt = [k \in Attempt |-> NoAttempt]
  /\ fallback = [f \in Fallback |-> NoFallback]
  /\ reconciliation = [m \in Movement |-> NoPair]
  /\ request = [r \in Request |-> Idle]

-------------------------------------------------------------------------------
(* A request is taken up by its first statement, goes on from statement to *)
(* statement, and ends by returning, by throwing, or by dying on the way.  *)

Quiescent == \A r \in Request : request[r] = Idle

Call(op, at, u) == [Idle EXCEPT !.op = op, !.at = at, !.user = u]

Serve(r, call) ==
  /\ request[r] = Idle
  /\ call.op \in Operations
  /\ Serial => Quiescent
  /\ request' = [request EXCEPT ![r] = call]

Continue(r, ok, at) ==
  request' = [request EXCEPT ![r] = IF ok THEN [@ EXCEPT !.at = at] ELSE Idle]

Finish(r) == request' = [request EXCEPT ![r] = Idle]

Crash(r) ==
  /\ MayCrash
  /\ request[r] # Idle
  /\ Finish(r)
  /\ UNCHANGED rows

================================================================================
