---------------------------- MODULE OperationsData -----------------------------
(***************************************************************************)
(* What the smaller components share: handlers that are chains of          *)
(* statements, each request carrying what its earlier statements read.     *)
(***************************************************************************)
EXTENDS Naturals, FiniteSets

CONSTANTS User, Request, None

ASSUME NobodyAssumption == None \notin User

VARIABLES
  mode,   \* whether requests are served one at a time, and whether processes die
  call    \* the requests in flight

Idle == [at |-> "idle"]
Modes == [serial : BOOLEAN, faults : BOOLEAN]
NoCalls == mode \in Modes /\ call = [r \in Request |-> Idle]

Quiescent == \A r \in Request : call[r] = Idle

Begin(r, q) ==
  /\ call[r] = Idle
  /\ mode.serial => Quiescent
  /\ call' = [call EXCEPT ![r] = q]

At(r, step) == call[r].at = step
Go(r, step) == call' = [call EXCEPT ![r].at = step]
End(r) == call' = [call EXCEPT ![r] = Idle]

Die(r) == mode.faults /\ call[r] # Idle /\ End(r)

================================================================================
