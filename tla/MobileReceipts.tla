----------------------------- MODULE MobileReceipts ----------------------------
(***************************************************************************)
(* idempotency.ts: a mobile mutation runs behind a receipt that is unique  *)
(* per user and key.  Clients send again what they got no answer to, and   *)
(* may use one key for two contents.                                       *)
(***************************************************************************)
EXTENDS OperationsData, Sequences

CONSTANTS
  Key,   \* idempotency keys of one user
  Body   \* what may be asked under a key: the operation and its content

ASSUME BodyAssumption == None \notin Body

VARIABLES
  receipt,    \* of each key, its receipt
  begun,      \* of each key, the contents of which a run has written something
  effect,     \* of each key, the runs that wrote all and returned
  answered    \* of each key, what clients were answered

mobileVars == <<receipt, begun, effect, answered>>

NoReceipt == [status |-> "NONE", body |-> None]

MobileInit ==
  /\ receipt = [k \in Key |-> NoReceipt]
  /\ begun = [k \in Key |-> {}]
  /\ effect = [k \in Key |-> << >>]
  /\ answered = [k \in Key |-> {}]

\* (variant) a receipt that is only looked up: whoever finds it unfinished runs as well
InsertUnlessCompleted(r) ==
  \E k \in Key, b \in Body :
    LET new == receipt[k].status # "COMPLETED" IN
    /\ Begin(r, [at |-> IF new THEN "run" ELSE "readReceipt", key |-> k, body |-> b])
    /\ receipt' = IF new THEN [receipt EXCEPT ![k] = [status |-> "IN_PROGRESS", body |-> b]]
                  ELSE receipt
    /\ UNCHANGED <<begun, effect, answered>>

\* executeMobileMutation: the insert that the unique key may refuse ...
InsertReceipt(r) ==
  \E k \in Key, b \in Body :
    LET new == receipt[k] = NoReceipt IN
    /\ Begin(r, [at |-> IF new THEN "run" ELSE "readReceipt", key |-> k, body |-> b])
    /\ receipt' = IF new THEN [receipt EXCEPT ![k] = [status |-> "IN_PROGRESS", body |-> b]]
                  ELSE receipt
    /\ UNCHANGED <<begun, effect, answered>>

Replays(q) == receipt[q.key] = [status |-> "COMPLETED", body |-> q.body]

Answer(q) == answered' = [answered EXCEPT ![q.key] = @ \cup {q.body}]

\* ... then the lookup, later: the stored response, or 409.
ReadReceipt(r) ==
  /\ At(r, "readReceipt")
  /\ IF Replays(call[r]) THEN Answer(call[r]) ELSE UNCHANGED answered
  /\ End(r)
  /\ UNCHANGED <<receipt, begun, effect>>

\* The action itself, statement after statement, none of which is undone by a later one:
\* it throws before it has written anything, or writes ...
RunMutation(r) ==
  LET q == call[r] IN
  /\ At(r, "run")
  /\ \/ Go(r, "finish") /\ begun' = [begun EXCEPT ![q.key] = @ \cup {q.body}]
     \/ Go(r, "release") /\ UNCHANGED begun
  /\ UNCHANGED <<receipt, effect, answered>>

\* ... and goes on, to return or to throw for all it has written: raiseException whose
\* visit cannot move on, clearGateEvent whose movement cannot start.
FinishMutation(r) ==
  LET q == call[r] IN
  /\ At(r, "finish")
  /\ \/ Go(r, "complete") /\ effect' = [effect EXCEPT ![q.key] = Append(@, q.body)]
     \/ Go(r, "release") /\ UNCHANGED effect
  /\ UNCHANGED <<receipt, begun, answered>>

\* (variant) a failed mutation keeps its receipt
KeepReceipt(r) ==
  /\ At(r, "release")
  /\ End(r)
  /\ UNCHANGED mobileVars

\* Should one of these fail, the receipt stays IN_PROGRESS as if the process had died.
ReleaseReceipt(r) ==
  /\ At(r, "release")
  /\ receipt' = [receipt EXCEPT ![call[r].key] = NoReceipt]
  /\ End(r)
  /\ UNCHANGED <<begun, effect, answered>>

CompleteReceipt(r) ==
  /\ At(r, "complete")
  /\ receipt' = [receipt EXCEPT ![call[r].key].status = "COMPLETED"]
  /\ Answer(call[r])
  /\ End(r)
  /\ UNCHANGED <<begun, effect>>

MobileServes(r) ==
  \/ InsertReceipt(r) \/ ReadReceipt(r) \/ RunMutation(r) \/ FinishMutation(r)
  \/ ReleaseReceipt(r) \/ CompleteReceipt(r)

MobileNext ==
  /\ \E r \in Request : MobileServes(r) \/ (Die(r) /\ UNCHANGED mobileVars)
  /\ UNCHANGED mode

MobileSpec == NoCalls /\ MobileInit /\ [][MobileNext]_<<mode, call, mobileVars>>

-------------------------------------------------------------------------------
MobileStep == {"run", "finish", "readReceipt", "complete", "release"}

\* Every receipt and every request keeps its shape.
MobileTypeOK ==
  /\ mode \in Modes
  /\ call \in [Request -> {Idle} \cup [at : MobileStep, key : Key, body : Body]]
  /\ receipt \in [Key -> [status : {"NONE", "IN_PROGRESS", "COMPLETED"}, body : Body \cup {None}]]
  /\ begun \in [Key -> SUBSET Body]
  /\ effect \in [Key -> Seq(Body)]
  /\ answered \in [Key -> SUBSET Body]

\* As long as no process dies, a receipt does not stay IN_PROGRESS.
ReceiptSettles ==
  \A k \in Key : ~mode.faults /\ receipt[k].status = "IN_PROGRESS"
                   ~> receipt[k].status # "IN_PROGRESS"

-------------------------------------------------------------------------------
OnceOnlyPerKey ==
  INSTANCE OnceOnly WITH attempted <- begun, outcome <- effect, heard <- answered

\* However a client repeats a call, reuses a key for another content or loses its
\* server, at most one run under a key writes all there is to write, nothing is written
\* after it, and whoever is answered, at once or by a replay, is answered about that run:
\* insert, run, completion, release, replay and death keep the promise of the key.  A run
\* that throws on its way leaves what it has written, and the key free for another one,
\* of the same content or not: about those runs nothing is promised.
ImplementsOnceOnly == OnceOnlyPerKey!Spec

================================================================================
