------------------------------- MODULE OnceOnly --------------------------------
(***************************************************************************)
(* What an idempotency key promises: what it was used for is brought to    *)
(* its end at most once, whatever was attempted before, nothing is         *)
(* attempted after, and nobody hears of anything else.                     *)
(***************************************************************************)
CONSTANTS Key, Body

VARIABLES
  attempted,   \* of each key, what was set about under it
  outcome,     \* of each key, what was brought to its end under it, in order
  heard        \* of each key, what clients were told happened

vars == <<attempted, outcome, heard>>

Init ==
  /\ attempted = [k \in Key |-> {}]
  /\ outcome = [k \in Key |-> << >>]
  /\ heard = [k \in Key |-> {}]

Attempt(k) ==
  /\ outcome[k] = << >>
  /\ attempted' \in {[attempted EXCEPT ![k] = @ \cup {b}] : b \in Body}
  /\ UNCHANGED <<outcome, heard>>

Happen(k) ==
  /\ outcome[k] = << >>
  /\ outcome' \in {[outcome EXCEPT ![k] = <<b>>] : b \in attempted[k]}
  /\ UNCHANGED <<attempted, heard>>

Hear(k) ==
  /\ outcome[k] # << >>
  /\ heard' = [heard EXCEPT ![k] = {outcome[k][1]}]
  /\ UNCHANGED <<attempted, outcome>>

Next == \E k \in Key : Attempt(k) \/ Happen(k) \/ Hear(k)
Spec == Init /\ [][Next]_vars

================================================================================
