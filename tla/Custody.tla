------------------------------- MODULE Custody --------------------------------
(***************************************************************************)
(* What the evidence store promises of every file: once it is kept, it is  *)
(* kept until it is destroyed, which takes a mandate that names the file   *)
(* and that a second user has approved, or a routine file; and a destroyed *)
(* file stays destroyed.                                                   *)
(***************************************************************************)
CONSTANTS Asset, Deletion, User, None

VARIABLES
  file,      \* "absent", "kept" or "destroyed"
  routine,   \* files that may be replaced without a mandate
  mandate    \* who asked for which files to be destroyed, and who approved it

vars == <<file, routine, mandate>>

NoMandate == [by |-> None, approver |-> None, files |-> {}]

Init ==
  /\ file \in [Asset -> {"absent", "kept"}]
  /\ routine \in SUBSET Asset
  /\ mandate = [d \in Deletion |-> NoMandate]

Keep(a) ==
  /\ file[a] = "absent"
  /\ file' = [file EXCEPT ![a] = "kept"]
  /\ UNCHANGED <<routine, mandate>>

\* A file that is not kept yet gets its kind, and may lose it again.
Classify(a) ==
  /\ file[a] = "absent"
  /\ routine' \in {routine \cup {a}, routine \ {a}}
  /\ file' \in {file, [file EXCEPT ![a] = "kept"]}
  /\ UNCHANGED mandate

Ask(d) ==
  \E u \in User, files \in SUBSET {a \in Asset : file[a] # "absent"} :
    /\ mandate[d] = NoMandate
    /\ mandate' = [mandate EXCEPT ![d] = [NoMandate EXCEPT !.by = u, !.files = files]]
    /\ UNCHANGED <<file, routine>>

Approve(d) ==
  \E u \in User \ {mandate[d].by} :
    /\ mandate[d].by # None
    /\ mandate' = [mandate EXCEPT ![d].approver = u]
    /\ UNCHANGED <<file, routine>>

Mandated(a) ==
  a \in routine \/ \E d \in Deletion : a \in mandate[d].files /\ mandate[d].approver # None

Destroy(a) ==
  /\ \/ file[a] = "kept" /\ Mandated(a)
     \/ file[a] = "absent" /\ a \in routine
  /\ file' = [file EXCEPT ![a] = "destroyed"]
  /\ UNCHANGED <<routine, mandate>>

Next ==
  \/ \E a \in Asset : Keep(a) \/ Classify(a) \/ Destroy(a)
  \/ \E d \in Deletion : Ask(d) \/ Approve(d)

Spec == Init /\ [][Next]_vars

================================================================================
