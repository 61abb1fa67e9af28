------------------------------- MODULE Analytics -------------------------------
(***************************************************************************)
(* The three analytics repositories, for one rule and one subject: the     *)
(* rule changes by versions, calculations (a job, or somebody's request)   *)
(* write an indicator per evaluation window, people review, dismiss,       *)
(* reopen and escalate indicators.  Whether the records reach the          *)
(* thresholds, and on which day the last of them lies, is chosen freely.   *)
(***************************************************************************)
EXTENDS OperationsData, Sequences

CONSTANTS
  MaxDay,      \* bound on the calendar of the tenant
  Period,      \* lengths of an evaluation, in days
  Cooldown,    \* days in which a subject is not reported again
  MaxRule,     \* bound on versions of the rule
  MaxEvents,   \* bound on the decisions people take
  Case         \* investigation cases

ASSUME DayAssumption == MaxDay \in Nat \ {0}
ASSUME PeriodAssumption == Period # {} /\ Period \subseteq Nat \ {0}
ASSUME CooldownAssumption == Cooldown # {} /\ Cooldown \subseteq Nat
ASSUME RuleAssumption == MaxRule \in Nat \ {0} /\ MaxEvents \in Nat
ASSUME CaseAssumption == None \notin Case

VARIABLES
  day,          \* today, in the tenant's time zone
  rule,         \* the version that is not superseded
  indicator,    \* of each evaluation window (calculationKey), its indicator
  chronology,   \* of each indicator, its events
  opened        \* of each case, the indicator it was opened for

analyticsVars == <<day, rule, indicator, chronology, opened>>

Day == 1 .. MaxDay
Window == [to : Day, period : Period]
Rule == [version : 1 .. MaxRule, period : Period, cooldown : Cooldown]

NoIndicator == [status |-> "NONE", version |-> 0, explained |-> 0, last |-> 0, case |-> None]

AnalyticsInit ==
  /\ day = 1
  /\ rule \in {v \in Rule : v.version = 1}
  /\ indicator = [w \in Window |-> NoIndicator]
  /\ chronology = [w \in Window |-> << >>]
  /\ opened = [c \in Case |-> None]

DayPasses == day < MaxDay /\ day' = day + 1 /\ UNCHANGED <<call, rule, indicator, chronology, opened>>

-------------------------------------------------------------------------------
\* createAnalyticsRuleVersion: of the version that is current now ...
EditRule(r) ==
  /\ rule.version < MaxRule
  /\ Begin(r, [at |-> "writeRule", edited |-> rule.version])
  /\ UNCHANGED analyticsVars

\* ... unless another version has superseded it.
WriteRule(r) ==
  /\ At(r, "writeRule")
  /\ IF rule.version = call[r].edited
     THEN rule' \in {v \in Rule : v.version = rule.version + 1} ELSE UNCHANGED rule
  /\ End(r)
  /\ UNCHANGED <<day, indicator, chronology, opened>>

\* calculateAnalyticsForTenant: the day is that of its start, the rule the one it reads ...
Calculate(r) ==
  /\ Begin(r, [at |-> "readRule", to |-> day])
  /\ UNCHANGED analyticsVars

\* ... and the last record that counts lies in its window, or, of a tracker that has fallen
\* silent, before it.
ReadRule(r) ==
  LET to == call[r].to IN
  /\ At(r, "readRule")
  /\ \/ End(r)   \* no candidate
     \/ \E last \in 1 .. to :
          call' = [call EXCEPT ![r] = [at |-> "find", to |-> to, rule |-> rule, last |-> last]]
  /\ UNCHANGED analyticsVars

WindowOf(q) == [to |-> q.to, period |-> q.rule.period]

\* (variant) whoever finds an indicator of its window brings it up to date
UpdatesAny(q) == TRUE

\* "A rule-version change never rewrites a historical threshold snapshot."
SameVersion(q) == indicator[WindowOf(q)].version = q.rule.version

\* persistCandidate: an indicator of the same window is updated, or left alone ...
FindIndicator(r) ==
  LET q == call[r] IN
  /\ At(r, "find")
  /\ IF indicator[WindowOf(q)] # NoIndicator
     THEN IF SameVersion(q) THEN Go(r, "update") ELSE End(r)
     ELSE IF q.rule.cooldown > 0 THEN Go(r, "checkCooldown") ELSE Go(r, "create")
  /\ UNCHANGED analyticsVars

UpdateIndicator(r) ==
  LET q == call[r] IN
  /\ At(r, "update")
  /\ indicator' = [indicator EXCEPT ![WindowOf(q)] =
       [@ EXCEPT !.last = q.last, !.explained = q.rule.version]]
  /\ End(r)
  /\ UNCHANGED <<day, rule, chronology, opened>>

\* ... one of another window suppresses it if recent enough ...
CheckCooldown(r) ==
  LET q == call[r]
      recent == \E w \in Window : /\ indicator[w] # NoIndicator
                                  /\ indicator[w].last + q.rule.cooldown > q.to
  IN
  /\ At(r, "checkCooldown")
  /\ IF recent THEN End(r) ELSE Go(r, "create")
  /\ UNCHANGED analyticsVars

\* ... and the unique key suppresses the loser of a race.
CreateIndicator(r) ==
  LET q == call[r] IN
  /\ At(r, "create")
  /\ IF indicator[WindowOf(q)] # NoIndicator
     THEN UNCHANGED indicator
     ELSE indicator' = [indicator EXCEPT ![WindowOf(q)] =
            [status |-> "OPEN", version |-> q.rule.version, explained |-> q.rule.version,
             last |-> q.last, case |-> None]]
  /\ End(r)
  /\ UNCHANGED <<day, rule, chronology, opened>>

-------------------------------------------------------------------------------
MayBecome(to) ==
  CASE to = "REVIEWED" -> {"OPEN"}
    [] to = "DISMISSED" -> {"OPEN", "REVIEWED"}
    [] to = "OPEN" -> {"DISMISSED", "REVIEWED", "ESCALATED"}

Events == {e \in Window \X (1 .. MaxEvents) : e[2] \in DOMAIN chronology[e[1]]}

\* transitionIndicator: the status is checked ...
TransitionIndicator(r) ==
  \E w \in Window, to \in {"REVIEWED", "DISMISSED", "OPEN"} :
    /\ indicator[w].status \in MayBecome(to)
    /\ Cardinality(Events) < MaxEvents
    /\ Begin(r, [at |-> "writeStatus", window |-> w, from |-> indicator[w].status, to |-> to])
    /\ UNCHANGED analyticsVars

Happened(w, from, to) ==
  chronology' = [chronology EXCEPT ![w] = Append(@, [from |-> from, to |-> to])]

\* ... before the transaction that writes it, with its event.
WriteStatus(r) ==
  LET q == call[r] IN
  /\ At(r, "writeStatus")
  /\ indicator' = [indicator EXCEPT ![q.window].status = q.to]
  /\ Happened(q.window, q.from, q.to)
  /\ End(r)
  /\ UNCHANGED <<day, rule, opened>>

\* (variant) a reopened indicator may be escalated into another case
LinkIgnored(w) == TRUE

Unlinked(w) == indicator[w].case = None

\* escalateAnalyticsIndicatorToInvestigation
EscalateIndicator(r) ==
  \E w \in Window :
    /\ indicator[w].status \notin {"NONE", "DISMISSED"}
    /\ Unlinked(w)
    /\ Cardinality(Events) < MaxEvents
    /\ Begin(r, [at |-> "pickCase", window |-> w, from |-> indicator[w].status])
    /\ UNCHANGED analyticsVars

Picked(r, c) ==
  call' = [call EXCEPT ![r] = [at |-> "linkCase", window |-> @.window, from |-> @.from, case |-> c]]

\* A new case, in a transaction of its own ...
OpenCase(r) ==
  /\ At(r, "pickCase")
  /\ \E c \in Case :
       /\ opened[c] = None
       /\ opened' = [opened EXCEPT ![c] = call[r].window]
       /\ Picked(r, c)
  /\ UNCHANGED <<day, rule, indicator, chronology>>

\* ... or one that was there.
FindCase(r) ==
  /\ At(r, "pickCase")
  /\ \E c \in Case : opened[c] # None /\ Picked(r, c)
  /\ UNCHANGED analyticsVars

LinkCase(r) ==
  LET q == call[r] IN
  /\ At(r, "linkCase")
  /\ indicator' = [indicator EXCEPT ![q.window] =
       [@ EXCEPT !.status = "ESCALATED", !.case = q.case]]
  /\ Happened(q.window, q.from, "ESCALATED")
  /\ End(r)
  /\ UNCHANGED <<day, rule, opened>>

AnalyticsServes(r) ==
  \/ EditRule(r) \/ WriteRule(r)
  \/ Calculate(r) \/ ReadRule(r) \/ FindIndicator(r) \/ UpdateIndicator(r)
  \/ CheckCooldown(r) \/ CreateIndicator(r)
  \/ TransitionIndicator(r) \/ WriteStatus(r)
  \/ EscalateIndicator(r) \/ OpenCase(r) \/ FindCase(r) \/ LinkCase(r)

AnalyticsNext ==
  /\ \/ \E r \in Request : AnalyticsServes(r) \/ (Die(r) /\ UNCHANGED analyticsVars)
     \/ DayPasses
  /\ UNCHANGED mode

AnalyticsSpec == NoCalls /\ AnalyticsInit /\ [][AnalyticsNext]_<<mode, call, analyticsVars>>

-------------------------------------------------------------------------------
IndicatorStatus == {"NONE", "OPEN", "REVIEWED", "DISMISSED", "ESCALATED"}

AnalyticsTypeOK ==
  /\ day \in Day /\ rule \in Rule
  /\ indicator \in [Window -> [status : IndicatorStatus, version : 0 .. MaxRule,
                               explained : 0 .. MaxRule, last : 0 .. MaxDay,
                               case : Case \cup {None}]]
  /\ chronology \in [Window -> Seq([from : IndicatorStatus, to : IndicatorStatus])]
  /\ opened \in [Case -> Window \cup {None}]

\* What an indicator says was found by the version of the rule in its snapshot.
ExplainedByItsRule == \A w \in Window : indicator[w].explained = indicator[w].version

\* Where the events of an indicator lead.
LedTo(events) == IF events = << >> THEN "OPEN" ELSE events[Len(events)].to

StatusIsLastEvent ==
  \A w \in Window : indicator[w] # NoIndicator => indicator[w].status = LedTo(chronology[w])

EscalatedIsLinked ==
  \A w \in Window :
    (\E i \in DOMAIN chronology[w] : chronology[w][i].to = "ESCALATED") =>
      indicator[w].case # None

\* One request at a time, each event starts where the one before it led ...
ChronologyIsAChain ==
  mode.serial => \A w \in Window : \A i \in DOMAIN chronology[w] :
    chronology[w][i].from = LedTo(SubSeq(chronology[w], 1, i - 1))

\* ... and a case opened for an indicator is, and stays, the one it is linked to.
OpenedIsLinked ==
  mode.serial /\ ~mode.faults /\ Quiescent =>
    \A c \in Case : opened[c] # None => indicator[opened[c]].case = c

\* However calculations, changes of the rule and decisions cross, an indicator is
\* explained by the version it quotes, its status is where its last event led, and one
\* that was ever escalated keeps a case; one at a time, its events form a chain, and
\* where no process dies it never gets a second case.
IndicatorsAreAccountable ==
  /\ ExplainedByItsRule /\ StatusIsLastEvent /\ EscalatedIsLinked
  /\ ChronologyIsAChain /\ OpenedIsLinked

================================================================================
