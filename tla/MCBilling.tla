------------------------------- MODULE MCBilling -------------------------------
(***************************************************************************)
(* Small instances of billing for TLC.                                     *)
(***************************************************************************)
EXTENDS Billing, TLC

AllOps == Operation \ {"none"}
RaceOps == AllOps \ {"adminSuspend", "adminRestore", "reissue", "void", "generate"}
\* Invoices of two months, the job and the administrator.
DunningOps == {"cycle", "generate", "manual", "void", "adminSuspend", "adminRestore"}
\* One checkout and the deliveries of its event.
WebhookOps == {"generate", "initiate", "webhook", "manual", "void"}

\* (bound) What events of one checkout do to each other is looked at beside everything but a
\* running job; beside the job there is one event.
Announced == {e \in ProviderEvent : notice[e] # NoNotice}
OneEventBesideTheJob == running => Cardinality(Announced) <= 1
RaceNext ==
  \/ SubscriptionNext
  \/ (InvoiceNext \/ PaymentNext) /\ OneEventBesideTheJob'
  \/ \E r \in Request : Crash(r)
RaceSpec == Init /\ [][RaceNext]_vars

Symmetry == UNION {Permutations(Invoice), Permutations(Attempt), Permutations(Period),
                   Permutations(ProviderEvent), Permutations(Request)}

================================================================================
