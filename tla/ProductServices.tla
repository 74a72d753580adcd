-------------------------- MODULE ProductServices ---------------------------
(***************************************************************************)
(* Four services that share no state: the answers to KPI requests, an      *)
(* account with its sessions and tokens, the limits of its attempts, and   *)
(* the delivery of e-mails.  A behaviour is one of them at work.           *)
(***************************************************************************)
EXTENDS KpiQueries, LoginLimiter, EmailDelivery, AccountSessions

VARIABLE service

services == <<kpi, limiter, emails, account, service>>

Init ==
    /\ service \in {"kpi", "limiter", "email", "account"}
    /\ KpiInit
    /\ LimiterInit
    /\ EmailInit
    /\ AccountInit
    /\ service # "account" => status = "none"

\* The requests have come and the e-mails are settled: the system may rest.
Rest ==
    /\ \A r \in Requests : Ended(r)
    /\ \A m \in Mails : mail[m] \in {"wanted", "done", "dropped"}
    /\ UNCHANGED services

Next ==
    \/ service = "kpi" /\ KpiNext /\ UNCHANGED <<limiter, emails, account, service>>
    \/ service = "limiter" /\ LimiterNext /\ UNCHANGED <<kpi, emails, account, service>>
    \/ service = "email" /\ EmailNext /\ UNCHANGED <<kpi, limiter, account, service>>
    \/ service = "account" /\ AccountNext /\ UNCHANGED <<kpi, limiter, emails, service>>
    \/ Rest

Spec == Init /\ [][Next]_services
=============================================================================
