--------------------------------- MODULE Broker ---------------------------------
(***************************************************************************)
(* The NATS connection of one worker and the policy for its errors.  The   *)
(* library (nats-py) calls back: for every failed attempt of the first     *)
(* connect, which it never gives up; for an outage, once disconnected,     *)
(* once for each failed attempt, and once reconnected; for errors of a     *)
(* connection that stays up; and once closed.  Failures below the          *)
(* threshold are warnings; one beyond it is reported.                      *)
(***************************************************************************)
EXTENDS Naturals

CONSTANTS ReportAfter, \* NATS_ERROR_REPORT_AFTER_ATTEMPTS
          MaxErrors,   \* calls of error_cb between two resets, at most
          MaxOutages   \* outages, at most

VARIABLES link,        \* none, connecting, up, lost (disconnected), closed
          _consecutive_failures,
          _escalated,
          outages,     \* outages so far
          attempts,    \* history: failed attempts in the outage
          noise,       \* history: failures the policy counts from before the outage
          reports      \* history: errors reported in the outage

vars == <<link, _consecutive_failures, _escalated, outages, attempts, noise, reports>>

reset == _consecutive_failures' = 0 /\ _escalated' = FALSE

Init ==
    /\ link = "none"
    /\ _consecutive_failures = 0 /\ _escalated = FALSE
    /\ outages = 0 /\ attempts = 0 /\ noise = 0 /\ reports = 0

\* The state is not cleared when an outage ends.
BugOnReconnected == UNCHANGED <<_consecutive_failures, _escalated>>

OnReconnected == reset

\* error_cb: one more failure, which is reported the first time it is one too many.
OnError ==
    /\ _consecutive_failures' = _consecutive_failures + 1
    /\ IF _consecutive_failures' > ReportAfter /\ ~_escalated
       THEN _escalated' = TRUE /\ reports' = reports + 1
       ELSE UNCHANGED <<_escalated, reports>>

Connect ==
    /\ link \in {"none", "closed"}
    /\ link' = "connecting"
    /\ reset
    /\ attempts' = 0 /\ noise' = 0 /\ reports' = 0
    /\ UNCHANGED outages

\* The first connect is tried again for ever, and its success is not called back.
ConnectFails ==
    /\ link = "connecting" /\ _consecutive_failures < MaxErrors
    /\ OnError
    /\ attempts' = attempts + 1
    /\ UNCHANGED <<link, outages, noise>>

Connected ==
    /\ link = "connecting"
    /\ link' = "up"
    /\ noise' = _consecutive_failures
    /\ UNCHANGED <<_consecutive_failures, _escalated, outages, attempts, reports>>

\* An error that leaves the connection up (a refused subject, a slow consumer).
AsyncError ==
    /\ link = "up" /\ _consecutive_failures < MaxErrors
    /\ OnError
    /\ noise' = noise + 1
    /\ UNCHANGED <<link, outages, attempts>>

\* on_disconnected only writes a warning.
Outage ==
    /\ link = "up" /\ outages < MaxOutages
    /\ link' = "lost"
    /\ outages' = outages + 1
    /\ attempts' = 0 /\ reports' = 0
    /\ UNCHANGED <<_consecutive_failures, _escalated, noise>>

ReconnectFails ==
    /\ link = "lost" /\ _consecutive_failures < MaxErrors
    /\ OnError
    /\ attempts' = attempts + 1
    /\ UNCHANGED <<link, outages, noise>>

Reconnected ==
    /\ link = "lost"
    /\ link' = "up"
    /\ OnReconnected
    /\ noise' = 0
    /\ UNCHANGED <<outages, attempts, reports>>

\* Drained or, when that fails, closed at once: the connection is forgotten.
Close ==
    /\ link \in {"up", "lost"}
    /\ link' = "closed"
    /\ UNCHANGED <<_consecutive_failures, _escalated, outages, attempts, noise, reports>>

Next ==
    \/ Connect \/ ConnectFails \/ Connected \/ AsyncError
    \/ Outage \/ ReconnectFails \/ Reconnected \/ Close

Spec == Init /\ [][Next]_vars

(***************************************************************************)
(* Property                                                                *)
(***************************************************************************)

\* A broker that stays away is reported once: an outage of a connection that
\* had no errors since the last reset is reported exactly once when it has
\* more failed attempts than the threshold, and not before; no outage is
\* reported twice (lifecycle.py:14-18).  Errors from before the outage, those
\* of a slow first connect among them, count towards it.
OutageReportedOnce ==
    link = "lost" =>
        /\ reports <= 1
        /\ noise = 0 => (reports = 1 <=> attempts > ReportAfter)
================================================================================
