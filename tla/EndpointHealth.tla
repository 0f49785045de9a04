--------------------------- MODULE EndpointHealth ---------------------------
(***************************************************************************)
(* Parking of one carrier address (internal/callcontrol/endpoints.go):     *)
(* RecordAttempt by the handlers of concurrent attempts, one Redis command *)
(* at a time, while an operator may Revive the address and keys expire.    *)
(* A command may fail once RecordAttempt has begun to count; one that      *)
(* fails before is as if the attempt had not been reported.                *)
(***************************************************************************)
EXTENDS Naturals

CONSTANTS
    Reporters,   \* handlers that record attempts, one after the other each
    Threshold,   \* endpoint_fail_threshold, 0 when it is not set
    MaxReports,  \* bound on attempts
    MaxRevives   \* bound on operator actions

ASSUME EndpointBounds == Threshold \in Nat

VARIABLES
    fail,      \* ep:<id>:fail, 0 when there is no key
    dead,      \* ep:<id>:dead
    rep,       \* where each reporter stands: "idle", "park" or "clear"
    inARow,    \* failures in a row that were counted while nobody was parking
               \* and no command failed
    parked,    \* the last parking followed a row of FailLimit failures
    lastRow,   \* failures since an attempt got through or the address was revived
    reports, revives

epVars == <<fail, dead, rep, inARow, parked, lastRow, reports, revives>>

ReporterGoes(r, to) == rep' = [rep EXCEPT ![r] = to]

EpInit ==
    /\ fail = 0 /\ dead = FALSE /\ inARow = 0 /\ parked = TRUE /\ lastRow = 0
    /\ reports = 0 /\ revives = 0
    /\ rep = [r \in Reporters |-> "idle"]

\* The attempt got through: DEL fail.
Reachable(r) ==
    /\ rep[r] = "idle" /\ reports < MaxReports
    /\ fail' = 0 /\ inARow' = 0 /\ lastRow' = 0
    /\ reports' = reports + 1
    /\ UNCHANGED <<dead, rep, parked, revives>>

\* RecordAttempt's default.
FailLimit == IF Threshold = 0 THEN 2 ELSE Threshold

\* Mutant: one failure more is needed.
ParksLater(n) == n > FailLimit

\* n >= int64(threshold)
Parks(n) == n >= FailLimit

\* The attempt failed: INCR fail; from the threshold on the address is parked.
\* Without the reply RecordAttempt ends.
Unreachable(r, ok) ==
    /\ rep[r] = "idle" /\ reports < MaxReports
    /\ fail' = fail + 1 /\ lastRow' = lastRow + 1
    /\ inARow' = IF ~ok \/ \E q \in Reporters : rep[q] # "idle" THEN inARow ELSE inARow + 1
    /\ reports' = reports + 1
    /\ IF ok /\ Parks(fail + 1)
       THEN ReporterGoes(r, "park") /\ parked' = (lastRow + 1 >= FailLimit)
       ELSE UNCHANGED <<rep, parked>>
    /\ UNCHANGED <<dead, revives>>

\* SET dead ...
SetDead(r, ok) ==
    /\ rep[r] = "park"
    /\ dead' = (dead \/ ok)
    /\ inARow' = IF ok THEN inARow ELSE 0
    /\ ReporterGoes(r, "clear")
    /\ UNCHANGED <<fail, parked, lastRow, reports, revives>>

\* ... and DEL fail.
ClearFail(r, ok) ==
    /\ rep[r] = "clear"
    /\ fail' = IF ok THEN 0 ELSE fail
    /\ ReporterGoes(r, "idle")
    /\ UNCHANGED <<dead, inARow, parked, lastRow, reports, revives>>

\* Revive: DEL dead fail.
Revive ==
    /\ revives < MaxRevives /\ revives' = revives + 1
    /\ dead' = FALSE /\ fail' = 0 /\ inARow' = 0 /\ lastRow' = 0
    /\ UNCHANGED <<rep, parked, reports>>

\* The retry period is over.
DeadExpires ==
    /\ dead /\ dead' = FALSE /\ inARow' = 0
    /\ UNCHANGED <<fail, rep, parked, lastRow, reports, revives>>

\* No failure was recorded for as long as that.
FailExpires ==
    /\ fail > 0 /\ fail' = 0 /\ inARow' = 0
    /\ UNCHANGED <<dead, rep, parked, lastRow, reports, revives>>

EpNext ==
    \/ \E r \in Reporters : Reachable(r)
    \/ \E r \in Reporters, ok \in BOOLEAN : Unreachable(r, ok) \/ SetDead(r, ok) \/ ClearFail(r, ok)
    \/ Revive \/ DeadExpires \/ FailExpires

EpSpec == EpInit /\ [][EpNext]_epVars

-----------------------------------------------------------------------------
\* The address is parked for a row of failures and for nothing else
\* (RecordAttempt): when every reporter is done, a full row has parked it
\* (failures counted while another reporter was parking may be wiped, those with
\* a failed command lost), and it was parked only after FailLimit failures since
\* the last attempt that got through and since an operator revived it.
ParkedForCause ==
    /\ (\A r \in Reporters : rep[r] = "idle") /\ inARow >= FailLimit => dead
    /\ parked
=============================================================================
