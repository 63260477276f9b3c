-------------------------- MODULE IncidentLifecycle --------------------------
(***************************************************************************)
(* The statuses of an incident, the transitions the domain model allows,   *)
(* and those in which it no longer takes up alerts.                        *)
(***************************************************************************)

IncidentStatus == {"DETECTED", "CORRELATING", "INVESTIGATING", "DIAGNOSED",
    "PLANNING", "WAITING_APPROVAL", "REMEDIATING", "VERIFYING", "RESOLVED",
    "CLOSED", "OBSERVABILITY_LOST", "NEEDS_HUMAN", "MITIGATED_NOT_RESOLVED",
    "FAILED", "CANCELLED"}

\* _ALLOWED_TRANSITIONS
Allowed == [s \in IncidentStatus |->
    CASE s = "DETECTED" -> {"CORRELATING", "CANCELLED"}
      [] s = "CORRELATING" -> {"INVESTIGATING", "NEEDS_HUMAN", "FAILED"}
      [] s = "INVESTIGATING" ->
           {"DIAGNOSED", "OBSERVABILITY_LOST", "NEEDS_HUMAN", "FAILED"}
      [] s = "DIAGNOSED" -> {"PLANNING", "NEEDS_HUMAN"}
      [] s = "PLANNING" -> {"WAITING_APPROVAL", "REMEDIATING", "NEEDS_HUMAN"}
      [] s = "WAITING_APPROVAL" -> {"REMEDIATING", "CANCELLED", "NEEDS_HUMAN"}
      [] s = "REMEDIATING" -> {"VERIFYING", "NEEDS_HUMAN", "FAILED"}
      [] s = "VERIFYING" -> {"RESOLVED", "MITIGATED_NOT_RESOLVED",
                             "INVESTIGATING", "NEEDS_HUMAN"}
      [] s = "RESOLVED" -> {"CLOSED", "INVESTIGATING"}
      [] s = "OBSERVABILITY_LOST" ->
           {"INVESTIGATING", "NEEDS_HUMAN", "CANCELLED"}
      [] s = "MITIGATED_NOT_RESOLVED" ->
           {"INVESTIGATING", "RESOLVED", "NEEDS_HUMAN"}
      [] s = "NEEDS_HUMAN" -> {"INVESTIGATING", "CANCELLED", "FAILED"}
      [] OTHER -> {}]

\* Statuses in which find_active_for_resource no longer takes up alerts.
Ended == {"RESOLVED", "CLOSED", "FAILED", "CANCELLED"}
=============================================================================
