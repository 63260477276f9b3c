---------------------------- MODULE IncidentIntake ----------------------------
(***************************************************************************)
(* Alerts of one resource are received, deduplicated and correlated into   *)
(* incidents, while operators look at the incidents and move them on.      *)
(*                                                                         *)
(* A webhook is one transaction and is modelled with one alert.  Taking up *)
(* an active incident locks it, so that path is one step.  When there is   *)
(* none the search locks nothing, and the new incident is committed later: *)
(* another webhook or an operator may open one in between.                 *)
(***************************************************************************)
EXTENDS IncidentLifecycle, Naturals

CONSTANTS
    Alert,        \* dedup keys: fingerprint and start of an alert
    Operator,     \* people who move incidents
    MaxIncidents, \* bound: incidents
    MaxVersion    \* bound: version of an incident

ASSUME IntakeConstants == MaxIncidents \in Nat /\ MaxVersion \in Nat \ {0}

Incident == 1..MaxIncidents
NoIncident == 0

VARIABLES
    incidents, \* rows: status, version, and whether updated in the window
    alerts,    \* rows: status, whether the resource is known, the incident
    opening,   \* alerts whose transaction found no active incident
    views      \* what each operator last saw of an incident

intakeVars == <<incidents, alerts, opening, views>>

IncidentRow == [status: IncidentStatus \union {"none"}, version: 0..MaxVersion,
                recent: BOOLEAN]
AlertRow == [status: {"none", "firing", "resolved"}, matched: BOOLEAN,
             incident: Incident \union {NoIncident}]
View == [incident: Incident \union {NoIncident}, version: 0..MaxVersion,
         alerts: SUBSET Alert]

IntakeInit ==
    /\ incidents = [i \in Incident |->
                      [status |-> "none", version |-> 0, recent |-> FALSE]]
    /\ alerts = [a \in Alert |->
                   [status |-> "none", matched |-> FALSE, incident |-> NoIncident]]
    /\ opening = {}
    /\ views = [o \in Operator |->
                  [incident |-> NoIncident, version |-> 0, alerts |-> {}]]

AttachedTo(i) == {a \in Alert : alerts[a].incident = i}

\* find_active_for_resource
Active(i) == incidents[i].status \notin Ended \union {"none"} /\ incidents[i].recent

\* _upsert_alert; a resource found once is kept.
Upserted(a, status, matched) ==
    [alerts EXCEPT ![a].status = status, ![a].matched = @ \/ matched]

NeedsIncident(a, status) ==
    status = "firing" /\ alerts[a].incident = NoIncident

\* A delivery that leaves the incidents as they are: the alert has its incident,
\* is resolved, or its resource is not known.  The event of a resolution is
\* recorded without a new version.
Ingest(a, status, matched) ==
    /\ a \notin opening
    /\ ~NeedsIncident(a, status) \/ ~matched
    /\ alerts' = Upserted(a, status, matched)
    /\ UNCHANGED <<incidents, opening, views>>

\* Mutant of TakenUp: the version stays.
TakenUpSilently(i) == [incidents EXCEPT ![i].recent = TRUE]

TakenUp(i) == [incidents EXCEPT ![i].version = @ + 1, ![i].recent = TRUE]

\* _correlate_firing_alert with an active incident.  Which of several is the
\* latest updated is left open.
Correlate(a, i) ==
    /\ a \notin opening /\ NeedsIncident(a, "firing")
    /\ Active(i) /\ incidents[i].version < MaxVersion
    /\ incidents' = TakenUp(i)
    /\ alerts' = [Upserted(a, "firing", TRUE) EXCEPT ![a].incident = i]
    /\ UNCHANGED <<opening, views>>

\* _correlate_firing_alert finds nothing; the transaction goes on.
FindNone(a) ==
    /\ a \notin opening /\ NeedsIncident(a, "firing")
    /\ \A i \in Incident : ~Active(i)
    /\ opening' = opening \union {a}
    /\ UNCHANGED <<incidents, alerts, views>>

NextIncident == CHOOSE i \in Incident : /\ incidents[i].status = "none"
                                 /\ \A j \in Incident :
                                      j < i => incidents[j].status # "none"
Spare == \E i \in Incident : incidents[i].status = "none"

Detected == [incidents EXCEPT ![NextIncident] =
               [status |-> "DETECTED", version |-> 1, recent |-> TRUE]]

\* ... and opens an incident with the alert as its first.
Open(a) ==
    /\ a \in opening /\ Spare
    /\ incidents' = Detected
    /\ alerts' = [Upserted(a, "firing", TRUE) EXCEPT ![a].incident = NextIncident]
    /\ opening' = opening \ {a}
    /\ UNCHANGED views

\* The transaction is rolled back; the sender delivers the webhook again.
Abort(a) ==
    /\ a \in opening
    /\ opening' = opening \ {a}
    /\ UNCHANGED <<incidents, alerts, views>>

\* An operator opens an incident.
CreateIncident ==
    /\ Spare
    /\ incidents' = Detected
    /\ UNCHANGED <<alerts, opening, views>>

\* An operator loads an incident with its alerts.
Look(o, i) ==
    /\ incidents[i].status # "none"
    /\ views' = [views EXCEPT ![o] = [incident |-> i,
                   version |-> incidents[i].version, alerts |-> AttachedTo(i)]]
    /\ UNCHANGED <<incidents, alerts, opening>>

\* transition: only from the version that was loaded.
Transition(o, target) ==
    LET i == views[o].incident
    IN  /\ i # NoIncident
        /\ incidents[i].version = views[o].version
        /\ incidents[i].version < MaxVersion
        /\ target \in Allowed[incidents[i].status]
        /\ incidents' = [incidents EXCEPT ![i] =
             [status |-> target, version |-> views[o].version + 1,
              recent |-> TRUE]]
        /\ UNCHANGED <<alerts, opening, views>>

\* The correlation window of the incident passes.
Ages(i) ==
    /\ incidents[i].recent
    /\ incidents' = [incidents EXCEPT ![i].recent = FALSE]
    /\ UNCHANGED <<alerts, opening, views>>

IntakeNext ==
    \/ \E a \in Alert, s \in {"firing", "resolved"}, m \in BOOLEAN : Ingest(a, s, m)
    \/ \E a \in Alert, i \in Incident : Correlate(a, i)
    \/ \E a \in Alert : FindNone(a) \/ Open(a) \/ Abort(a)
    \/ CreateIncident
    \/ \E i \in Incident : Ages(i)
    \/ \E o \in Operator, i \in Incident : Look(o, i)
    \/ \E o \in Operator, s \in IncidentStatus : Transition(o, s)

IntakeSpec == IntakeInit /\ [][IntakeNext]_intakeVars

-----------------------------------------------------------------------------
(* Correctness *)

\* Every variable keeps its type, and an alert refers to an incident there is.
IntakeTypeOK ==
    /\ incidents \in [Incident -> IncidentRow] /\ alerts \in [Alert -> AlertRow]
    /\ opening \subseteq Alert /\ views \in [Operator -> View]
    /\ \A i \in Incident : incidents[i].status # "none" => incidents[i].version > 0
    /\ \A a \in Alert : alerts[a].incident # NoIncident =>
          incidents[alerts[a].incident].status # "none"

\* An operator who closes an incident, or moves it on, has seen every alert in
\* it: one that was correlated since makes the request stale (incidents.py
\* compares versions, alerts.py raises them).
OperatorSawEveryAlert == [][
    \A o \in Operator, s \in IncidentStatus : Transition(o, s) =>
        AttachedTo(views[o].incident) \subseteq views[o].alerts]_intakeVars

\* An alert joins an incident only while somebody works on it, and stays there.
JoinsOpenIncident == [][
    \A a \in Alert : alerts'[a].incident # alerts[a].incident =>
        /\ alerts[a].incident = NoIncident
        /\ incidents'[alerts'[a].incident].status \notin Ended]_intakeVars

\* An alert that already fires gets its incident with the first delivery that
\* knows its resource.
LateMatchOpensIncident == [][
    \A a \in Alert :
        /\ alerts'[a].status = "firing"
        /\ alerts'[a].matched /\ ~alerts[a].matched
        => alerts'[a].incident # NoIncident]_intakeVars

\* No alert is overlooked between webhooks and operators.
AlertsAreAccountedFor ==
    []IntakeTypeOK /\ OperatorSawEveryAlert /\ JoinsOpenIncident /\ LateMatchOpensIncident
=============================================================================
