------------------------------- MODULE Planning -------------------------------
(***************************************************************************)
(* The plans of one incident.  A new plan supersedes the active one; the   *)
(* steps of the active plan are moved by the agent, who may have loaded    *)
(* the step before another request changed it.                             *)
(*                                                                         *)
(* create holds the incident, transition_step the step together with its   *)
(* plan, and both need the incident before they commit, so each is one     *)
(* step (two that meet deadlock, and the database aborts one of them).     *)
(* The Runner tasks that both cancel are modelled in RunnerTasks; evidence *)
(* that a step refers to can only make the request fail.                   *)
(***************************************************************************)
EXTENDS Naturals, FiniteSets

CONSTANTS
    Agent,      \* callers that load a step and move it
    MaxPlans,   \* bound: plans
    MaxSteps,   \* bound: steps of a plan
    MaxMoves    \* bound: versions of a step

ASSUME PlanningConstants ==
    MaxPlans \in Nat \ {0} /\ MaxSteps \in Nat \ {0} /\ MaxMoves \in Nat \ {0}

Plan == 1..MaxPlans
Ordinal == 1..MaxSteps
StepStatus == {"pending", "running", "completed", "skipped", "blocked", "failed"}
FinishedStep == {"completed", "skipped"}

\* _ALLOWED_TRANSITIONS of plan steps
AllowedMoves == [s \in StepStatus |->
    CASE s = "pending" -> {"running", "skipped", "blocked"}
      [] s = "running" -> {"completed", "failed", "blocked"}
      [] s \in {"failed", "blocked"} -> {"pending", "skipped"}
      [] OTHER -> {}]

VARIABLES
    plannable,\* whether the status of the incident allows a plan to be made
    replans,  \* its replan_count
    plans,    \* plans by version, with their steps
    loaded    \* the step each agent loaded last

planVars == <<plannable, replans, plans, loaded>>

Step == [status: StepStatus, version: 1..MaxMoves, attempts: 0..MaxMoves,
         needs: SUBSET Ordinal]
PlanRow == [status: {"none", "active", "superseded", "completed"},
            steps: UNION {[1..n -> Step] : n \in 0..MaxSteps}]
NotLoaded == [plan |-> 0, ordinal |-> 0, version |-> 0]

PlanInit ==
    /\ plannable = FALSE
    /\ replans = 0
    /\ plans = [p \in Plan |-> [status |-> "none", steps |-> <<>>]]
    /\ loaded = [g \in Agent |-> NotLoaded]

\* The incident enters or leaves INVESTIGATING, DIAGNOSED and PLANNING, moved by
\* operators and other services (IncidentIntake).
MoveIncident ==
    /\ plannable' = ~plannable
    /\ UNCHANGED <<replans, plans, loaded>>

Made == {p \in Plan : plans[p].status # "none"}
NextPlan == Cardinality(Made) + 1

\* _validate_plan_dependencies: steps only need steps before them.
ValidDependencies(needs) == \A i \in DOMAIN needs : needs[i] \subseteq 1..(i - 1)

\* Mutant of Superseded: the previous plan stays.
NotSuperseded == plans

Superseded ==
    [p \in Plan |-> IF plans[p].status = "active"
                    THEN [plans[p] EXCEPT !.status = "superseded"] ELSE plans[p]]

CreatePlan(needs) ==
    /\ ValidDependencies(needs)
    /\ plannable
    /\ NextPlan \in Plan
    /\ plans' = [Superseded EXCEPT ![NextPlan] =
         [status |-> "active",
          steps |-> [i \in DOMAIN needs |->
              [status |-> "pending", version |-> 1, attempts |-> 0,
               needs |-> needs[i]]]]]
    /\ replans' = NextPlan - 1
    /\ UNCHANGED <<plannable, loaded>>

\* The API shows the steps of the newest plan.
LoadStep(g, p, i) ==
    /\ p = NextPlan - 1
    /\ i \in DOMAIN plans[p].steps
    /\ loaded' = [loaded EXCEPT ![g] = [plan |-> p, ordinal |-> i,
                                        version |-> plans[p].steps[i].version]]
    /\ UNCHANGED <<plannable, replans, plans>>

AllFinished(steps) == \A i \in DOMAIN steps : steps[i].status \in FinishedStep

\* _validate_dependencies_ready
DependenciesReady(steps, i) ==
    \A d \in steps[i].needs : steps[d].status \in FinishedStep

PlanAfter(steps) == IF AllFinished(steps) THEN "completed" ELSE "active"

MayMove(p, i, version) ==
    /\ plans[p].steps[i].version = version
    /\ plans[p].status = "active"

\* transition_step
TransitionStep(g, target) ==
    LET p == loaded[g].plan
        i == loaded[g].ordinal
        steps == plans[p].steps
        moved == [steps EXCEPT ![i].status = target,
                    ![i].version = steps[i].version + 1,
                    ![i].attempts = IF target = "running"
                                    THEN steps[i].attempts + 1
                                    ELSE steps[i].attempts]
    IN  /\ p # 0
        /\ MayMove(p, i, loaded[g].version)
        /\ steps[i].version < MaxMoves
        /\ target = "running" => DependenciesReady(steps, i)
        /\ target \in AllowedMoves[steps[i].status]
        /\ plans' = [plans EXCEPT ![p] = [status |-> PlanAfter(moved),
                                          steps |-> moved]]
        /\ UNCHANGED <<plannable, replans, loaded>>

PlanNext ==
    \/ MoveIncident
    \/ \E n \in Ordinal : \E needs \in [1..n -> SUBSET (1..n)] : CreatePlan(needs)
    \/ \E g \in Agent, p \in Plan, i \in Ordinal : LoadStep(g, p, i)
    \/ \E g \in Agent, s \in StepStatus : TransitionStep(g, s)

PlanSpec == PlanInit /\ [][PlanNext]_planVars

-----------------------------------------------------------------------------
(* Correctness *)

\* Every variable keeps its type.
PlanTypeOK ==
    /\ plannable \in BOOLEAN /\ replans \in 0..MaxPlans
    /\ loaded \in [Agent -> [plan: 0..MaxPlans, ordinal: 0..MaxSteps,
                             version: 0..MaxMoves]]
    /\ plans \in [Plan -> PlanRow]

\* A plan is completed exactly when all its steps are completed or skipped; so
\* no plan with open work counts as done, and none without stays active.
CompletedMeansDone ==
    \A p \in Made : plans[p].status = "completed" <=> AllFinished(plans[p].steps)

\* Only the newest plan can be active, and the incident counts the plans that
\* were replaced.
OnlyNewestPlanActive ==
    /\ \A p \in Made : plans[p].status = "active" => p = Cardinality(Made)
    /\ Made # {} => replans = Cardinality(Made) - 1

\* A step was only ever attempted after everything it needs was finished, and
\* what is finished stays so.
StepsInOrder ==
    \A p \in Made : \A i \in DOMAIN plans[p].steps :
        plans[p].steps[i].attempts > 0 =>
            \A d \in plans[p].steps[i].needs : plans[p].steps[d].status \in FinishedStep

\* Some step can always be started or is under way, or is blocked or failed and
\* needs the agent, while a plan is active: its dependencies never lock it up.
PlanCanGoOn ==
    \A p \in Made : plans[p].status = "active" =>
        \E i \in DOMAIN plans[p].steps :
            /\ plans[p].steps[i].status \notin FinishedStep
            /\ DependenciesReady(plans[p].steps, i)

\* A plan that was superseded or completed never changes again, whatever an agent
\* that loaded one of its steps still sends.
OldPlansRest == [][
    \A p \in Made : plans[p].status # "active" => plans'[p] = plans[p]]_planVars

\* However agents move steps and replace plans, there is one plan to follow, in order
\* and to its end.
PlansAreFollowed ==
    /\ [](PlanTypeOK /\ CompletedMeansDone /\ OnlyNewestPlanActive
          /\ StepsInOrder /\ PlanCanGoOn)
    /\ OldPlansRest
=============================================================================
