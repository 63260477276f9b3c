----------------------------- MODULE MCAuthority -----------------------------
(***************************************************************************)
(* The components between an alert and an authorised change, checked in    *)
(* one run: alerts become incidents, which Agents investigate; hypotheses  *)
(* and plans are made, actions are authorised, and a failed one is         *)
(* compensated.  None of them reads a variable of another, so the run picks*)
(* one and leaves the rest at their initial values: it explores the sum of *)
(* the six state spaces.                                                   *)
(***************************************************************************)
EXTENDS Authorization, Compensation, IncidentIntake, Planning, Hypotheses,
        InvestigationRuntime, TLC

CONSTANTS alice, bob, w1, w2

VARIABLE part  \* the component that this behaviour is about

People == Permutations(User) \cup Permutations(Worker)

Plain == [enabled |-> TRUE, priority |-> 0, allow |-> TRUE, capabilities |-> {},
          approval |-> FALSE, windowed |-> TRUE, limit |-> 1]
Reviewed == [Plain EXCEPT !.approval = TRUE, !.windowed = FALSE, !.limit = NoLimit]
Forbidden == [Plain EXCEPT !.allow = FALSE, !.priority = 1]
RuleContents == {Plain, Reviewed, Forbidden}

Part == {"authorization", "compensation", "intake", "planning", "hypotheses",
         "investigation"}

Init == /\ part \in Part
        /\ AuthInit /\ CompInit /\ IntakeInit /\ PlanInit /\ HypInit
        /\ RunInit

Next ==
    \/ /\ part = "authorization" /\ AuthNext
       /\ UNCHANGED <<part, compVars, intakeVars, planVars, hypVars, vars>>
    \/ /\ part = "compensation" /\ CompNext
       /\ UNCHANGED <<part, authVars, intakeVars, planVars, hypVars, vars>>
    \/ /\ part = "intake" /\ IntakeNext
       /\ UNCHANGED <<part, authVars, compVars, planVars, hypVars, vars>>
    \/ /\ part = "planning" /\ PlanNext
       /\ UNCHANGED <<part, authVars, compVars, intakeVars, hypVars, vars>>
    \/ /\ part = "hypotheses" /\ HypNext
       /\ UNCHANGED <<part, authVars, compVars, intakeVars, planVars, vars>>
    \/ /\ part = "investigation" /\ RunNext
       /\ UNCHANGED <<part, authVars, compVars, intakeVars, planVars, hypVars>>

Spec == Init /\ [][Next]_<<part, authVars, compVars, intakeVars, planVars, hypVars,
                          vars>>
=============================================================================
