---------------------------- MODULE AuthorityProofs ----------------------------
(***************************************************************************)
(* Why the components between an alert and an authorised change keep their *)
(* promises, for every value of their constants.  They share no state, so  *)
(* each has its own inductive invariant, and its own part here.            *)
(***************************************************************************)
EXTENDS Authorization, Compensation, IncidentIntake, Planning, Hypotheses,
        FiniteSetTheorems, WellFoundedInduction, TLAPS

\* A set of natural numbers has a least one.
LEMMA LeastExists ==
    ASSUME NEW T, T \subseteq Nat, T # {}
    PROVE  \E x \in T : \A y \in T : x <= y
<1> DEFINE R == {ss \in Nat \X Nat : ss[1] < ss[2]}
<1>1. IsWellFoundedOn(R, Nat)
  <2>1. R = OpToRel(<, Nat)
    BY Zenon DEF OpToRel
  <2> QED
    BY <2>1, NatLessThanWellFounded, Zenon
<1>2. \A x, y \in Nat : x < y => <<x, y>> \in R
  OBVIOUS
<1> HIDE DEF R
<1>3. PICK x \in T : \A y \in T : ~(<<y, x>> \in R)
  BY <1>1, WFMin, Zenon
<1>4. ASSUME NEW y \in T PROVE x <= y
  <2>1. ~(<<y, x>> \in R)
    BY <1>3
  <2>2. ~(y < x)
    BY <1>2, <2>1, Zenon
  <2> QED
    BY <2>2
<1> QED
  BY <1>4

-----------------------------------------------------------------------------
(* Authorisation of actions.                                               *)
(* A decision that was not made is referred to by nothing, an action       *)
(* refers to one of its own, and an approval that was given stays as it    *)
(* was given; so what was checked when an action was inserted is true of   *)
(* it for good.                                                            *)

USE AuthorizationConstants

\* What the parts of the state owe each other.
ReadingSound == \A x \in Reader : reading[x].rule # NoRule => reading[x].row.version > 0

DecisionSound ==
    \A d \in Decision : decisions[d].verdict.rule # NoRule => decisions[d].verdict.version > 0

\* An approval belongs to a decision, and somebody other than its requester gave it.
ApprovalSound ==
    \A d \in Decision :
        /\ approvals[d].status # "none" => decisions[d].made
        /\ approvals[d].status = "approved"
             => approvals[d].decidedBy \notin {approvals[d].requestedBy, Nobody}

Covered(d, parameters) ==
    /\ decisions[d].made
    /\ decisions[d].verdict.approval
         => approvals[d].status = "approved" /\ approvals[d].parameters = parameters

ActionSound ==
    \A a \in Action :
        IF Created(a) THEN /\ actions[a].decision \in Decision
                           /\ Covered(actions[a].decision, actions[a].parameters)
        ELSE actions[a].decision = 0

\* A proposal has a decision of its own.
ProposalSound ==
    /\ \A k \in NodeKey : proposals[k].status # "none"
         => proposals[k].decision \in Decision /\ decisions[proposals[k].decision].made
    /\ \A j, k \in NodeKey :
         /\ proposals[j].status # "none" /\ proposals[k].status # "none"
         /\ proposals[j].decision = proposals[k].decision
         => j = k

AuthInv == /\ AuthTypeOK /\ ReadingSound /\ DecisionSound /\ ApprovalSound /\ ActionSound
           /\ ProposalSound /\ AuthorizationIsUsedOnce /\ ProposalFollowsApproval

LEMMA AuthInvSuffices ==
    AuthInv => AuthTypeOK /\ AuthorizationIsUsedOnce /\ FourEyes /\ ProposalFollowsApproval
BY DEF AuthInv, ActionSound, ApprovalSound, Covered, Created, FourEyes

\* The number of rules that come before a rule decreases along the order.
LEMMA FirstMatchIsARule ==
    ASSUME rules \in [Rule -> RuleRow], NEW c
    PROVE  \/ FirstMatch(c) = NoRule
           \/ /\ FirstMatch(c) \in Rule
              /\ rules[FirstMatch(c)].version > 0 /\ rules[FirstMatch(c)].content.enabled
<1> DEFINE M == {r \in Rule : /\ rules[r].version > 0
                              /\ rules[r].content.enabled
                              /\ Matches(rules[r].content, c)}
           Before(r, s) ==
               \/ rules[r].content.priority > rules[s].content.priority
               \/ rules[r].content.priority = rules[s].content.priority /\ r <= s
           Ahead(r) == {s \in M : ~Before(r, s)}
<1>1. FirstMatch(c) = IF M = {} THEN NoRule ELSE CHOOSE r \in M : \A s \in M : Before(r, s)
  BY DEF FirstMatch
<1>2. IsFiniteSet(M) /\ \A r \in M : r \in Nat /\ rules[r].content.priority \in Nat
  <2>1. IsFiniteSet(M)
    BY FS_Subset
  <2>2. \A r \in M : r \in Nat /\ rules[r].content.priority \in Nat
    BY DEF RuleRow, RuleContent
  <2> QED
    BY <2>1, <2>2
<1>3. \A r \in M : rules[r].version > 0 /\ rules[r].content.enabled /\ r \in Rule
  OBVIOUS
<1> HIDE DEF M
<1>4. ASSUME M # {} PROVE \E r \in M : \A s \in M : Before(r, s)
  <2>1. \A r \in M : IsFiniteSet(Ahead(r)) /\ Cardinality(Ahead(r)) \in Nat
    BY <1>2, FS_Subset, FS_CardinalityType
  <2>2. PICK r \in M : \A s \in M : Cardinality(Ahead(r)) <= Cardinality(Ahead(s))
    <3> HIDE DEF Ahead
    <3> DEFINE Sizes == {Cardinality(Ahead(r)) : r \in M}
    <3>1. Sizes \subseteq Nat /\ Sizes # {}
      BY <1>4, <2>1
    <3>2. \E n \in Sizes : \A m \in Sizes : n <= m
      <4> HIDE DEF Sizes
      <4> QED
        BY <3>1, LeastExists
    <3> QED
      BY <3>2
  <2>3. ASSUME NEW s \in M, ~Before(r, s) PROVE FALSE
    <3>1. Ahead(s) \subseteq Ahead(r)
      BY <1>2, <2>3
    <3>2. s \in Ahead(r) /\ s \notin Ahead(s)
      BY <1>2, <2>3
    <3>3. /\ Cardinality(Ahead(s)) <= Cardinality(Ahead(r))
          /\ Cardinality(Ahead(s)) # Cardinality(Ahead(r))
      <4> HIDE DEF Ahead
      <4> QED
        BY <2>1, <3>1, <3>2, FS_Subset
    <3>4. Cardinality(Ahead(r)) <= Cardinality(Ahead(s))
      BY <2>2, <2>3
    <3> HIDE DEF Ahead
    <3> QED
      BY <2>1, <2>3, <3>3, <3>4
  <2> QED
    BY <2>3
<1>5. M # {} => FirstMatch(c) \in M
  BY <1>1, <1>4
<1> QED
  BY <1>1, <1>3, <1>5

\* What deciding under one rule yields.
LEMMA DecideIsAVerdict ==
    ASSUME NEW r \in Rule, NEW row \in RuleRow, NEW open \in BOOLEAN, NEW n \in Nat
    PROVE  /\ Decide(r, row, open, n) \in Verdict
           /\ Decide(r, row, open, n).rule = r
           /\ Decide(r, row, open, n).version = row.version
           /\ Decide(r, row, open, n).allowed =>
                /\ row.content.allow /\ InsideWindow(row.content, open)
                /\ row.content.limit # NoLimit => n < row.content.limit
<1> DEFINE permits == /\ row.content.allow
                      /\ InsideWindow(row.content, open)
                      /\ row.content.limit # NoLimit => n < row.content.limit
           approval == permits /\ row.content.approval
           v == [allowed |-> permits, approval |-> approval, rule |-> r,
                 version |-> row.version]
<1>1. Decide(r, row, open, n) = v
  BY DEF Decide
<1>2. permits \in BOOLEAN /\ approval \in BOOLEAN
  BY Zenon
<1>3. row.version \in Nat
  BY DEF RuleRow
<1>4. v.allowed = permits /\ v.rule = r /\ v.version = row.version
  BY Zenon
<1> HIDE DEF permits, approval
<1>5. v \in Verdict
  BY <1>2, <1>3 DEF Verdict
<1> QED
  BY <1>1, <1>4, <1>5 DEF permits

LEMMA DenyIsAVerdict ==
    DefaultDeny \in Verdict /\ DefaultDeny.rule = NoRule /\ ~DefaultDeny.allowed
BY DEF DefaultDeny, Verdict

LEMMA ConsumedIsANumber ==
    ASSUME NEW r
    PROVE  Consumed(r) \in Nat
<1> DEFINE T == {a \in Action : /\ actions[a].status # "none"
                                /\ decisions[actions[a].decision].verdict.rule = r}
<1>1. IsFiniteSet(Action)
  BY FS_Interval DEF Action
<1>2. IsFiniteSet(T)
  BY <1>1, FS_Subset
<1> QED
  BY <1>2, FS_CardinalityType DEF Consumed

\* The next decision and the next action are rows nobody used yet.
LEMMA NextDecisionIsNew ==
    ASSUME SpareDecision
    PROVE  NextDecision \in Decision /\ ~decisions[NextDecision].made
<1> DEFINE T == {d \in Decision : ~decisions[d].made}
<1>1. T \subseteq Nat /\ T # {}
  BY DEF SpareDecision, Decision
<1>2. PICK d \in T : \A e \in T : d <= e
  BY <1>1, LeastExists
<1>3. d \in Decision /\ ~decisions[d].made /\ \A e \in Decision : e < d => decisions[e].made
  BY <1>2 DEF Decision
<1> QED
  BY <1>3 DEF NextDecision

LEMMA NextActionIsNew ==
    ASSUME SpareAction
    PROVE  NextAction \in Action /\ actions[NextAction].status = "none"
<1> DEFINE T == {a \in Action : actions[a].status = "none"}
<1>1. T \subseteq Nat /\ T # {}
  BY DEF SpareAction, Action
<1>2. PICK a \in T : \A b \in T : a <= b
  BY <1>1, LeastExists
<1>3. /\ a \in Action /\ actions[a].status = "none"
      /\ \A b \in Action : b < a => actions[b].status # "none"
  BY <1>2 DEF Action
<1> QED
  BY <1>3 DEF NextAction

\* Nothing refers to a decision that was not made.
LEMMA NothingRefersToNew ==
    ASSUME AuthInv, NEW d \in Decision, ~decisions[d].made
    PROVE  /\ approvals[d].status = "none"
           /\ \A a \in Action : actions[a].decision # d
           /\ \A k \in NodeKey : proposals[k].status # "none" => proposals[k].decision # d
<1>1. d # 0
  BY DEF Decision
<1> QED
  BY <1>1 DEF AuthInv, ApprovalSound, ActionSound, ProposalSound, Covered

LEMMA AuthRows ==
    ASSUME AuthInv
    PROVE  /\ rules \in [Rule -> RuleRow] /\ windowOpen \in BOOLEAN
           /\ reading \in [Reader -> Reading] /\ decisions \in [Decision -> DecisionRow]
           /\ approvals \in [Decision -> ApprovalRow]
           /\ proposals \in [NodeKey -> ProposalRow] /\ actions \in [Action -> ActionRow]
           /\ changes \in 0..MaxChanges
BY DEF AuthInv, AuthTypeOK

\* What a step does that leaves decisions, approvals, proposals and actions alone.
LEMMA RulesMove ==
    ASSUME AuthInv, UNCHANGED <<decisions, approvals, proposals, actions>>,
           rules' \in [Rule -> RuleRow], windowOpen' \in BOOLEAN,
           reading' \in [Reader -> Reading], changes' \in 0..MaxChanges, ReadingSound'
    PROVE  AuthInv'
<1>1. AuthTypeOK'
  BY DEF AuthInv, AuthTypeOK
<1>2. DecisionSound' /\ ApprovalSound' /\ ActionSound' /\ ProposalSound'
  BY DEF AuthInv, DecisionSound, ApprovalSound, ActionSound, ProposalSound, Covered, Created
<1>3. AuthorizationIsUsedOnce' /\ ProposalFollowsApproval'
  BY DEF AuthInv, AuthorizationIsUsedOnce, ProposalFollowsApproval, Created
<1> QED
  BY <1>1, <1>2, <1>3 DEF AuthInv

LEMMA RuleSteps ==
    ASSUME AuthInv,
           \/ \E r \in Rule, c \in Contents : CreateRule(r, c) \/ UpdateRule(r, c)
           \/ MoveWindow
    PROVE  AuthInv' /\ UNCHANGED actions
<1>1. ASSUME NEW r \in Rule, NEW c \in Contents, CreateRule(r, c) \/ UpdateRule(r, c)
      PROVE  AuthInv' /\ UNCHANGED actions
  <2>1. PICK n \in Nat : rules' = [rules EXCEPT ![r] = [content |-> c, version |-> n]]
    <3>1. rules[r].version + 1 \in Nat /\ 1 \in Nat
      BY AuthRows DEF RuleRow
    <3> QED
      BY <1>1, <3>1 DEF CreateRule, UpdateRule
  <2>2. rules' \in [Rule -> RuleRow]
    BY <2>1, AuthRows DEF RuleRow
  <2>3. /\ UNCHANGED <<windowOpen, reading, decisions, approvals, proposals, actions>>
        /\ changes' \in 0..MaxChanges
    BY <1>1, AuthRows DEF CreateRule, UpdateRule, Changed
  <2>4. ReadingSound'
    BY <2>3 DEF AuthInv, ReadingSound
  <2> QED
    BY <2>2, <2>3, <2>4, AuthRows, RulesMove
<1>2. ASSUME MoveWindow PROVE AuthInv' /\ UNCHANGED actions
  <2>1. windowOpen' \in BOOLEAN
    BY <1>2, Zenon DEF MoveWindow
  <2>2. /\ UNCHANGED <<rules, reading, decisions, approvals, proposals, actions>>
        /\ changes' \in 0..MaxChanges
    BY <1>2, AuthRows DEF MoveWindow, Changed
  <2>3. ReadingSound'
    BY <2>2 DEF AuthInv, ReadingSound
  <2> QED
    BY <2>1, <2>2, <2>3, AuthRows, RulesMove
<1> QED
  BY <1>1, <1>2

\* A reader that has finished remembers nothing.
LEMMA FinishedForgets ==
    ASSUME AuthInv, NEW x \in Reader, reading' = Finished(x)
    PROVE  reading' \in [Reader -> Reading] /\ ReadingSound'
<1> DEFINE c0 == CHOOSE c \in Contents : TRUE
           k0 == CHOOSE c \in Capability : TRUE
           p0 == CHOOSE p \in Parameter : TRUE
           idle == [reading[x] EXCEPT !.active = FALSE, !.rule = NoRule,
                        !.row = [content |-> c0, version |-> 0],
                        !.open = TRUE, !.capability = k0, !.parameters = p0]
<1>1. c0 \in Contents /\ k0 \in Capability /\ p0 \in Parameter
  BY Zenon
<1>2. reading[x] \in Reading
  BY AuthRows
<1> HIDE DEF c0, k0, p0
<1>3. reading' = [reading EXCEPT ![x] = idle]
  <2>1. reading' = [reading EXCEPT ![x].active = FALSE, ![x].rule = NoRule,
            ![x].row = [content |-> c0, version |-> 0],
            ![x].open = TRUE, ![x].capability = k0, ![x].parameters = p0]
    BY Zenon DEF Finished, c0, k0, p0
  <2> QED
    BY <2>1, AuthRows
<1>4. idle \in Reading /\ idle.rule = NoRule
  BY <1>1, <1>2 DEF Reading, RuleRow
<1> HIDE DEF idle
<1> QED
  BY <1>3, <1>4, AuthRows DEF AuthInv, ReadingSound

LEMMA ReadStep ==
    ASSUME AuthInv, NEW x \in Reader, NEW c \in Capability, NEW p \in Parameter,
           ReadRules(x, c, p)
    PROVE  AuthInv' /\ UNCHANGED actions
<1> DEFINE r == FirstMatch(c)
           row == IF r = NoRule THEN reading[x].row ELSE rules[r]
           new == [active |-> TRUE, capability |-> c, parameters |-> p, rule |-> r,
                   row |-> row, open |-> windowOpen]
<1>1. /\ r \in Rule \union {NoRule} /\ (r # NoRule => row.version > 0)
      /\ row \in RuleRow
  BY FirstMatchIsARule, AuthRows DEF Reading
<1>2. /\ reading' = [reading EXCEPT ![x] = new]
      /\ UNCHANGED <<rules, windowOpen, decisions, approvals, proposals, actions, changes>>
  BY AuthRows DEF ReadRules
<1> HIDE DEF r, row
<1>3. /\ new \in Reading /\ new.rule = r /\ new.row = row
  BY <1>1, AuthRows DEF Reading
<1> HIDE DEF new
<1>4. ReadingSound' /\ reading' \in [Reader -> Reading]
  BY <1>1, <1>2, <1>3, AuthRows DEF AuthInv, ReadingSound
<1> QED
  BY <1>2, <1>4, AuthRows, RulesMove

LEMMA VerdictIsAVerdict ==
    ASSUME AuthInv, NEW x \in Reader
    PROVE  /\ VerdictOf(reading[x]) \in Verdict
           /\ VerdictOf(reading[x]).rule # NoRule => VerdictOf(reading[x]).version > 0
<1>1. /\ reading[x].row \in RuleRow /\ reading[x].open \in BOOLEAN
      /\ reading[x].rule \in Rule \union {NoRule}
      /\ (reading[x].rule # NoRule => reading[x].row.version > 0)
  BY AuthRows DEF Reading, AuthInv, ReadingSound
<1>2. CASE reading[x].rule = NoRule
  BY <1>2, DenyIsAVerdict DEF VerdictOf
<1>3. CASE reading[x].rule # NoRule
  <2>1. Consumed(reading[x].rule) \in Nat
    BY ConsumedIsANumber
  <2> DEFINE r == reading[x].rule
             row == reading[x].row
             open == reading[x].open
             n == Consumed(reading[x].rule)
  <2>2. VerdictOf(reading[x]) = Decide(r, row, open, n)
    BY <1>3 DEF VerdictOf
  <2>3. r \in Rule /\ row \in RuleRow /\ open \in BOOLEAN /\ n \in Nat /\ row.version > 0
    BY <1>1, <1>3, <2>1
  <2> HIDE DEF r, row, open, n
  <2>4. Decide(r, row, open, n) \in Verdict /\ Decide(r, row, open, n).version = row.version
    BY <2>3, DecideIsAVerdict
  <2> QED
    BY <2>2, <2>3, <2>4
<1> QED
  BY <1>2, <1>3

\* A snapshot fills the next decision and leaves the others alone.
LEMMA SnapshotIsNew ==
    ASSUME AuthInv, NEW x \in Reader, SpareDecision
    PROVE  /\ Snapshot(x) \in [Decision -> DecisionRow]
           /\ Snapshot(x)[NextDecision].made
           /\ Snapshot(x)[NextDecision].verdict = VerdictOf(reading[x])
           /\ \A d \in Decision \ {NextDecision} : Snapshot(x)[d] = decisions[d]
<1> DEFINE v == VerdictOf(reading[x])
           new == [made |-> TRUE, capability |-> reading[x].capability, verdict |-> v]
<1>1. Snapshot(x) = [decisions EXCEPT ![NextDecision] = new]
  BY DEF Snapshot
<1>2. v \in Verdict /\ reading[x].capability \in Capability
  BY VerdictIsAVerdict, AuthRows DEF Reading
<1> HIDE DEF v
<1>3. new \in DecisionRow /\ new.made /\ new.verdict = v
  BY <1>2 DEF DecisionRow
<1> HIDE DEF new
<1> QED
  BY <1>1, <1>3, NextDecisionIsNew, AuthRows DEF v

LEMMA SnapshotKeeps ==
    ASSUME AuthInv, NEW x \in Reader, SpareDecision, decisions' = Snapshot(x)
    PROVE  /\ decisions' \in [Decision -> DecisionRow] /\ DecisionSound'
           /\ \A d \in Decision : decisions[d].made => decisions'[d] = decisions[d]
<1>1. /\ decisions' \in [Decision -> DecisionRow]
      /\ \A d \in Decision : decisions[d].made => decisions'[d] = decisions[d]
  BY SnapshotIsNew, NextDecisionIsNew
<1>2. DecisionSound'
  BY SnapshotIsNew, VerdictIsAVerdict DEF AuthInv, DecisionSound
<1> QED
  BY <1>1, <1>2

\* What keeps the actions covered that a step leaves alone.
LEMMA ActionsRest ==
    ASSUME AuthInv, NEW d \in Decision, UNCHANGED actions,
           \A e \in Decision : decisions[e].made => decisions'[e] = decisions[e],
           \A e \in Decision \ {d} : approvals'[e] = approvals[e],
           \A a \in Action : Created(a) /\ actions[a].decision = d
               => approvals'[d].status = approvals[d].status
                  /\ approvals'[d].parameters = approvals[d].parameters
    PROVE  ActionSound' /\ AuthorizationIsUsedOnce'
<1>1. ActionSound'
  BY DEF AuthInv, ActionSound, Covered, Created
<1>2. AuthorizationIsUsedOnce'
  BY DEF AuthInv, AuthorizationIsUsedOnce, Created
<1> QED
  BY <1>1, <1>2

\* An action that was created keeps its decision and its key.
KeysStay ==
    \A a \in Action : actions[a].decision # 0
        => actions'[a].decision = actions[a].decision /\ actions'[a].key = actions[a].key

LEMMA ApprovalMoves ==
    ASSUME AuthInv, NEW d \in Decision, NEW app \in ApprovalRow, decisions[d].made,
           approvals' = [approvals EXCEPT ![d] = app],
           app.status = "approved" => app.decidedBy \notin {app.requestedBy, Nobody},
           \/ approvals[d].status # "approved"
           \/ app.status = approvals[d].status /\ app.parameters = approvals[d].parameters,
           UNCHANGED <<rules, windowOpen, reading, decisions>>, changes' \in 0..MaxChanges,
           UNCHANGED actions \/ (actions' \in [Action -> ActionRow] /\ ActionSound'
                                 /\ AuthorizationIsUsedOnce'),
           proposals' \in [NodeKey -> ProposalRow], ProposalSound', ProposalFollowsApproval'
    PROVE  AuthInv'
<1>1. /\ approvals' \in [Decision -> ApprovalRow] /\ approvals'[d] = app
      /\ \A e \in Decision \ {d} : approvals'[e] = approvals[e]
  BY AuthRows
<1>2. ApprovalSound'
  BY <1>1 DEF AuthInv, ApprovalSound
<1>3. CASE actions' \in [Action -> ActionRow] /\ ActionSound' /\ AuthorizationIsUsedOnce'
  BY <1>1, <1>2, <1>3 DEF AuthInv, AuthTypeOK, ReadingSound, DecisionSound
<1>4. CASE UNCHANGED actions
  <2>1. ASSUME NEW a \in Action, actions[a].decision = d, Created(a)
        PROVE  Covered(d, actions[a].parameters)'
    BY <1>1, <1>4, <2>1 DEF AuthInv, ActionSound, Covered
  <2>2. ActionSound'
    BY <1>1, <1>4, <2>1 DEF AuthInv, ActionSound, Covered, Created
  <2>3. AuthorizationIsUsedOnce'
    BY <1>4 DEF AuthInv, AuthorizationIsUsedOnce, Created
  <2> QED
    BY <1>3, <1>4, <2>2, <2>3, AuthRows
<1> QED
  BY <1>3, <1>4

\* Resolving settles the proposals that waited for the decision.
LEMMA ResolvedSettles ==
    ASSUME AuthInv, NEW d \in Decision, NEW s \in {"rejected", "action_ready"},
           proposals' = Resolved(d, s)
    PROVE  /\ proposals' \in [NodeKey -> ProposalRow]
           /\ \A k \in NodeKey :
                IF proposals[k].status = "awaiting_approval" /\ proposals[k].decision = d
                THEN proposals'[k].status = s /\ proposals'[k].decision = d
                ELSE proposals'[k] = proposals[k]
<1>1. ASSUME NEW k \in NodeKey
      PROVE  /\ proposals'[k] \in ProposalRow
             /\ IF proposals[k].status = "awaiting_approval" /\ proposals[k].decision = d
                THEN proposals'[k].status = s /\ proposals'[k].decision = d
                ELSE proposals'[k] = proposals[k]
  <2> DEFINE new == [proposals[k] EXCEPT !.status = s]
  <2>1. /\ proposals[k] \in ProposalRow
        /\ proposals'[k] = IF k \in ProposalOf(d) THEN new ELSE proposals[k]
    BY AuthRows DEF Resolved
  <2>2. /\ new \in ProposalRow /\ new.status = s /\ new.decision = proposals[k].decision
    BY <2>1 DEF ProposalRow
  <2> HIDE DEF new
  <2> QED
    BY <2>1, <2>2 DEF ProposalOf
<1>2. proposals' = [k \in NodeKey |-> proposals'[k]]
  BY DEF Resolved
<1> QED
  BY <1>1, <1>2

LEMMA ResolvedIsSound ==
    ASSUME AuthInv, NEW d \in Decision, NEW s \in {"rejected", "action_ready"},
           proposals' = Resolved(d, s), decisions' = decisions
    PROVE  ProposalSound'
BY ResolvedSettles DEF AuthInv, ProposalSound

\* A proposal that waited for d, and no other, follows what became of the approval.
LEMMA ProposalsFollow ==
    ASSUME AuthInv, NEW d \in Decision,
           \A e \in Decision \ {d} : approvals'[e] = approvals[e],
           approvals[d].status = "pending",
           \/ /\ proposals' = Resolved(d, "rejected") /\ UNCHANGED actions
              /\ approvals'[d].status \in {"rejected", "expired"}
           \/ /\ proposals' = proposals /\ ProposalOf(d) = {} /\ UNCHANGED actions
           \/ /\ proposals' = Resolved(d, "action_ready") /\ KeysStay
              /\ \A k \in ProposalOf(d) : \E a \in Action :
                    actions'[a].key = k /\ actions'[a].decision = d
    PROVE  ProposalFollowsApproval'
<1>0. /\ d # 0 /\ 0 \notin Decision
  BY DEF Decision
<1> SUFFICES ASSUME NEW k \in NodeKey
             PROVE  LET p == proposals'[k] IN
                    /\ p.status = "awaiting_approval"
                         => approvals'[p.decision].status = "pending"
                    /\ p.status = "rejected"
                         => approvals'[p.decision].status \in {"rejected", "expired"}
                    /\ p.status = "action_ready" => \E a \in Action :
                          actions'[a].key = k /\ actions'[a].decision = p.decision
  BY DEF ProposalFollowsApproval
<1> DEFINE p == proposals[k]
<1>1. /\ p.status # "none" => p.decision \in Decision
      /\ p.status = "awaiting_approval" => approvals[p.decision].status = "pending"
      /\ p.status = "rejected" => approvals[p.decision].status \in {"rejected", "expired"}
      /\ p.status = "action_ready" => \E a \in Action :
            actions[a].key = k /\ actions[a].decision = p.decision
  BY DEF AuthInv, ProposalSound, ProposalFollowsApproval
<1>2. UNCHANGED actions => KeysStay
  BY DEF KeysStay
<1>3. KeysStay
  BY <1>2
<1>4. p.status = "action_ready" => \E a \in Action :
        actions'[a].key = k /\ actions'[a].decision = p.decision
  BY <1>0, <1>1, <1>3 DEF KeysStay
<1>5. CASE proposals' = Resolved(d, "rejected")
           /\ approvals'[d].status \in {"rejected", "expired"}
  BY <1>1, <1>4, <1>5, ResolvedSettles
<1>6. CASE proposals' = proposals /\ ProposalOf(d) = {}
  BY <1>1, <1>4, <1>6 DEF ProposalOf
<1>7. CASE /\ proposals' = Resolved(d, "action_ready")
           /\ \A j \in ProposalOf(d) : \E a \in Action :
                 actions'[a].key = j /\ actions'[a].decision = d
  BY <1>1, <1>4, <1>7, ResolvedSettles DEF ProposalOf
<1> QED
  BY <1>5, <1>6, <1>7

\* Time passes for an approval, or somebody asks for it.
LEMMA AskingSteps ==
    ASSUME AuthInv, NEW d \in Decision,
           \/ ApprovalLapses(d)
           \/ \E u \in User, p \in Parameter, e \in BOOLEAN : CreateApproval(u, d, p, e)
    PROVE  AuthInv' /\ UNCHANGED actions
<1>1. CASE ApprovalLapses(d)
  <2> DEFINE app == [approvals[d] EXCEPT !.lapsed = TRUE]
  <2>1. approvals[d] \in ApprovalRow
    BY AuthRows
  <2>2. /\ approvals' = [approvals EXCEPT ![d] = app] /\ approvals[d].status # "none"
        /\ UNCHANGED <<rules, windowOpen, reading, decisions, proposals, actions>>
        /\ changes' \in 0..MaxChanges
    BY <1>1, AuthRows DEF ApprovalLapses, Changed
  <2>3. /\ app \in ApprovalRow /\ app.status = approvals[d].status
        /\ app.parameters = approvals[d].parameters
        /\ app.decidedBy = approvals[d].decidedBy
        /\ app.requestedBy = approvals[d].requestedBy
    BY <2>1 DEF ApprovalRow
  <2> HIDE DEF app
  <2>4. /\ decisions[d].made
        /\ app.status = "approved" => app.decidedBy \notin {app.requestedBy, Nobody}
    BY <2>2, <2>3 DEF AuthInv, ApprovalSound
  <2>5. \A e \in Decision : approvals'[e].status = approvals[e].status
    BY <2>2, <2>3, AuthRows
  <2>6. ProposalSound' /\ ProposalFollowsApproval'
    BY <2>2, <2>5 DEF AuthInv, ProposalSound, ProposalFollowsApproval
  <2> QED
    BY <2>2, <2>3, <2>4, <2>6, AuthRows, ApprovalMoves
<1>2. ASSUME NEW u \in User, NEW p \in Parameter, NEW e \in BOOLEAN,
             CreateApproval(u, d, p, e)
      PROVE  AuthInv' /\ UNCHANGED actions
  <2> DEFINE app == Pending(u, p, e)
  <2>1. /\ approvals' = [approvals EXCEPT ![d] = app] /\ approvals[d].status = "none"
        /\ decisions[d].made
        /\ UNCHANGED <<rules, windowOpen, reading, decisions, proposals, actions, changes>>
    BY <1>2 DEF CreateApproval
  <2>2. app \in ApprovalRow /\ app.status = "pending"
    BY DEF Pending, ApprovalRow
  <2> HIDE DEF app
  <2>3. \A c \in Decision : c # d => approvals'[c] = approvals[c]
    BY <2>1, AuthRows
  <2>4. ProposalSound'
    BY <2>1 DEF AuthInv, ProposalSound
  <2>5. ProposalFollowsApproval'
    BY <2>1, <2>3 DEF AuthInv, ProposalSound, ProposalFollowsApproval
  <2> QED
    BY <2>1, <2>2, <2>4, <2>5, AuthRows, ApprovalMoves
<1> QED
  BY <1>1, <1>2

\* A decision against the approval, or one that comes too late.
LEMMA RefusalSteps ==
    ASSUME AuthInv, NEW d \in Decision,
           \/ ExpireApproval(d)
           \/ \E u \in User, p \in Parameter : Reject(u, d, p)
    PROVE  AuthInv' /\ UNCHANGED actions
<1>1. ASSUME NEW app \in ApprovalRow, app.status \in {"rejected", "expired"},
             approvals' = [approvals EXCEPT ![d] = app], approvals[d].status = "pending",
             proposals' = Resolved(d, "rejected"),
             UNCHANGED <<rules, windowOpen, reading, decisions, actions, changes>>
      PROVE  AuthInv' /\ UNCHANGED actions
  <2>1. decisions[d].made /\ changes' \in 0..MaxChanges
    BY <1>1, AuthRows DEF AuthInv, ApprovalSound
  <2>2. /\ approvals'[d] = app /\ \A e \in Decision \ {d} : approvals'[e] = approvals[e]
    BY <1>1, AuthRows
  <2>3. /\ proposals' \in [NodeKey -> ProposalRow] /\ ProposalSound'
        /\ ProposalFollowsApproval'
    BY <1>1, <2>2, ResolvedSettles, ResolvedIsSound, ProposalsFollow
  <2> QED
    BY <1>1, <2>1, <2>3, ApprovalMoves
<1>2. approvals[d] \in ApprovalRow
  BY AuthRows
<1>3. CASE ExpireApproval(d)
  <2> DEFINE app == [approvals[d] EXCEPT !.status = "expired"]
  <2>1. app \in ApprovalRow /\ app.status = "expired"
    BY <1>2 DEF ApprovalRow
  <2>2. approvals' = [approvals EXCEPT ![d] = app]
    BY <1>3 DEF ExpireApproval
  <2> HIDE DEF app
  <2> QED
    BY <1>1, <1>3, <2>1, <2>2 DEF ExpireApproval
<1>4. ASSUME NEW u \in User, NEW p \in Parameter, Reject(u, d, p)
      PROVE  AuthInv' /\ UNCHANGED actions
  <2> DEFINE app == [approvals[d] EXCEPT !.status = "rejected", !.decidedBy = u,
                                         !.parameters = p]
  <2>1. app \in ApprovalRow /\ app.status = "rejected"
    BY <1>2 DEF ApprovalRow
  <2>2. approvals' = [approvals EXCEPT ![d] = app]
    BY <1>4 DEF Reject
  <2> HIDE DEF app
  <2> QED
    BY <1>1, <1>4, <2>1, <2>2 DEF Reject, MayDecide
<1> QED
  BY <1>3, <1>4

\* What is written about the actions in one step of authorisation.
Unrevoked ==
    \A a \in Action : actions'[a] # actions[a] =>
        \/ actions'[a].status = "cancelled"
        \/ /\ actions'[a].status = "ready"
           /\ decisions'[actions'[a].decision].verdict.rule \in Allowing
        \/ /\ actions'[a].status = "locked"
           /\ FirstMatch(decisions[actions[a].decision].capability) \in Allowing

WithinLimit ==
    \A a \in Action, r \in Rule :
        /\ actions[a].status = "none" /\ actions'[a].status = "ready"
        /\ decisions'[actions'[a].decision].verdict.rule = r
        => /\ decisions'[actions'[a].decision].verdict.version = rules[r].version
           /\ rules[r].content.limit # NoLimit => Consumed(r)' <= rules[r].content.limit

LEMMA NothingCreated == UNCHANGED actions => Unrevoked /\ WithinLimit
BY DEF Unrevoked, WithinLimit

\* What must hold for an action to be inserted; ds and apps are the decisions and the
\* approvals that the transaction leaves.
Permitted(d, ds, apps, p) ==
    LET v == ds[d].verdict IN
    /\ Unconsumed(d)
    /\ v.approval => apps[d].status = "approved" /\ apps[d].parameters = p
    /\ v.rule \in Allowing
    /\ v.version = rules[v.rule].version
    /\ rules[v.rule].content.limit # NoLimit
         => Consumed(v.rule) < rules[v.rule].content.limit

LEMMA CreationIsAllowed ==
    ASSUME AuthInv, NEW d \in Decision, NEW ds \in [Decision -> DecisionRow], NEW apps,
           NEW p \in Parameter, NEW k, MayCreate(d, ds, apps, p, k),
           \A e \in Decision : ds[e].verdict.rule # NoRule => ds[e].verdict.version > 0
    PROVE  Permitted(d, ds, apps, p)
<1> DEFINE v == ds[d].verdict
<1>1. /\ Unconsumed(d) /\ (v.approval => ApprovalCarries(apps[d], p)) /\ RuleUnchanged(v)
      /\ AuthorizeCreation(d, ds).allowed
  BY DEF MayCreate
<1>2. v.rule \in Rule \union {NoRule} /\ (v.rule # NoRule => v.version > 0)
  BY DEF DecisionRow, Verdict
<1>3. v.rule # NoRule
  BY <1>1, DenyIsAVerdict DEF AuthorizeCreation
<1>4. AuthorizeCreation(d, ds) = Decide(v.rule, rules[v.rule], windowOpen, Consumed(v.rule))
  BY <1>3 DEF AuthorizeCreation
<1>5. /\ rules[v.rule] \in RuleRow /\ windowOpen \in BOOLEAN /\ Consumed(v.rule) \in Nat
      /\ v.rule \in Rule
  BY <1>2, <1>3, AuthRows, ConsumedIsANumber
<1>6. /\ rules[v.rule].content.allow /\ InsideWindow(rules[v.rule].content, windowOpen)
      /\ rules[v.rule].content.limit # NoLimit
            => Consumed(v.rule) < rules[v.rule].content.limit
  <2> DEFINE r == v.rule
  <2>1. Decide(r, rules[r], windowOpen, Consumed(r)).allowed
    BY <1>1, <1>4
  <2>2. rules[r] \in RuleRow /\ r \in Rule /\ Consumed(r) \in Nat /\ windowOpen \in BOOLEAN
    BY <1>5
  <2> HIDE DEF r
  <2>3. /\ rules[r].content.allow /\ InsideWindow(rules[r].content, windowOpen)
        /\ rules[r].content.limit # NoLimit => Consumed(r) < rules[r].content.limit
    BY <2>1, <2>2, DecideIsAVerdict
  <2> QED
    BY <2>3 DEF r
<1>7. rules[v.rule].content.enabled /\ rules[v.rule].version = v.version
  BY <1>1, <1>3 DEF RuleUnchanged
<1> HIDE DEF v
<1>8. v.rule \in Allowing
  BY <1>2, <1>3, <1>5, <1>6, <1>7 DEF Allowing
<1> QED
  BY <1>1, <1>6, <1>7, <1>8 DEF ApprovalCarries, Permitted, v

\* The number of actions that a rule paid for grows by at most the one inserted.
LEMMA ConsumedGrowsByOne ==
    ASSUME NEW r, NEW a0 \in Action,
           \A a \in Action \ {a0} :
               /\ actions'[a] = actions[a]
               /\ actions[a].status # "none"
                    => decisions'[actions[a].decision] = decisions[actions[a].decision]
    PROVE  Consumed(r)' \in Nat /\ Consumed(r)' <= Consumed(r) + 1
<1> DEFINE T == {a \in Action : /\ actions[a].status # "none"
                                /\ decisions[actions[a].decision].verdict.rule = r}
           U == {a \in Action : /\ actions'[a].status # "none"
                                /\ decisions'[actions'[a].decision].verdict.rule = r}
<1>1. IsFiniteSet(Action)
  BY FS_Interval DEF Action
<1>2. IsFiniteSet(T) /\ IsFiniteSet(U)
  BY <1>1, FS_Subset
<1>3. U \subseteq T \union {a0}
  OBVIOUS
<1>4. Consumed(r) = Cardinality(T) /\ Consumed(r)' = Cardinality(U)
  BY DEF Consumed
<1> HIDE DEF T, U
<1>5. IsFiniteSet(T \union {a0}) /\ Cardinality(T \union {a0}) <= Cardinality(T) + 1
  <2>1. /\ IsFiniteSet(T \union {a0}) /\ Cardinality(T) \in Nat
        /\ Cardinality(T \union {a0})
             = IF a0 \in T THEN Cardinality(T) ELSE Cardinality(T) + 1
    BY <1>2, FS_AddElement, FS_CardinalityType
  <2> QED
    BY <2>1
<1>6. Cardinality(U) <= Cardinality(T \union {a0})
  BY <1>3, <1>5, FS_Subset
<1>7. /\ Cardinality(T) \in Nat /\ Cardinality(U) \in Nat
      /\ Cardinality(T \union {a0}) \in Nat
  BY <1>2, <1>5, FS_CardinalityType
<1> QED
  BY <1>4, <1>5, <1>6, <1>7

LEMMA ActionInserted ==
    ASSUME AuthInv, SpareAction, NEW d \in Decision, NEW ds \in [Decision -> DecisionRow],
           NEW apps, NEW p \in Parameter, NEW k \in NodeKey \union User,
           MayCreate(d, ds, apps, p, k), actions' = Inserted(d, p, k),
           decisions' = ds, approvals' = apps, DecisionSound', ds[d].made,
           \A e \in Decision : decisions[e].made => ds[e] = decisions[e],
           \A e \in Decision \ {d} : apps[e] = approvals[e]
    PROVE  /\ actions' \in [Action -> ActionRow] /\ ActionSound' /\ AuthorizationIsUsedOnce'
           /\ KeysStay /\ \E a \in Action : actions'[a].key = k /\ actions'[a].decision = d
           /\ Unrevoked /\ WithinLimit
<1> DEFINE new == [status |-> "ready", decision |-> d, parameters |-> p, key |-> k]
           v == ds[d].verdict
<1>2. PICK a0 \in Action : a0 = NextAction /\ actions[a0].status = "none"
  BY NextActionIsNew
<1>1. actions' = [actions EXCEPT ![a0] = new]
  BY <1>2 DEF Inserted
<1>3. /\ new \in ActionRow /\ new.status = "ready" /\ new.decision = d /\ new.parameters = p
      /\ new.key = k
  BY DEF ActionRow
<1>4. /\ Unconsumed(d)
      /\ v.approval => apps[d].status = "approved" /\ apps[d].parameters = p
      /\ v.rule \in Allowing /\ v.version = rules[v.rule].version
      /\ rules[v.rule].content.limit # NoLimit
           => Consumed(v.rule) < rules[v.rule].content.limit
  <2>1. \A e \in Decision : ds[e].verdict.rule # NoRule => ds[e].verdict.version > 0
    BY DEF DecisionSound
  <2>2. Permitted(d, ds, apps, p)
    BY <2>1, CreationIsAllowed
  <2> QED
    BY <2>2 DEF Permitted
<1> HIDE DEF new
<1>5. /\ actions' \in [Action -> ActionRow] /\ actions'[a0] = new
      /\ \A a \in Action \ {a0} : actions'[a] = actions[a]
  BY <1>1, <1>2, <1>3, AuthRows
<1>6. /\ actions[a0].decision = 0
      /\ \A a \in Action : actions[a].status # "none" =>
            /\ actions[a].decision \in Decision \ {d}
            /\ Covered(actions[a].decision, actions[a].parameters)
      /\ \A a \in Action : actions[a].status = "none" => actions[a].decision = 0
  BY <1>2, <1>4 DEF AuthInv, ActionSound, Created, Unconsumed
<1>7. ActionSound'
  <2>1. Covered(d, p)'
    BY <1>4 DEF Covered
  <2>2. \A a \in Action : actions[a].status # "none"
          => Covered(actions[a].decision, actions[a].parameters)'
    <3>1. ASSUME NEW a \in Action, a # a0, actions[a].status # "none"
          PROVE  Covered(actions[a].decision, actions[a].parameters)'
      BY <1>5, <1>6, <3>1 DEF Covered
    <3> QED
      BY <1>2, <3>1
  <2>3. ASSUME NEW a \in Action, a # a0
        PROVE  IF Created(a)' THEN /\ actions'[a].decision \in Decision
                                   /\ Covered(actions[a].decision, actions[a].parameters)'
               ELSE actions'[a].decision = 0
    BY <1>5, <1>6, <2>2, <2>3 DEF Created
  <2>4. Created(a0)' /\ actions'[a0].decision = d /\ actions'[a0].parameters = p
    BY <1>3, <1>5 DEF Created
  <2> QED
    BY <1>5, <2>1, <2>3, <2>4 DEF ActionSound
<1>8. AuthorizationIsUsedOnce'
  BY <1>3, <1>5, <1>6 DEF AuthInv, AuthorizationIsUsedOnce, Created
<1>9. KeysStay /\ \E a \in Action : actions'[a].key = k /\ actions'[a].decision = d
  BY <1>2, <1>3, <1>5, <1>6 DEF KeysStay
<1>10. Unrevoked
  BY <1>3, <1>4, <1>5 DEF Unrevoked
<1>11. WithinLimit
  <2> SUFFICES ASSUME NEW a \in Action, NEW r \in Rule, actions[a].status = "none",
                      actions'[a].status = "ready",
                      decisions'[actions'[a].decision].verdict.rule = r
               PROVE  /\ decisions'[actions'[a].decision].verdict.version = rules[r].version
                      /\ rules[r].content.limit # NoLimit
                           => Consumed(r)' <= rules[r].content.limit
    BY DEF WithinLimit
  <2>1. a = a0 /\ r = v.rule /\ actions'[a].decision = d
    BY <1>3, <1>5
  <2>2. /\ Consumed(r)' \in Nat /\ Consumed(r)' <= Consumed(r) + 1 /\ Consumed(r) \in Nat
    <3>1. \A b \in Action \ {a0} :
            /\ actions'[b] = actions[b]
            /\ actions[b].status # "none"
                 => decisions'[actions[b].decision] = decisions[actions[b].decision]
      BY <1>5, <1>6 DEF Covered
    <3> QED
      BY <3>1, ConsumedGrowsByOne, ConsumedIsANumber
  <2>3. rules[r].content.limit \in Nat
    BY AuthRows DEF RuleRow, RuleContent
  <2> QED
    BY <1>4, <2>1, <2>2, <2>3
<1> QED
  BY <1>5, <1>7, <1>8, <1>9, <1>10, <1>11

\* What only the status of an action changes.
LEMMA StatusMoves ==
    ASSUME AuthInv, NEW a \in Action, actions[a].status # "none",
           NEW s \in {"locked", "cancelled"}, actions' = [actions EXCEPT ![a].status = s],
           UNCHANGED <<rules, windowOpen, reading, decisions, approvals, proposals, changes>>
    PROVE  AuthInv' /\ WithinLimit
           /\ \A b \in Action : actions'[b] # actions[b] => b = a /\ actions'[b].status = s
<1> DEFINE new == [actions[a] EXCEPT !.status = s]
<1>1. actions[a] \in ActionRow /\ actions' = [actions EXCEPT ![a] = new]
  BY AuthRows
<1>2. /\ new \in ActionRow /\ new.status = s /\ new.decision = actions[a].decision
      /\ new.parameters = actions[a].parameters /\ new.key = actions[a].key
  BY <1>1 DEF ActionRow
<1> HIDE DEF new
<1>3. /\ actions' \in [Action -> ActionRow]
      /\ \A b \in Action : /\ actions'[b].decision = actions[b].decision
                           /\ actions'[b].parameters = actions[b].parameters
                           /\ actions'[b].key = actions[b].key
                           /\ actions'[b].status # "none" <=> actions[b].status # "none"
                           /\ b # a => actions'[b] = actions[b]
      /\ actions'[a].status = s
  BY <1>1, <1>2, AuthRows
<1>4. AuthTypeOK' /\ ReadingSound' /\ DecisionSound' /\ ApprovalSound' /\ ProposalSound'
  BY <1>3 DEF AuthInv, AuthTypeOK, ReadingSound, DecisionSound, ApprovalSound, ProposalSound
<1>5. ActionSound'
  <2>1. \A b \in Action : Created(b)' <=> Created(b)
    BY <1>3 DEF Created
  <2>2. \A e, q : Covered(e, q)' <=> Covered(e, q)
    BY DEF Covered
  <2> QED
    BY <1>3, <2>1, <2>2 DEF AuthInv, ActionSound
<1>6. AuthorizationIsUsedOnce'
  BY <1>3 DEF AuthInv, AuthorizationIsUsedOnce, Created
<1>7. ProposalFollowsApproval'
  BY <1>3 DEF AuthInv, ProposalFollowsApproval
<1>8. WithinLimit
  BY <1>3 DEF WithinLimit
<1> QED
  BY <1>3, <1>4, <1>5, <1>6, <1>7, <1>8 DEF AuthInv

\* A node's proposal joins the others under a decision that was just made.
LEMMA ProposalPut ==
    ASSUME AuthInv, NEW d \in Decision, ~decisions[d].made, NEW k \in NodeKey,
           NEW s \in {"denied", "awaiting_approval", "action_ready"}, NEW p \in Parameter,
           proposals' = [proposals EXCEPT ![k] = [status |-> s, decision |-> d,
                                                  parameters |-> p]],
           decisions'[d].made,
           \A e \in Decision : decisions[e].made => decisions'[e] = decisions[e],
           \A e \in Decision \ {d} : approvals'[e] = approvals[e], KeysStay,
           s = "awaiting_approval" => approvals'[d].status = "pending",
           s = "action_ready" =>
               \E a \in Action : actions'[a].key = k /\ actions'[a].decision = d
    PROVE  proposals' \in [NodeKey -> ProposalRow] /\ ProposalSound'
           /\ ProposalFollowsApproval'
<1> DEFINE new == [status |-> s, decision |-> d, parameters |-> p]
<1>1. new \in ProposalRow /\ new.status = s /\ new.decision = d
  BY DEF ProposalRow
<1>2. proposals' = [proposals EXCEPT ![k] = new]
  OBVIOUS
<1> HIDE DEF new
<1>3. /\ proposals' \in [NodeKey -> ProposalRow] /\ proposals'[k] = new
      /\ \A j \in NodeKey \ {k} : proposals'[j] = proposals[j]
  BY <1>1, <1>2, AuthRows
<1>4. ProposalSound'
  BY <1>1, <1>3 DEF AuthInv, ProposalSound
<1>5. ProposalFollowsApproval'
  <2> SUFFICES ASSUME NEW j \in NodeKey
               PROVE  LET q == proposals'[j] IN
                      /\ q.status = "awaiting_approval"
                           => approvals'[q.decision].status = "pending"
                      /\ q.status = "rejected"
                           => approvals'[q.decision].status \in {"rejected", "expired"}
                      /\ q.status = "action_ready" => \E a \in Action :
                            actions'[a].key = j /\ actions'[a].decision = q.decision
    BY DEF ProposalFollowsApproval
  <2>1. CASE j = k
    BY <1>1, <1>3, <2>1
  <2>2. CASE j # k
    <3> DEFINE q == proposals[j]
    <3>1. /\ q.status # "none" => q.decision \in Decision \ {d} /\ q.decision # 0
          /\ q.status = "awaiting_approval" => approvals[q.decision].status = "pending"
          /\ q.status = "rejected"
               => approvals[q.decision].status \in {"rejected", "expired"}
          /\ q.status = "action_ready" => \E a \in Action :
                actions[a].key = j /\ actions[a].decision = q.decision
      BY DEF AuthInv, ProposalSound, ProposalFollowsApproval, Decision
    <3>2. proposals'[j] = q
      BY <1>3, <2>2
    <3> HIDE DEF q
    <3> QED
      BY <3>1, <3>2 DEF KeysStay
  <2> QED
    BY <2>1, <2>2
<1> QED
  BY <1>3, <1>4, <1>5

LEMMA KeysStayIfUnchanged == UNCHANGED actions => KeysStay
BY DEF KeysStay

LEMMA EvaluateStep ==
    ASSUME AuthInv, NEW u \in User, Evaluate(u)
    PROVE  AuthInv' /\ UNCHANGED actions
<1>1. /\ SpareDecision /\ decisions' = Snapshot(u) /\ reading' = Finished(u) /\ u \in Reader
      /\ UNCHANGED <<rules, windowOpen, approvals, proposals, actions, changes>>
  BY DEF Evaluate, Reader
<1>2. /\ decisions' \in [Decision -> DecisionRow] /\ DecisionSound'
      /\ \A d \in Decision : decisions[d].made => decisions'[d] = decisions[d]
  BY <1>1, SnapshotKeeps
<1>3. reading' \in [Reader -> Reading] /\ ReadingSound'
  BY <1>1, FinishedForgets
<1>4. AuthTypeOK'
  BY <1>1, <1>2, <1>3, AuthRows DEF AuthTypeOK
<1>5. ApprovalSound' /\ ProposalSound'
  BY <1>1, <1>2 DEF AuthInv, ApprovalSound, ProposalSound
<1>6. ActionSound' /\ AuthorizationIsUsedOnce'
  BY <1>1, <1>2, NextDecisionIsNew, ActionsRest
<1>7. ProposalFollowsApproval'
  BY <1>1 DEF AuthInv, ProposalFollowsApproval
<1> QED
  BY <1>1, <1>2, <1>3, <1>4, <1>5, <1>6, <1>7 DEF AuthInv

LEMMA ProposeStep ==
    ASSUME AuthInv, NEW k \in NodeKey, Propose(k)
    PROVE  AuthInv' /\ Unrevoked /\ WithinLimit
<1> DEFINE g == reading[k]
           d == NextDecision
           v == VerdictOf(g)
           Put(s) == [proposals EXCEPT ![k] = [status |-> s, decision |-> d,
                                               parameters |-> g.parameters]]
<1>1. /\ SpareDecision /\ reading' = Finished(k) /\ k \in Reader
      /\ UNCHANGED <<rules, windowOpen, changes>>
  BY DEF Propose, Reader
<1>2. reading' \in [Reader -> Reading] /\ ReadingSound' /\ g.parameters \in Parameter
  BY <1>1, FinishedForgets, AuthRows DEF Reading
<1>3. d \in Decision /\ ~decisions[d].made
  BY <1>1, NextDecisionIsNew
<1>4. /\ approvals[d].status = "none" /\ \A a \in Action : actions[a].decision # d
  BY <1>3, NothingRefersToNew
<1>5. /\ Snapshot(k) \in [Decision -> DecisionRow] /\ Snapshot(k)[d].made
      /\ Snapshot(k)[d].verdict = v
  BY <1>1, SnapshotIsNew
<1>6. ASSUME decisions' = Snapshot(k)
      PROVE  /\ decisions' \in [Decision -> DecisionRow] /\ DecisionSound'
             /\ decisions'[d].made
             /\ \A e \in Decision : decisions[e].made => decisions'[e] = decisions[e]
  BY <1>1, <1>5, <1>6, SnapshotKeeps
<1> HIDE DEF d, v, g
<1>7. CASE /\ decisions' = Snapshot(k) /\ proposals' = Put("denied")
           /\ UNCHANGED <<approvals, actions>>
  <2>1. /\ proposals' \in [NodeKey -> ProposalRow] /\ ProposalSound'
        /\ ProposalFollowsApproval'
    BY <1>2, <1>3, <1>6, <1>7, KeysStayIfUnchanged, ProposalPut
  <2>2. ActionSound' /\ AuthorizationIsUsedOnce'
    BY <1>3, <1>6, <1>7, ActionsRest
  <2>3. ApprovalSound'
    BY <1>6, <1>7 DEF AuthInv, ApprovalSound
  <2>4. AuthTypeOK'
    BY <1>1, <1>2, <1>6, <1>7, <2>1, AuthRows DEF AuthTypeOK
  <2> QED
    BY <1>2, <1>6, <1>7, <2>1, <2>2, <2>3, <2>4, NothingCreated DEF AuthInv
<1>8. CASE /\ decisions' = Snapshot(k) /\ proposals' = Put("awaiting_approval")
           /\ approvals' = [approvals EXCEPT ![d] = Pending(System, g.parameters, FALSE)]
           /\ UNCHANGED actions
  <2> DEFINE app == Pending(System, g.parameters, FALSE)
  <2>1. app \in ApprovalRow /\ app.status = "pending"
    BY <1>2 DEF Pending, ApprovalRow
  <2> HIDE DEF app
  <2>2. /\ approvals' \in [Decision -> ApprovalRow] /\ approvals'[d] = app
        /\ \A e \in Decision \ {d} : approvals'[e] = approvals[e]
    BY <1>3, <1>8, <2>1, AuthRows DEF app
  <2>3. /\ proposals' \in [NodeKey -> ProposalRow] /\ ProposalSound'
        /\ ProposalFollowsApproval'
    BY <1>2, <1>3, <1>6, <1>8, <2>1, <2>2, KeysStayIfUnchanged, ProposalPut
  <2>4. ActionSound' /\ AuthorizationIsUsedOnce'
    <3>1. /\ d \in Decision /\ UNCHANGED actions
          /\ \A e \in Decision : decisions[e].made => decisions'[e] = decisions[e]
      BY <1>3, <1>6, <1>8
    <3>2. \A a \in Action : ~(Created(a) /\ actions[a].decision = d)
      BY <1>3, <1>4
    <3> QED
      BY <2>2, <3>1, <3>2, ActionsRest
  <2>5. ApprovalSound'
    BY <1>6, <1>8, <2>1, <2>2 DEF AuthInv, ApprovalSound
  <2>6. AuthTypeOK'
    BY <1>1, <1>2, <1>6, <1>8, <2>2, <2>3, AuthRows DEF AuthTypeOK
  <2> QED
    BY <1>2, <1>6, <1>8, <2>3, <2>4, <2>5, <2>6, NothingCreated DEF AuthInv
<1>9. CASE /\ SpareAction /\ MayCreate(d, Snapshot(k), approvals, g.parameters, k)
           /\ decisions' = Snapshot(k) /\ proposals' = Put("action_ready")
           /\ actions' = Inserted(d, g.parameters, k) /\ UNCHANGED approvals
  <2>1. /\ actions' \in [Action -> ActionRow] /\ ActionSound' /\ AuthorizationIsUsedOnce'
        /\ KeysStay /\ \E a \in Action : actions'[a].key = k /\ actions'[a].decision = d
        /\ Unrevoked /\ WithinLimit
    BY <1>2, <1>3, <1>5, <1>6, <1>9, ActionInserted
  <2>2. /\ proposals' \in [NodeKey -> ProposalRow] /\ ProposalSound'
        /\ ProposalFollowsApproval'
    BY <1>2, <1>3, <1>6, <1>9, <2>1, ProposalPut
  <2>3. ApprovalSound'
    BY <1>6, <1>9 DEF AuthInv, ApprovalSound
  <2>4. AuthTypeOK'
    BY <1>1, <1>2, <1>6, <1>9, <2>1, <2>2, AuthRows DEF AuthTypeOK
  <2> QED
    BY <1>2, <1>6, <1>9, <2>1, <2>2, <2>3, <2>4 DEF AuthInv
<1>10. CASE UNCHANGED <<decisions, proposals, approvals, actions>>
  BY <1>1, <1>2, <1>10, AuthRows, RulesMove, NothingCreated
<1> QED
  BY <1>7, <1>8, <1>9, <1>10 DEF Propose, d, v, g

LEMMA ApproveStep ==
    ASSUME AuthInv, NEW u \in User, NEW d \in Decision, NEW p \in Parameter, Approve(u, d, p)
    PROVE  AuthInv' /\ Unrevoked /\ WithinLimit
<1> DEFINE app == [approvals[d] EXCEPT !.status = "approved", !.decidedBy = u,
                                       !.parameters = p]
<1>1. /\ MayDecide(u, d, p) /\ approvals' = Approved(u, d, p)
      /\ UNCHANGED <<rules, windowOpen, reading, decisions, changes>>
  BY DEF Approve
<1>2. approvals[d] \in ApprovalRow /\ approvals[d].status = "pending"
      /\ approvals[d].requestedBy # u
  BY <1>1, AuthRows DEF MayDecide
<1>3. Approved(u, d, p) = [approvals EXCEPT ![d] = app]
  BY DEF Approved
<1>4. /\ app \in ApprovalRow /\ app.status = "approved" /\ app.decidedBy = u
      /\ app.requestedBy = approvals[d].requestedBy
  BY <1>2 DEF ApprovalRow
<1> HIDE DEF app
<1>5. /\ decisions[d].made /\ app.decidedBy \notin {app.requestedBy, Nobody}
      /\ changes' \in 0..MaxChanges
  BY <1>1, <1>2, <1>4, AuthRows DEF AuthInv, ApprovalSound
<1>6. \A e \in Decision \ {d} : Approved(u, d, p)[e] = approvals[e]
  BY <1>3, AuthRows
<1>7. CASE ProposalOf(d) = {} /\ UNCHANGED <<proposals, actions>>
  <2>1. ProposalFollowsApproval'
    BY <1>1, <1>2, <1>6, <1>7, ProposalsFollow
  <2>2. ProposalSound' /\ proposals' \in [NodeKey -> ProposalRow]
    BY <1>1, <1>7, AuthRows DEF AuthInv, ProposalSound
  <2>3. AuthInv'
    BY <1>1, <1>2, <1>3, <1>4, <1>5, <1>7, <2>1, <2>2, ApprovalMoves
  <2> QED
    BY <1>7, <2>3, NothingCreated
<1>8. ASSUME NEW k \in ProposalOf(d), SpareAction,
             MayCreate(d, decisions, Approved(u, d, p), p, k),
             actions' = Inserted(d, p, k), proposals' = Resolved(d, "action_ready")
      PROVE  AuthInv' /\ Unrevoked /\ WithinLimit
  <2>1. k \in NodeKey /\ DecisionSound' /\ decisions \in [Decision -> DecisionRow]
    BY <1>1, AuthRows DEF ProposalOf, AuthInv, DecisionSound
  <2>2. /\ actions' \in [Action -> ActionRow] /\ ActionSound' /\ AuthorizationIsUsedOnce'
        /\ KeysStay /\ \E a \in Action : actions'[a].key = k /\ actions'[a].decision = d
        /\ Unrevoked /\ WithinLimit
    BY <1>1, <1>5, <1>6, <1>8, <2>1, ActionInserted
  <2>3. ProposalOf(d) = {k}
    BY <1>8 DEF AuthInv, ProposalSound, ProposalOf
  <2>4. /\ proposals' \in [NodeKey -> ProposalRow] /\ ProposalSound'
        /\ ProposalFollowsApproval'
    BY <1>1, <1>2, <1>6, <1>8, <2>2, <2>3, ResolvedSettles, ResolvedIsSound, ProposalsFollow
  <2>5. AuthInv'
    BY <1>1, <1>2, <1>3, <1>4, <1>5, <2>2, <2>4, ApprovalMoves
  <2> QED
    BY <2>2, <2>5
<1> QED
  BY <1>1, <1>7, <1>8 DEF Approve

LEMMA ActionSteps ==
    ASSUME AuthInv,
           \/ \E u \in User, d \in Decision, p \in Parameter : CreateAction(u, d, p)
           \/ \E a \in Action : CancelAction(a) \/ AcquireLock(a)
    PROVE  AuthInv' /\ Unrevoked /\ WithinLimit
<1>1. ASSUME NEW u \in User, NEW d \in Decision, NEW p \in Parameter, CreateAction(u, d, p)
      PROVE  AuthInv' /\ Unrevoked /\ WithinLimit
  <2>1. /\ SpareAction /\ MayCreate(d, decisions, approvals, p, u) /\ decisions[d].made
        /\ actions' = Inserted(d, p, u) /\ decisions \in [Decision -> DecisionRow]
        /\ UNCHANGED <<rules, windowOpen, reading, decisions, approvals, proposals, changes>>
    BY <1>1, AuthRows DEF CreateAction
  <2>2. ReadingSound' /\ DecisionSound' /\ ApprovalSound' /\ ProposalSound'
    BY <2>1 DEF AuthInv, ReadingSound, DecisionSound, ApprovalSound, ProposalSound
  <2>3. /\ actions' \in [Action -> ActionRow] /\ ActionSound' /\ AuthorizationIsUsedOnce'
        /\ KeysStay /\ Unrevoked /\ WithinLimit
    BY <2>1, <2>2, ActionInserted
  <2>4. ProposalFollowsApproval'
    <3>1. \A k \in NodeKey : proposals[k].status = "action_ready" => proposals[k].decision # 0
      BY DEF AuthInv, ProposalSound, Decision
    <3> QED
      BY <2>1, <2>3, <3>1 DEF AuthInv, ProposalFollowsApproval, KeysStay
  <2>5. AuthTypeOK'
    BY <2>1, <2>3, AuthRows DEF AuthTypeOK
  <2> QED
    BY <2>2, <2>3, <2>4, <2>5 DEF AuthInv
<1>2. ASSUME NEW a \in Action, CancelAction(a)
      PROVE  AuthInv' /\ Unrevoked /\ WithinLimit
  <2>0. /\ actions[a].status # "none" /\ actions' = [actions EXCEPT ![a].status = "cancelled"]
        /\ UNCHANGED <<rules, windowOpen, reading, decisions, approvals, proposals, changes>>
    BY <1>2 DEF CancelAction
  <2>1. /\ AuthInv' /\ WithinLimit
        /\ \A b \in Action : actions'[b] # actions[b] => actions'[b].status = "cancelled"
    BY <2>0, StatusMoves
  <2> QED
    BY <2>1 DEF Unrevoked
<1>3. ASSUME NEW a \in Action, AcquireLock(a)
      PROVE  AuthInv' /\ Unrevoked /\ WithinLimit
  <2> DEFINE r == FirstMatch(decisions[actions[a].decision].capability)
  <2>1. /\ AuthInv' /\ WithinLimit
        /\ \A b \in Action : actions'[b] # actions[b]
             => b = a /\ actions'[b].status = "locked"
    BY <1>3, StatusMoves DEF AcquireLock
  <2>2. RevalidateSnapshot(actions[a].decision).allowed
    BY <1>3 DEF AcquireLock, StillAuthorized
  <2>3. r # NoRule /\ Decide(r, rules[r], windowOpen, 0).allowed
    BY <2>2, DenyIsAVerdict DEF RevalidateSnapshot
  <2>4. r \in Rule /\ rules[r].version > 0 /\ rules[r].content.enabled
    BY <2>3, AuthRows, FirstMatchIsARule
  <2>5. rules[r] \in RuleRow /\ windowOpen \in BOOLEAN
    BY <2>4, AuthRows
  <2> HIDE DEF r
  <2>6. rules[r].content.allow /\ InsideWindow(rules[r].content, windowOpen)
    BY <2>3, <2>4, <2>5, DecideIsAVerdict
  <2>7. r \in Allowing
    BY <2>4, <2>6 DEF Allowing
  <2> QED
    BY <2>1, <2>7 DEF Unrevoked, r
<1> QED
  BY <1>1, <1>2, <1>3

LEMMA AuthStep ==
    ASSUME AuthInv, [AuthNext]_authVars
    PROVE  AuthInv' /\ Unrevoked /\ WithinLimit
<1>1. CASE UNCHANGED authVars
  <2>1. UNCHANGED actions
    BY <1>1 DEF authVars
  <2>2. ReadingSound'
    BY <1>1 DEF authVars, AuthInv, ReadingSound
  <2>3. AuthInv'
    BY <1>1, <2>2, AuthRows, RulesMove DEF authVars
  <2> QED
    BY <2>1, <2>3, NothingCreated
<1>2. CASE AuthNext
  BY <1>2, RuleSteps, ReadStep, EvaluateStep, ProposeStep, AskingSteps, RefusalSteps,
     ApproveStep, ActionSteps, NothingCreated DEF AuthNext
<1> QED
  BY <1>1, <1>2

LEMMA AuthStart == AuthInit => AuthInv
<1> SUFFICES ASSUME AuthInit PROVE AuthInv
  OBVIOUS
<1> DEFINE c0 == CHOOSE c \in Contents : TRUE
           k0 == CHOOSE c \in Capability : TRUE
           p0 == CHOOSE p \in Parameter : TRUE
           rule == [content |-> c0, version |-> 0]
           read == [active |-> FALSE, capability |-> k0, parameters |-> p0, rule |-> NoRule,
                    row |-> rule, open |-> TRUE]
           decision == [made |-> FALSE, capability |-> k0, verdict |-> DefaultDeny]
           approval == [status |-> "none", requestedBy |-> Nobody, decidedBy |-> Nobody,
                        parameters |-> p0, editable |-> FALSE, lapsed |-> FALSE]
           proposal == [status |-> "none", decision |-> 0, parameters |-> p0]
           action == [status |-> "none", decision |-> 0, parameters |-> p0, key |-> Nobody]
<1>1. c0 \in Contents /\ k0 \in Capability /\ p0 \in Parameter
  BY Zenon
<1>2. /\ rules = [r \in Rule |-> rule] /\ reading = [u \in Reader |-> read]
      /\ decisions = [d \in Decision |-> decision]
      /\ approvals = [d \in Decision |-> approval]
      /\ proposals = [k \in NodeKey |-> proposal] /\ actions = [a \in Action |-> action]
      /\ windowOpen = TRUE /\ changes = 0
  BY Zenon DEF AuthInit
<1> HIDE DEF c0, k0, p0
<1>3. rule \in RuleRow
  BY <1>1 DEF RuleRow
<1> HIDE DEF rule
<1>4. read \in Reading /\ read.rule = NoRule
  BY <1>1, <1>3 DEF Reading
<1>5. decision \in DecisionRow /\ decision.verdict.rule = NoRule
  BY <1>1, DenyIsAVerdict DEF DecisionRow
<1>6. approval \in ApprovalRow /\ approval.status = "none"
  BY <1>1 DEF ApprovalRow
<1>7. proposal \in ProposalRow /\ proposal.status = "none"
  BY <1>1 DEF ProposalRow
<1>8. action \in ActionRow /\ action.status = "none" /\ action.decision = 0
  BY <1>1 DEF ActionRow
<1> HIDE DEF read, decision, approval, proposal, action
<1>9. AuthTypeOK
  BY <1>2, <1>3, <1>4, <1>5, <1>6, <1>7, <1>8 DEF AuthTypeOK
<1>10. ReadingSound /\ DecisionSound /\ ApprovalSound
  BY <1>2, <1>4, <1>5, <1>6 DEF ReadingSound, DecisionSound, ApprovalSound
<1>11. ActionSound /\ ProposalSound /\ AuthorizationIsUsedOnce /\ ProposalFollowsApproval
  BY <1>2, <1>7, <1>8
  DEF ActionSound, ProposalSound, AuthorizationIsUsedOnce, ProposalFollowsApproval, Created
<1> QED
  BY <1>9, <1>10, <1>11 DEF AuthInv

\* Nothing is changed without the consent that is needed: a decision authorises one action,
\* with the parameters that somebody other than the requester approved; a proposal follows
\* its approval; what was revoked stops creation and lock; and the executions of a rule stay
\* within its limit.  For any rules, people, proposals and order of requests.
THEOREM ActionsAreAuthorized == AuthSpec => ActionsStayAuthorized
<1>1. AuthInv /\ [AuthNext]_authVars => AuthInv'
  BY AuthStep
<1>2. AuthInv /\ [AuthNext]_authVars => [
    \A a \in Action : actions'[a] # actions[a] =>
        \/ actions'[a].status = "cancelled"
        \/ /\ actions'[a].status = "ready"
           /\ decisions'[actions'[a].decision].verdict.rule \in Allowing
        \/ /\ actions'[a].status = "locked"
           /\ FirstMatch(decisions[actions[a].decision].capability) \in Allowing]_authVars
  BY AuthStep DEF Unrevoked
<1>3. AuthInv /\ [AuthNext]_authVars => [
    \A a \in Action, r \in Rule :
        /\ actions[a].status = "none" /\ actions'[a].status = "ready"
        /\ decisions'[actions'[a].decision].verdict.rule = r
        => /\ decisions'[actions'[a].decision].verdict.version = rules[r].version
           /\ rules[r].content.limit # NoLimit
                => Consumed(r)' <= rules[r].content.limit]_authVars
  BY AuthStep DEF WithinLimit
<1> QED
  BY <1>1, <1>2, <1>3, AuthStart, AuthInvSuffices, PTL
  DEF AuthSpec, ActionsStayAuthorized, RevocationStops, CreatedWithinLimit

HIDE AuthorizationConstants

-----------------------------------------------------------------------------
(* Compensation.                                                           *)
(* The rows of an action tell one of few chapters, and an action that is   *)
(* not settled holds the lock; therefore only one is.                      *)

USE CompensationConstants

ActStatus == {"ready", "verification_failed", "compensating", "compensated", "escalated"}

Unsettled == {"verification_failed", "compensating", "escalated"}

Final == {"succeeded", "failed", "unknown"}

\* What an action, its request and its execution can say together.
Chapter(status, req, exe) ==
    /\ exe.lease # "none" => exe.status = "running"
    /\ exe.status # "none" \/ req.status = "approved" => req.decidedBy \notin {NoOne, req.by}
    /\ \/ /\ req.status = "none" /\ exe.status = "none"
          /\ status \in {"ready", "verification_failed"}
       \/ /\ req.status \in {"pending", "approved", "rejected"} /\ exe.status = "none"
          /\ status = "verification_failed"
       \/ /\ req.status \in {"dispatching", "running", "unknown"}
          /\ exe.status = req.status /\ status = "compensating"
       \/ req.status = "succeeded" /\ exe.status = "succeeded" /\ status = "compensated"
       \/ /\ req.status = "escalated" /\ exe.status \in {"none", "failed", "unknown"}
          /\ status = "escalated"

Holds(l, a) == l.owner = a /\ l.frozen /\ ~l.released

StoryOf(a) ==
    Chapter(act[a], request[a], execution[a]) /\ (act[a] \in Unsettled => Holds(lock, a))

CompInv == CompTypeOK /\ \A a \in Target : StoryOf(a)

OutcomesStay ==
    \A a \in Target : execution[a].status \in Final => execution'[a] = execution[a]

LEMMA CompInvSuffices ==
    CompInv => CompTypeOK /\ FrozenUntilCompensated /\ OneStory /\ CompensationFourEyes
<1> SUFFICES ASSUME CompInv PROVE FrozenUntilCompensated /\ OneStory /\ CompensationFourEyes
  BY DEF CompInv
<1>1. ASSUME NEW a \in Target
      PROVE  /\ act[a] \in Unsettled => Holds(lock, a)
             /\ execution[a].status \in {"dispatching", "running"}
                  => request[a].status = execution[a].status /\ act[a] = "compensating"
             /\ act[a] = "compensated" <=> execution[a].status = "succeeded"
             /\ execution[a].status # "none"
                  => request[a].decidedBy \notin {NoOne, request[a].by}
  BY DEF CompInv, StoryOf, Chapter
<1> QED
  BY <1>1
  DEF FrozenUntilCompensated, OneStory, CompensationFourEyes, Unsettled, Holds

\* One action goes on, and the lock stays as it is or is the action's.
LEMMA StoryGoesOn ==
    ASSUME CompInv, NEW a \in Target, NEW status \in ActStatus, NEW req \in RequestRow,
           NEW exe \in ExecutionRow,
           act' = [act EXCEPT ![a] = status], request' = [request EXCEPT ![a] = req],
           execution' = [execution EXCEPT ![a] = exe],
           Chapter(status, req, exe), status \in Unsettled => Holds(lock', a),
           lock' \in LockRow, \/ lock' = lock
                              \/ \A b \in Target \ {a} : act[b] \notin Unsettled,
           execution[a].status \in Final => exe = execution[a],
           allowed' \in BOOLEAN, online' \subseteq Executor,
           claimed' \subseteq Target \X Executor, events' \in 0..MaxEvents
    PROVE  CompInv' /\ OutcomesStay
<1>1. /\ act' \in [Target -> ActStatus] /\ request' \in [Target -> RequestRow]
      /\ execution' \in [Target -> ExecutionRow]
      /\ act'[a] = status /\ request'[a] = req /\ execution'[a] = exe
      /\ \A b \in Target \ {a} : /\ act'[b] = act[b] /\ request'[b] = request[b]
                                 /\ execution'[b] = execution[b]
  BY DEF CompInv, CompTypeOK, ActStatus
<1>2. CompTypeOK'
  BY <1>1 DEF CompTypeOK, ActStatus
<1>3. StoryOf(a)' /\ \A b \in Target \ {a} : StoryOf(b)'
  BY <1>1 DEF CompInv, StoryOf
<1>4. OutcomesStay
  BY <1>1 DEF OutcomesStay
<1> QED
  BY <1>2, <1>3, <1>4 DEF CompInv

\* An action that holds the lock is the only one that is not settled.
LEMMA OneIsUnsettled ==
    ASSUME CompInv, NEW a \in Target, lock.owner = a \/ lock.released
    PROVE  \A b \in Target \ {a} : act[b] \notin Unsettled
BY DEF CompInv, StoryOf, Holds

LEMMA Rows ==
    ASSUME CompInv, NEW a \in Target
    PROVE  /\ act[a] \in ActStatus /\ request[a] \in RequestRow
           /\ execution[a] \in ExecutionRow /\ lock \in LockRow /\ allowed \in BOOLEAN
           /\ online \subseteq Executor /\ claimed \subseteq Target \X Executor
           /\ events \in 0..MaxEvents
           /\ Chapter(act[a], request[a], execution[a])
           /\ act = [act EXCEPT ![a] = act[a]]
           /\ request = [request EXCEPT ![a] = request[a]]
           /\ execution = [execution EXCEPT ![a] = execution[a]]
BY DEF CompInv, CompTypeOK, ActStatus, StoryOf

LEMMA FailStep ==
    ASSUME CompInv, NEW a \in Target, FailVerification(a)
    PROVE  CompInv' /\ OutcomesStay
<1> DEFINE l == [owner |-> a, token |-> lock.token + 1, frozen |-> TRUE, released |-> FALSE]
<1>1. /\ act' = [act EXCEPT ![a] = "verification_failed"] /\ act[a] = "ready"
      /\ lock' = l /\ lock.released
      /\ UNCHANGED <<request, execution, allowed, online, claimed, events>>
  BY DEF FailVerification
<1>2. l \in LockRow /\ Holds(l, a)
  <2>1. lock.token + 1 \in Nat
    BY Rows DEF LockRow
  <2> QED
    BY <2>1 DEF LockRow, Holds
<1> HIDE DEF l
<1>3. \A b \in Target \ {a} : act[b] \notin Unsettled
  BY <1>1, OneIsUnsettled
<1>4. Chapter("verification_failed", request[a], execution[a])
  BY <1>1, Rows DEF Chapter
<1>5. request' = [request EXCEPT ![a] = request[a]]
      /\ execution' = [execution EXCEPT ![a] = execution[a]]
      /\ "verification_failed" \in ActStatus
  BY <1>1, Rows DEF ActStatus
<1>6. /\ request[a] \in RequestRow /\ execution[a] \in ExecutionRow
      /\ allowed' \in BOOLEAN /\ online' \subseteq Executor
      /\ claimed' \subseteq Target \X Executor /\ events' \in 0..MaxEvents
      /\ lock' \in LockRow /\ Holds(lock', a)
  BY <1>1, <1>2, Rows
<1> DEFINE req == request[a]
           exe == execution[a]
<1>7. /\ act' = [act EXCEPT ![a] = "verification_failed"]
      /\ request' = [request EXCEPT ![a] = req] /\ execution' = [execution EXCEPT ![a] = exe]
      /\ req \in RequestRow /\ exe \in ExecutionRow
      /\ Chapter("verification_failed", req, exe) /\ exe = execution[a]
  BY <1>1, <1>4, <1>5, <1>6
<1> HIDE DEF req, exe
<1> QED
  BY <1>3, <1>5, <1>6, <1>7, StoryGoesOn

\* What changes only the request of an action.
LEMMA RequestGoesOn ==
    ASSUME CompInv, NEW a \in Target, NEW req \in RequestRow,
           request' = [request EXCEPT ![a] = req], Chapter(act[a], req, execution[a]),
           UNCHANGED <<act, lock, execution, allowed, online, claimed>>,
           events' \in 0..MaxEvents
    PROVE  CompInv' /\ OutcomesStay
<1>1. /\ act' = [act EXCEPT ![a] = act[a]]
      /\ execution' = [execution EXCEPT ![a] = execution[a]]
  BY Rows
<1>2. act[a] \in Unsettled => Holds(lock', a)
  BY DEF CompInv, StoryOf
<1>3. /\ act[a] \in ActStatus /\ execution[a] \in ExecutionRow /\ lock' \in LockRow
      /\ allowed' \in BOOLEAN /\ online' \subseteq Executor
      /\ claimed' \subseteq Target \X Executor
  BY Rows
<1> QED
  BY <1>1, <1>2, <1>3, StoryGoesOn

LEMMA PeopleStep ==
    ASSUME CompInv, NEW a \in Target, NEW p \in Person,
           \/ RequestCompensation(a, p)
           \/ \E y \in BOOLEAN : DecideCompensation(a, p, y)
    PROVE  CompInv' /\ OutcomesStay
<1> DEFINE old == request[a]
<1>0. old \in RequestRow /\ Chapter(act[a], old, execution[a]) /\ events \in 0..MaxEvents
  BY Rows
<1>1. CASE RequestCompensation(a, p)
  <2> DEFINE req == [old EXCEPT !.status = "pending", !.by = p]
  <2>1. /\ request' = [request EXCEPT ![a] = req] /\ act[a] = "verification_failed"
        /\ old.status = "none"
        /\ UNCHANGED <<act, lock, execution, allowed, online, claimed, events>>
    BY <1>1 DEF RequestCompensation
  <2>2. req \in RequestRow /\ req.status = "pending"
    BY <1>0 DEF RequestRow, RequestStatus
  <2> HIDE DEF req
  <2>3. Chapter(act[a], req, execution[a])
    BY <1>0, <2>1, <2>2 DEF Chapter
  <2> QED
    BY <1>0, <2>1, <2>2, <2>3, RequestGoesOn
<1>2. ASSUME NEW status \in {"approved", "rejected"}, old.status = "pending",
             status = "approved" => old.by # p,
             request' = [request EXCEPT ![a].status = status, ![a].decidedBy = p],
             UNCHANGED <<act, lock, execution, allowed, online, claimed, events>>
      PROVE  CompInv' /\ OutcomesStay
  <2> DEFINE req == [old EXCEPT !.status = status, !.decidedBy = p]
  <2>1. request' = [request EXCEPT ![a] = req]
    BY <1>2
  <2>2. req \in RequestRow /\ req.status = status /\ req.decidedBy = p /\ req.by = old.by
    BY <1>0 DEF RequestRow, RequestStatus
  <2> HIDE DEF req
  <2>3. Chapter(act[a], req, execution[a])
    BY <1>0, <1>2, <2>2 DEF Chapter
  <2> QED
    BY <1>0, <1>2, <2>1, <2>2, <2>3, RequestGoesOn
<1> QED
  BY <1>1, <1>2 DEF DecideCompensation, MayApprove

LEMMA LapseStep ==
    ASSUME CompInv, NEW a \in Target, RequestLapses(a)
    PROVE  CompInv' /\ OutcomesStay
<1> DEFINE old == request[a]
           req == [old EXCEPT !.lapsed = TRUE]
<1>1. old \in RequestRow /\ Chapter(act[a], old, execution[a]) /\ events \in 0..MaxEvents
  BY Rows
<1>2. /\ request' = [request EXCEPT ![a] = req] /\ events' \in 0..MaxEvents
      /\ UNCHANGED <<act, lock, execution, allowed, online, claimed>>
  BY <1>1 DEF RequestLapses, Event
<1>3. /\ req \in RequestRow /\ req.status = old.status /\ req.decidedBy = old.decidedBy
      /\ req.by = old.by
  BY <1>1 DEF RequestRow
<1> HIDE DEF req
<1>4. Chapter(act[a], req, execution[a])
  BY <1>1, <1>3 DEF Chapter
<1> QED
  BY <1>2, <1>3, <1>4, RequestGoesOn

LEMMA EscalateStep ==
    ASSUME CompInv, NEW a \in Target, Escalate(a)
    PROVE  CompInv' /\ OutcomesStay
<1> DEFINE old == request[a]
           req == [old EXCEPT !.status = "escalated"]
<1>1. old \in RequestRow /\ Chapter(act[a], old, execution[a])
  BY Rows
<1>2. /\ request' = [request EXCEPT ![a] = req] /\ act' = [act EXCEPT ![a] = "escalated"]
      /\ old.status \in {"approved", "rejected", "unknown"}
      /\ UNCHANGED <<lock, execution, allowed, online, claimed, events>>
  BY DEF Escalate, MayEscalate
<1>3. /\ req \in RequestRow /\ req.status = "escalated" /\ req.decidedBy = old.decidedBy
      /\ req.by = old.by
  BY <1>1 DEF RequestRow, RequestStatus
<1> HIDE DEF req
<1>4. Chapter("escalated", req, execution[a])
  BY <1>1, <1>2, <1>3 DEF Chapter
<1>5. Holds(lock', a)
  BY <1>1, <1>2 DEF CompInv, StoryOf, Chapter, Unsettled, Holds
<1>6. execution' = [execution EXCEPT ![a] = execution[a]] /\ "escalated" \in ActStatus
  BY <1>2, Rows DEF ActStatus
<1> QED
  BY <1>2, <1>3, <1>4, <1>5, <1>6, Rows, StoryGoesOn

LEMMA DispatchStep ==
    ASSUME CompInv, NEW a \in Target, NEW x \in Executor, Dispatch(a, x)
    PROVE  CompInv' /\ OutcomesStay
<1> DEFINE old == request[a]
           was == execution[a]
           req == [old EXCEPT !.status = "dispatching"]
           exe == [was EXCEPT !.status = "dispatching", !.runner = x, !.token = lock.token]
<1>1. /\ old \in RequestRow /\ was \in ExecutionRow /\ Chapter(act[a], old, was)
      /\ lock \in LockRow
  BY Rows
<1>2. /\ request' = [request EXCEPT ![a] = req] /\ execution' = [execution EXCEPT ![a] = exe]
      /\ act' = [act EXCEPT ![a] = "compensating"] /\ lock.owner = a /\ Holds(lock, a)
      /\ old.status = "approved" /\ was.status = "none"
      /\ UNCHANGED <<lock, allowed, online, claimed, events>>
  BY DEF Dispatch, Holds
<1>3. /\ req \in RequestRow /\ req.status = "dispatching" /\ req.decidedBy = old.decidedBy
      /\ req.by = old.by
  BY <1>1 DEF RequestRow, RequestStatus
<1>4. /\ exe \in ExecutionRow /\ exe.status = "dispatching" /\ exe.lease = was.lease
  <2>1. lock.token \in Nat
    BY <1>1 DEF LockRow
  <2> QED
    BY <1>1, <2>1 DEF ExecutionRow, ExecutionStatus
<1> HIDE DEF req, exe
<1>5. Chapter("compensating", req, exe)
  BY <1>1, <1>2, <1>3, <1>4 DEF Chapter
<1>6. "compensating" \in ActStatus /\ was.status \notin Final
  BY <1>2 DEF ActStatus, Final
<1>7. Holds(lock', a) /\ lock' = lock
  BY <1>2
<1> QED
  BY <1>2, <1>3, <1>4, <1>5, <1>6, <1>7, Rows, StoryGoesOn

LEMMA ClaimStep ==
    ASSUME CompInv, NEW a \in Target, NEW x \in Executor, ClaimCompensation(a, x)
    PROVE  CompInv' /\ OutcomesStay
<1> DEFINE old == request[a]
           was == execution[a]
           req == [old EXCEPT !.status = "running"]
           exe == [was EXCEPT !.status = "running", !.lease = "live"]
<1>1. old \in RequestRow /\ was \in ExecutionRow /\ Chapter(act[a], old, was)
  BY Rows
<1>2. /\ request' = [request EXCEPT ![a] = req] /\ execution' = [execution EXCEPT ![a] = exe]
      /\ was.status = "dispatching" /\ UNCHANGED <<act, lock, allowed, online, events>>
  BY DEF ClaimCompensation
<1>3. claimed' \subseteq Target \X Executor
  BY Rows DEF ClaimCompensation
<1>4. /\ req \in RequestRow /\ req.status = "running" /\ req.decidedBy = old.decidedBy
      /\ req.by = old.by
  BY <1>1 DEF RequestRow, RequestStatus
<1>5. exe \in ExecutionRow /\ exe.status = "running"
  BY <1>1 DEF ExecutionRow, ExecutionStatus
<1> HIDE DEF req, exe
<1>6. act[a] = "compensating" /\ Holds(lock, a)
  BY <1>1, <1>2 DEF CompInv, StoryOf, Chapter, Unsettled
<1>7. Chapter(act[a], req, exe)
  BY <1>1, <1>2, <1>4, <1>5, <1>6 DEF Chapter
<1>8. /\ act' = [act EXCEPT ![a] = act[a]] /\ was.status \notin Final /\ Holds(lock', a)
      /\ act[a] \in ActStatus
  BY <1>2, <1>6, Rows DEF Final
<1> QED
  BY <1>2, <1>3, <1>4, <1>5, <1>7, <1>8, Rows, StoryGoesOn

LEMMA LeaseStep ==
    ASSUME CompInv, NEW a \in Target, LeaseEnds(a)
    PROVE  CompInv' /\ OutcomesStay
<1> DEFINE was == execution[a]
           exe == [was EXCEPT !.lease = "expired"]
<1>1. was \in ExecutionRow /\ Chapter(act[a], request[a], was) /\ events \in 0..MaxEvents
  BY Rows
<1>2. /\ execution' = [execution EXCEPT ![a] = exe] /\ was.lease = "live"
      /\ events' \in 0..MaxEvents
      /\ UNCHANGED <<act, lock, request, allowed, online, claimed>>
  BY <1>1 DEF LeaseEnds, Event
<1>3. exe \in ExecutionRow /\ exe.status = was.status
  BY <1>1 DEF ExecutionRow
<1> HIDE DEF exe
<1>4. was.status = "running" /\ Chapter(act[a], request[a], exe)
  BY <1>1, <1>2, <1>3 DEF Chapter
<1>5. act[a] \in Unsettled => Holds(lock', a)
  BY <1>2 DEF CompInv, StoryOf
<1>6. /\ act' = [act EXCEPT ![a] = act[a]] /\ request' = [request EXCEPT ![a] = request[a]]
      /\ was.status \notin Final
  BY <1>2, <1>4, Rows DEF Final
<1> QED
  BY <1>2, <1>3, <1>4, <1>5, <1>6, Rows, StoryGoesOn

LEMMA CompleteStep ==
    ASSUME CompInv, NEW a \in Target, NEW x \in Executor, NEW c \in Completion,
           NEW good \in BOOLEAN, Complete(a, x, c, good)
    PROVE  CompInv' /\ OutcomesStay
<1> DEFINE old == request[a]
           was == execution[a]
           done == IF good THEN "succeeded" ELSE "failed"
           exe == [was EXCEPT !.status = done, !.completion = c, !.lease = "none"]
<1>1. /\ old \in RequestRow /\ was \in ExecutionRow /\ Chapter(act[a], old, was)
      /\ lock \in LockRow
  BY Rows
<1>2. /\ execution' = [execution EXCEPT ![a] = exe] /\ was.status = "running"
      /\ lock.owner = a /\ Settle(a, good) /\ UNCHANGED <<allowed, online, claimed, events>>
  BY DEF Complete, Owned
<1>3. done \in ExecutionStatus /\ (done = "succeeded" <=> good) /\ (done = "failed" <=> ~good)
  BY DEF ExecutionStatus
<1> HIDE DEF done
<1>4. /\ exe \in ExecutionRow /\ exe.status = done /\ exe.lease = "none"
  BY <1>1, <1>3 DEF ExecutionRow
<1> HIDE DEF exe
<1>5. \A b \in Target \ {a} : act[b] \notin Unsettled
  BY <1>2, OneIsUnsettled
<1>6. /\ act[a] = "compensating" /\ Holds(lock, a) /\ was.status \notin Final
      /\ old.decidedBy \notin {NoOne, old.by}
  BY <1>1, <1>2 DEF CompInv, StoryOf, Chapter, Unsettled, Final
<1>7. CASE good
  <2> DEFINE req == [old EXCEPT !.status = "succeeded"]
             l == [lock EXCEPT !.frozen = FALSE, !.released = TRUE]
  <2>1. /\ lock' = l /\ act' = [act EXCEPT ![a] = "compensated"]
        /\ request' = [request EXCEPT ![a] = req]
    BY <1>2, <1>7 DEF Settle
  <2>2. l \in LockRow
    BY <1>1 DEF LockRow
  <2>3. /\ req \in RequestRow /\ req.status = "succeeded" /\ req.decidedBy = old.decidedBy
        /\ req.by = old.by
    BY <1>1 DEF RequestRow, RequestStatus
  <2> HIDE DEF req, l
  <2>4. Chapter("compensated", req, exe)
    BY <1>3, <1>4, <1>6, <1>7, <2>3 DEF Chapter
  <2>5. "compensated" \in ActStatus /\ "compensated" \notin Unsettled
    BY DEF ActStatus, Unsettled
  <2> QED
    BY <1>2, <1>4, <1>5, <1>6, <2>1, <2>2, <2>3, <2>4, <2>5, Rows, StoryGoesOn
<1>8. CASE ~good
  <2> DEFINE req == [old EXCEPT !.status = "escalated"]
             l == [lock EXCEPT !.frozen = TRUE]
  <2>1. /\ lock' = l /\ act' = [act EXCEPT ![a] = "escalated"]
        /\ request' = [request EXCEPT ![a] = req]
    BY <1>2, <1>8 DEF Settle
  <2>2. l \in LockRow /\ l.owner = lock.owner
    BY <1>1 DEF LockRow
  <2>3. /\ req \in RequestRow /\ req.status = "escalated" /\ req.decidedBy = old.decidedBy
        /\ req.by = old.by
    BY <1>1 DEF RequestRow, RequestStatus
  <2>6. Holds(l, a)
    BY <1>1, <1>6 DEF LockRow, Holds
  <2> HIDE DEF req, l
  <2>4. Chapter("escalated", req, exe)
    BY <1>3, <1>4, <1>6, <1>8, <2>3 DEF Chapter
  <2>5. "escalated" \in ActStatus
    BY DEF ActStatus
  <2> QED
    BY <1>2, <1>4, <1>5, <1>6, <2>1, <2>2, <2>3, <2>4, <2>5, <2>6, Rows, StoryGoesOn
<1> QED
  BY <1>7, <1>8

\* Several executions expire in one step.
LEMMA ExpiryStep ==
    ASSUME CompInv, RecoverExpired
    PROVE  CompInv' /\ OutcomesStay
<1> DEFINE X(a) == [execution[a] EXCEPT !.status = "unknown", !.lease = "none"]
           R(a) == [request[a] EXCEPT !.status = "unknown"]
           frozen == lock.frozen \/ lock.owner \in Late
<1>1. /\ execution' = [a \in Target |-> IF a \in Late THEN X(a) ELSE execution[a]]
      /\ request' = [a \in Target |-> IF a \in Late THEN R(a) ELSE request[a]]
      /\ lock' = [lock EXCEPT !.frozen = frozen]
      /\ UNCHANGED <<act, allowed, online, claimed, events>>
  BY DEF RecoverExpired, Expired
<1>2. ASSUME NEW a \in Target
      PROVE  /\ X(a) \in ExecutionRow /\ X(a).status = "unknown" /\ X(a).lease = "none"
             /\ R(a) \in RequestRow /\ R(a).status = "unknown" /\ R(a).by = request[a].by
             /\ R(a).decidedBy = request[a].decidedBy
  <2>1. execution[a] \in ExecutionRow /\ request[a] \in RequestRow
    BY Rows
  <2>2. X(a) \in ExecutionRow /\ X(a).status = "unknown" /\ X(a).lease = "none"
    BY <2>1 DEF ExecutionRow, ExecutionStatus
  <2>3. /\ R(a) \in RequestRow /\ R(a).status = "unknown" /\ R(a).by = request[a].by
        /\ R(a).decidedBy = request[a].decidedBy
    BY <2>1 DEF RequestRow, RequestStatus
  <2> QED
    BY <2>2, <2>3
<1>3. /\ lock' \in LockRow /\ lock'.owner = lock.owner
      /\ (lock'.released <=> lock.released) /\ (lock.frozen => lock'.frozen)
  <2>1. lock \in LockRow /\ frozen \in BOOLEAN /\ (lock.frozen => frozen)
    BY DEF CompInv, CompTypeOK, LockRow
  <2> HIDE DEF frozen
  <2>2. /\ [lock EXCEPT !.frozen = frozen] \in LockRow
        /\ [lock EXCEPT !.frozen = frozen].owner = lock.owner
    BY <2>1 DEF LockRow
  <2>3. [lock EXCEPT !.frozen = frozen].released = lock.released
    BY <2>1 DEF LockRow
  <2>4. [lock EXCEPT !.frozen = frozen].frozen = frozen
    BY <2>1 DEF LockRow
  <2> QED
    BY <1>1, <2>1, <2>2, <2>3, <2>4
<1> HIDE DEF X, R
<1>4. CompTypeOK'
  BY <1>1, <1>2, <1>3 DEF CompInv, CompTypeOK
<1>5. ASSUME NEW a \in Target PROVE StoryOf(a)'
  <2>1. act'[a] \in Unsettled => Holds(lock', a)
    BY <1>1, <1>3 DEF CompInv, StoryOf, Holds
  <2>2. Chapter(act'[a], request'[a], execution'[a])
    <3>1. CASE a \in Late
      <4>1. execution'[a] = X(a) /\ request'[a] = R(a) /\ execution[a].status = "running"
        BY <1>1, <3>1 DEF Late
      <4>2. Chapter(act[a], request[a], execution[a])
        BY Rows
      <4> QED
        BY <1>1, <1>2, <4>1, <4>2 DEF Chapter
    <3>2. CASE a \notin Late
      BY <1>1, <3>2, Rows
    <3> QED
      BY <3>1, <3>2
  <2> QED
    BY <2>1, <2>2 DEF StoryOf
<1>6. OutcomesStay
  BY <1>1 DEF OutcomesStay, Late, Final
<1> QED
  BY <1>4, <1>5, <1>6 DEF CompInv

LEMMA CompStep ==
    ASSUME CompInv, [CompNext]_compVars
    PROVE  CompInv' /\ OutcomesStay
<1>1. CASE \/ PolicyTurns \/ UNCHANGED compVars \/ \E x \in Executor : RunnerTurns(x)
  <2>1. /\ UNCHANGED <<act, lock, request, execution>> /\ allowed' \in BOOLEAN
        /\ online' \subseteq Executor /\ claimed' = claimed /\ events' \in 0..MaxEvents
    <3>1. /\ allowed \in BOOLEAN /\ online \subseteq Executor /\ events \in 0..MaxEvents
      BY DEF CompInv, CompTypeOK
    <3>2. CASE UNCHANGED compVars
      BY <3>1, <3>2 DEF compVars
    <3>3. CASE PolicyTurns
      <4>1. allowed' \in BOOLEAN
        BY <3>1, <3>3, Zenon DEF PolicyTurns
      <4> QED
        BY <3>1, <3>3, <4>1 DEF PolicyTurns, Event
    <3>4. CASE \E x \in Executor : RunnerTurns(x)
      BY <3>1, <3>4 DEF RunnerTurns, Event
    <3> QED
      BY <1>1, <3>2, <3>3, <3>4
  <2> QED
    BY <2>1 DEF CompInv, CompTypeOK, StoryOf, OutcomesStay
<1> QED
  BY <1>1, FailStep, LeaseStep, EscalateStep, LapseStep, PeopleStep, ExpiryStep,
     DispatchStep, ClaimStep, CompleteStep DEF CompNext

\* A resource whose change failed stays with the action, frozen, until a compensation
\* succeeded that somebody else approved, and the first outcome of a compensation stays:
\* for any number of actions, Runners and people, and whatever expires or arrives late.
THEOREM ResourceStaysKept == CompSpec => CompensationKeepsResource
<1>1. CompInit => CompInv
  <2> SUFFICES ASSUME CompInit PROVE CompInv
    OBVIOUS
  <2> DEFINE req == [status |-> "none", by |-> NoOne, decidedBy |-> NoOne, lapsed |-> FALSE]
             exe == [status |-> "none", runner |-> NoOne, token |-> 0, lease |-> "none",
                     completion |-> NoCompletion]
  <2>1. /\ act = [a \in Target |-> "ready"] /\ request = [a \in Target |-> req]
        /\ execution = [a \in Target |-> exe]
    BY DEF CompInit
  <2>2. /\ req \in RequestRow /\ exe \in ExecutionRow /\ Chapter("ready", req, exe)
    BY DEF RequestRow, RequestStatus, ExecutionRow, ExecutionStatus, Chapter
  <2> HIDE DEF req, exe
  <2>3. \A a \in Target : StoryOf(a)
    BY <2>1, <2>2 DEF StoryOf, Unsettled
  <2>4. CompTypeOK
    <3>1. lock \in LockRow
      BY DEF CompInit, LockRow
    <3>2. /\ act \in [Target -> ActStatus] /\ request \in [Target -> RequestRow]
          /\ execution \in [Target -> ExecutionRow]
      BY <2>1, <2>2 DEF ActStatus
    <3>3. /\ allowed \in BOOLEAN /\ online \subseteq Executor
          /\ claimed \subseteq Target \X Executor /\ events \in 0..MaxEvents
      BY DEF CompInit
    <3> QED
      BY <3>1, <3>2, <3>3 DEF CompTypeOK, ActStatus
  <2> QED
    BY <2>3, <2>4 DEF CompInv
<1>2. CompInv /\ [CompNext]_compVars =>
        [\A a \in Target : execution[a].status \in {"succeeded", "failed", "unknown"}
            => execution'[a] = execution[a]]_compVars
  BY CompStep DEF OutcomesStay, Final
<1>3. CompInv /\ [CompNext]_compVars => CompInv'
  BY CompStep
<1> QED
  BY <1>1, <1>2, <1>3, CompInvSuffices, PTL
  DEF CompSpec, CompensationKeepsResource, FirstOutcomeStays

HIDE CompensationConstants

-----------------------------------------------------------------------------
(* Incidents and alerts.                                                   *)
(* What an operator's copy of an incident says is true of it as long as    *)
(* their versions are the same.                                            *)

USE IntakeConstants

\* A view of the current version shows every alert; an alert whose transaction opens an
\* incident has none yet.
ViewsAreTrue ==
    /\ \A o \in Operator : views[o].incident # NoIncident =>
          /\ incidents[views[o].incident].status # "none"
          /\ views[o].version <= incidents[views[o].incident].version
          /\ views[o].version = incidents[views[o].incident].version
                 => AttachedTo(views[o].incident) \subseteq views[o].alerts
    /\ \A a \in opening : alerts[a].incident = NoIncident
    /\ \A i \in Incident :
          incidents[i].status = "none" => incidents[i].version = 0 /\ ~incidents[i].recent

IntakeInv == IntakeTypeOK /\ ViewsAreTrue

\* Incident i changes, and only it may take up an alert, with a new version.
LEMMA IncidentMoves ==
    ASSUME IntakeInv, NEW i \in Incident, NEW new \in IncidentRow,
           incidents' = [incidents EXCEPT ![i] = new],
           new.status # "none", new.version >= incidents[i].version, new.version > 0,
           alerts' \in [Alert -> AlertRow],
           \A a \in Alert : \/ alerts'[a].incident = alerts[a].incident
                            \/ alerts'[a].incident = i /\ new.version > incidents[i].version,
           opening' \subseteq Alert, \A a \in opening' : alerts'[a].incident = NoIncident,
           UNCHANGED views
    PROVE  IntakeInv'
<1>1. /\ incidents' \in [Incident -> IncidentRow] /\ incidents'[i] = new
      /\ \A j \in Incident \ {i} : incidents'[j] = incidents[j]
      /\ \A j \in Incident : incidents[j].version \in Nat /\ incidents'[j].version \in Nat
      /\ i # NoIncident
  BY DEF IntakeInv, IntakeTypeOK, IncidentRow, Incident, NoIncident
<1>2. IntakeTypeOK'
  BY <1>1 DEF IntakeInv, IntakeTypeOK, AlertRow
<1>3. ASSUME NEW o \in Operator, views[o].incident # NoIncident
      PROVE  /\ incidents'[views[o].incident].status # "none"
             /\ views[o].version <= incidents'[views[o].incident].version
             /\ views[o].version = incidents'[views[o].incident].version
                    => AttachedTo(views[o].incident)' \subseteq views[o].alerts
  <2>1. /\ views[o].incident \in Incident /\ views[o].version \in Nat
        /\ incidents[views[o].incident].status # "none"
        /\ views[o].version <= incidents[views[o].incident].version
        /\ views[o].version = incidents[views[o].incident].version
               => AttachedTo(views[o].incident) \subseteq views[o].alerts
    BY <1>3 DEF IntakeInv, IntakeTypeOK, ViewsAreTrue, View
  <2>2. CASE views[o].incident = i
    BY <1>1, <2>1, <2>2 DEF AttachedTo
  <2>3. CASE views[o].incident # i
    BY <1>1, <2>1, <2>3 DEF AttachedTo
  <2> QED
    BY <2>2, <2>3
<1>4. ViewsAreTrue'
  BY <1>1, <1>3 DEF IntakeInv, ViewsAreTrue
<1> QED
  BY <1>2, <1>4 DEF IntakeInv

LEMMA UpsertedRows ==
    ASSUME IntakeInv, NEW a \in Alert, NEW status \in {"firing", "resolved"},
           NEW matched \in BOOLEAN
    PROVE  /\ Upserted(a, status, matched) \in [Alert -> AlertRow]
           /\ \A b \in Alert : Upserted(a, status, matched)[b].incident = alerts[b].incident
           /\ \A b \in Alert \ {a} : Upserted(a, status, matched)[b] = alerts[b]
           /\ Upserted(a, status, matched)[a].status = status
           /\ ~matched => (Upserted(a, status, matched)[a].matched <=> alerts[a].matched)
<1> DEFINE either == alerts[a].matched \/ matched
           new == [alerts[a] EXCEPT !.status = status, !.matched = either]
<1>1. alerts \in [Alert -> AlertRow] /\ alerts[a] \in AlertRow /\ either \in BOOLEAN
  BY DEF IntakeInv, IntakeTypeOK, AlertRow
<1>2. Upserted(a, status, matched) = [alerts EXCEPT ![a] = new]
  BY DEF Upserted
<1>3. ~matched => (either <=> alerts[a].matched)
  OBVIOUS
<1> HIDE DEF either
<1>4. /\ new \in AlertRow /\ new.incident = alerts[a].incident /\ new.status = status
  BY <1>1 DEF AlertRow
<1>5. new.matched = either
  BY <1>1 DEF AlertRow
<1> HIDE DEF new
<1> QED
  BY <1>1, <1>2, <1>3, <1>4, <1>5

LEMMA NextIncidentIsNew ==
    ASSUME IntakeInv, Spare
    PROVE  NextIncident \in Incident /\ incidents[NextIncident].status = "none"
<1> DEFINE T == {i \in Incident : incidents[i].status = "none"}
<1>1. T \subseteq Nat /\ T # {}
  BY DEF Spare, Incident
<1>2. PICK i \in T : \A j \in T : i <= j
  BY <1>1, LeastExists
<1>3. /\ i \in Incident /\ incidents[i].status = "none"
      /\ \A j \in Incident : j < i => incidents[j].status # "none"
  BY <1>2 DEF Incident
<1> QED
  BY <1>3, Zenon DEF NextIncident

\* What a step does to the alerts, as the action properties put it.
AlertsGoOn ==
    \A a \in Alert :
        /\ alerts'[a].incident # alerts[a].incident =>
              /\ alerts[a].incident = NoIncident
              /\ incidents'[alerts'[a].incident].status \notin Ended
        /\ alerts'[a].status = "firing" /\ alerts'[a].matched /\ ~alerts[a].matched
              => alerts'[a].incident # NoIncident

LEMMA AlertComes ==
    ASSUME IntakeInv, NEW a \in Alert, NEW status \in {"firing", "resolved"},
           NEW matched \in BOOLEAN, Ingest(a, status, matched)
    PROVE  IntakeInv' /\ AlertsGoOn
<1>1. /\ alerts' = Upserted(a, status, matched)
      /\ alerts' \in [Alert -> AlertRow]
      /\ \A b \in Alert : alerts'[b].incident = alerts[b].incident
      /\ \A b \in Alert \ {a} : alerts'[b] = alerts[b]
      /\ alerts'[a].status = status
      /\ ~matched => (alerts'[a].matched <=> alerts[a].matched)
  BY UpsertedRows DEF Ingest
<1>2. AlertsGoOn
  BY <1>1 DEF AlertsGoOn, Ingest, NeedsIncident
<1>3. IntakeInv'
  BY <1>1 DEF Ingest, IntakeInv, IntakeTypeOK, ViewsAreTrue, AttachedTo
<1> QED
  BY <1>2, <1>3

\* An alert that needs an incident is attached to i, which works on.
LEMMA AlertJoins ==
    ASSUME IntakeInv, NEW a \in Alert, NEW i \in Incident, alerts[a].incident = NoIncident,
           alerts' = [Upserted(a, "firing", TRUE) EXCEPT ![a].incident = i]
    PROVE  /\ alerts' \in [Alert -> AlertRow] /\ alerts'[a].incident = i
           /\ \A b \in Alert \ {a} : alerts'[b] = alerts[b]
<1> DEFINE f == Upserted(a, "firing", TRUE)
           new == [f[a] EXCEPT !.incident = i]
<1>1. f \in [Alert -> AlertRow] /\ \A b \in Alert \ {a} : f[b] = alerts[b]
  BY UpsertedRows
<1>2. alerts' = [f EXCEPT ![a] = new]
  OBVIOUS
<1> HIDE DEF f
<1>3. f[a] \in AlertRow
  BY <1>1
<1>4. new \in AlertRow /\ new.incident = i
  BY <1>3 DEF AlertRow
<1> HIDE DEF new
<1> QED
  BY <1>1, <1>2, <1>4

LEMMA AlertCorrelates ==
    ASSUME IntakeInv, NEW a \in Alert, NEW i \in Incident, Correlate(a, i)
    PROVE  IntakeInv' /\ AlertsGoOn
<1> DEFINE old == incidents[i]
           new == [old EXCEPT !.version = @ + 1, !.recent = TRUE]
<1>0. /\ old \in IncidentRow /\ old.version < MaxVersion
      /\ old.status \notin Ended \union {"none"}
  BY DEF Correlate, Active, IntakeInv, IntakeTypeOK
<1>1. /\ old.version + 1 \in 0..MaxVersion /\ old.version \in Nat
      /\ incidents' = [incidents EXCEPT ![i] = new] /\ UNCHANGED <<opening, views>>
      /\ alerts[a].incident = NoIncident /\ a \notin opening
      /\ alerts' = [Upserted(a, "firing", TRUE) EXCEPT ![a].incident = i]
  <2>1. old.version + 1 \in 0..MaxVersion /\ old.version \in Nat
    BY <1>0 DEF IncidentRow
  <2> QED
    BY <2>1 DEF Correlate, TakenUp, NeedsIncident
<1>2. /\ alerts' \in [Alert -> AlertRow] /\ alerts'[a].incident = i
      /\ \A b \in Alert \ {a} : alerts'[b] = alerts[b]
  BY <1>1, AlertJoins
<1>3. new \in IncidentRow /\ new.version = old.version + 1 /\ new.status = old.status
  BY <1>0, <1>1 DEF IncidentRow
<1> HIDE DEF new
<1>4. IntakeInv'
  <2>1. new.status # "none" /\ new.version > old.version /\ new.version > 0
    BY <1>0, <1>1, <1>3
  <2>2. opening' \subseteq Alert /\ \A b \in opening' : alerts'[b].incident = NoIncident
    BY <1>1, <1>2 DEF IntakeInv, IntakeTypeOK, ViewsAreTrue
  <2>3. \A b \in Alert : \/ alerts'[b].incident = alerts[b].incident
                         \/ alerts'[b].incident = i /\ new.version > old.version
    BY <1>2, <2>1
  <2>4. new.version >= old.version
    BY <1>1, <1>3
  <2> QED
    BY <1>1, <1>2, <1>3, <2>1, <2>2, <2>3, <2>4, IncidentMoves
<1>5. AlertsGoOn
  <2>1. incidents'[i].status \notin Ended /\ i # NoIncident
    BY <1>0, <1>1, <1>3 DEF IntakeInv, IntakeTypeOK, Incident, NoIncident
  <2> QED
    BY <1>1, <1>2, <2>1 DEF AlertsGoOn
<1> QED
  BY <1>4, <1>5

LEMMA IncidentOpens ==
    ASSUME IntakeInv, CreateIncident \/ \E a \in Alert : Open(a)
    PROVE  IntakeInv' /\ AlertsGoOn
<1> DEFINE i == NextIncident
           new == [status |-> "DETECTED", version |-> 1, recent |-> TRUE]
<1>1. /\ i \in Incident /\ incidents[i].status = "none" /\ incidents[i].version = 0
      /\ incidents' = [incidents EXCEPT ![i] = new] /\ UNCHANGED views
  BY NextIncidentIsNew DEF CreateIncident, Open, Detected, IntakeInv, ViewsAreTrue
<1>2. /\ new \in IncidentRow /\ new.version = 1 /\ new.status = "DETECTED"
  BY DEF IncidentRow, IncidentStatus
<1> HIDE DEF i, new
<1>3. /\ incidents'[i].status \notin Ended /\ i # NoIncident
      /\ new.version > incidents[i].version /\ new.version >= incidents[i].version
      /\ new.version > 0 /\ new.status # "none"
  BY <1>1, <1>2 DEF IntakeInv, IntakeTypeOK, Ended, Incident, NoIncident
<1>4. CASE CreateIncident
  <2>1. UNCHANGED <<alerts, opening>>
    BY <1>4 DEF CreateIncident
  <2>2. /\ alerts' \in [Alert -> AlertRow] /\ opening' \subseteq Alert
        /\ \A a \in opening' : alerts'[a].incident = NoIncident
    BY <2>1 DEF IntakeInv, IntakeTypeOK, ViewsAreTrue
  <2>3. IntakeInv'
    BY <1>1, <1>2, <1>3, <2>1, <2>2, IncidentMoves
  <2> QED
    BY <2>1, <2>3 DEF AlertsGoOn
<1>5. ASSUME NEW a \in Alert, Open(a) PROVE IntakeInv' /\ AlertsGoOn
  <2>1. /\ alerts' = [Upserted(a, "firing", TRUE) EXCEPT ![a].incident = i]
        /\ alerts[a].incident = NoIncident /\ opening' = opening \ {a}
    BY <1>5 DEF Open, IntakeInv, ViewsAreTrue, i
  <2>2. /\ alerts' \in [Alert -> AlertRow] /\ alerts'[a].incident = i
        /\ \A b \in Alert \ {a} : alerts'[b] = alerts[b]
    BY <1>1, <2>1, AlertJoins
  <2>3. opening' \subseteq Alert /\ \A b \in opening' : alerts'[b].incident = NoIncident
    BY <2>1, <2>2 DEF IntakeInv, IntakeTypeOK, ViewsAreTrue
  <2>4. \A b \in Alert : \/ alerts'[b].incident = alerts[b].incident
                         \/ alerts'[b].incident = i /\ new.version > incidents[i].version
    BY <1>3, <2>2
  <2>5. IntakeInv'
    BY <1>1, <1>2, <1>3, <2>2, <2>3, <2>4, IncidentMoves
  <2>6. AlertsGoOn
    BY <1>3, <2>1, <2>2 DEF AlertsGoOn
  <2> QED
    BY <2>5, <2>6
<1> QED
  BY <1>4, <1>5

LEMMA AllowedStatus ==
    ASSUME NEW s \in IncidentStatus, NEW t \in Allowed[s]
    PROVE  t \in IncidentStatus
BY DEF Allowed, IncidentStatus

LEMMA OperatorMoves ==
    ASSUME IntakeInv, NEW o \in Operator, NEW target \in IncidentStatus,
           Transition(o, target)
    PROVE  /\ IntakeInv' /\ AlertsGoOn
           /\ AttachedTo(views[o].incident) \subseteq views[o].alerts
<1> DEFINE i == views[o].incident
           new == [status |-> target, version |-> views[o].version + 1, recent |-> TRUE]
<1>1. /\ i \in Incident /\ i # NoIncident /\ incidents[i].version = views[o].version
      /\ incidents[i].version < MaxVersion /\ incidents[i].version \in Nat
      /\ incidents' = [incidents EXCEPT ![i] = new] /\ UNCHANGED <<alerts, opening, views>>
  BY DEF Transition, IntakeInv, IntakeTypeOK, View, IncidentRow, Incident
<1>2. /\ new \in IncidentRow /\ new.version = incidents[i].version + 1
      /\ new.status = target /\ target # "none"
  BY <1>1 DEF IncidentRow, IncidentStatus
<1>3. AttachedTo(i) \subseteq views[o].alerts
  BY <1>1 DEF IntakeInv, ViewsAreTrue
<1> HIDE DEF i, new
<1>4. /\ alerts' \in [Alert -> AlertRow] /\ opening' \subseteq Alert
      /\ \A a \in opening' : alerts'[a].incident = NoIncident
      /\ \A a \in Alert : alerts'[a].incident = alerts[a].incident
  BY <1>1 DEF IntakeInv, IntakeTypeOK, ViewsAreTrue
<1>5. new.version >= incidents[i].version /\ new.version > 0 /\ new.status # "none"
  BY <1>1, <1>2
<1>6. IntakeInv'
  BY <1>1, <1>2, <1>4, <1>5, IncidentMoves
<1> QED
  BY <1>1, <1>3, <1>6 DEF AlertsGoOn, i

LEMMA IntakeStep ==
    ASSUME IntakeInv, [IntakeNext]_intakeVars
    PROVE  IntakeInv' /\ AlertsGoOn
<1>1. ASSUME NEW a \in Alert, FindNone(a) \/ Abort(a) PROVE IntakeInv' /\ AlertsGoOn
  BY <1>1 DEF FindNone, Abort, NeedsIncident, IntakeInv, IntakeTypeOK, ViewsAreTrue,
              AttachedTo, AlertsGoOn
<1>2. ASSUME NEW i \in Incident, Ages(i) PROVE IntakeInv' /\ AlertsGoOn
  <2> DEFINE new == [incidents[i] EXCEPT !.recent = FALSE]
  <2>1. /\ incidents[i] \in IncidentRow /\ incidents[i].status # "none"
        /\ incidents[i].version > 0 /\ incidents[i].version \in Nat
        /\ incidents' = [incidents EXCEPT ![i] = new] /\ UNCHANGED <<alerts, opening, views>>
    BY <1>2 DEF Ages, IntakeInv, IntakeTypeOK, ViewsAreTrue, IncidentRow
  <2>2. /\ new \in IncidentRow /\ new.version = incidents[i].version
        /\ new.status = incidents[i].status
    BY <2>1 DEF IncidentRow
  <2> HIDE DEF new
  <2>3. /\ alerts' \in [Alert -> AlertRow] /\ opening' \subseteq Alert
        /\ \A a \in opening' : alerts'[a].incident = NoIncident
        /\ \A a \in Alert : alerts'[a].incident = alerts[a].incident
    BY <2>1 DEF IntakeInv, IntakeTypeOK, ViewsAreTrue
  <2>4. new.version >= incidents[i].version /\ new.version > 0 /\ new.status # "none"
    BY <2>1, <2>2
  <2>5. IntakeInv'
    BY <2>1, <2>2, <2>3, <2>4, IncidentMoves
  <2> QED
    BY <2>1, <2>5 DEF AlertsGoOn
<1>3. ASSUME NEW o \in Operator, NEW i \in Incident, Look(o, i)
      PROVE  IntakeInv' /\ AlertsGoOn
  <2> DEFINE new == [incident |-> i, version |-> incidents[i].version,
                     alerts |-> AttachedTo(i)]
  <2>1. /\ incidents[i].status # "none" /\ incidents[i].version \in 0..MaxVersion
        /\ AttachedTo(i) \in SUBSET Alert /\ views' = [views EXCEPT ![o] = new]
        /\ UNCHANGED <<incidents, alerts, opening>>
    BY <1>3 DEF Look, IntakeInv, IntakeTypeOK, IncidentRow, AttachedTo
  <2>2. /\ new \in View /\ new.incident = i /\ new.version = incidents[i].version
        /\ new.alerts = AttachedTo(i)
    BY <2>1 DEF View
  <2> HIDE DEF new
  <2>3. /\ views' \in [Operator -> View] /\ views'[o] = new
        /\ \A p \in Operator \ {o} : views'[p] = views[p]
    BY <2>1, <2>2 DEF IntakeInv, IntakeTypeOK
  <2>4. \A j : AttachedTo(j)' = AttachedTo(j)
    BY <2>1 DEF AttachedTo
  <2>5. IntakeTypeOK'
    BY <2>1, <2>3 DEF IntakeInv, IntakeTypeOK
  <2>6. ViewsAreTrue'
    BY <2>1, <2>2, <2>3, <2>4 DEF IntakeInv, ViewsAreTrue
  <2> QED
    BY <2>1, <2>5, <2>6 DEF IntakeInv, AlertsGoOn
<1>4. CASE UNCHANGED intakeVars
  BY <1>4 DEF intakeVars, IntakeInv, IntakeTypeOK, ViewsAreTrue, AttachedTo, AlertsGoOn
<1> QED
  BY <1>1, <1>2, <1>3, <1>4, AlertComes, AlertCorrelates, IncidentOpens, OperatorMoves
  DEF IntakeNext

\* However webhooks and operators meet, an operator who moves an incident has seen all its
\* alerts, an alert joins an incident that is worked on and stays there, and one whose
\* resource becomes known gets its incident: for any number of each of them.
THEOREM AlertsStayAccountedFor == IntakeSpec => AlertsAreAccountedFor
<1>1. IntakeInit => IntakeInv
  <2> SUFFICES ASSUME IntakeInit PROVE IntakeInv
    OBVIOUS
  <2>1. /\ incidents \in [Incident -> IncidentRow] /\ alerts \in [Alert -> AlertRow]
        /\ opening = {} /\ views \in [Operator -> View]
        /\ \A i \in Incident : /\ incidents[i].status = "none" /\ incidents[i].version = 0
                               /\ ~incidents[i].recent
        /\ \A a \in Alert : alerts[a].incident = NoIncident
        /\ \A o \in Operator : views[o].incident = NoIncident
    BY DEF IntakeInit, IncidentRow, AlertRow, View, NoIncident
  <2> QED
    BY <2>1 DEF IntakeInv, IntakeTypeOK, ViewsAreTrue
<1>2. IntakeInv /\ [IntakeNext]_intakeVars =>
        [\A o \in Operator, s \in IncidentStatus : Transition(o, s) =>
            AttachedTo(views[o].incident) \subseteq views[o].alerts]_intakeVars
  BY OperatorMoves
<1>3. IntakeInv /\ [IntakeNext]_intakeVars =>
        [\A a \in Alert : alerts'[a].incident # alerts[a].incident =>
            /\ alerts[a].incident = NoIncident
            /\ incidents'[alerts'[a].incident].status \notin Ended]_intakeVars
  BY IntakeStep DEF AlertsGoOn
<1>4. IntakeInv /\ [IntakeNext]_intakeVars =>
        [\A a \in Alert :
            /\ alerts'[a].status = "firing"
            /\ alerts'[a].matched /\ ~alerts[a].matched
            => alerts'[a].incident # NoIncident]_intakeVars
  BY IntakeStep DEF AlertsGoOn
<1>5. IntakeInv /\ [IntakeNext]_intakeVars => IntakeInv'
  BY IntakeStep
<1>6. IntakeInv => IntakeTypeOK
  BY DEF IntakeInv
<1> QED
  BY <1>1, <1>2, <1>3, <1>4, <1>5, <1>6, PTL
  DEF IntakeSpec, AlertsAreAccountedFor, OperatorSawEveryAlert, JoinsOpenIncident,
      LateMatchOpensIncident

HIDE IntakeConstants

-----------------------------------------------------------------------------
(* Plans.                                                                  *)
(* Dependencies point back, so the first step that is not finished may     *)
(* always run; and the steps that are finished do not depend on one that   *)
(* is not.                                                                 *)

USE PlanningConstants

\* Steps only need steps before them, and were attempted after those were finished.
WellOrdered(steps) ==
    \A i \in DOMAIN steps :
        /\ steps[i].needs \subseteq 1..(i - 1)
        /\ steps[i].attempts < steps[i].version
        /\ steps[i].attempts > 0 => DependenciesReady(steps, i)

\* The plans that were made are the first n; an agent has loaded a step of one of them.
PlansInOrder ==
    /\ \E n \in 0..MaxPlans : Made = 1..n
    /\ \A p \in Made : WellOrdered(plans[p].steps)
    /\ \A g \in Agent : loaded[g].plan # 0 =>
          loaded[g].plan \in Made /\ loaded[g].ordinal \in DOMAIN plans[loaded[g].plan].steps

PlanInv == PlanTypeOK /\ PlansInOrder /\ CompletedMeansDone /\ OnlyNewestPlanActive

LEMMA FirstAreCounted ==
    ASSUME NEW n \in Nat
    PROVE  Cardinality(1..n) = n
<1>1. Cardinality(1..n) = IF 1 > n THEN 0 ELSE n - 1 + 1
  BY FS_Interval
<1> QED
  BY <1>1

LEMMA StepsOfPlan ==
    ASSUME PlanInv, NEW p \in Plan
    PROVE  \E n \in 0..MaxSteps : plans[p].steps \in [1..n -> Step]
BY DEF PlanInv, PlanTypeOK, PlanRow

LEMMA SomeStepIsNext ==
    ASSUME PlanInv, NEW p \in Made, plans[p].status = "active"
    PROVE  \E i \in DOMAIN plans[p].steps :
              /\ plans[p].steps[i].status \notin FinishedStep
              /\ DependenciesReady(plans[p].steps, i)
<1> DEFINE steps == plans[p].steps
           T == {i \in DOMAIN steps : steps[i].status \notin FinishedStep}
<1>1. p \in Plan
  BY DEF Made
<1>2. PICK n \in 0..MaxSteps : steps \in [1..n -> Step]
  BY <1>1, StepsOfPlan
<1>3. T # {} /\ T \subseteq Nat
  BY <1>2 DEF PlanInv, CompletedMeansDone, AllFinished
<1>4. PICK i \in T : \A j \in T : i <= j
  BY <1>3, LeastExists
<1>5. steps[i].needs \subseteq 1..(i - 1) /\ i \in 1..n
  BY <1>2, <1>4 DEF PlanInv, PlansInOrder, WellOrdered
<1>6. \A d \in 1..(i - 1) : d \in 1..n /\ ~(i <= d)
  BY <1>5
<1>7. \A d \in 1..(i - 1) : steps[d].status \in FinishedStep
  BY <1>2, <1>4, <1>6
<1> QED
  BY <1>4, <1>5, <1>7 DEF DependenciesReady

LEMMA PlanInvSuffices ==
    PlanInv => /\ PlanTypeOK /\ CompletedMeansDone /\ OnlyNewestPlanActive
               /\ StepsInOrder /\ PlanCanGoOn
BY SomeStepIsNext
DEF PlanInv, PlansInOrder, WellOrdered, StepsInOrder, DependenciesReady, PlanCanGoOn

\* The row of a step that has moved.
AfterMove(step, target) ==
    [step EXCEPT !.status = target, !.version = step.version + 1,
                 !.attempts = IF target = "running" THEN step.attempts + 1
                              ELSE step.attempts]

\* A step that moves leaves the order as it is: it is not among those it needs, and no
\* step that another one has relied on moves.
LEMMA StepMoves ==
    ASSUME NEW n \in 0..MaxSteps, NEW steps \in [1..n -> Step], WellOrdered(steps),
           NEW i \in 1..n, NEW target \in StepStatus, steps[i].version < MaxMoves,
           target = "running" => DependenciesReady(steps, i),
           target \in AllowedMoves[steps[i].status],
           NEW moved, moved = [steps EXCEPT ![i] = AfterMove(steps[i], target)]
    PROVE  moved \in [1..n -> Step] /\ WellOrdered(moved)
<1> DEFINE new == AfterMove(steps[i], target)
           attempts == IF target = "running" THEN steps[i].attempts + 1
                       ELSE steps[i].attempts
           old == steps[i]
<1>1. /\ old \in Step /\ old.attempts < old.version /\ old.needs \subseteq 1..(i - 1)
      /\ old.attempts > 0 => DependenciesReady(steps, i)
  BY DEF WellOrdered
<1>2. /\ old.version + 1 \in 1..MaxMoves /\ attempts \in 0..MaxMoves
      /\ attempts < old.version + 1
      /\ attempts > 0 => DependenciesReady(steps, i)
  BY <1>1 DEF Step
<1>3. old.status \notin FinishedStep
  BY <1>1 DEF AllowedMoves, FinishedStep, Step, StepStatus
<1>4. new = [old EXCEPT !.status = target, !.version = old.version + 1, !.attempts = attempts]
  BY DEF AfterMove
<1> HIDE DEF attempts, old
<1>5. /\ new \in Step /\ new.version = old.version + 1 /\ new.attempts = attempts
      /\ new.needs = old.needs
  BY <1>1, <1>2, <1>4 DEF Step
<1>6. /\ moved \in [1..n -> Step] /\ moved[i] = new /\ DOMAIN moved = 1..n
      /\ \A j \in 1..n \ {i} : moved[j] = steps[j]
  BY <1>5
<1>7. ASSUME NEW j \in 1..n, j # i, steps[j].attempts > 0
      PROVE  DependenciesReady(moved, j)
  <2>1. /\ steps[j].needs \subseteq 1..n /\ moved[j].needs = steps[j].needs
        /\ DependenciesReady(steps, j)
    BY <1>6, <1>7 DEF WellOrdered
  <2>2. \A d \in steps[j].needs : d # i
    BY <1>3, <2>1 DEF DependenciesReady, old
  <2> QED
    BY <1>6, <2>1, <2>2 DEF DependenciesReady
<1>8. attempts > 0 => DependenciesReady(moved, i)
  <2>1. \A d \in old.needs : d \in 1..n /\ d # i
    BY <1>1
  <2> QED
    BY <1>2, <1>5, <1>6, <2>1 DEF DependenciesReady, old
<1>9. WellOrdered(moved)
  BY <1>1, <1>2, <1>5, <1>6, <1>7, <1>8 DEF WellOrdered
<1> QED
  BY <1>6, <1>9

\* Plans that are not active stay as they are.
OldOnesRest == \A p \in Made : plans[p].status # "active" => plans'[p] = plans[p]

LEMMA PlanIsMade ==
    ASSUME PlanInv, NEW m \in Ordinal, NEW needs \in [1..m -> SUBSET (1..m)],
           CreatePlan(needs)
    PROVE  PlanInv' /\ OldOnesRest
<1> DEFINE Row(i) == [status |-> "pending", version |-> 1, attempts |-> 0,
                      needs |-> needs[i]]
           steps == [i \in DOMAIN needs |-> Row(i)]
           new == [status |-> "active", steps |-> steps]
<1>1. PICK n \in 0..MaxPlans : Made = 1..n
  BY DEF PlanInv, PlansInOrder
<1>2. Cardinality(Made) = n /\ NextPlan = n + 1 /\ n + 1 \in Plan
  BY <1>1, FirstAreCounted DEF CreatePlan, NextPlan
<1>3. /\ plans' = [Superseded EXCEPT ![n + 1] = new] /\ replans' = n
      /\ UNCHANGED loaded /\ plannable' \in BOOLEAN
  BY <1>2 DEF CreatePlan, PlanInv, PlanTypeOK
<1>4. m \in 1..MaxSteps /\ m \in Nat /\ DOMAIN needs = 1..m
  BY DEF Ordinal
<1>5. \A i \in 1..m : Row(i) \in Step /\ Row(i).attempts = 0 /\ Row(i).version = 1
                      /\ Row(i).needs = needs[i] /\ Row(i).status = "pending"
  BY <1>4 DEF Step, StepStatus, Ordinal
<1> HIDE DEF Row
<1>6. /\ steps \in [1..m -> Step] /\ DOMAIN steps = 1..m
      /\ \A i \in 1..m : steps[i] = Row(i)
  BY <1>4, <1>5
<1> HIDE DEF steps
<1>7. WellOrdered(steps) /\ ~AllFinished(steps)
  <2>1. \A i \in 1..m : needs[i] \subseteq 1..(i - 1)
    BY <1>4 DEF CreatePlan, ValidDependencies
  <2>2. 1 \in 1..m
    BY <1>4
  <2> QED
    BY <1>5, <1>6, <2>1, <2>2 DEF WellOrdered, AllFinished, FinishedStep
<1>8. new \in PlanRow /\ new.status = "active" /\ new.steps = steps
  BY <1>4, <1>6 DEF PlanRow
<1> HIDE DEF new
<1>9. /\ plans' \in [Plan -> PlanRow] /\ plans'[n + 1] = new
      /\ \A p \in Plan \ {n + 1} :
            /\ plans[p].status # "active" => plans'[p] = plans[p]
            /\ plans[p].status = "active" =>
                  plans'[p].status = "superseded" /\ plans'[p].steps = plans[p].steps
  <2>1. \A p \in Plan : plans[p] \in PlanRow
    BY DEF PlanInv, PlanTypeOK
  <2>2. \A p \in Plan : LET q == [plans[p] EXCEPT !.status = "superseded"]
                        IN  /\ q \in PlanRow /\ q.status = "superseded"
                            /\ q.steps = plans[p].steps
    BY <2>1 DEF PlanRow
  <2> QED
    BY <1>2, <1>3, <1>8, <2>1, <2>2 DEF Superseded
<1>10. Made' = 1..(n + 1) /\ Cardinality(Made') = n + 1 /\ (n + 1) \in 0..MaxPlans
  <2>1. \A p \in Plan : plans'[p].status # "none" <=> p = n + 1 \/ plans[p].status # "none"
    BY <1>8, <1>9
  <2>2. \A p \in Plan : plans'[p].status # "none" <=> p \in 1..(n + 1)
    BY <1>1, <2>1 DEF Made, Plan
  <2>3. n + 1 \in 0..MaxPlans
    BY <1>2 DEF Plan
  <2>4. Made' = 1..(n + 1)
    BY <2>2, <2>3 DEF Made, Plan
  <2> QED
    BY <2>3, <2>4, FirstAreCounted
<1>11. Plan \ {n + 1} \subseteq Plan /\ (n + 1) \notin Made /\ Made \subseteq Plan
  BY <1>1 DEF Made
<1>12. \A p \in Made : plans'[p].steps = plans[p].steps /\ p \in Made' /\ p # n + 1
  BY <1>1, <1>9, <1>10, <1>11
<1>13. PlansInOrder'
  <2>1. \A p \in Made' : p = n + 1 \/ p \in Made
    BY <1>1, <1>10
  <2> QED
    BY <1>3, <1>7, <1>8, <1>9, <1>10, <1>12, <2>1 DEF PlanInv, PlansInOrder
<1>14. CompletedMeansDone'
  <2>1. \A p \in Made' : p = n + 1 \/ p \in Made
    BY <1>1, <1>10
  <2>2. ASSUME NEW p \in Made
        PROVE  plans'[p].status = "completed" <=> plans[p].status = "completed"
    BY <1>9, <1>11, <1>12
  <2> QED
    BY <1>7, <1>8, <1>9, <1>12, <2>1, <2>2 DEF PlanInv, CompletedMeansDone
<1>15. OnlyNewestPlanActive'
  <2>1. \A p \in Made' : p = n + 1 \/ p \in Made
    BY <1>1, <1>10
  <2>2. \A p \in Made : plans'[p].status # "active"
    BY <1>9, <1>11, <1>12
  <2> QED
    BY <1>3, <1>10, <2>1, <2>2 DEF OnlyNewestPlanActive
<1>16. PlanTypeOK'
  BY <1>3, <1>9 DEF PlanInv, PlanTypeOK
<1>17. OldOnesRest
  BY <1>9, <1>11, <1>12 DEF OldOnesRest
<1> QED
  BY <1>13, <1>14, <1>15, <1>16, <1>17 DEF PlanInv

LEMMA PlanMoves ==
    ASSUME PlanInv, NEW g \in Agent, NEW target \in StepStatus, TransitionStep(g, target)
    PROVE  PlanInv' /\ OldOnesRest
<1> DEFINE p == loaded[g].plan
           i == loaded[g].ordinal
           steps == plans[p].steps
           moved == [steps EXCEPT ![i] = AfterMove(steps[i], target)]
           new == [status |-> PlanAfter(moved), steps |-> moved]
<1>1. /\ p \in Made /\ p \in Plan /\ i \in DOMAIN steps /\ plans[p].status = "active"
      /\ steps[i].version < MaxMoves
      /\ target = "running" => DependenciesReady(steps, i)
      /\ target \in AllowedMoves[steps[i].status] /\ WellOrdered(steps)
  BY DEF TransitionStep, MayMove, PlanInv, PlansInOrder, Made
<1>2. PICK n \in 0..MaxSteps : steps \in [1..n -> Step]
  BY <1>1, StepsOfPlan
<1>3. /\ plans' = [plans EXCEPT ![p] = new] /\ UNCHANGED <<plannable, replans, loaded>>
  BY DEF TransitionStep, AfterMove
<1> HIDE DEF p, i, steps
<1>4. moved \in [1..n -> Step] /\ WellOrdered(moved)
  <2>1. i \in 1..n
    BY <1>1, <1>2
  <2> QED
    BY <1>1, <1>2, <2>1, StepMoves
<1> HIDE DEF moved
<1>5. PlanAfter(moved) \in {"active", "completed"}
      /\ (PlanAfter(moved) = "completed" <=> AllFinished(moved))
  BY DEF PlanAfter
<1>6. /\ new \in PlanRow /\ new.steps = moved /\ new.status = PlanAfter(moved)
  BY <1>4, <1>5 DEF PlanRow
<1> HIDE DEF new
<1>7. /\ plans' \in [Plan -> PlanRow] /\ plans'[p] = new
      /\ \A q \in Plan \ {p} : plans'[q] = plans[q]
  BY <1>1, <1>3, <1>6 DEF PlanInv, PlanTypeOK
<1>8. Made' = Made
  BY <1>1, <1>5, <1>6, <1>7 DEF Made
<1>9. \A q \in Made : q # p => plans'[q] = plans[q]
  BY <1>7 DEF Made
<1>10. DOMAIN plans'[p].steps = DOMAIN plans[p].steps
  BY <1>2, <1>4, <1>6, <1>7 DEF steps
<1>11. PlansInOrder'
  BY <1>3, <1>4, <1>6, <1>7, <1>8, <1>9, <1>10 DEF PlanInv, PlansInOrder
<1>12. CompletedMeansDone'
  BY <1>5, <1>6, <1>7, <1>8, <1>9 DEF PlanInv, CompletedMeansDone
<1>13. OnlyNewestPlanActive'
  BY <1>1, <1>3, <1>8, <1>9 DEF PlanInv, OnlyNewestPlanActive
<1>14. PlanTypeOK'
  BY <1>3, <1>7 DEF PlanInv, PlanTypeOK
<1>15. OldOnesRest
  BY <1>1, <1>9 DEF OldOnesRest
<1> QED
  BY <1>11, <1>12, <1>13, <1>14, <1>15 DEF PlanInv

LEMMA PlanStep ==
    ASSUME PlanInv, [PlanNext]_planVars
    PROVE  PlanInv' /\ OldOnesRest
<1>1. CASE MoveIncident \/ UNCHANGED planVars
  <2>1. plannable' \in BOOLEAN /\ UNCHANGED <<replans, plans, loaded>>
    BY <1>1 DEF MoveIncident, planVars, PlanInv, PlanTypeOK
  <2>2. Made' = Made
    BY <2>1 DEF Made
  <2> QED
    BY <2>1, <2>2 DEF PlanInv, PlanTypeOK, PlansInOrder, CompletedMeansDone,
                      OnlyNewestPlanActive, OldOnesRest
<1>2. ASSUME NEW g \in Agent, NEW p \in Plan, NEW i \in Ordinal, LoadStep(g, p, i)
      PROVE  PlanInv' /\ OldOnesRest
  <2> DEFINE new == [plan |-> p, ordinal |-> i, version |-> plans[p].steps[i].version]
  <2>1. /\ p = NextPlan - 1 /\ i \in DOMAIN plans[p].steps
        /\ loaded' = [loaded EXCEPT ![g] = new] /\ UNCHANGED <<plannable, replans, plans>>
    BY <1>2 DEF LoadStep
  <2>2. p \in Made
    <3>1. PICK n \in 0..MaxPlans : Made = 1..n
      BY DEF PlanInv, PlansInOrder
    <3>2. Cardinality(Made) = n
      BY <3>1, FirstAreCounted
    <3> QED
      BY <2>1, <3>1, <3>2 DEF NextPlan, Plan
  <2>3. plans[p].steps[i].version \in 0..MaxMoves
    <3>1. PICK n \in 0..MaxSteps : plans[p].steps \in [1..n -> Step]
      BY StepsOfPlan
    <3>2. plans[p].steps[i] \in Step
      BY <2>1, <3>1
    <3> QED
      BY <3>2 DEF Step
  <2>4. new \in [plan: 0..MaxPlans, ordinal: 0..MaxSteps, version: 0..MaxMoves]
        /\ new.plan = p /\ new.ordinal = i
    BY <2>3 DEF Plan, Ordinal
  <2> HIDE DEF new
  <2>5. Made' = Made
    BY <2>1 DEF Made
  <2>6. PlanTypeOK' /\ PlansInOrder'
    BY <2>1, <2>2, <2>4, <2>5 DEF PlanInv, PlanTypeOK, PlansInOrder
  <2> QED
    BY <2>1, <2>5, <2>6 DEF PlanInv, CompletedMeansDone, OnlyNewestPlanActive, OldOnesRest
<1> QED
  BY <1>1, <1>2, PlanIsMade, PlanMoves DEF PlanNext

\* However agents move steps they have loaded before, and replace plans, only the newest
\* plan is active, it is completed exactly when its steps are, its steps follow their
\* dependencies, and some step can go on; an old plan rests: for any number of plans,
\* steps and agents.
THEOREM PlansStayFollowed == PlanSpec => PlansAreFollowed
<1>1. PlanInit => PlanInv
  <2> SUFFICES ASSUME PlanInit PROVE PlanInv
    OBVIOUS
  <2>1. [status |-> "none", steps |-> <<>>] \in PlanRow
    <3>1. <<>> \in [1..0 -> Step] /\ 0 \in 0..MaxSteps
      OBVIOUS
    <3> QED
      BY <3>1 DEF PlanRow
  <2>2. /\ plans \in [Plan -> PlanRow] /\ \A p \in Plan : plans[p].status = "none"
        /\ loaded \in [Agent -> [plan: 0..MaxPlans, ordinal: 0..MaxSteps,
                                 version: 0..MaxMoves]]
        /\ \A g \in Agent : loaded[g].plan = 0
    BY <2>1 DEF PlanInit, NotLoaded
  <2>3. Made = {} /\ Made = 1..0 /\ 0 \in 0..MaxPlans
    BY <2>2 DEF Made
  <2>4. plannable \in BOOLEAN /\ replans = 0
    BY Zenon DEF PlanInit
  <2> QED
    BY <2>2, <2>3, <2>4
    DEF PlanInv, PlanTypeOK, PlansInOrder, CompletedMeansDone, OnlyNewestPlanActive
<1>2. PlanInv /\ [PlanNext]_planVars =>
        [\A p \in Made : plans[p].status # "active" => plans'[p] = plans[p]]_planVars
  BY PlanStep DEF OldOnesRest
<1>3. PlanInv /\ [PlanNext]_planVars => PlanInv'
  BY PlanStep
<1> QED
  BY <1>1, <1>2, <1>3, PlanInvSuffices, PTL DEF PlanSpec, PlansAreFollowed, OldPlansRest

HIDE PlanningConstants

-----------------------------------------------------------------------------
(* Hypotheses.                                                             *)
(* A copy of the current version is a copy of the row.                     *)

USE HypothesesConstants

\* A copy of the current version is a copy of the row.
CopiesAreTrue ==
    /\ \A h \in Hypothesis : hypotheses[h].version = 0 => hypotheses[h] = Absent
    /\ \A c \in Client : held[c].of # 0 =>
          /\ held[c].row.version > 0
          /\ held[c].row.version = hypotheses[held[c].of].version
                 => held[c].row = hypotheses[held[c].of]

HypInv == HypTypeOK /\ EvidenceOnOneSide /\ CopiesAreTrue

\* What every update keeps of a hypothesis.
FoundOut(old, new) ==
    /\ old.supporting \union old.contradicting
         \subseteq new.supporting \union new.contradicting
    /\ old.status = "rejected" => new.status = "rejected"

NothingUndone == \A h \in Hypothesis : FoundOut(hypotheses[h], hypotheses'[h])

LEMMA HypothesisChanges ==
    ASSUME HypInv, NEW h \in Hypothesis, NEW new \in HypothesisRow,
           hypotheses' = [hypotheses EXCEPT ![h] = new],
           new.version = hypotheses[h].version + 1, FoundOut(hypotheses[h], new),
           ValidEvidence(new.supporting, new.contradicting),
           UNCHANGED <<explored, collected, held>>
    PROVE  HypInv' /\ NothingUndone
<1>1. /\ hypotheses' \in [Hypothesis -> HypothesisRow] /\ hypotheses'[h] = new
      /\ \A i \in Hypothesis \ {h} : hypotheses'[i] = hypotheses[i]
  BY DEF HypInv, HypTypeOK
<1>2. EvidenceOnOneSide' /\ NothingUndone
  BY <1>1 DEF HypInv, EvidenceOnOneSide, ValidEvidence, NothingUndone, FoundOut
<1>3. ASSUME NEW c \in Client, held[c].of # 0
      PROVE  /\ held[c].row.version <= hypotheses'[held[c].of].version
             /\ held[c].row.version > 0
             /\ held[c].row.version = hypotheses'[held[c].of].version
                    => held[c].row = hypotheses'[held[c].of]
  <2>1. held[c].of \in Hypothesis /\ held[c].row \in HypothesisRow
    BY <1>3 DEF HypInv, HypTypeOK, Hypothesis
  <2>2. held[c].row.version \in Nat /\ hypotheses[h].version \in Nat
    BY <2>1 DEF HypInv, HypTypeOK, HypothesisRow
  <2> QED
    BY <1>1, <1>3, <2>1, <2>2 DEF HypInv, HypTypeOK, CopiesAreTrue
<1>4. \A i \in Hypothesis : hypotheses'[i].version = 0 => hypotheses'[i] = Absent
  <2>1. hypotheses[h].version \in Nat
    BY DEF HypInv, HypTypeOK, HypothesisRow
  <2> QED
    BY <1>1, <2>1 DEF HypInv, CopiesAreTrue
<1> QED
  BY <1>1, <1>2, <1>3, <1>4 DEF HypInv, HypTypeOK, CopiesAreTrue

LEMMA HypothesisAppears ==
    ASSUME HypInv, NEW h \in Hypothesis, NEW s \in SUBSET Evidence, NEW n \in SUBSET Evidence,
           CreateHypothesis(h, s, n)
    PROVE  HypInv' /\ NothingUndone
<1> DEFINE new == [version |-> 1, status |-> "proposed", supporting |-> s,
                   contradicting |-> n]
<1>1. /\ new \in HypothesisRow /\ new.version = 1 /\ new.supporting = s
      /\ new.contradicting = n
  BY DEF HypothesisRow, HypothesisStatus
<1>2. /\ hypotheses' = [hypotheses EXCEPT ![h] = new] /\ hypotheses[h].version = 0
      /\ ValidEvidence(s, n) /\ UNCHANGED <<explored, collected, held>>
  BY DEF CreateHypothesis
<1> HIDE DEF new
<1>3. hypotheses[h] = Absent
  BY <1>2 DEF HypInv, CopiesAreTrue
<1>4. FoundOut(hypotheses[h], new)
  BY <1>3 DEF FoundOut, Absent
<1>5. ValidEvidence(new.supporting, new.contradicting)
  BY <1>1, <1>2 DEF ValidEvidence
<1>6. new.version = hypotheses[h].version + 1
  BY <1>1, <1>2
<1> QED
  BY <1>1, <1>2, <1>4, <1>5, <1>6, HypothesisChanges

\* What is sent back comes from a copy that equals the row.
LEMMA EvidenceMoves ==
    ASSUME HypInv, NEW c \in Client, NEW e \in Evidence, NEW supports \in BOOLEAN,
           UpdateEvidence(c, e, supports)
    PROVE  HypInv' /\ NothingUndone
<1> DEFINE h == held[c].of
           old == hypotheses[h]
           s == IF supports THEN held[c].row.supporting \union {e}
                            ELSE held[c].row.supporting \ {e}
           n == IF supports THEN held[c].row.contradicting \ {e}
                            ELSE held[c].row.contradicting \union {e}
<1>1. h \in Hypothesis /\ old \in HypothesisRow /\ held[c].row = old
  BY DEF UpdateEvidence, Current, HypInv, HypTypeOK, CopiesAreTrue, Hypothesis
<1>2. PICK sends \in SUBSET {"supporting", "contradicting"} :
          /\ (IF supports THEN "supporting" ELSE "contradicting") \in sends
          /\ Merged(h, sends, s, n)
          /\ hypotheses' = [hypotheses EXCEPT ![h] =
               [version |-> old.version + 1, status |-> old.status,
                supporting |-> IF "supporting" \in sends THEN s ELSE old.supporting,
                contradicting |-> IF "contradicting" \in sends THEN n
                                  ELSE old.contradicting]]
  BY Zenon DEF UpdateEvidence, Merged
<1> DEFINE supporting == IF "supporting" \in sends THEN s ELSE old.supporting
           contradicting == IF "contradicting" \in sends THEN n ELSE old.contradicting
           new == [version |-> old.version + 1, status |-> old.status,
                   supporting |-> supporting, contradicting |-> contradicting]
<1>3. /\ old.version < MaxUpdates /\ old.version + 1 \in 0..MaxUpdates
      /\ old.status \in HypothesisStatus
      /\ old.supporting \in SUBSET Evidence /\ old.contradicting \in SUBSET Evidence
      /\ UNCHANGED <<explored, collected, held>>
  BY <1>1, SMTT(30) DEF UpdateEvidence, HypothesisRow
<1>4. s \in SUBSET Evidence /\ n \in SUBSET Evidence
  BY <1>1, <1>3
<1>5. supporting \in SUBSET Evidence /\ contradicting \in SUBSET Evidence
  BY <1>3, <1>4
<1>6. old.supporting \union old.contradicting \subseteq supporting \union contradicting
  BY <1>1, <1>2
<1>7. ValidEvidence(supporting, contradicting)
  BY <1>2 DEF Merged
<1>8. hypotheses' = [hypotheses EXCEPT ![h] = new]
  BY <1>2
<1> HIDE DEF h, old, s, n, supporting, contradicting
<1>9. /\ new \in HypothesisRow /\ new.version = old.version + 1 /\ new.status = old.status
      /\ new.supporting = supporting /\ new.contradicting = contradicting
  BY <1>3, <1>5 DEF HypothesisRow
<1> HIDE DEF new
<1>10. FoundOut(old, new)
  BY <1>6, <1>9 DEF FoundOut
<1> QED
  BY <1>1, <1>3, <1>7, <1>8, <1>9, <1>10, HypothesisChanges DEF old

LEMMA VerdictFalls ==
    ASSUME HypInv, NEW c \in Client, NEW status \in HypothesisStatus,
           UpdateStatus(c, status)
    PROVE  HypInv' /\ NothingUndone
<1> DEFINE h == held[c].of
           old == hypotheses[h]
           new == [old EXCEPT !.status = status, !.version = old.version + 1]
<1>1. /\ h \in Hypothesis /\ old \in HypothesisRow /\ old.version + 1 \in 0..MaxUpdates
  BY DEF UpdateStatus, Current, HypInv, HypTypeOK, Hypothesis, HypothesisRow
<1>2. /\ hypotheses' = [hypotheses EXCEPT ![h] = new] /\ NewStatus(h, status)
      /\ UNCHANGED <<explored, collected, held>>
  BY DEF UpdateStatus
<1>3. old.status = "rejected" => status = "rejected"
  BY <1>2 DEF NewStatus, AllowedVerdicts, HypothesisStatus
<1>4. ValidEvidence(old.supporting, old.contradicting)
  BY <1>1 DEF HypInv, EvidenceOnOneSide, ValidEvidence
<1> HIDE DEF h, old
<1>5. /\ new \in HypothesisRow /\ new.version = old.version + 1 /\ new.status = status
      /\ new.supporting = old.supporting /\ new.contradicting = old.contradicting
  BY <1>1 DEF HypothesisRow
<1> HIDE DEF new
<1>6. FoundOut(old, new)
  BY <1>3, <1>5 DEF FoundOut
<1> QED
  BY <1>1, <1>2, <1>4, <1>5, <1>6, HypothesisChanges DEF old

LEMMA HypStep ==
    ASSUME HypInv, [HypNext]_hypVars
    PROVE  HypInv' /\ NothingUndone
<1>1. CASE UNCHANGED <<hypotheses, held>> /\ collected \subseteq collected'
           /\ collected' \subseteq Evidence /\ explored' \in BOOLEAN
  BY <1>1 DEF HypInv, HypTypeOK, EvidenceOnOneSide, CopiesAreTrue, NothingUndone, FoundOut
<1>2. ASSUME NEW c \in Client, NEW h \in Hypothesis, LoadHypothesis(c, h)
      PROVE  HypInv' /\ NothingUndone
  <2> DEFINE new == [of |-> h, row |-> hypotheses[h]]
  <2>1. /\ hypotheses[h] \in HypothesisRow /\ hypotheses[h].version > 0
        /\ hypotheses[h].version \in Nat /\ h \in 0..MaxHypotheses
    BY <1>2 DEF LoadHypothesis, HypInv, HypTypeOK, HypothesisRow, Hypothesis
  <2>2. /\ held' = [held EXCEPT ![c] = new] /\ UNCHANGED <<explored, collected, hypotheses>>
    BY <1>2 DEF LoadHypothesis
  <2>3. /\ new \in [of: 0..MaxHypotheses, row: HypothesisRow]
        /\ new.of = h /\ new.row = hypotheses[h]
    BY <2>1
  <2> HIDE DEF new
  <2> QED
    BY <2>1, <2>2, <2>3
    DEF HypInv, HypTypeOK, EvidenceOnOneSide, CopiesAreTrue, NothingUndone, FoundOut
<1>3. CASE MovePhase
  <2>1. UNCHANGED <<hypotheses, held, collected>> /\ explored' = ~explored
    BY <1>3 DEF MovePhase
  <2> QED
    BY <1>1, <2>1 DEF HypInv, HypTypeOK
<1>4. ASSUME NEW e \in Evidence, Collect(e)
      PROVE  HypInv' /\ NothingUndone
  <2>1. UNCHANGED <<hypotheses, held, explored>> /\ collected' = collected \union {e}
    BY <1>4 DEF Collect
  <2> QED
    BY <1>1, <2>1 DEF HypInv, HypTypeOK
<1>5. CASE UNCHANGED hypVars
  <2>1. UNCHANGED <<hypotheses, held, explored, collected>>
    BY <1>5 DEF hypVars
  <2> QED
    BY <1>1, <2>1 DEF HypInv, HypTypeOK
<1> QED
  BY <1>2, <1>3, <1>4, <1>5, HypothesisAppears, EvidenceMoves, VerdictFalls DEF HypNext

\* Whatever clients send from copies that others have overtaken, no evidence is lost or on
\* both sides of a hypothesis, and what was rejected stays rejected: for any number of
\* clients, hypotheses and updates.
THEOREM FindingsStayKept == HypSpec => FindingsAreKept
<1>1. HypInit => HypInv
  <2> SUFFICES ASSUME HypInit PROVE HypInv
    OBVIOUS
  <2>1. /\ Absent \in HypothesisRow /\ Absent.supporting = {} /\ Absent.contradicting = {}
    BY DEF Absent, HypothesisRow, HypothesisStatus
  <2>2. /\ hypotheses \in [Hypothesis -> HypothesisRow]
        /\ \A h \in Hypothesis : hypotheses[h] = Absent
        /\ held \in [Client -> [of: 0..MaxHypotheses, row: HypothesisRow]]
        /\ \A c \in Client : held[c].of = 0
    BY <2>1 DEF HypInit
  <2>3. explored \in BOOLEAN /\ collected = {}
    BY DEF HypInit
  <2> QED
    BY <2>1, <2>2, <2>3 DEF HypInv, HypTypeOK, EvidenceOnOneSide, CopiesAreTrue
<1>2. HypInv /\ [HypNext]_hypVars =>
        [\A h \in Hypothesis :
            hypotheses[h].supporting \union hypotheses[h].contradicting
            \subseteq hypotheses'[h].supporting \union hypotheses'[h].contradicting]_hypVars
  BY HypStep DEF NothingUndone, FoundOut
<1>3. HypInv /\ [HypNext]_hypVars =>
        [\A h \in Hypothesis : hypotheses[h].status = "rejected"
            => hypotheses'[h].status = "rejected"]_hypVars
  BY HypStep DEF NothingUndone, FoundOut
<1>4. HypInv => HypTypeOK /\ EvidenceOnOneSide
  BY DEF HypInv
<1>5. HypInv /\ [HypNext]_hypVars => HypInv'
  BY HypStep
<1> QED
  BY <1>1, <1>2, <1>3, <1>4, <1>5, PTL
  DEF HypSpec, FindingsAreKept, NoEvidenceLost, RejectedStays

HIDE HypothesesConstants
================================================================================
