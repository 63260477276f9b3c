---------------------------- MODULE Authorization ----------------------------
(***************************************************************************)
(* How a change of a resource becomes authorised: policy rules are         *)
(* evaluated into decision snapshots, a snapshot may need an approval by   *)
(* somebody else, an agent's proposal drives both, and an Action Request   *)
(* consumes the authorisation.  One incident on one resource.              *)
(*                                                                         *)
(* Every transaction is one step except the evaluation of the rules, which *)
(* reads them unlocked, then locks the one that matched.  The session      *)
(* still holds the objects it read, so the check "the rule has not changed *)
(* meanwhile" compares the old values with themselves and never fails; the *)
(* number of actions counted afterwards is fresh.  authorize_action_       *)
(* creation and revalidate_snapshot read rows nobody in their session      *)
(* holds any more, so what they see is current.                            *)
(*                                                                         *)
(* Not represented: the versions of approvals and actions (a request with  *)
(* a stale version changes nothing), wording, events, and the plan step a  *)
(* proposal refers to.                                                     *)
(***************************************************************************)
EXTENDS Naturals, FiniteSets, FiniteSetsExt

CONSTANTS
    Rule,        \* rules 1..n of the environment, in creation order
    Contents,    \* what an administrator may write into a rule
    Capability,  \* capabilities that are asked for
    Parameter,   \* parameters of an action
    User,        \* people who request, decide and create
    NodeKey,     \* executions of a run's propose_action node
    MaxReading,  \* bound: evaluations in flight at a time
    MaxDecisions,\* bound: decision snapshots
    MaxActions,  \* bound: Action Requests
    MaxChanges   \* bound: rule changes, window changes and expiries

NoLimit == 0
RuleContent == [enabled: BOOLEAN, priority: Nat, allow: BOOLEAN,
                capabilities: SUBSET Capability, approval: BOOLEAN,
                windowed: BOOLEAN, limit: Nat]

System == "system"
Nobody == "nobody"
NoRule == 0

ASSUME AuthorizationConstants ==
    /\ IsFiniteSet(Rule) /\ Rule \subseteq Nat \ {NoRule}
    /\ Contents # {} /\ Contents \subseteq RuleContent
    /\ Capability # {} /\ Parameter # {} /\ Nobody \notin User
    /\ MaxReading \in Nat \ {0} /\ MaxDecisions \in Nat
    /\ MaxActions \in Nat /\ MaxChanges \in Nat

Decision == 1..MaxDecisions
Action == 1..MaxActions

VARIABLES
    rules,      \* content and version of each rule; version 0: not created
    windowOpen, \* whether the maintenance windows are open now
    reading,    \* evaluations between their unlocked read and their lock
    decisions,  \* decision snapshots
    approvals,  \* the approval of each decision
    proposals,  \* agent proposals by node execution
    actions,    \* Action Requests
    changes     \* bounded changes made so far

authVars == <<rules, windowOpen, reading, decisions, approvals, proposals,
              actions, changes>>

RuleRow == [content: Contents, version: Nat]
Verdict == [allowed: BOOLEAN, approval: BOOLEAN, rule: Rule \union {NoRule},
            version: Nat]
DecisionRow == [made: BOOLEAN, capability: Capability, verdict: Verdict]
ApprovalRow ==
    [status: {"none", "pending", "approved", "rejected", "expired"},
     requestedBy: User \union {System, Nobody}, decidedBy: User \union {Nobody},
     parameters: Parameter, editable: BOOLEAN, lapsed: BOOLEAN]
ProposalRow ==
    [status: {"none", "denied", "awaiting_approval", "action_ready", "rejected"},
     decision: Decision \union {0}, parameters: Parameter]
ActionRow == [status: {"none", "ready", "locked", "cancelled"},
              decision: Decision \union {0}, parameters: Parameter,
              key: NodeKey \union User \union {Nobody}]
Reader == User \union NodeKey
Reading == [active: BOOLEAN, capability: Capability, parameters: Parameter,
            rule: Rule \union {NoRule}, row: RuleRow, open: BOOLEAN]

\* An empty list matches everything.
Matches(content, capability) ==
    content.capabilities = {} \/ capability \in content.capabilities

\* The enabled rules in the order list_for_environment returns them: the first
\* that matches decides.
FirstMatch(capability) ==
    LET M == {r \in Rule : /\ rules[r].version > 0
                           /\ rules[r].content.enabled
                           /\ Matches(rules[r].content, capability)}
        Before(r, s) ==
            \/ rules[r].content.priority > rules[s].content.priority
            \/ rules[r].content.priority = rules[s].content.priority /\ r <= s
    IN  IF M = {} THEN NoRule ELSE CHOOSE r \in M : \A s \in M : Before(r, s)

InsideWindow(content, open) == content.windowed => open

\* What one matching rule says after `consumed' actions of the incident.
Decide(r, row, open, consumed) ==
    LET c == row.content
        allowed == /\ c.allow
                   /\ InsideWindow(c, open)
                   /\ c.limit # NoLimit => consumed < c.limit
    IN  [allowed |-> allowed, approval |-> allowed /\ c.approval,
         rule |-> r, version |-> row.version]
DefaultDeny == [allowed |-> FALSE, approval |-> FALSE, rule |-> NoRule,
                version |-> 0]

\* Cancelled actions count as well.
Consumed(r) == Cardinality({a \in Action :
    /\ actions[a].status # "none"
    /\ decisions[actions[a].decision].verdict.rule = r})

\* The current rules, asked for an existing snapshot; capacity is not counted.
RevalidateSnapshot(d) ==
    LET r == FirstMatch(decisions[d].capability)
    IN  IF r = NoRule THEN DefaultDeny ELSE Decide(r, rules[r], windowOpen, 0)

AuthInit ==
    /\ rules = [r \in Rule |-> [content |-> CHOOSE c \in Contents : TRUE,
                                version |-> 0]]
    /\ windowOpen = TRUE
    /\ reading = [u \in Reader |->
         [active |-> FALSE, capability |-> CHOOSE c \in Capability : TRUE,
          parameters |-> CHOOSE p \in Parameter : TRUE, rule |-> NoRule,
          row |-> [content |-> CHOOSE c \in Contents : TRUE, version |-> 0],
          open |-> TRUE]]
    /\ decisions = [d \in Decision |->
         [made |-> FALSE, capability |-> CHOOSE c \in Capability : TRUE,
          verdict |-> DefaultDeny]]
    /\ approvals = [d \in Decision |->
         [status |-> "none", requestedBy |-> Nobody, decidedBy |-> Nobody,
          parameters |-> CHOOSE p \in Parameter : TRUE, editable |-> FALSE,
          lapsed |-> FALSE]]
    /\ proposals = [k \in NodeKey |->
         [status |-> "none", decision |-> 0,
          parameters |-> CHOOSE p \in Parameter : TRUE]]
    /\ actions = [a \in Action |->
         [status |-> "none", decision |-> 0,
          parameters |-> CHOOSE p \in Parameter : TRUE, key |-> Nobody]]
    /\ changes = 0

-----------------------------------------------------------------------------
(* Rules and time *)

Changed == changes < MaxChanges /\ changes' = changes + 1

CreateRule(r, c) ==
    /\ rules[r].version = 0
    /\ \A s \in Rule : s < r => rules[s].version > 0
    /\ rules' = [rules EXCEPT ![r] = [content |-> c, version |-> 1]]
    /\ UNCHANGED <<windowOpen, reading, decisions, approvals, proposals,
                   actions, changes>>

\* Waits for the transactions that hold the rule's lock; as those are single
\* steps here, nothing is left to wait for.
UpdateRule(r, c) ==
    /\ rules[r].version > 0 /\ c # rules[r].content
    /\ Changed
    /\ rules' = [rules EXCEPT ![r] = [content |-> c, version |-> @.version + 1]]
    /\ UNCHANGED <<windowOpen, reading, decisions, approvals, proposals, actions>>

\* A maintenance window opens or closes.
MoveWindow ==
    /\ \E r \in Rule : rules[r].version > 0 /\ rules[r].content.windowed
    /\ Changed
    /\ windowOpen' = ~windowOpen
    /\ UNCHANGED <<rules, reading, decisions, approvals, proposals, actions>>

ApprovalLapses(d) ==
    /\ approvals[d].status \in {"pending", "approved"} /\ ~approvals[d].lapsed
    /\ Changed
    /\ approvals' = [approvals EXCEPT ![d].lapsed = TRUE]
    /\ UNCHANGED <<rules, windowOpen, reading, decisions, proposals, actions>>

-----------------------------------------------------------------------------
(* Action Requests *)

\* authorize_action_creation: the matched rule, locked and counted.
AuthorizeCreation(d, ds) ==
    LET v == ds[d].verdict
    IN  IF v.rule = NoRule THEN DefaultDeny
        ELSE Decide(v.rule, rules[v.rule], windowOpen, Consumed(v.rule))

RuleUnchanged(v) ==
    v.rule # NoRule => /\ rules[v.rule].content.enabled
                       /\ rules[v.rule].version = v.version

\* _validate_approval; that the approval belongs to the decision is its index.
ApprovalCarries(app, parameters) ==
    app.status = "approved" /\ ~app.lapsed /\ app.parameters = parameters

\* Mutant of Unconsumed: a cancelled action gives its authorisation back.
UnconsumedOrCancelled(d) ==
    \A a \in Action : actions[a].decision = d => actions[a].status = "cancelled"

\* One action per decision, and so one per approval: both are checked and are
\* unique in the table.
Unconsumed(d) == \A a \in Action : actions[a].decision # d

\* Everything ActionRequestService.create checks before it inserts.
MayCreate(d, ds, apps, parameters, key) ==
    /\ ds[d].verdict.allowed
    /\ \A a \in Action : actions[a].status # "none" => actions[a].key # key
    /\ Unconsumed(d)
    /\ ds[d].verdict.approval => ApprovalCarries(apps[d], parameters)
    /\ RuleUnchanged(ds[d].verdict)
    /\ LET now == AuthorizeCreation(d, ds)
       IN  now.allowed /\ now.approval = ds[d].verdict.approval

NextAction == CHOOSE a \in Action :
    /\ actions[a].status = "none"
    /\ \A b \in Action : b < a => actions[b].status # "none"
SpareAction == \E a \in Action : actions[a].status = "none"

Inserted(d, parameters, key) ==
    [actions EXCEPT ![NextAction] = [status |-> "ready", decision |-> d,
                                     parameters |-> parameters, key |-> key]]

\* A user creates an action from a decision; the user's name stands for the
\* idempotency key, and a replay returns the existing action.
CreateAction(u, d, p) ==
    /\ decisions[d].made /\ SpareAction
    /\ MayCreate(d, decisions, approvals, p, u)
    /\ actions' = Inserted(d, p, u)
    /\ UNCHANGED <<rules, windowOpen, reading, decisions, approvals, proposals,
                   changes>>

CancelAction(a) ==
    /\ actions[a].status = "ready"
    /\ actions' = [actions EXCEPT ![a].status = "cancelled"]
    /\ UNCHANGED <<rules, windowOpen, reading, decisions, approvals, proposals,
                   changes>>

\* _revalidate_authorization: asked again when the action takes its lock.
StillAuthorized(d, parameters) ==
    LET now == RevalidateSnapshot(d)
    IN  /\ now.allowed /\ now.approval = decisions[d].verdict.approval
        /\ now.approval => ApprovalCarries(approvals[d], parameters)

\* The action acquires the lock of its resource (the lock itself is modelled in
\* ActionEngine).
AcquireLock(a) ==
    /\ actions[a].status = "ready"
    /\ StillAuthorized(actions[a].decision, actions[a].parameters)
    /\ actions' = [actions EXCEPT ![a].status = "locked"]
    /\ UNCHANGED <<rules, windowOpen, reading, decisions, approvals, proposals,
                   changes>>

-----------------------------------------------------------------------------
(* Evaluation and proposals *)

NextDecision == CHOOSE d \in Decision :
    ~decisions[d].made /\ \A e \in Decision : e < d => decisions[e].made
SpareDecision == \E d \in Decision : ~decisions[d].made

\* The unlocked read of the rules, by a user's evaluation or a node's proposal.
\* A proposal holds its run and its incident, so proposals do not overlap; a
\* replayed one returns what it finds.  An evaluation has no parameters.
ReadRules(x, c, p) ==
    LET r == FirstMatch(c)
    IN  /\ ~reading[x].active
        /\ Cardinality({y \in Reader : reading[y].active}) < MaxReading
        /\ x \in User => p = CHOOSE q \in Parameter : TRUE
        /\ x \in NodeKey =>
             /\ proposals[x].status = "none"
             /\ \A k \in NodeKey : ~reading[k].active
        /\ reading' = [reading EXCEPT ![x] =
             [active |-> TRUE, capability |-> c, parameters |-> p, rule |-> r,
              row |-> IF r = NoRule THEN @.row ELSE rules[r],
              open |-> windowOpen]]
        /\ UNCHANGED <<rules, windowOpen, decisions, approvals, proposals,
                       actions, changes>>

\* Decided with what was read and the actions there are now.
VerdictOf(g) ==
    IF g.rule = NoRule THEN DefaultDeny
    ELSE Decide(g.rule, g.row, g.open, Consumed(g.rule))

\* An idle reader remembers nothing.
Finished(x) == [reading EXCEPT ![x].active = FALSE, ![x].rule = NoRule,
    ![x].row = [content |-> CHOOSE c \in Contents : TRUE, version |-> 0],
    ![x].open = TRUE, ![x].capability = CHOOSE c \in Capability : TRUE,
    ![x].parameters = CHOOSE p \in Parameter : TRUE]

Snapshot(x) ==
    [decisions EXCEPT ![NextDecision] =
        [made |-> TRUE, capability |-> reading[x].capability,
         verdict |-> VerdictOf(reading[x])]]

Evaluate(u) ==
    /\ reading[u].active /\ SpareDecision
    /\ decisions' = Snapshot(u)
    /\ reading' = Finished(u)
    /\ UNCHANGED <<rules, windowOpen, approvals, proposals, actions, changes>>

Pending(by, parameters, editable) ==
    [status |-> "pending", requestedBy |-> by, decidedBy |-> Nobody,
     parameters |-> parameters, editable |-> editable, lapsed |-> FALSE]

\* propose: snapshot, proposal and approval or action are one transaction; when
\* the action cannot be created nothing of it remains.
Propose(k) ==
    LET g == reading[k]
        d == NextDecision
        v == VerdictOf(g)
        Put(status) == proposals' = [proposals EXCEPT ![k] =
            [status |-> status, decision |-> d, parameters |-> g.parameters]]
    IN  /\ g.active /\ SpareDecision
        /\ reading' = Finished(k)
        /\ UNCHANGED <<rules, windowOpen, changes>>
        /\ \/ /\ ~v.allowed
              /\ decisions' = Snapshot(k) /\ Put("denied")
              /\ UNCHANGED <<approvals, actions>>
           \/ /\ v.approval
              /\ decisions' = Snapshot(k) /\ Put("awaiting_approval")
              /\ approvals' = [approvals EXCEPT ![d] =
                                 Pending(System, g.parameters, FALSE)]
              /\ UNCHANGED actions
           \/ /\ v.allowed /\ ~v.approval /\ SpareAction
              /\ MayCreate(d, Snapshot(k), approvals, g.parameters, k)
              /\ decisions' = Snapshot(k) /\ Put("action_ready")
              /\ actions' = Inserted(d, g.parameters, k)
              /\ UNCHANGED approvals
           \/ /\ v.allowed /\ ~v.approval
              /\ ~MayCreate(d, Snapshot(k), approvals, g.parameters, k)
              /\ UNCHANGED <<decisions, proposals, approvals, actions>>

-----------------------------------------------------------------------------
(* Approvals *)

CreateApproval(u, d, p, editable) ==
    /\ decisions[d].made
    /\ decisions[d].verdict.allowed /\ decisions[d].verdict.approval
    /\ approvals[d].status = "none"
    /\ approvals' = [approvals EXCEPT ![d] = Pending(u, p, editable)]
    /\ UNCHANGED <<rules, windowOpen, reading, decisions, proposals, actions,
                   changes>>

ProposalOf(d) == {k \in NodeKey : /\ proposals[k].decision = d
                                  /\ proposals[k].status = "awaiting_approval"}

Resolved(d, status) ==
    [k \in NodeKey |-> IF k \in ProposalOf(d)
                       THEN [proposals[k] EXCEPT !.status = status]
                       ELSE proposals[k]]

\* A decision that comes too late marks the approval as expired.
ExpireApproval(d) ==
    /\ approvals[d].status = "pending" /\ approvals[d].lapsed
    /\ approvals' = [approvals EXCEPT ![d].status = "expired"]
    /\ proposals' = Resolved(d, "rejected")
    /\ UNCHANGED <<rules, windowOpen, reading, decisions, actions, changes>>

MayDecide(u, d, p) ==
    /\ approvals[d].status = "pending" /\ ~approvals[d].lapsed
    /\ approvals[d].requestedBy # u
    /\ p # approvals[d].parameters => approvals[d].editable

Reject(u, d, p) ==
    /\ MayDecide(u, d, p)
    /\ approvals' = [approvals EXCEPT ![d].status = "rejected",
                        ![d].decidedBy = u, ![d].parameters = p]
    /\ proposals' = Resolved(d, "rejected")
    /\ UNCHANGED <<rules, windowOpen, reading, decisions, actions, changes>>

Approved(u, d, p) == [approvals EXCEPT ![d].status = "approved",
                         ![d].decidedBy = u, ![d].parameters = p]

\* The approval, the proposal and its action are one transaction: if the action
\* is refused the approval stays pending.
Approve(u, d, p) ==
    LET now == RevalidateSnapshot(d)
    IN  /\ MayDecide(u, d, p)
        /\ now.allowed /\ now.approval
        /\ approvals' = Approved(u, d, p)
        /\ IF ProposalOf(d) = {} THEN UNCHANGED <<proposals, actions>>
           ELSE \E k \in ProposalOf(d) :
                  /\ SpareAction
                  /\ MayCreate(d, decisions, Approved(u, d, p), p, k)
                  /\ actions' = Inserted(d, p, k)
                  /\ proposals' = Resolved(d, "action_ready")
        /\ UNCHANGED <<rules, windowOpen, reading, decisions, changes>>

AuthNext ==
    \/ \E r \in Rule, c \in Contents : CreateRule(r, c) \/ UpdateRule(r, c)
    \/ MoveWindow
    \/ \E d \in Decision : ApprovalLapses(d) \/ ExpireApproval(d)
    \/ \E x \in Reader, c \in Capability, p \in Parameter : ReadRules(x, c, p)
    \/ \E u \in User : Evaluate(u)
    \/ \E k \in NodeKey : Propose(k)
    \/ \E u \in User, d \in Decision, p \in Parameter, e \in BOOLEAN :
          CreateApproval(u, d, p, e)
    \/ \E u \in User, d \in Decision, p \in Parameter :
          Approve(u, d, p) \/ Reject(u, d, p) \/ CreateAction(u, d, p)
    \/ \E a \in Action : CancelAction(a) \/ AcquireLock(a)

AuthSpec == AuthInit /\ [][AuthNext]_authVars

-----------------------------------------------------------------------------
(* Correctness *)

\* Every variable keeps its type.
AuthTypeOK ==
    /\ rules \in [Rule -> RuleRow] /\ windowOpen \in BOOLEAN
    /\ reading \in [Reader -> Reading] /\ decisions \in [Decision -> DecisionRow]
    /\ approvals \in [Decision -> ApprovalRow]
    /\ proposals \in [NodeKey -> ProposalRow] /\ actions \in [Action -> ActionRow]
    /\ changes \in 0..MaxChanges

Created(a) == actions[a].status # "none"

\* A decision authorises one action, whoever retries, proposes or cancels
\* (ActionRequestService.create).
AuthorizationIsUsedOnce ==
    \A a, b \in Action : Created(a) /\ Created(b) /\ a # b
        => actions[a].decision # actions[b].decision

\* When a decision needed an approval, its action runs with the parameters that
\* somebody other than the requester approved.
FourEyes ==
    \A a \in Action : LET app == approvals[actions[a].decision] IN
        Created(a) /\ decisions[actions[a].decision].verdict.approval
        => /\ app.status = "approved" /\ app.parameters = actions[a].parameters
           /\ app.decidedBy \notin {app.requestedBy, Nobody}

\* A proposal waits exactly as long as its approval is pending, and is ready
\* only with an action of its own; so a run that waits for the approval is
\* released by the decision that resolves it.
ProposalFollowsApproval ==
    \A k \in NodeKey : LET p == proposals[k] IN
        /\ p.status = "awaiting_approval" => approvals[p.decision].status = "pending"
        /\ p.status = "rejected" =>
              approvals[p.decision].status \in {"rejected", "expired"}
        /\ p.status = "action_ready" => \E a \in Action :
              actions[a].key = k /\ actions[a].decision = p.decision

\* The rules that would allow something to somebody now.
Allowing == {r \in Rule : /\ rules[r].version > 0 /\ rules[r].content.enabled
                          /\ rules[r].content.allow
                          /\ InsideWindow(rules[r].content, windowOpen)}

\* What people took back stops an action, whatever was read, proposed or approved
\* before: it is created only while the rule that its decision names still allows,
\* and takes its lock only while the rule that comes first for its capability does
\* (authorize_action_creation asks the one rule, revalidate_snapshot all of them).
RevocationStops == [][
    \A a \in Action : actions'[a] # actions[a] =>
        \/ actions'[a].status = "cancelled"
        \/ /\ actions'[a].status = "ready"
           /\ decisions'[actions'[a].decision].verdict.rule \in Allowing
        \/ /\ actions'[a].status = "locked"
           /\ FirstMatch(decisions[actions[a].decision].capability) \in Allowing]_authVars

\* The Policy document says that an action is created only after the current policy was
\* asked again, so that an old snapshot cannot get past a denial.
CreationAsksCurrentRules == [][
    \A a \in Action : actions[a].status = "none" /\ actions'[a].status = "ready"
        => FirstMatch(decisions'[actions'[a].decision].capability) \in Allowing]_authVars

\* An action is only created under the version of the rule that its decision
\* names and within the executions that version allows to the incident.
CreatedWithinLimit == [][
    \A a \in Action, r \in Rule :
        /\ actions[a].status = "none" /\ actions'[a].status = "ready"
        /\ decisions'[actions'[a].decision].verdict.rule = r
        => /\ decisions'[actions'[a].decision].verdict.version = rules[r].version
           /\ rules[r].content.limit # NoLimit
                => Consumed(r)' <= rules[r].content.limit]_authVars

\* An action is created and takes its lock only with the consent of rules and people
\* that it needs, once, and under the rules of that moment.
ActionsStayAuthorized ==
    /\ [](AuthTypeOK /\ AuthorizationIsUsedOnce /\ FourEyes
          /\ ProposalFollowsApproval)
    /\ RevocationStops /\ CreatedWithinLimit
=============================================================================
