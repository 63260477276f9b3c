---------------------------- MODULE Compensation ----------------------------
(***************************************************************************)
(* Undoing an action whose verification failed: a compensation is          *)
(* requested, approved by somebody else, dispatched to a runner under the  *)
(* frozen lock of the original action, claimed, renewed, completed or      *)
(* given up.  Actions follow one another on one resource.                  *)
(*                                                                         *)
(* Requests of runners are lost, repeated and late: a completion may be    *)
(* sent at any time by a runner that once knew the tokens.  Every handler  *)
(* locks what it reads, so a request is one step.                          *)
(*                                                                         *)
(* The model starts from actions that carry a rollback capability.  Rows   *)
(* like that are still served by every handler here, but                   *)
(* validate_rollback_capability refuses to create new ones.                *)
(***************************************************************************)
EXTENDS Naturals, FiniteSets

CONSTANTS
    Target,      \* actions with rollback metadata, one compensation each
    Person,      \* requesters and approvers
    Executor,    \* runners that advertise the capability
    Completion,  \* ids of completion requests
    MaxEvents    \* bound: expiries and policy changes

Free == 0
NoOne == "no_one"
NoCompletion == "no_completion"

ASSUME CompensationConstants ==
    /\ MaxEvents \in Nat /\ Target \subseteq Nat \ {0}
    /\ NoOne \notin Person

RequestStatus == {"none", "pending", "approved", "rejected", "dispatching",
                  "running", "succeeded", "unknown", "escalated"}
ExecutionStatus == {"none", "dispatching", "running", "succeeded", "failed",
                    "unknown"}

VARIABLES
    act,      \* status of each action
    lock,     \* the lock of the resource
    request,  \* compensation requests
    execution,\* compensation executions
    allowed,  \* whether the current policy rules allow the capability
    online,   \* runners with a live lease
    claimed,  \* runners that were told the tokens of an execution
    events    \* bounded events so far

compVars == <<act, lock, request, execution, allowed, online, claimed, events>>

LockRow == [owner: Target \union {Free}, token: Nat, frozen: BOOLEAN,
            released: BOOLEAN]
RequestRow == [status: RequestStatus, by: Person \union {NoOne},
               decidedBy: Person \union {NoOne}, lapsed: BOOLEAN]
ExecutionRow == [status: ExecutionStatus, runner: Executor \union {NoOne},
                 token: Nat, lease: {"none", "live", "expired"},
                 completion: Completion \union {NoCompletion}]

CompInit ==
    /\ act = [a \in Target |-> "ready"]
    /\ lock = [owner |-> Free, token |-> 0, frozen |-> FALSE, released |-> TRUE]
    /\ request = [a \in Target |-> [status |-> "none", by |-> NoOne,
                                    decidedBy |-> NoOne, lapsed |-> FALSE]]
    /\ execution = [a \in Target |-> [status |-> "none", runner |-> NoOne,
                       token |-> 0, lease |-> "none", completion |-> NoCompletion]]
    /\ allowed = TRUE
    /\ online = Executor
    /\ claimed = {}
    /\ events = 0

Event == events < MaxEvents /\ events' = events + 1

\* The action takes the lock, runs and fails its verification, which freezes the
\* lock (ActionEngine models the steps).
FailVerification(a) ==
    /\ act[a] = "ready" /\ ~lock.frozen /\ lock.released
    /\ act' = [act EXCEPT ![a] = "verification_failed"]
    /\ lock' = [owner |-> a, token |-> lock.token + 1, frozen |-> TRUE,
                released |-> FALSE]
    /\ UNCHANGED <<request, execution, allowed, online, claimed, events>>

\* One per action; a replayed key finds the request.
RequestCompensation(a, p) ==
    /\ act[a] = "verification_failed" /\ request[a].status = "none"
    /\ request' = [request EXCEPT ![a].status = "pending", ![a].by = p]
    /\ UNCHANGED <<act, lock, execution, allowed, online, claimed, events>>

MayApprove(a, p) == allowed /\ request[a].by # p

\* After its expiry every decision is a rejection.
DecideCompensation(a, p, approve) ==
    /\ request[a].status = "pending"
    /\ \/ /\ approve /\ ~request[a].lapsed /\ MayApprove(a, p)
          /\ request' = [request EXCEPT ![a].status = "approved",
                                        ![a].decidedBy = p]
       \/ /\ ~approve \/ request[a].lapsed
          /\ request' = [request EXCEPT ![a].status = "rejected",
                                        ![a].decidedBy = p]
    /\ UNCHANGED <<act, lock, execution, allowed, online, claimed, events>>

\* Mutant of Expired: the lock of an expired execution is thawed.
ExpiredThaws(x, r, l, X) ==
    /\ x' = [a \in Target |-> IF a \in X
               THEN [execution[a] EXCEPT !.status = "unknown", !.lease = "none"]
               ELSE execution[a]]
    /\ r' = [a \in Target |-> IF a \in X
               THEN [request[a] EXCEPT !.status = "unknown"] ELSE request[a]]
    /\ l' = [lock EXCEPT !.frozen = @ /\ lock.owner \notin X]

\* recover_expired: what a runner did until its lease ran out is unknown, and
\* the lock stays frozen.
Expired(x, r, l, X) ==
    /\ x' = [a \in Target |-> IF a \in X
               THEN [execution[a] EXCEPT !.status = "unknown", !.lease = "none"]
               ELSE execution[a]]
    /\ r' = [a \in Target |-> IF a \in X
               THEN [request[a] EXCEPT !.status = "unknown"] ELSE request[a]]
    /\ l' = [lock EXCEPT !.frozen = @ \/ lock.owner \in X]

Late == {a \in Target : /\ execution[a].status = "running"
                        /\ execution[a].lease = "expired"}

\* dispatch and claim begin with it and commit it; what follows in them is as if
\* requested next.
RecoverExpired ==
    /\ Late # {}
    /\ Expired(execution, request, lock, Late)
    /\ UNCHANGED <<act, allowed, online, claimed, events>>

Dispatch(a, x) ==
    /\ Late = {}
    /\ request[a].status = "approved" /\ ~request[a].lapsed
    /\ execution[a].status = "none"
    /\ lock.owner = a /\ ~lock.released /\ lock.frozen
    /\ x \in online
    /\ execution' = [execution EXCEPT ![a].status = "dispatching",
                        ![a].runner = x, ![a].token = lock.token]
    /\ request' = [request EXCEPT ![a].status = "dispatching"]
    /\ act' = [act EXCEPT ![a] = "compensating"]
    /\ UNCHANGED <<lock, allowed, online, claimed, events>>

\* The answer that carries the tokens may be lost.
ClaimCompensation(a, x) ==
    /\ x \in online /\ Late = {}
    /\ execution[a].status = "dispatching" /\ execution[a].runner = x
    /\ \A b \in Target : execution[b].status = "dispatching" => a <= b
    /\ lock.owner = a /\ lock.token = execution[a].token
    /\ execution' = [execution EXCEPT ![a].status = "running", ![a].lease = "live"]
    /\ request' = [request EXCEPT ![a].status = "running"]
    /\ claimed' \in {claimed, claimed \union {<<a, x>>}}
    /\ UNCHANGED <<act, lock, allowed, online, events>>

Owned(a, x) ==
    /\ execution[a].runner = x
    /\ execution[a].status = "running" /\ execution[a].lease = "live"
    /\ lock.owner = a /\ lock.token = execution[a].token

\* A renewal keeps a live lease live, which is a step that changes nothing here.
LeaseEnds(a) ==
    /\ execution[a].lease = "live" /\ Event
    /\ execution' = [execution EXCEPT ![a].lease = "expired"]
    /\ UNCHANGED <<act, lock, request, allowed, online, claimed>>

Settle(a, good) ==
    IF good
    THEN /\ lock' = [lock EXCEPT !.frozen = FALSE, !.released = TRUE]
         /\ act' = [act EXCEPT ![a] = "compensated"]
         /\ request' = [request EXCEPT ![a].status = "succeeded"]
    ELSE /\ lock' = [lock EXCEPT !.frozen = TRUE]
         /\ act' = [act EXCEPT ![a] = "escalated"]
         /\ request' = [request EXCEPT ![a].status = "escalated"]

\* A completion whose id was accepted before is answered without effect.
Complete(a, x, c, good) ==
    /\ <<a, x>> \in claimed /\ x \in online
    /\ execution[a].completion # c
    /\ Owned(a, x)
    /\ execution' = [execution EXCEPT
         ![a].status = IF good THEN "succeeded" ELSE "failed",
         ![a].completion = c, ![a].lease = "none"]
    /\ Settle(a, good)
    /\ UNCHANGED <<allowed, online, claimed, events>>

\* A request never stays "failed": complete turns it into "escalated".
MayEscalate(a) == request[a].status \in {"approved", "rejected", "unknown"}

Escalate(a) ==
    /\ MayEscalate(a)
    /\ request' = [request EXCEPT ![a].status = "escalated"]
    /\ act' = [act EXCEPT ![a] = "escalated"]
    /\ UNCHANGED <<lock, execution, allowed, online, claimed, events>>

RequestLapses(a) ==
    /\ request[a].status \in {"pending", "approved"} /\ ~request[a].lapsed
    /\ Event
    /\ request' = [request EXCEPT ![a].lapsed = TRUE]
    /\ UNCHANGED <<act, lock, execution, allowed, online, claimed>>

PolicyTurns ==
    /\ Event
    /\ allowed' = ~allowed
    /\ UNCHANGED <<act, lock, request, execution, online, claimed>>

RunnerTurns(x) ==
    /\ Event
    /\ online' = IF x \in online THEN online \ {x} ELSE online \union {x}
    /\ UNCHANGED <<act, lock, request, execution, allowed, claimed>>

CompNext ==
    \/ \E a \in Target : \/ FailVerification(a) \/ LeaseEnds(a)
                         \/ Escalate(a) \/ RequestLapses(a)
    \/ \E a \in Target, p \in Person : RequestCompensation(a, p)
    \/ \E a \in Target, p \in Person, y \in BOOLEAN : DecideCompensation(a, p, y)
    \/ RecoverExpired \/ PolicyTurns
    \/ \E x \in Executor : RunnerTurns(x)
    \/ \E a \in Target, x \in Executor : Dispatch(a, x) \/ ClaimCompensation(a, x)
    \/ \E a \in Target, x \in Executor, c \in Completion, g \in BOOLEAN :
          Complete(a, x, c, g)

CompSpec == CompInit /\ [][CompNext]_compVars

-----------------------------------------------------------------------------
(* Correctness *)

\* Every variable keeps its type; a request never ends as "failed".
CompTypeOK ==
    /\ act \in [Target -> {"ready", "verification_failed", "compensating",
                           "compensated", "escalated"}]
    /\ lock \in LockRow /\ request \in [Target -> RequestRow]
    /\ execution \in [Target -> ExecutionRow]
    /\ allowed \in BOOLEAN /\ online \subseteq Executor
    /\ claimed \subseteq Target \X Executor /\ events \in 0..MaxEvents

\* Until a compensation succeeded nobody else gets the resource: the lock stays
\* with the action and frozen, whatever expires, fails or is escalated.
FrozenUntilCompensated ==
    \A a \in Target :
        act[a] \in {"verification_failed", "compensating", "escalated"}
        => lock.owner = a /\ lock.frozen /\ ~lock.released

\* The action, the request and the execution tell one story: a running
\* execution has a running request and a compensating action, and an action
\* counts as compensated exactly when its execution succeeded.
OneStory ==
    \A a \in Target :
        /\ execution[a].status \in {"dispatching", "running"}
             => request[a].status = execution[a].status /\ act[a] = "compensating"
        /\ act[a] = "compensated" <=> execution[a].status = "succeeded"

\* What a runner carries out was approved by somebody other than its requester.
CompensationFourEyes ==
    \A a \in Target : execution[a].status # "none"
        => request[a].decidedBy \notin {NoOne, request[a].by}

\* The first outcome stays: a late or repeated completion changes nothing.
FirstOutcomeStays == [][
    \A a \in Target : execution[a].status \in {"succeeded", "failed", "unknown"}
        => execution'[a] = execution[a]]_compVars

\* A resource whose change failed is kept until it was put right, by people's consent.
CompensationKeepsResource ==
    /\ [](CompTypeOK /\ FrozenUntilCompensated /\ OneStory /\ CompensationFourEyes)
    /\ FirstOutcomeStays
=============================================================================
