------------------------------- MODULE FaultLab --------------------------------
(***************************************************************************)
(* The controller of the fault lab.  A caller asks, with an idempotency    *)
(* key, to inject or to clean up the fault of a scenario.  The controller  *)
(* works on one request at a time, calls the service that has the fault,   *)
(* and only then notes the scenario as active and the answer for replays.  *)
(* A call may fail with or without effect, or have its effect after the    *)
(* controller has given it up.  A restart forgets everything and clears    *)
(* all faults before it serves; the lock on SQLite ends with the process.  *)
(***************************************************************************)
EXTENDS Naturals, FiniteSets

CONSTANTS Remote,   \* the scenarios whose fault is in another service
          User, Key,
          MaxLate   \* how many calls may be on their way after they were given up

\* NoMutation is about no scenario.
ASSUME LabConstants == "none" \notin Remote

Local == "sqlite_locked"
Scenario == Remote \cup {Local}

VARIABLES
    active,   \* the scenarios that the controller calls active
    replays,  \* key -> the request it was used for, or NoMutation
    inEffect, \* the scenarios whose fault is in effect
    calls,    \* per caller: its request and where it is
    givenUp,  \* calls that may still have their effect
    cleared,  \* the faults cleared so far by the starting process
    started,  \* the process has started
    doubt,    \* the scenarios of which the last call to have an effect failed or came late
    worked    \* how many requests this process has carried out for a key, up to 2

labVars == <<active, replays, inEffect, calls, givenUp, cleared, started, doubt, worked>>

NoMutation == [scenario |-> "none", inject |-> FALSE]
Mutation == [scenario : Scenario, inject : BOOLEAN]
Nobody == [at |-> "idle", key |-> "none", request |-> NoMutation]

LabInit ==
    /\ active = {}
    /\ replays = [k \in Key |-> NoMutation]
    /\ inEffect \in SUBSET Remote
    /\ calls = [c \in User |-> Nobody]
    /\ givenUp = {}
    /\ cleared = {}
    /\ started = FALSE
    /\ doubt = {}
    /\ worked = [k \in Key |-> 0]

Switched(set, s, on) == IF on THEN set \cup {s} ELSE set \ {s}

-----------------------------------------------------------------------------
(* initialize: the faults are cleared one after the other; an error starts over. *)

ToClear == Remote

ClearFault(s) ==
    /\ ~started
    /\ s \in ToClear \ cleared
    /\ inEffect' = inEffect \ {s}
    /\ cleared' = cleared \cup {s}
    /\ doubt' = doubt \ {s}
    /\ UNCHANGED <<active, replays, calls, givenUp, started, worked>>

ClearFails(s) ==
    /\ ~started
    /\ s \in ToClear \ cleared
    /\ cleared' = {}
    /\ \E took \in BOOLEAN : inEffect' = IF took THEN inEffect \ {s} ELSE inEffect
    /\ UNCHANGED <<active, replays, calls, givenUp, started, doubt, worked>>

StartServing ==
    /\ ~started
    /\ cleared = ToClear
    /\ started' = TRUE
    /\ UNCHANGED <<active, replays, inEffect, calls, givenUp, cleared, doubt, worked>>

-----------------------------------------------------------------------------
(* mutate *)

Ask(c, k, request) ==
    /\ started
    /\ calls[c].at = "idle"
    /\ calls' = [calls EXCEPT ![c] = [at |-> "waiting", key |-> k, request |-> request]]
    /\ UNCHANGED <<active, replays, inEffect, givenUp, cleared, started, doubt, worked>>

Inside(c) == calls[c].at \in {"calling", "answered"}

\* Mutant of MayEnter: without the lock.
AnyoneMayEnter == TRUE

MayEnter == \A c \in User : ~Inside(c)

(* A key that was used is answered from the replays, or refused when it was used for
   another request; either way nothing is called. *)
Enter(c) ==
    /\ calls[c].at = "waiting"
    /\ MayEnter
    /\ calls' = [calls EXCEPT ![c] =
                   IF replays[@.key] = NoMutation THEN [@ EXCEPT !.at = "calling"] ELSE Nobody]
    /\ UNCHANGED <<active, replays, inEffect, givenUp, cleared, started, doubt, worked>>

(* The service does what it is calls for, and then its answer arrives. *)
TakeEffect(c) ==
    LET request == calls[c].request
    IN  /\ calls[c].at = "calling"
        /\ inEffect' = Switched(inEffect, request.scenario, request.inject)
        /\ calls' = [calls EXCEPT ![c].at = "answered"]
        /\ doubt' = doubt \ {request.scenario}
        /\ UNCHANGED <<active, replays, givenUp, cleared, started, worked>>

Finish(c) ==
    LET request == calls[c].request
    IN  /\ calls[c].at = "answered"
        /\ active' = Switched(active, request.scenario, request.inject)
        /\ replays' = [replays EXCEPT ![calls[c].key] = request]
        /\ calls' = [calls EXCEPT ![c] = Nobody]
        /\ worked' = [worked EXCEPT ![calls[c].key] = IF @ = 2 THEN 2 ELSE @ + 1]
        /\ UNCHANGED <<inEffect, givenUp, cleared, started, doubt>>

(* An error answer, a lost answer, or a timeout: the scenario is left as it was noted. *)
CallFails(c) ==
    LET request == calls[c].request
    IN  /\ Inside(c)
        /\ calls[c].at = "answered" => request.scenario \in Remote
        /\ calls' = [calls EXCEPT ![c] = Nobody]
        /\ doubt' = doubt \cup {request.scenario}
        /\ \/ UNCHANGED givenUp
           \/ /\ calls[c].at = "calling" /\ request.scenario \in Remote
              /\ Cardinality(givenUp) < MaxLate
              /\ givenUp' = givenUp \cup {request}
        /\ UNCHANGED <<active, replays, inEffect, cleared, started, worked>>

LateEffect ==
    \E request \in givenUp :
        /\ inEffect' = Switched(inEffect, request.scenario, request.inject)
        /\ givenUp' = givenUp \ {request}
        /\ doubt' = doubt \cup {request.scenario}
        /\ UNCHANGED <<active, replays, calls, cleared, started, worked>>

(* The process ends, orderly or not: no fault is cleaned up but the lock on SQLite. *)
Stop ==
    /\ started
    /\ started' = FALSE
    /\ active' = {} /\ cleared' = {} /\ doubt' = {}
    /\ worked' = [k \in Key |-> 0]
    /\ replays' = [k \in Key |-> NoMutation]
    /\ calls' = [c \in User |-> Nobody]
    /\ inEffect' = inEffect \ {Local}
    /\ UNCHANGED givenUp

LabNext ==
    \/ \E s \in Remote : ClearFault(s) \/ ClearFails(s)
    \/ StartServing
    \/ \E c \in User :
         \/ \E k \in Key, request \in Mutation : Ask(c, k, request)
         \/ Enter(c) \/ TakeEffect(c) \/ Finish(c) \/ CallFails(c)
    \/ LateEffect \/ Stop

-----------------------------------------------------------------------------
(* While the process serves and nobody is at work on it, a scenario is called active just
   when its fault is in effect, unless the last call about it failed or came late.  The
   clearing at the start and the one lock around call and bookkeeping bring this about. *)
ActiveIsInEffect ==
    started => \A s \in Scenario \ doubt :
        (\A c \in User : ~(Inside(c) /\ calls[c].request.scenario = s))
            => (s \in active <=> s \in inEffect)

(* However many retries come with one key, at the same time or later, one process carries
   out the request of that key once. *)
OneWorkPerKey == \A k \in Key : worked[k] <= 1

\* Retries, failing calls and restarts leave the controller knowing its faults.
FaultsAreKnown == ActiveIsInEffect /\ OneWorkPerKey
=============================================================================
