------------------------------- MODULE DemoData -------------------------------
(***************************************************************************)
(* The demo installation of a control plane.  Its row is seeded and locked *)
(* by every initialize and cleanup, so these follow one another, but the   *)
(* clients that send them know only the generation they have last seen,    *)
(* and send a request again when its answer is lost.  Operators open       *)
(* incidents on the demo resources, and may delete rows by hand.           *)
(***************************************************************************)
EXTENDS Naturals, FiniteSets

CONSTANTS
    Client,         \* clients of the demo endpoints
    MaxGeneration,  \* bound: installations
    MaxOperator     \* bound: incidents that operators open

ASSUME DemoConstants == MaxGeneration \in Nat /\ MaxOperator \in Nat

VARIABLES
    installation,  \* demo_installations
    incidents,     \* incidents on the demo resources
    opened,        \* incidents that operators opened
    seen           \* generation that each client has last seen

demoVars == <<installation, incidents, opened, seen>>

\* generation 0 marks the incidents of operators.
Incident == [generation: 0..MaxGeneration, story: Nat]

Stories(g) == [generation: {g}, story: 1..2]

DemoInit ==
    /\ installation = [generation |-> 0, active |-> FALSE, incidents |-> {},
                       workspace |-> FALSE]
    /\ incidents = {} /\ opened = 0 /\ seen = [c \in Client |-> 0]

\* status
ReadStatus(c) ==
    /\ seen' = [seen EXCEPT ![c] = installation.generation]
    /\ UNCHANGED <<installation, incidents, opened>>

MayInitialize == ~installation.active

\* initialize; on an active installation it is a replay, or refused when the
\* incidents have drifted.
Initialize(c) ==
    LET g == installation.generation + 1
    IN  /\ MayInitialize /\ g <= MaxGeneration
        /\ installation' = [generation |-> g, active |-> TRUE, incidents |-> Stories(g),
                            workspace |-> TRUE]
        /\ incidents' = incidents \union Stories(g)
        /\ seen' = [seen EXCEPT ![c] = g]
        /\ UNCHANGED opened

\* _owned_incidents_intact
Intact == installation.incidents \subseteq incidents

\* Mutant of SameGeneration: what the client has seen is not compared.
AnyGeneration(c) == seen[c] > 0

SameGeneration(c) == seen[c] > 0 /\ seen[c] = installation.generation

Owned == installation.incidents

\* cleanup; it is refused when the incidents have drifted.
Cleanup(c) ==
    /\ installation.active /\ SameGeneration(c) /\ Intact
    /\ incidents' = incidents \ Owned
    /\ installation' = [installation EXCEPT !.active = FALSE, !.incidents = {}]
    /\ UNCHANGED <<opened, seen>>

\* An operator, or an alert, opens an incident on a demo resource.
OpenIncident ==
    /\ installation.workspace /\ opened < MaxOperator
    /\ opened' = opened + 1
    /\ incidents' = incidents \union {[generation |-> 0, story |-> opened + 1]}
    /\ UNCHANGED <<installation, seen>>

\* A row is deleted by hand.
DeleteByHand(i) ==
    /\ i \in incidents
    /\ incidents' = incidents \ {i}
    /\ UNCHANGED <<installation, opened, seen>>

DemoNext ==
    \/ \E c \in Client : ReadStatus(c) \/ Initialize(c) \/ Cleanup(c)
    \/ OpenIncident
    \/ \E i \in incidents : DeleteByHand(i)

DemoSpec == DemoInit /\ [][DemoNext]_demoVars

-----------------------------------------------------------------------------
(* Correctness *)

\* Every variable keeps its type, and the demo incidents that exist are those of the
\* installation: a request that is sent again makes no second set, and a cleanup
\* leaves none behind.
DemoIncidentsAreKnown ==
    /\ installation \in [generation: 0..MaxGeneration, active: BOOLEAN,
                         incidents: SUBSET Incident, workspace: BOOLEAN]
    /\ incidents \subseteq Incident /\ seen \in [Client -> 0..installation.generation]
    /\ \A i \in incidents : i.generation > 0 => i \in installation.incidents

\* A cleanup deletes only what belongs to the generation that its client has seen:
\* no incident of an operator, and none of a later generation.
CleanupIsExact == [][
    \A c \in Client :
        Cleanup(c) => \A i \in incidents \ incidents' : i.generation = seen[c]]_demoVars

\* Initialising and cleaning up again and again, from several clients, makes and deletes
\* exactly the demo data.
DemoIsExact == []DemoIncidentsAreKnown /\ CleanupIsExact
=============================================================================
