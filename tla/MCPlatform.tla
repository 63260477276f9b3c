------------------------------ MODULE MCPlatform ------------------------------
(***************************************************************************)
(* The components around the incident work, checked in one run: tokens of  *)
(* Runners, principals and browser sessions, the mode of the control plane,*)
(* its background workers, audit archival, database backups, the connectors*)
(* of a Runner, the demo data and the fault lab.  They share no state, so  *)
(* the run picks one and leaves the others at their initial values: it     *)
(* explores the sum of the state spaces.                                   *)
(***************************************************************************)
EXTENDS RunnerTokens, Access, ControlPlane, WorkerHealth, AuditArchive, Connectors,
        DemoData, Backups, FaultLab, TLC

CONSTANTS alice, bob

VARIABLE part  \* the component that this behaviour is about

People == Permutations(Principal)

Part == {"tokens", "access", "control plane", "workers", "archive", "connector",
         "demo", "backup", "lab"}

Init == /\ part \in Part
        /\ TokenInit /\ AccessInit /\ PlaneInit /\ HealthInit
        /\ ArchiveInit /\ ConnectorInit /\ DemoInit
        /\ BackupInit /\ LabInit
        /\ part # "control plane" => stale = {}
        /\ part # "backup" => database = "empty"
        /\ part # "lab" => inEffect = {}

Next ==
    \/ /\ part = "tokens" /\ TokenNext
       /\ UNCHANGED <<part, accessVars, planeVars, healthVars, archiveVars,
                      connectorVars, demoVars, backupVars, labVars>>
    \/ /\ part = "access" /\ AccessNext
       /\ UNCHANGED <<part, tokenVars, planeVars, healthVars, archiveVars,
                      connectorVars, demoVars, backupVars, labVars>>
    \/ /\ part = "control plane" /\ PlaneNext
       /\ UNCHANGED <<part, tokenVars, accessVars, healthVars, archiveVars,
                      connectorVars, demoVars, backupVars, labVars>>
    \/ /\ part = "workers" /\ HealthNext
       /\ UNCHANGED <<part, tokenVars, accessVars, planeVars, archiveVars,
                      connectorVars, demoVars, backupVars, labVars>>
    \/ /\ part = "archive" /\ ArchiveNext
       /\ UNCHANGED <<part, tokenVars, accessVars, planeVars, healthVars,
                      connectorVars, demoVars, backupVars, labVars>>
    \/ /\ part = "connector" /\ ConnectorNext
       /\ UNCHANGED <<part, tokenVars, accessVars, planeVars, healthVars,
                      archiveVars, demoVars, backupVars, labVars>>
    \/ /\ part = "demo" /\ DemoNext
       /\ UNCHANGED <<part, tokenVars, accessVars, planeVars, healthVars,
                      archiveVars, connectorVars, backupVars, labVars>>
    \/ /\ part = "backup" /\ BackupNext
       /\ UNCHANGED <<part, tokenVars, accessVars, planeVars, healthVars,
                      archiveVars, connectorVars, demoVars, labVars>>
    \/ /\ part = "lab" /\ LabNext
       /\ UNCHANGED <<part, tokenVars, accessVars, planeVars, healthVars,
                      archiveVars, connectorVars, demoVars, backupVars>>

Spec == Init /\ [][Next]_<<part, tokenVars, accessVars, planeVars, healthVars,
                          archiveVars, connectorVars, demoVars, backupVars, labVars>>
=============================================================================
