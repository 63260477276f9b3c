------------------------------ MODULE Hypotheses ------------------------------
(***************************************************************************)
(* Hypotheses about one incident.  Clients load a hypothesis and send back *)
(* what they want changed: its status, its supporting or its contradicting *)
(* evidence, each or any of them; what is left out is kept.  Both handlers *)
(* hold the incident, so each is one step.                                 *)
(***************************************************************************)
EXTENDS Naturals

CONSTANTS
    Evidence,     \* pieces of evidence, of this incident once collected
    Client,       \* those who load and update a hypothesis
    MaxHypotheses,\* bound: hypotheses
    MaxUpdates    \* bound: versions of a hypothesis

ASSUME HypothesesConstants == MaxHypotheses \in Nat /\ MaxUpdates \in Nat \ {0}

Hypothesis == 1..MaxHypotheses
HypothesisStatus == {"proposed", "supported", "weakened", "rejected", "confirmed"}

\* _ALLOWED_TRANSITIONS of hypotheses
AllowedVerdicts == [s \in HypothesisStatus |->
    CASE s = "proposed" -> {"supported", "weakened", "rejected", "confirmed"}
      [] s = "supported" -> {"weakened", "rejected", "confirmed"}
      [] s = "weakened" -> {"supported", "rejected"}
      [] s = "confirmed" -> {"weakened", "rejected"}
      [] OTHER -> {}]

VARIABLES
    explored,   \* whether the status of the incident allows a new hypothesis
    collected,  \* evidence of the incident
    hypotheses, \* rows; version 0: not created
    held        \* the copy each client holds

hypVars == <<explored, collected, hypotheses, held>>

HypothesisRow == [version: 0..MaxUpdates, status: HypothesisStatus,
                  supporting: SUBSET Evidence, contradicting: SUBSET Evidence]
Absent == [version |-> 0, status |-> "proposed", supporting |-> {},
           contradicting |-> {}]

HypInit ==
    /\ explored = FALSE
    /\ collected = {}
    /\ hypotheses = [h \in Hypothesis |-> Absent]
    /\ held = [c \in Client |-> [of |-> 0, row |-> Absent]]

\* Other services move the incident into the statuses from CORRELATING to
\* PLANNING, OBSERVABILITY_LOST and NEEDS_HUMAN, or out of them, and collect
\* evidence.
MovePhase ==
    /\ explored' = ~explored
    /\ UNCHANGED <<collected, hypotheses, held>>

Collect(e) ==
    /\ e \notin collected
    /\ collected' = collected \union {e}
    /\ UNCHANGED <<explored, hypotheses, held>>

\* _validate_evidence
ValidEvidence(supporting, contradicting) ==
    /\ supporting \intersect contradicting = {}
    /\ supporting \union contradicting \subseteq collected

CreateHypothesis(h, supporting, contradicting) ==
    /\ hypotheses[h].version = 0
    /\ \A i \in Hypothesis : i < h => hypotheses[i].version > 0
    /\ explored
    /\ ValidEvidence(supporting, contradicting)
    /\ hypotheses' = [hypotheses EXCEPT ![h] =
         [version |-> 1, status |-> "proposed", supporting |-> supporting,
          contradicting |-> contradicting]]
    /\ UNCHANGED <<explored, collected, held>>

LoadHypothesis(c, h) ==
    /\ hypotheses[h].version > 0
    /\ held' = [held EXCEPT ![c] = [of |-> h, row |-> hypotheses[h]]]
    /\ UNCHANGED <<explored, collected, hypotheses>>

\* Mutant of Current: the version is not compared.
CurrentEnough(c) == held[c].of # 0

Current(c) == held[c].of # 0
              /\ hypotheses[held[c].of].version = held[c].row.version

\* The lists after the update are validated, those that were not sent included.
Merged(h, sends, supporting, contradicting) ==
    /\ sends \in SUBSET {"supporting", "contradicting"}
    /\ ValidEvidence(
         IF "supporting" \in sends THEN supporting ELSE hypotheses[h].supporting,
         IF "contradicting" \in sends THEN contradicting
                                      ELSE hypotheses[h].contradicting)

NewStatus(h, status) ==
    status = hypotheses[h].status
    \/ status \in AllowedVerdicts[hypotheses[h].status]

\* A client puts a piece of evidence on one side of its copy and sends that list
\* or both.
UpdateEvidence(c, e, supports) ==
    LET h == held[c].of
        s == IF supports THEN held[c].row.supporting \union {e}
                         ELSE held[c].row.supporting \ {e}
        n == IF supports THEN held[c].row.contradicting \ {e}
                         ELSE held[c].row.contradicting \union {e}
    IN  /\ Current(c) /\ hypotheses[h].version < MaxUpdates
        /\ \E sends \in {{IF supports THEN "supporting" ELSE "contradicting"},
                         {"supporting", "contradicting"}} :
             /\ Merged(h, sends, s, n)
             /\ hypotheses' = [hypotheses EXCEPT ![h] =
                  [version |-> hypotheses[h].version + 1,
                   status |-> hypotheses[h].status,
                   supporting |-> IF "supporting" \in sends THEN s
                                  ELSE hypotheses[h].supporting,
                   contradicting |-> IF "contradicting" \in sends THEN n
                                     ELSE hypotheses[h].contradicting]]
        /\ UNCHANGED <<explored, collected, held>>

\* A client judges the hypothesis by its copy.
UpdateStatus(c, status) ==
    LET h == held[c].of
    IN  /\ Current(c) /\ hypotheses[h].version < MaxUpdates
        /\ NewStatus(h, status)
        /\ Merged(h, {}, {}, {})
        /\ hypotheses' = [hypotheses EXCEPT ![h].status = status,
                            ![h].version = hypotheses[h].version + 1]
        /\ UNCHANGED <<explored, collected, held>>

HypNext ==
    \/ MovePhase
    \/ \E e \in Evidence : Collect(e)
    \/ \E h \in Hypothesis, s, n \in SUBSET Evidence : CreateHypothesis(h, s, n)
    \/ \E c \in Client, h \in Hypothesis : LoadHypothesis(c, h)
    \/ \E c \in Client, e \in Evidence, b \in BOOLEAN : UpdateEvidence(c, e, b)
    \/ \E c \in Client, s \in HypothesisStatus : UpdateStatus(c, s)

HypSpec == HypInit /\ [][HypNext]_hypVars

-----------------------------------------------------------------------------
(* Correctness *)

\* Every variable keeps its type, and no copy is newer than its row.
HypTypeOK ==
    /\ explored \in BOOLEAN /\ collected \subseteq Evidence
    /\ hypotheses \in [Hypothesis -> HypothesisRow]
    /\ held \in [Client -> [of: 0..MaxHypotheses, row: HypothesisRow]]
    /\ \A c \in Client : held[c].of # 0 =>
          held[c].row.version <= hypotheses[held[c].of].version

\* No piece of evidence supports and contradicts one hypothesis, and all of it
\* belongs to the incident, although a request may name only one of the lists.
EvidenceOnOneSide ==
    \A h \in Hypothesis :
        /\ hypotheses[h].supporting \intersect hypotheses[h].contradicting = {}
        /\ hypotheses[h].supporting \union hypotheses[h].contradicting
             \subseteq collected

\* Clients that only ever add evidence never remove what another one added.
NoEvidenceLost == [][
    \A h \in Hypothesis :
        hypotheses[h].supporting \union hypotheses[h].contradicting
        \subseteq hypotheses'[h].supporting \union hypotheses'[h].contradicting
    ]_hypVars

\* A rejected hypothesis is never taken up again.
RejectedStays == [][
    \A h \in Hypothesis : hypotheses[h].status = "rejected"
        => hypotheses'[h].status = "rejected"]_hypVars

\* Concurrent updates of a hypothesis neither lose nor confuse what was found out.
FindingsAreKept == [](HypTypeOK /\ EvidenceOnOneSide) /\ NoEvidenceLost /\ RejectedStays
=============================================================================
