------------------------- MODULE ResourceExclusion -------------------------
(***************************************************************************)
(* What the control plane promises about one resource, without leases,     *)
(* rows, requests or Runners: the resource is granted to one action at a   *)
(* time under a token that only grows, only the action that holds it is    *)
(* ever writing, and while the effect of a write is uncertain the resource *)
(* is frozen and is granted to nobody.                                     *)
(***************************************************************************)
EXTENDS Naturals

CONSTANTS Actions, NoAction

VARIABLES
    phase,      \* free, held, lapsed (held past its lease) or frozen
    holder,     \* the action the resource was last granted to
    token,      \* the number of that grant
    writers     \* actions entitled to write to the resource now

vars == <<phase, holder, token, writers>>

TypeOK ==
    /\ phase \in {"free", "held", "lapsed", "frozen"}
    /\ holder \in Actions \union {NoAction}
    /\ token \in Nat
    /\ writers \subseteq Actions

Init ==
    /\ phase = "free"
    /\ holder = NoAction
    /\ token = 0
    /\ writers = {}

\* The next action gets the resource, and a token nobody had before.
Grant(a) ==
    /\ phase \in {"free", "lapsed"}
    /\ writers = {}
    /\ phase' = "held"
    /\ holder' = a
    /\ token' = token + 1
    /\ UNCHANGED writers

\* The holder starts to write; its grant counts again if it had lapsed.
StartWriting(a) ==
    /\ phase \in {"held", "lapsed"}
    /\ holder = a
    /\ writers = {}
    /\ phase' = "held"
    /\ writers' = {a}
    /\ UNCHANGED <<holder, token>>

\* The writer stops: it lost its lease, or reports that it failed, or that it
\* succeeded, which has to be verified.
StopWriting ==
    /\ phase = "held"
    /\ writers # {}
    /\ writers' = {}
    /\ phase' \in {"held", "lapsed", "free", "frozen"}
    /\ UNCHANGED <<holder, token>>

\* A grant nobody writes under lapses or is given back.
Lapse ==
    /\ phase = "held"
    /\ writers = {}
    /\ phase' \in {"lapsed", "free"}
    /\ UNCHANGED <<holder, token, writers>>

GiveBack ==
    /\ phase = "lapsed"
    /\ phase' = "free"
    /\ UNCHANGED <<holder, token, writers>>

\* The outcome of a write that just stopped is uncertain.
Freeze ==
    /\ phase \in {"held", "lapsed"}
    /\ writers = {}
    /\ phase' = "frozen"
    /\ UNCHANGED <<holder, token, writers>>

\* The uncertainty is settled.
Thaw ==
    /\ phase = "frozen"
    /\ phase' = "free"
    /\ UNCHANGED <<holder, token, writers>>

Next ==
    \/ \E a \in Actions : Grant(a) \/ StartWriting(a)
    \/ StopWriting
    \/ Lapse
    \/ GiveBack
    \/ Freeze
    \/ Thaw

Spec == Init /\ [][Next]_vars

\* Only the holder writes, under an unexpired grant; nobody writes to a frozen
\* resource.
OnlyHolderWrites ==
    writers # {} => phase = "held" /\ writers = {holder}
=============================================================================
