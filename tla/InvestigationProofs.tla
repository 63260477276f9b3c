-------------------------- MODULE InvestigationProofs --------------------------
(***************************************************************************)
(* RunIsConsistent and RecoveryFollowsGraph, proved of every behaviour of  *)
(* InvestigationRuntime, for every number of workers, runs, iterations,    *)
(* faults and every budget.                                                *)
(***************************************************************************)
EXTENDS InvestigationRuntime, FiniteSetTheorems, WellFoundedInduction,
        TLAPS

USE RuntimeConstants

-----------------------------------------------------------------------------
(* The graph as a path: where a checkpoint has its node, and what lies behind it *)

Versions == {"graph-v1", "graph-v2"}
Size(v) == Len(NodesOf(v))
NodeSet(v) == {NodesOf(v)[k] : k \in 1..Size(v)}
Place(v, n) == CHOOSE k \in DOMAIN NodesOf(v) : NodesOf(v)[k] = n

\* The part of a checkpoint that the path of a run depends on.
Point == [node: Node \union {None}, iteration: Iteration, next: RuntimeAction]
Same(c, d) == c.node = d.node /\ c.iteration = d.iteration /\ c.next = d.next

\* A node execution lies on the path up to a checkpoint.
Within(v, c, k) ==
    \/ Place(v, k[1]) <= 5 /\ k[2] = 0 /\ Place(v, k[1]) <= Place(v, c.node)
    \/ 5 < Place(v, k[1]) /\ Place(v, k[1]) < Size(v) /\ k[2] < c.iteration
    \/ 5 < Place(v, k[1]) /\ Place(v, k[1]) <= Place(v, c.node) /\ k[2] = c.iteration
Reached(v, c) ==
    {k \in NodeSet(v) \X Iteration : c.node # None /\ Within(v, c, k)}

\* What write_checkpoint stores: no iteration before the context is complete, and
\* no decision to continue past the limit of iterations or the end of the graph.
Sound(v, c) ==
    /\ c.node \in NodeSet(v) \union {None}
    /\ c.iteration \in Iteration /\ c.next \in RuntimeAction
    /\ c.node \in {None} \union ContextNodes => c.iteration = 0
    /\ c.node = None => c.next = None
    /\ c.node = "maybe_replan" /\ c.next = "continue" => c.iteration + 1 < MaxIterations
    /\ c.node = "escalate_or_finish" => c.next # "continue"

\* Soundness and what was reached depend only on that part.
LEMMA SamePoint ==
    ASSUME NEW v, NEW c, NEW d, Same(c, d)
    PROVE  (Sound(v, c) <=> Sound(v, d)) /\ Reached(v, c) = Reached(v, d)
<1>1. c.node = d.node /\ c.iteration = d.iteration /\ c.next = d.next
    BY DEF Same
<1>2. Sound(v, c) <=> Sound(v, d)
    BY <1>1 DEF Sound
<1>3. \A k : Within(v, c, k) <=> Within(v, d, k)
    BY <1>1 DEF Within
<1>4. Reached(v, c) = Reached(v, d)
    BY <1>1, <1>3 DEF Reached
<1> QED
    BY <1>2, <1>4

\* The node execution that follows a checkpoint when next is the action in force.
Onward(v, c, next) ==
    CASE c.node = None -> <<"load_incident", 0>>
      [] c.node = "maybe_replan" /\ next = "continue" ->
            <<"select_next_step", c.iteration + 1>>
      [] OTHER -> <<Following(v, c.node), c.iteration>>

\* A job is skipping what lies behind its checkpoint, or is at the node after it.
Walking(v, c, j) ==
    /\ c.node # None /\ j.iteration = c.iteration
    /\ Place(v, j.node) <= Place(v, c.node)
AtFrontier(v, c, j) ==
    ~StoppedAt(c.node, j.next) /\ <<j.node, j.iteration>> = Onward(v, c, j.next)

LEMMA GraphSequences ==
    ASSUME NEW v \in Versions
    PROVE  /\ Size(v) \in {10, 11} /\ DOMAIN NodesOf(v) = 1..Size(v)
           /\ NodesOf(v)[1] = "load_incident" /\ NodesOf(v)[5] = "create_plan"
           /\ NodesOf(v)[6] = "select_next_step"
           /\ NodesOf(v)[Size(v) - 1] = "maybe_replan"
           /\ NodesOf(v)[Size(v)] = "escalate_or_finish"
           /\ NodeSet(v) \subseteq Node
           /\ \A k \in 1..Size(v) : NodesOf(v)[k] \in ContextNodes <=> k <= 5
           /\ \A k, m \in 1..Size(v) : NodesOf(v)[k] = NodesOf(v)[m] => k = m
<1>1. CASE v = "graph-v1"
    BY <1>1 DEF Versions, Size, NodesOf, GraphV1, NodeSet, Node, ToSet, GraphV2, ContextNodes
<1>2. CASE v = "graph-v2"
    BY <1>2 DEF Versions, Size, NodesOf, GraphV1, NodeSet, Node, ToSet, GraphV2, ContextNodes
<1> QED
    BY <1>1, <1>2 DEF Versions

LEMMA Places ==
    ASSUME NEW v \in Versions
    PROVE  /\ \A n \in NodeSet(v) : Place(v, n) \in 1..Size(v) /\ NodesOf(v)[Place(v, n)] = n
           /\ \A k \in 1..Size(v) : NodesOf(v)[k] \in NodeSet(v) /\ Place(v, NodesOf(v)[k]) = k
           /\ \A n \in NodeSet(v) : n \in ContextNodes <=> Place(v, n) <= 5
<1>1. \A k \in 1..Size(v) : NodesOf(v)[k] \in NodeSet(v)
    BY DEF NodeSet
<1>2. \A n \in NodeSet(v) : \E k \in 1..Size(v) : NodesOf(v)[k] = n
    BY Zenon DEF NodeSet
<1>3. \A n \in NodeSet(v) : Place(v, n) \in 1..Size(v) /\ NodesOf(v)[Place(v, n)] = n
    BY <1>2, GraphSequences DEF Place
<1>4. \A k \in 1..Size(v) : Place(v, NodesOf(v)[k]) = k
    BY <1>1, <1>3, GraphSequences
<1>5. \A n \in NodeSet(v) : n \in ContextNodes <=> Place(v, n) <= 5
    BY <1>3, GraphSequences
<1> QED
    BY <1>1, <1>3, <1>4, <1>5

LEMMA NodePlaces ==
    ASSUME NEW v \in Versions
    PROVE  /\ Size(v) \in {10, 11} /\ NodeSet(v) \subseteq Node
           /\ \A n \in NodeSet(v) : Place(v, n) \in 1..Size(v)
           /\ \A n, m \in NodeSet(v) : Place(v, n) = Place(v, m) => n = m
           /\ \A n \in NodeSet(v) : n \in ContextNodes <=> Place(v, n) <= 5
           /\ "load_incident" \in NodeSet(v) /\ Place(v, "load_incident") = 1
           /\ "create_plan" \in NodeSet(v) /\ Place(v, "create_plan") = 5
           /\ "select_next_step" \in NodeSet(v) /\ Place(v, "select_next_step") = 6
           /\ "maybe_replan" \in NodeSet(v) /\ Place(v, "maybe_replan") = Size(v) - 1
           /\ "escalate_or_finish" \in NodeSet(v) /\ Place(v, "escalate_or_finish") = Size(v)
           /\ None \notin Node /\ End \notin Node
<1>1. Size(v) \in {10, 11} /\ 1 \in 1..Size(v) /\ 5 \in 1..Size(v) /\ 6 \in 1..Size(v)
      /\ Size(v) - 1 \in 1..Size(v) /\ Size(v) \in 1..Size(v)
    BY GraphSequences
<1>2. \A n, m \in NodeSet(v) : Place(v, n) = Place(v, m) => n = m
    BY Places
<1>3. None \notin Node /\ End \notin Node
    BY DEF None, End, Node, ToSet, GraphV2
<1> QED
    BY <1>1, <1>2, <1>3, Places, GraphSequences

LEMMA FollowingPlace ==
    ASSUME NEW v \in Versions, NEW n \in NodeSet(v), n # "escalate_or_finish"
    PROVE  /\ Following(v, n) \in NodeSet(v)
           /\ Place(v, Following(v, n)) = Place(v, n) + 1
<1>1. Following(v, n) = NodesOf(v)[Place(v, n) + 1]
    BY DEF Following, Place
<1>2. Place(v, n) \in 1..Size(v) /\ Place(v, n) # Size(v) /\ Size(v) \in {10, 11}
    BY NodePlaces
<1>3. Place(v, n) + 1 \in 1..Size(v)
    BY <1>2
<1> QED
    BY <1>1, <1>3, Places

\* The next node execution is new, and adds itself to what has been reached.
LEMMA NextIsNew ==
    ASSUME NEW v \in Versions, NEW c, Sound(v, c),
           NEW x \in {None, c.next}, ~StoppedAt(c.node, x),
           NEW n, NEW i, <<n, i>> = Onward(v, c, x)
    PROVE  /\ n \in NodeSet(v) /\ i \in Iteration
           /\ n \in ContextNodes => i = 0
           /\ <<n, i>> \notin Reached(v, c)
           /\ n = "maybe_replan" => c.iteration = i
           /\ n = "escalate_or_finish" => x # "continue" 
           /\ c.iteration <= i
           /\ \A d : d.node = n /\ d.iteration = i =>
                 Reached(v, d) = Reached(v, c) \union {<<n, i>>}
<1> USE NodePlaces
<1>0. c.iteration \in Nat /\ c.iteration < MaxIterations /\ 0 \in Iteration
    BY DEF Sound, Iteration
<1>d. ASSUME NEW d, d.node = n, d.iteration = i, n \in NodeSet(v)
      PROVE  Reached(v, d) = {k \in NodeSet(v) \X Iteration : Within(v, [node |-> n, iteration |-> i], k)}
    BY <1>d DEF Reached, Within
<1>1. CASE c.node = None
  <2>1. n = "load_incident" /\ i = 0
      BY <1>1 DEF Onward
  <2>2. Reached(v, c) = {}
      BY <1>1 DEF Reached
  <2>3. ASSUME NEW k \in NodeSet(v) \X Iteration
        PROVE  Within(v, [node |-> n, iteration |-> i], k) <=> k = <<n, i>>
    <3>1. k[1] \in NodeSet(v) /\ k[2] \in Nat /\ k = <<k[1], k[2]>>
        BY <2>3 DEF Iteration
    <3> QED
        BY <3>1, <2>1 DEF Within
  <2> QED
      BY <2>1, <2>2, <2>3, <1>0, <1>1, <1>d DEF Sound, ContextNodes
<1>2. CASE c.node # None /\ c.node = "maybe_replan" /\ x = "continue"
  <2>1. n = "select_next_step" /\ i = c.iteration + 1
      BY <1>2 DEF Onward
  <2>2. i \in Iteration /\ n \in NodeSet(v) /\ n \notin ContextNodes
      BY <1>0, <1>2, <2>1 DEF Sound, Iteration, None
  <2>3. ASSUME NEW k \in NodeSet(v) \X Iteration
        PROVE  Within(v, [node |-> n, iteration |-> i], k) <=> Within(v, c, k) \/ k = <<n, i>>
    <3>1. k[1] \in NodeSet(v) /\ k[2] \in Nat /\ k = <<k[1], k[2]>>
        BY <2>3 DEF Iteration
    <3> QED
        BY <3>1, <2>1, <1>2, <1>0 DEF Within
  <2>4. <<n, i>> \notin Reached(v, c)
      BY <2>1, <1>0, <1>2 DEF Reached, Within
  <2> QED
      BY <2>1, <2>2, <2>3, <2>4, <1>0, <1>2, <1>d DEF Reached
<1>3. CASE c.node # None /\ ~(c.node = "maybe_replan" /\ x = "continue")
  <2>1. n = Following(v, c.node) /\ i = c.iteration /\ c.node \in NodeSet(v)
        /\ c.node # "escalate_or_finish"
      BY <1>3 DEF Onward, Sound, StoppedAt
  <2>2. n \in NodeSet(v) /\ Place(v, n) = Place(v, c.node) + 1 /\ Place(v, c.node) \in 1..Size(v)
      BY <2>1, FollowingPlace
  <2>3. /\ n \in ContextNodes => i = 0
        /\ Place(v, c.node) <= 5 => c.iteration = 0
        /\ n = "escalate_or_finish" => c.node = "maybe_replan"
        /\ i \in Iteration
      BY <2>1, <2>2, <1>0 DEF Sound, Iteration
  <2>4. ASSUME NEW k \in NodeSet(v) \X Iteration
        PROVE  Within(v, [node |-> n, iteration |-> i], k) <=> Within(v, c, k) \/ k = <<n, i>>
    <3>1. k[1] \in NodeSet(v) /\ k[2] \in Nat /\ k = <<k[1], k[2]>>
        BY <2>4 DEF Iteration
    <3>2. k = <<n, i>> <=> Place(v, k[1]) = Place(v, n) /\ k[2] = i
        BY <3>1, <2>2
    <3> QED
        BY <3>1, <3>2, <2>1, <2>2, <2>3, <1>0 DEF Within
  <2>5. <<n, i>> \notin Reached(v, c)
      BY <2>1, <2>2, <1>0 DEF Reached, Within
  <2> QED
      BY <2>1, <2>2, <2>3, <2>4, <2>5, <1>0, <1>3, <1>d DEF Reached
<1> QED
    BY <1>1, <1>2, <1>3

\* What lies behind a checkpoint has been reached.
LEMMA WalkedIsReached ==
    ASSUME NEW v \in Versions, NEW c, Sound(v, c), NEW j \in Job,
           j.node \in NodeSet(v), Walking(v, c, j)
    PROVE  Key(j) \in Reached(v, c)
<1>1. /\ c.node \in NodeSet(v) /\ Place(v, c.node) \in 1..Size(v)
      /\ Place(v, j.node) \in 1..Size(v) /\ c.iteration \in Nat /\ 0 \in Iteration
      /\ j.node \in ContextNodes <=> Place(v, j.node) <= 5
    BY NodePlaces DEF Sound, Walking, Iteration
<1>2. Key(j) = <<j.node, IF Place(v, j.node) <= 5 THEN 0 ELSE c.iteration>>
    BY <1>1 DEF Key, KeyIteration, Walking
<1> QED
    BY <1>1, <1>2 DEF Reached, Within, Walking, Sound

LEMMA FrontierIsNew ==
    ASSUME NEW v \in Versions, NEW c, Sound(v, c), NEW j \in Job,
           j.next \in {None, c.next}, AtFrontier(v, c, j)
    PROVE  /\ Key(j) = <<j.node, j.iteration>> /\ KeyIteration(j) = j.iteration
           /\ Key(j) = Onward(v, c, j.next) /\ Key(j) \notin Reached(v, c)
           /\ j.node \in NodeSet(v) /\ j.iteration \in Iteration
<1>1. <<j.node, j.iteration>> = Onward(v, c, j.next) /\ ~StoppedAt(c.node, j.next)
    BY DEF AtFrontier
<1>2. /\ j.node \in NodeSet(v) /\ j.iteration \in Iteration
      /\ j.node \in ContextNodes => j.iteration = 0
      /\ <<j.node, j.iteration>> \notin Reached(v, c)
    BY <1>1, NextIsNew
<1> QED
    BY <1>1, <1>2 DEF Key, KeyIteration

\* Routing a job that has finished a node up to its checkpoint keeps it on the path,
\* or ends its execution for the reason the checkpoint gives.
Kept(j, k) ==
    /\ k.run = j.run /\ k.done = j.done /\ k.noProgress = j.noProgress
    /\ k.next = j.next /\ k.out = j.out /\ k.seen = j.seen
LEMMA RoutedStaysOnPath ==
    ASSUME NEW v \in Versions, NEW c, Sound(v, c), NEW j \in Job,
           j.node \in NodeSet(v), Walking(v, c, j), j.next \in {None, c.next}
    PROVE  /\ Routed(j, v) \in Job /\ Kept(j, Routed(j, v))
           /\ \/ /\ Routed(j, v).pc = "node" /\ Routed(j, v).node \in NodeSet(v)
                 /\ Walking(v, c, Routed(j, v)) \/ AtFrontier(v, c, Routed(j, v))
              \/ /\ Routed(j, v).pc = "finish"
                 /\ Routed(j, v).target \in {"paused", "completed"}
                 /\ Routed(j, v).target = "paused" => j.next \in Stopping
<1> DEFINE k == Routed(j, v)
<1>1. /\ c.node \in NodeSet(v) /\ c.node # None /\ Place(v, c.node) \in 1..Size(v)
      /\ Place(v, j.node) \in 1..Size(v) /\ c.iteration \in Nat /\ 0 \in Iteration
      /\ Place(v, j.node) <= Place(v, c.node) /\ j.iteration = c.iteration
      /\ NodeSet(v) \subseteq Node
    BY NodePlaces DEF Sound, Walking, Iteration
<1>2. CASE j.node = "maybe_replan" /\ j.next = "continue"
  <2>1. c.next = "continue" /\ c.node = "maybe_replan" /\ c.iteration + 1 < MaxIterations
      BY <1>1, <1>2, NodePlaces DEF Sound, None
  <2>2. k = [j EXCEPT !.pc = "node", !.node = "select_next_step",
                      !.iteration = j.iteration + 1]
      BY <1>2 DEF Routed, Stopping, Interrupting
  <2> HIDE DEF k
  <2>3. "node" \in PC /\ j.iteration + 1 \in Iteration /\ "select_next_step" \in NodeSet(v)
      BY <1>1, <2>1, NodePlaces DEF PC, Iteration
  <2>6. "select_next_step" \in Node
      BY <2>3, <1>1
  <2>4. k \in Job /\ Kept(j, k) /\ k.pc = "node" /\ k.node = "select_next_step"
        /\ k.iteration = c.iteration + 1 /\ k.next = "continue"
      BY <1>1, <1>2, <2>2, <2>3, <2>6 DEF Job, Kept
  <2>5. AtFrontier(v, c, k)
      BY <2>1, <2>4, <1>1 DEF AtFrontier, Onward, StoppedAt, Stopping, Interrupting
  <2> QED
      BY <2>3, <2>4, <2>5 DEF k
<1>3. CASE ~(j.node = "maybe_replan" /\ j.next = "continue") /\ StoppedAt(j.node, j.next)
  <2> DEFINE t == IF j.next \in Stopping THEN "paused" ELSE "completed"
  <2>1. k = [j EXCEPT !.pc = "finish", !.node = End, !.target = t]
      BY <1>3 DEF Routed, StoppedAt
  <2>2. t \in RunStatus /\ "finish" \in PC
      BY DEF RunStatus, PC
  <2>3. k \in Job /\ Kept(j, k) /\ k.pc = "finish" /\ k.target = t
      BY <2>1, <2>2, ZenonT(40) DEF Job, Kept
  <2> QED
      BY <2>3
<1>4. CASE ~(j.node = "maybe_replan" /\ j.next = "continue") /\ ~StoppedAt(j.node, j.next)
  <2> DEFINE n == Following(v, j.node)
  <2>1. k = [j EXCEPT !.pc = "node", !.node = n]
      BY <1>4 DEF Routed, StoppedAt
  <2>2. n \in NodeSet(v) /\ Place(v, n) = Place(v, j.node) + 1
      BY <1>4, FollowingPlace DEF StoppedAt
  <2>3. k \in Job /\ Kept(j, k) /\ k.pc = "node" /\ k.node = n /\ k.iteration = j.iteration
      BY <2>1, <2>2, <1>1, ZenonT(40) DEF Job, Kept, PC
  <2>4. CASE Place(v, j.node) = Place(v, c.node)
    <3>1. j.node = c.node
        BY <2>4, <1>1, NodePlaces
    <3>2. Onward(v, c, k.next) = <<n, j.iteration>>
        BY <3>1, <2>3, <1>1, <1>4 DEF Onward, Kept
    <3>3. AtFrontier(v, c, k)
        BY <3>1, <3>2, <2>3, <1>4 DEF AtFrontier, Kept
    <3> QED
        BY <3>3, <2>2, <2>3
  <2>5. CASE Place(v, j.node) # Place(v, c.node)
    <3>1. Walking(v, c, k)
        BY <2>5, <2>2, <2>3, <1>1 DEF Walking
    <3> QED
        BY <3>1, <2>2, <2>3
  <2> QED
      BY <2>4, <2>5
<1> QED
    BY <1>2, <1>3, <1>4

-----------------------------------------------------------------------------
(* The inductive invariant of the path *)

Walks == {"node", "call", "write", "writing"}

\* What a job between two checkpoints knows of the last one it has seen.
JobAt(v, c, j) ==
    /\ Sound(v, c) /\ j.done = Reached(v, c)
    /\ j.next \in {None, c.next} /\ j.node \in NodeSet(v)
    /\ AtFrontier(v, c, j) \/ (j.pc = "node" /\ Walking(v, c, j))

\* The checkpoint that a job would write next has been overtaken: a write of it is
\* refused, whatever it contains.
Passed(v, c, next, d, i) ==
    \/ StoppedAt(c.node, next)
    \/ Onward(v, c, next) \in d
    \/ Onward(v, c, next)[2] < i

\* A job is abreast of its run, or has been overtaken if its write could get through.
Follows(c, j, w, row, l, d) ==
    /\ JobAt(row.graph, c, j)
    /\ j.done = d => Same(c, l)
    /\ row.owner = w =>
          j.done = d \/ Passed(row.graph, c, j.next, d, row.iteration)
    /\ j.pc = "writing" /\ j.seen.sequence = row.sequence =>
          /\ j.seen.iteration = row.iteration /\ j.seen.used = row.used
          /\ j.done = d \/ Passed(row.graph, c, j.next, d, row.iteration)
OutFits(j) ==
    /\ j.out.next = "continue" => j.node = "maybe_replan"
    /\ j.out.wait # None => j.node \in Interrupting /\ j.out.next = "pause"
    /\ j.out.requests <= CallLimit
JobSound(j, w, row, l, d) ==
    /\ j.pc = "writing" => j.seen.sequence <= row.sequence
    /\ j.pc \in {"write", "writing"} => OutFits(j)
    /\ j.pc \in {"finish", "finishing"} => j.target \in {"paused", "completed", "failed"}
    /\ j.pc \in Walks => /\ j.done \subseteq d
                         /\ \E c \in Point : Follows(c, j, w, row, l, d)
JobOK(w) ==
    worker[w].pc # "idle" =>
        /\ worker[w].run \in Run
        /\ JobSound(worker[w], w, run[worker[w].run], last[worker[w].run],
                    done[worker[w].run])

On(w, r) == worker[w].pc # "idle" /\ worker[w].run = r
OnPath(w, r) == worker[w].pc \in Walks /\ worker[w].run = r

RowSound(row, l, d) ==
    /\ row.owner # None => row.status = "running"
    /\ row.lease # None => row.owner # None
    /\ row.iteration = l.iteration /\ Sound(row.graph, l)
    /\ d = Reached(row.graph, l)
    /\ IsFiniteSet(d) /\ row.sequence = Cardinality(d)
    /\ row.used <= RequestLimit
    /\ row.status = None => l.node = None
Untouched(r) == run[r].status = None => \A w \in Worker : ~On(w, r)

\* A job that forgot the action of the latest checkpoint, or one that did not while
\* others may: a wait is over then, and the owner of the lease has forgotten it too.
Forgetful(r) ==
    \A w \in Worker :
        OnPath(w, r) /\ worker[w].done = done[r] /\ worker[w].next # last[r].next =>
            /\ WaitIsOver(r)
            /\ \A x \in Worker : OnPath(x, r) /\ run[r].owner = x =>
                  worker[x].done = done[r] /\ worker[x].next = None

PathInv ==
    /\ TypeOK
    /\ \A r \in Run : RowSound(run[r], last[r], done[r])
    /\ \A r \in Run : Untouched(r)
    /\ \A w \in Worker : JobOK(w)
    /\ \A r \in Run : Forgetful(r)

LEMMA PathInit == RunInit => PathInv
<1> SUFFICES ASSUME RunInit PROVE PathInv
    OBVIOUS
<1> USE DEF RunInit
<1>1. \A v \in Graphs : v \in Versions
    BY DEF RuntimeConstants, Versions
<1>2. NoRun \in RunRow /\ NoRun.graph \in Graphs
    BY DEF NoRun, RunRow, RunStatus, None, Iteration, RuntimeConstants
<1>3. Idle \in Job
    BY DEF Idle, Job, PC, NoOutcome, Outcome, NoSeen, Seen, Iteration, RuntimeAction,
           RuntimeConstants, None
<1>4. NoWait \in HitlRow /\ NoWait \in ObsRow /\ None \in ProposalStatus
    BY DEF NoWait, HitlRow, ObsRow, WaitStatus, ProposalStatus
<1>5. \A r \in Run : last[r] \in Checkpoint
    BY DEF Checkpoint, RuntimeAction, Iteration, RuntimeConstants
<1>6. TypeOK
    BY <1>2, <1>3, <1>4, <1>5 DEF TypeOK
<1>7. ASSUME NEW r \in Run PROVE RowSound(run[r], last[r], done[r])
  <2>1. run[r] = NoRun /\ last[r].node = None /\ last[r].iteration = 0
        /\ last[r].next = None /\ done[r] = {}
      OBVIOUS
  <2>2. Sound(NoRun.graph, last[r])
      BY <2>1 DEF Sound, RuntimeAction, Iteration, RuntimeConstants, None
  <2>3. Reached(NoRun.graph, last[r]) = {}
      BY <2>1 DEF Reached
  <2>4. /\ NoRun.owner = None /\ NoRun.lease = None /\ NoRun.iteration = 0
        /\ NoRun.sequence = 0 /\ NoRun.used = 0
      BY DEF NoRun
  <2>5. run[r].used <= RequestLimit
      BY <2>1, <2>4 DEF RuntimeConstants
  <2>6. run[r].sequence = Cardinality(done[r]) /\ IsFiniteSet(done[r])
      BY <2>1, <2>4, FS_EmptySet
  <2> QED
      BY <2>1, <2>2, <2>3, <2>4, <2>5, <2>6, Zenon DEF RowSound
<1>8. \A w \in Worker : worker[w].pc = "idle"
    BY DEF Idle
<1>9. \A w \in Worker : JobOK(w)
    BY <1>8 DEF JobOK
<1>10. \A r \in Run : Untouched(r) /\ Forgetful(r)
    BY <1>8 DEF Untouched, On, Forgetful, OnPath, Walks
<1> QED
    BY <1>6, <1>7, <1>9, <1>10 DEF PathInv

-----------------------------------------------------------------------------
(* Steps that write no checkpoint *)

\* No row of a run forgets what its jobs rely on...
RowsSteady ==
    \A r \in Run :
        /\ run'[r].iteration = run[r].iteration /\ run'[r].sequence = run[r].sequence
        /\ run'[r].used = run[r].used
        /\ run'[r].graph = run[r].graph \/ run[r].status = None
        /\ run[r].status # None => run'[r].status # None
        /\ run'[r].owner # None => run'[r].status = "running"
        /\ run'[r].lease # None => run'[r].owner # None
        /\ \A x \in Worker :
              run'[r].owner = x => run[r].owner = x \/ worker'[x].pc \notin Walks
        /\ WaitIsOver(r) => WaitIsOver(r)'
\* ...and every job stays what it is, or has a place on the path of its run.
JobsSteady ==
    \A w \in Worker :
        \/ worker'[w] = worker[w]
        \/ /\ JobOK(w)'
           /\ worker'[w].pc # "idle" => run'[worker'[w].run].status # None
Remembered ==
    \A w \in Worker : worker'[w].pc \in Walks =>
        /\ worker[w].pc \in Walks /\ worker'[w].run = worker[w].run
        /\ worker'[w].done = worker[w].done /\ worker'[w].next = worker[w].next

LEMMA SteadyStep ==
    ASSUME PathInv, TypeOK', RowsSteady, JobsSteady, UNCHANGED <<last, done>>,
           Remembered \/ \A r \in Run : Forgetful(r)'
    PROVE  PathInv'
<1>1. ASSUME NEW r \in Run PROVE RowSound(run'[r], last'[r], done'[r])
  <2>1. RowSound(run[r], last[r], done[r]) /\ last'[r] = last[r] /\ done'[r] = done[r]
      BY DEF PathInv
  <2>2. CASE run'[r].graph = run[r].graph
      BY <2>1, <2>2 DEF RowSound, RowsSteady
  <2>3. CASE run[r].status = None
    <3>1. last[r].node = None /\ done[r] = {}
        BY <2>1, <2>3 DEF RowSound, Reached
    <3>2. Sound(run'[r].graph, last[r])
        BY <2>1, <3>1 DEF RowSound, Sound, None
    <3>3. Reached(run'[r].graph, last[r]) = {}
        BY <3>1 DEF Reached
    <3> QED
        BY <2>1, <3>1, <3>2, <3>3 DEF RowSound, RowsSteady
  <2> QED
      BY <2>2, <2>3 DEF RowsSteady
<1>2. ASSUME NEW r \in Run PROVE Untouched(r)'
  <2>1. SUFFICES ASSUME run'[r].status = None, NEW w \in Worker PROVE ~On(w, r)'
      BY DEF Untouched
  <2>2. run[r].status = None /\ ~On(w, r)
      BY <2>1 DEF RowsSteady, PathInv, Untouched
  <2> QED
      BY <2>1, <2>2 DEF On, JobsSteady
<1>3. ASSUME NEW w \in Worker PROVE JobOK(w)'
  <2>1. SUFFICES ASSUME worker'[w] = worker[w], worker[w].pc # "idle" PROVE JobOK(w)'
      BY DEF JobsSteady, JobOK
  <2> DEFINE j == worker[w]
             r == j.run
  <2>2. r \in Run /\ JobSound(j, w, run[r], last[r], done[r])
      BY <2>1 DEF PathInv, JobOK
  <2>3. run[r].status # None
      BY <2>1, <2>2 DEF PathInv, Untouched, On
  <2>4. /\ run'[r].iteration = run[r].iteration /\ run'[r].sequence = run[r].sequence
        /\ run'[r].used = run[r].used /\ run'[r].graph = run[r].graph
        /\ j.pc \in Walks => (run'[r].owner = w => run[r].owner = w)
      BY <2>1, <2>2, <2>3 DEF RowsSteady
  <2>5. JobSound(j, w, run'[r], last[r], done[r])
    <3>1. \A c : j.pc \in Walks /\ Follows(c, j, w, run[r], last[r], done[r])
                    => Follows(c, j, w, run'[r], last[r], done[r])
        BY <2>4, Zenon DEF Follows
    <3> QED
        BY <2>2, <2>4, <3>1 DEF JobSound
  <2> QED
      BY <2>1, <2>2, <2>5 DEF JobOK
<1>4. ASSUME NEW r \in Run, Remembered PROVE Forgetful(r)'
  <2>1. SUFFICES ASSUME NEW w \in Worker, OnPath(w, r)', worker'[w].done = done[r],
                        worker'[w].next # last[r].next
                 PROVE  /\ WaitIsOver(r)'
                        /\ \A x \in Worker : OnPath(x, r)' /\ run'[r].owner = x =>
                              worker'[x].done = done[r] /\ worker'[x].next = None
      BY DEF Forgetful
  <2>2. OnPath(w, r) /\ worker[w].done = done[r] /\ worker[w].next # last[r].next
      BY <2>1, <1>4 DEF OnPath, Remembered
  <2>3. /\ WaitIsOver(r)
        /\ \A x \in Worker : OnPath(x, r) /\ run[r].owner = x =>
              worker[x].done = done[r] /\ worker[x].next = None
      BY <2>2 DEF PathInv, Forgetful
  <2>4. ASSUME NEW x \in Worker, OnPath(x, r)', run'[r].owner = x
        PROVE  worker'[x].done = done[r] /\ worker'[x].next = None
      BY <2>3, <2>4, <1>4 DEF OnPath, Remembered, RowsSteady
  <2> QED
      BY <2>3, <2>4 DEF RowsSteady
<1> QED
    BY <1>1, <1>2, <1>3, <1>4 DEF PathInv

LEMMA MovedRow ==
    ASSUME NEW row \in RunRow, NEW target \in RunStatus
    PROVE  /\ Moved(row, target) \in RunRow /\ Moved(row, target).status = target
           /\ Moved(row, target).iteration = row.iteration
           /\ Moved(row, target).sequence = row.sequence
           /\ Moved(row, target).used = row.used /\ Moved(row, target).graph = row.graph
           /\ IF target \in Terminal \union {"paused"}
              THEN Moved(row, target).owner = None /\ Moved(row, target).lease = None
              ELSE /\ Moved(row, target).owner = row.owner
                   /\ Moved(row, target).lease = row.lease
BY DEF Moved, RunRow

LEMMA RequeuedRow ==
    ASSUME NEW row \in RunRow
    PROVE  /\ Requeued(row) \in RunRow
           /\ Requeued(row).iteration = row.iteration
           /\ Requeued(row).sequence = row.sequence
           /\ Requeued(row).used = row.used /\ Requeued(row).graph = row.graph
           /\ IF row.status = "paused"
              THEN /\ Requeued(row).status = "queued"
                   /\ Requeued(row).owner = None /\ Requeued(row).lease = None
              ELSE Requeued(row) = row
BY DEF Requeued, RunRow, RunStatus

\* Waits are typed and stay resolved when they are cancelled or resumed.
LEMMA WaitsKept ==
    ASSUME NEW f \in [Iteration -> HitlRow]
    PROVE  /\ CancelledWaits(f) \in [Iteration -> HitlRow]
           /\ \A i \in Iteration : /\ CancelledWaits(f)[i].status # "waiting"
                                   /\ f[i].status # "waiting" => CancelledWaits(f)[i] = f[i]
           /\ Resumed(f) \in [Iteration -> HitlRow]
           /\ \A i \in Iteration : Resumed(f)[i].status = f[i].status
<1>1. \A i \in Iteration : f[i] \in HitlRow /\ f[i].status \in WaitStatus
    BY DEF HitlRow
<1>2. "cancelled" \in WaitStatus /\ TRUE \in BOOLEAN
    BY DEF WaitStatus
<1> QED
    BY <1>1, <1>2 DEF CancelledWaits, Resumed, HitlRow

LEMMA WaitRows == ObsRow = HitlRow
BY DEF ObsRow, HitlRow

LEMMA CreateKeepsPath ==
    ASSUME PathInv, NEW r \in Run, NEW v \in Graphs, CreateRun(r, v)
    PROVE  PathInv'
<1> USE DEF CreateRun, waits
<1> DEFINE row == [run[r] EXCEPT !.status = "queued", !.graph = v]
<1>1. TypeOK /\ RowSound(run[r], last[r], done[r])
    BY DEF PathInv
<1>2. run' = [run EXCEPT ![r] = row]
    BY <1>1 DEF TypeOK
<1>3. row \in RunRow /\ row.iteration = run[r].iteration /\ row.sequence = run[r].sequence
      /\ row.used = run[r].used /\ row.status = "queued"
      /\ row.owner = run[r].owner /\ row.lease = run[r].lease
  <2>1. run[r] \in RunRow
      BY <1>1 DEF TypeOK
  <2> QED
      BY <2>1 DEF RunRow, RunStatus
<1>4. run[r].owner = None /\ run[r].lease = None
    BY <1>1 DEF RowSound, None
<1> HIDE DEF row
<1>5. TypeOK'
  <2>1. run' \in [Run -> RunRow]
      BY <1>1, <1>2, <1>3 DEF TypeOK
  <2> QED
      BY <1>1, <2>1, Zenon DEF TypeOK
<1>6. \A s \in Run : WaitIsOver(s) => WaitIsOver(s)'
    BY DEF WaitIsOver
<1>7. RowsSteady
  <2> SUFFICES ASSUME NEW s \in Run
               PROVE  /\ run'[s].iteration = run[s].iteration
                      /\ run'[s].sequence = run[s].sequence
                      /\ run'[s].used = run[s].used
                      /\ run'[s].graph = run[s].graph \/ run[s].status = None
                      /\ run[s].status # None => run'[s].status # None
                      /\ run'[s].owner # None => run'[s].status = "running"
                      /\ run'[s].lease # None => run'[s].owner # None
                      /\ run'[s].owner = run[s].owner
      BY <1>6 DEF RowsSteady
  <2> QED
      BY <1>1, <1>2, <1>3, <1>4 DEF PathInv, RowSound, TypeOK, None
<1>8. JobsSteady /\ Remembered
    BY DEF JobsSteady, Remembered
<1> QED
    BY <1>5, <1>7, <1>8, SteadyStep

\* What a request, a decision or a lease may do to the row of a run.
RowMoves(r, row) ==
    /\ row \in RunRow
    /\ row.iteration = run[r].iteration /\ row.sequence = run[r].sequence
    /\ row.used = run[r].used /\ row.graph = run[r].graph
    /\ run[r].status # None => row.status # None
    /\ row.owner # None => row.status = "running"
    /\ row.lease # None => row.owner # None

LEMMA OutsideKeepsPath ==
    ASSUME PathInv, NEW r \in Run, NEW row, RowMoves(r, row), row.owner \in {None, run[r].owner},
           run' = [run EXCEPT ![r] = row], UNCHANGED <<last, done, worker>>, TypeOK',
           \A s \in Run : WaitIsOver(s) => WaitIsOver(s)'
    PROVE  PathInv'
<1>1. RowsSteady
  <2> SUFFICES ASSUME NEW s \in Run
               PROVE  /\ run'[s].iteration = run[s].iteration
                      /\ run'[s].sequence = run[s].sequence
                      /\ run'[s].used = run[s].used
                      /\ run'[s].graph = run[s].graph
                      /\ run[s].status # None => run'[s].status # None
                      /\ run'[s].owner # None => run'[s].status = "running"
                      /\ run'[s].lease # None => run'[s].owner # None
                      /\ run'[s].owner \in {None, run[s].owner}
      BY DEF RowsSteady, RuntimeConstants, None
  <2>1. RowSound(run[s], last[s], done[s]) /\ TypeOK
      BY DEF PathInv
  <2>2. CASE s = r
      BY <2>1, <2>2 DEF RowMoves, TypeOK
  <2>3. CASE s # r
      BY <2>1, <2>3 DEF TypeOK, RowSound
  <2> QED
      BY <2>2, <2>3
<1>2. JobsSteady /\ Remembered
    BY DEF JobsSteady, Remembered
<1> QED
    BY <1>1, <1>2, SteadyStep

LEMMA TransitionKeepsPath ==
    ASSUME PathInv, NEW r \in Run, NEW target \in RunStatus, TransitionRun(r, target),
           faults' \in Nat
    PROVE  PathInv'
<1> USE DEF TransitionRun
<1>1. TypeOK /\ RowSound(run[r], last[r], done[r]) /\ run[r] \in RunRow
    BY DEF PathInv, TypeOK
<1>2. target \in {"running"} \union Terminal \union {"paused"}
  <2>1. run[r].status \in RunStatus
      BY <1>1 DEF RunRow
  <2> QED
      BY <2>1 DEF RunAllowed, RunStatus, Terminal
<1>3. RowMoves(r, Moved(run[r], target)) /\ Moved(run[r], target).owner \in {None, run[r].owner}
    BY <1>1, <1>2, MovedRow DEF RowMoves, RowSound, RunStatus, None, Terminal
<1>4. /\ hitl' \in [Run -> [Iteration -> HitlRow]] /\ obs' \in [Run -> [Iteration -> ObsRow]]
      /\ \A s \in Run, i \in Iteration :
            /\ hitl[s][i].status = "resolved" => hitl'[s][i] = hitl[s][i]
            /\ obs[s][i].status = "resolved" => obs'[s][i] = obs[s][i]
  <2>1. hitl[r] \in [Iteration -> HitlRow] /\ obs[r] \in [Iteration -> HitlRow]
      BY <1>1, WaitRows DEF TypeOK
  <2>2. CASE target = "cancelled"
    <3>1. CancelledWaits(hitl[r]) \in [Iteration -> HitlRow]
          /\ CancelledWaits(obs[r]) \in [Iteration -> HitlRow]
          /\ \A i \in Iteration :
                /\ hitl[r][i].status = "resolved" => CancelledWaits(hitl[r])[i] = hitl[r][i]
                /\ obs[r][i].status = "resolved" => CancelledWaits(obs[r])[i] = obs[r][i]
        BY <2>1, WaitsKept
    <3> QED
        BY <2>2, <3>1, <1>1, WaitRows, ZenonT(40) DEF TypeOK
  <2>3. CASE target # "cancelled"
      BY <2>3, <1>1 DEF TypeOK
  <2> QED
      BY <2>2, <2>3
<1>5. \A s \in Run : WaitIsOver(s) => WaitIsOver(s)'
    BY <1>4 DEF WaitIsOver
<1>6. TypeOK'
  <2>1. run' \in [Run -> RunRow]
      BY <1>1, <1>3 DEF TypeOK, RowMoves
  <2> QED
      BY <1>1, <1>4, <2>1, Zenon DEF TypeOK
<1> QED
    BY <1>3, <1>5, <1>6, OutsideKeepsPath

LEMMA DecideKeepsPath ==
    ASSUME PathInv, NEW r \in Run, NEW i \in Iteration, DecideApproval(r, i)
    PROVE  PathInv'
<1> USE DEF DecideApproval
<1>1. TypeOK /\ RowSound(run[r], last[r], done[r]) /\ run[r] \in RunRow
      /\ hitl[r] \in [Iteration -> HitlRow]
    BY DEF PathInv, TypeOK
<1>2. proposal' \in [Run -> [Iteration -> ProposalStatus]]
    BY <1>1 DEF TypeOK, ProposalStatus
<1>3. /\ hitl' \in [Run -> [Iteration -> HitlRow]]
      /\ \A s \in Run, k \in Iteration :
            hitl[s][k].status = "resolved" => hitl'[s][k].status = "resolved"
  <2>1. CASE hitl[r][i].status = "waiting"
    <3> DEFINE wait == [hitl[r][i] EXCEPT !.status = "resolved"]
    <3>1. wait \in HitlRow /\ wait.status = "resolved"
        BY <1>1 DEF HitlRow, WaitStatus
    <3>2. hitl' = [hitl EXCEPT ![r] = [hitl[r] EXCEPT ![i] = wait]]
        BY <2>1, <1>1 DEF TypeOK
    <3> HIDE DEF wait
    <3> QED
        BY <3>1, <3>2, <1>1 DEF TypeOK
  <2>2. CASE hitl[r][i].status # "waiting"
      BY <2>2, <1>1 DEF TypeOK
  <2> QED
      BY <2>1, <2>2
<1>4. \A s \in Run : WaitIsOver(s) => WaitIsOver(s)'
    BY <1>3 DEF WaitIsOver
<1> DEFINE row == IF hitl[r][i].status = "waiting" THEN Requeued(run[r]) ELSE run[r]
<1>5. run' = [run EXCEPT ![r] = row]
    BY <1>1 DEF TypeOK
<1>6. RowMoves(r, row) /\ row.owner \in {None, run[r].owner}
    BY <1>1, RequeuedRow DEF RowMoves, RowSound, None, RunStatus
<1> HIDE DEF row
<1>7. TypeOK'
  <2>1. run' \in [Run -> RunRow]
      BY <1>1, <1>5, <1>6 DEF TypeOK, RowMoves
  <2> QED
      BY <1>1, <1>2, <1>3, <2>1, Zenon DEF TypeOK
<1> QED
    BY <1>4, <1>5, <1>6, <1>7, OutsideKeepsPath

LEMMA ResolveKeepsPath ==
    ASSUME PathInv, NEW r \in Run, NEW i \in Iteration, ResolveTask(r, i)
    PROVE  PathInv'
<1> USE DEF ResolveTask
<1>1. TypeOK /\ RowSound(run[r], last[r], done[r]) /\ run[r] \in RunRow
      /\ obs[r] \in [Iteration -> HitlRow]
    BY WaitRows DEF PathInv, TypeOK
<1>3. /\ obs' \in [Run -> [Iteration -> ObsRow]]
      /\ \A s \in Run, k \in Iteration :
            obs[s][k].status = "resolved" => obs'[s][k].status = "resolved"
  <2> DEFINE wait == [obs[r][i] EXCEPT !.status = "resolved"]
  <2>1. wait \in HitlRow /\ wait.status = "resolved"
      BY <1>1 DEF HitlRow, WaitStatus
  <2>2. obs' = [obs EXCEPT ![r] = [obs[r] EXCEPT ![i] = wait]]
      BY <1>1 DEF TypeOK
  <2> HIDE DEF wait
  <2>3. obs \in [Run -> [Iteration -> HitlRow]]
      BY <1>1, WaitRows DEF TypeOK
  <2>4. obs' \in [Run -> [Iteration -> HitlRow]]
      BY <2>1, <2>2, <2>3
  <2>5. \A s \in Run, k \in Iteration :
            obs[s][k].status = "resolved" => obs'[s][k].status = "resolved"
      BY <2>1, <2>2, <2>3
  <2> QED
      BY <2>4, <2>5, WaitRows
<1>4. \A s \in Run : WaitIsOver(s) => WaitIsOver(s)'
    BY <1>3 DEF WaitIsOver
<1>6. RowMoves(r, Requeued(run[r])) /\ Requeued(run[r]).owner \in {None, run[r].owner}
    BY <1>1, RequeuedRow DEF RowMoves, RowSound, None, RunStatus
<1>7. TypeOK'
  <2>1. run' \in [Run -> RunRow]
      BY <1>1, <1>6 DEF TypeOK, RowMoves
  <2> QED
      BY <1>1, <1>3, <2>1, Zenon DEF TypeOK, waits
<1> QED
    BY <1>4, <1>6, <1>7, OutsideKeepsPath

LEMMA ExpiryKeepsPath ==
    ASSUME PathInv, NEW r \in Run, LeaseExpires(r)
    PROVE  PathInv'
<1> USE DEF LeaseExpires, waits
<1> DEFINE row == [run[r] EXCEPT !.lease = "expired"]
<1>1. TypeOK /\ RowSound(run[r], last[r], done[r]) /\ run[r] \in RunRow
    BY DEF PathInv, TypeOK
<1>2. run' = [run EXCEPT ![r] = row]
    BY <1>1 DEF TypeOK
<1>3. RowMoves(r, row) /\ row.owner = run[r].owner
    BY <1>1 DEF RowMoves, RowSound, RunRow, None
<1> HIDE DEF row
<1>4. TypeOK'
  <2>1. run' \in [Run -> RunRow]
      BY <1>1, <1>2, <1>3 DEF TypeOK, RowMoves
  <2>2. faults' \in Nat
      BY <1>1 DEF TypeOK
  <2> QED
      BY <1>1, <2>1, <2>2, Zenon DEF TypeOK
<1>5. \A s \in Run : WaitIsOver(s) => WaitIsOver(s)'
    BY DEF WaitIsOver
<1> QED
    BY <1>2, <1>3, <1>4, <1>5, OutsideKeepsPath

-----------------------------------------------------------------------------
(* Steps of a worker *)

LEMMA RestingRows ==
    ASSUME PathInv, UNCHANGED run, \A r \in Run : WaitIsOver(r) => WaitIsOver(r)'
    PROVE  RowsSteady
<1>1. \A r \in Run : RowSound(run[r], last[r], done[r])
    BY DEF PathInv
<1> QED
    BY <1>1, Zenon DEF RowsSteady, RowSound

\* A job that may be of a run: it knows its place, or is between two executions.
Placed(job, w) ==
    job.pc # "idle" =>
        /\ job.run \in Run /\ run[job.run].status # None
        /\ JobSound(job, w, run'[job.run], last[job.run], done[job.run])
Recalls(w, job) ==
    job.pc \in Walks =>
        /\ worker[w].pc \in Walks /\ job.run = worker[w].run
        /\ job.done = worker[w].done /\ job.next = worker[w].next

LEMMA JobMoves ==
    ASSUME PathInv, TypeOK', RowsSteady, UNCHANGED <<last, done>>, NEW w \in Worker,
           NEW job, worker' = [worker EXCEPT ![w] = job], Placed(job, w),
           Recalls(w, job) \/ \A r \in Run : Forgetful(r)'
    PROVE  PathInv'
<1>1. worker'[w] = job /\ \A x \in Worker \ {w} : worker'[x] = worker[x]
    BY DEF PathInv, TypeOK
<1>2. JobsSteady
  <2> SUFFICES ASSUME NEW x \in Worker
               PROVE  \/ worker'[x] = worker[x]
                      \/ /\ JobOK(x)'
                         /\ worker'[x].pc # "idle" => run'[worker'[x].run].status # None
      BY DEF JobsSteady
  <2>1. CASE x = w
    <3>1. JobOK(w)'
        BY <1>1, Zenon DEF JobOK, Placed
    <3>2. job.pc # "idle" => run'[job.run].status # None
        BY DEF Placed, RowsSteady
    <3> QED
        BY <2>1, <3>1, <3>2, <1>1
  <2> QED
      BY <2>1, <1>1
<1>3. Recalls(w, job) => Remembered
    BY <1>1 DEF Recalls, Remembered
<1> QED
    BY <1>2, <1>3, SteadyStep

LEMMA JobFacts ==
    ASSUME PathInv, NEW w \in Worker, worker[w].pc # "idle"
    PROVE  /\ worker[w] \in Job /\ worker[w].run \in Run
           /\ run[worker[w].run] \in RunRow /\ run[worker[w].run].status # None
           /\ run[worker[w].run].graph \in Versions
           /\ JobSound(worker[w], w, run[worker[w].run], last[worker[w].run],
                       done[worker[w].run])
           /\ RowSound(run[worker[w].run], last[worker[w].run], done[worker[w].run])
<1> DEFINE r == worker[w].run
<1>1. worker[w] \in Job /\ r \in Run /\ JobSound(worker[w], w, run[r], last[r], done[r])
    BY DEF PathInv, TypeOK, JobOK
<1>2. run[r] \in RunRow /\ run[r].graph \in Versions
    BY <1>1 DEF PathInv, TypeOK, RunRow, Versions, RuntimeConstants
<1>3. run[r].status # None
    BY <1>1 DEF PathInv, Untouched, On
<1> QED
    BY <1>1, <1>2, <1>3 DEF PathInv

LEMMA IdleIsPlaced ==
    ASSUME NEW w
    PROVE  Idle \in Job /\ Placed(Idle, w) /\ Recalls(w, Idle)
<1>1. Idle \in Job
    BY DEF Idle, Job, PC, NoOutcome, Outcome, NoSeen, Seen, Iteration, RuntimeAction,
           RuntimeConstants, None
<1> QED
    BY <1>1 DEF Placed, Recalls, Idle, Walks

\* A worker that lets go of its run, or whose process dies.
LEMMA IdleKeepsPath ==
    ASSUME PathInv, NEW w \in Worker, GoIdle(w), UNCHANGED <<run, last, done, waits, spent>>,
           faults' \in Nat
    PROVE  PathInv'
<1>1. worker' = [worker EXCEPT ![w] = Idle]
    BY DEF GoIdle
<1>2. \A r \in Run : WaitIsOver(r) => WaitIsOver(r)'
    BY DEF waits, WaitIsOver
<1>3. TypeOK'
  <2>1. TypeOK
      BY DEF PathInv
  <2>2. worker' \in [Worker -> Job]
      BY <2>1, <1>1, IdleIsPlaced DEF TypeOK
  <2> QED
      BY <2>1, <2>2, Zenon DEF TypeOK, waits
<1> QED
    BY <1>1, <1>2, <1>3, RestingRows, IdleIsPlaced, JobMoves

\* The execution fails, in the handler or in the transaction of the checkpoint.
LEMMA FailureKeepsPath ==
    ASSUME PathInv, NEW w \in Worker, worker[w].pc # "idle", Fail(w),
           UNCHANGED <<run, last, done, waits, faults>>, spent' \in [Run -> Nat]
    PROVE  PathInv'
<1> DEFINE job == [worker[w] EXCEPT !.pc = "finish", !.target = "failed", !.node = End,
                                    !.out = NoOutcome, !.seen = NoSeen]
<1>1. TypeOK /\ worker[w] \in Job /\ worker[w].run \in Run
      /\ run[worker[w].run].status # None
    BY JobFacts DEF PathInv
<1>2. worker' = [worker EXCEPT ![w] = job]
    BY <1>1 DEF Fail, TypeOK
<1>3. job \in Job /\ job.pc = "finish" /\ job.run = worker[w].run /\ job.target = "failed"
  <2>1. NoOutcome \in Outcome /\ NoSeen \in Seen /\ "finish" \in PC /\ "failed" \in RunStatus
      BY DEF NoOutcome, Outcome, NoSeen, Seen, Iteration, RuntimeAction,
             RuntimeConstants, None, PC, RunStatus
  <2> QED
      BY <1>1, <2>1 DEF Job
<1> HIDE DEF job
<1>4. Placed(job, w) /\ Recalls(w, job)
    BY <1>1, <1>3 DEF Placed, Recalls, JobSound, Walks
<1>5. \A r \in Run : WaitIsOver(r) => WaitIsOver(r)'
    BY DEF waits, WaitIsOver
<1>6. TypeOK'
  <2>1. worker' \in [Worker -> Job]
      BY <1>1, <1>2, <1>3 DEF TypeOK
  <2> QED
      BY <1>1, <2>1, Zenon DEF TypeOK, waits
<1> QED
    BY <1>2, <1>4, <1>5, <1>6, RestingRows, JobMoves

\* A set of natural numbers has a least one.
LEMMA LeastExists ==
    ASSUME NEW T, T \subseteq Nat, T # {}
    PROVE  \E x \in T : \A y \in T : x <= y
<1> DEFINE R == {ss \in Nat \X Nat : ss[1] < ss[2]}
<1>1. IsWellFoundedOn(R, Nat)
  <2>1. R = OpToRel(<, Nat)
    BY Zenon DEF OpToRel
  <2> QED
    BY <2>1, NatLessThanWellFounded, Zenon
<1>2. \A x, y \in Nat : x < y => <<x, y>> \in R
  OBVIOUS
<1> HIDE DEF R
<1>3. PICK x \in T : \A y \in T : ~(<<y, x>> \in R)
  BY <1>1, WFMin, Zenon
<1>4. ASSUME NEW y \in T PROVE x <= y
  <2>1. ~(<<y, x>> \in R)
    BY <1>3
  <2>2. ~(y < x)
    BY <1>2, <2>1, Zenon
  <2> QED
    BY <2>2
<1> QED
  BY <1>4

LEMMA ClaimedRun ==
    ASSUME Claimable # {}
    PROVE  Min(Claimable) \in Run /\ Min(Claimable) \in Claimable
<1>1. Claimable \in SUBSET Nat /\ Claimable \subseteq Run
    BY DEF Claimable, Run
<1>2. \E r \in Claimable : \A s \in Claimable : r <= s
    BY <1>1, LeastExists, Zenon
<1> QED
    BY <1>1, <1>2, Zenon DEF Min

LEMMA ClaimKeepsPath ==
    ASSUME PathInv, NEW w \in Worker, Claim(w)
    PROVE  PathInv'
<1> DEFINE r == Min(Claimable)
           row == [run[r] EXCEPT !.status = "running", !.owner = w, !.lease = "live"]
           job == [worker[w] EXCEPT !.pc = "claimed", !.run = r]
<1>1. TypeOK /\ r \in Run /\ r \in Claimable /\ run[r] \in RunRow /\ worker[w] \in Job
      /\ run[r].status # None
    BY ClaimedRun DEF Claim, PathInv, TypeOK, Claimable, None
<1>2. run' = [run EXCEPT ![r] = row] /\ worker' = [worker EXCEPT ![w] = job]
    BY <1>1 DEF Claim, TypeOK
<1>3. /\ hitl' = [hitl EXCEPT ![r] = Resumed(hitl[r])]
      /\ obs' = [obs EXCEPT ![r] = Resumed(obs[r])]
      /\ UNCHANGED <<last, done, proposal, spent, faults>>
    BY DEF Claim
<1>4. /\ row \in RunRow /\ row.status = "running" /\ row.owner = w /\ row.lease = "live"
      /\ row.iteration = run[r].iteration /\ row.sequence = run[r].sequence
      /\ row.used = run[r].used /\ row.graph = run[r].graph
    BY <1>1 DEF RunRow, RunStatus
<1>5. job \in Job /\ job.pc = "claimed" /\ job.run = r
    BY <1>1 DEF Job, PC
<1> HIDE DEF row, job, r
<1>6. /\ hitl' \in [Run -> [Iteration -> HitlRow]] /\ obs' \in [Run -> [Iteration -> HitlRow]]
      /\ \A s \in Run, i \in Iteration : /\ hitl'[s][i].status = hitl[s][i].status
                                         /\ obs'[s][i].status = obs[s][i].status
  <2>1. hitl \in [Run -> [Iteration -> HitlRow]] /\ obs \in [Run -> [Iteration -> HitlRow]]
      BY <1>1, WaitRows DEF TypeOK
  <2>2. /\ Resumed(hitl[r]) \in [Iteration -> HitlRow]
        /\ Resumed(obs[r]) \in [Iteration -> HitlRow]
        /\ \A i \in Iteration : /\ Resumed(hitl[r])[i].status = hitl[r][i].status
                                /\ Resumed(obs[r])[i].status = obs[r][i].status
      BY <1>1, <2>1, WaitsKept
  <2> QED
      BY <1>1, <1>3, <2>1, <2>2
<1>7. TypeOK'
  <2>1. run' \in [Run -> RunRow] /\ worker' \in [Worker -> Job]
      BY <1>1, <1>2, <1>4, <1>5 DEF TypeOK
  <2> QED
      BY <1>1, <1>3, <1>6, <2>1, WaitRows, Zenon DEF TypeOK
<1>8. RowsSteady
  <2> SUFFICES ASSUME NEW s \in Run
               PROVE  /\ run'[s].iteration = run[s].iteration
                      /\ run'[s].sequence = run[s].sequence
                      /\ run'[s].used = run[s].used
                      /\ run'[s].graph = run[s].graph
                      /\ run[s].status # None => run'[s].status # None
                      /\ run'[s].owner # None => run'[s].status = "running"
                      /\ run'[s].lease # None => run'[s].owner # None
                      /\ run'[s].owner \in {w, run[s].owner}
                      /\ WaitIsOver(s) => WaitIsOver(s)'
    <3>1. worker'[w].pc \notin Walks
        BY <1>1, <1>2, <1>5 DEF TypeOK, Walks
    <3> QED
        BY <3>1 DEF RowsSteady
  <2>1. WaitIsOver(s) => WaitIsOver(s)'
      BY <1>6 DEF WaitIsOver
  <2>2. RowSound(run[s], last[s], done[s])
      BY DEF PathInv
  <2>3. CASE s = r
      BY <2>1, <2>2, <2>3, <1>1, <1>2, <1>4 DEF TypeOK, None, RuntimeConstants
  <2>4. CASE s # r
      BY <2>1, <2>2, <2>4, <1>1, <1>2 DEF TypeOK, RowSound
  <2> QED
      BY <2>3, <2>4
<1>9. Placed(job, w) /\ Recalls(w, job)
    BY <1>1, <1>5 DEF Placed, Recalls, JobSound, Walks
<1> QED
    BY <1>2, <1>3, <1>7, <1>8, <1>9, JobMoves

\* execute() starts abreast of the run, having forgotten its action if a wait is over.
LEMMA LoadKeepsPath ==
    ASSUME PathInv, NEW w \in Worker, Load(w)
    PROVE  PathInv'
<1> DEFINE r == worker[w].run
           resolved == ResolvedAt(hitl[r]) \union ResolvedAt(obs[r]) # {}
<1>1. TypeOK /\ worker[w].pc = "claimed" /\ UNCHANGED <<run, last, done, waits, spent, faults>>
    BY DEF PathInv, Load
<1>2. /\ worker[w] \in Job /\ r \in Run /\ run[r].status # None
      /\ RowSound(run[r], last[r], done[r]) /\ run[r].graph \in Versions
    BY <1>1, JobFacts
<1>3. CASE ~Owns(w)
    BY <1>1, <1>3, IdleKeepsPath DEF Load, TypeOK
<1>4. CASE Owns(w)
  <2> DEFINE next == IF resolved THEN None ELSE last[r].next
             job == [worker[w] EXCEPT !.pc = "node", !.node = GraphV1[1],
                        !.iteration = last[r].iteration, !.done = done[r],
                        !.noProgress = last[r].noProgress, !.next = next]
             c == [node |-> last[r].node, iteration |-> last[r].iteration,
                   next |-> last[r].next]
  <2>1. worker' = [worker EXCEPT ![w] = job]
      BY <1>1, <1>4, ZenonT(40) DEF Load, TypeOK
  <2>2. last[r] \in Checkpoint /\ done[r] \in SUBSET (Node \X Iteration)
      BY <1>1, <1>2 DEF TypeOK
  <2>3. GraphV1[1] = "load_incident" /\ "load_incident" \in Node /\ "node" \in PC
      BY DEF GraphV1, Node, ToSet, GraphV2, PC
  <2>4. next \in {None, last[r].next} /\ next \in RuntimeAction
        /\ (next # last[r].next => resolved) /\ (resolved => next = None)
      BY <2>2 DEF Checkpoint, RuntimeAction
  <2>5. resolved <=> WaitIsOver(r)
      BY DEF ResolvedAt, WaitIsOver
  <2> HIDE DEF next, resolved
  <2>6. job \in Job /\ job.pc = "node" /\ job.node = "load_incident" /\ job.run = r
        /\ job.iteration = last[r].iteration /\ job.done = done[r] /\ job.next = next
      BY <1>2, <2>2, <2>3, <2>4 DEF Job, Checkpoint
  <2>7. c \in Point /\ c.node = last[r].node /\ c.iteration = last[r].iteration
        /\ c.next = last[r].next
      BY <2>2 DEF Point, Checkpoint
  <2> HIDE DEF job, c
  <2>8. JobAt(run[r].graph, c, job)
    <3>1. Sound(run[r].graph, c) /\ done[r] = Reached(run[r].graph, c)
      <4>1. Sound(run[r].graph, last[r]) /\ done[r] = Reached(run[r].graph, last[r])
          BY <1>2 DEF RowSound
      <4> QED
        <5>1. Same(c, last[r])
            BY <2>7 DEF Same
        <5>2. /\ Sound(run[r].graph, c) <=> Sound(run[r].graph, last[r])
              /\ Reached(run[r].graph, c) = Reached(run[r].graph, last[r])
            BY <5>1, SamePoint
        <5> QED
            BY <4>1, <5>2
    <3>2. CASE c.node = None
      <4>1. AtFrontier(run[r].graph, c, job)
          BY <2>6, <3>1, <3>2, <2>7 DEF AtFrontier, Onward, StoppedAt, Sound, None, Interrupting
      <4> QED
          BY <4>1, <3>1, <2>4, <2>6, <2>7, <1>2, NodePlaces DEF JobAt
    <3>3. CASE c.node # None
      <4>1. Walking(run[r].graph, c, job)
          BY <2>6, <2>7, <3>1, <3>3, <1>2, NodePlaces DEF Walking, Sound
      <4> QED
          BY <4>1, <3>1, <2>4, <2>6, <2>7, <1>2, NodePlaces DEF JobAt
    <3> QED
        BY <3>2, <3>3
  <2>9. Placed(job, w)
    <3>1. Follows(c, job, w, run[r], last[r], done[r])
        BY <2>6, <2>7, <2>8 DEF Follows, Same
    <3> QED
        BY <1>1, <1>2, <2>6, <2>7, <3>1 DEF Placed, JobSound
  <2>10. TypeOK'
    <3>1. worker' \in [Worker -> Job]
        BY <1>1, <2>1, <2>6 DEF TypeOK
    <3> QED
        BY <1>1, <3>1, Zenon DEF TypeOK, waits
  <2>11. \A s \in Run : WaitIsOver(s) <=> WaitIsOver(s)'
      BY <1>1 DEF WaitIsOver, waits
  <2>12. worker'[w] = job /\ \A x \in Worker \ {w} : worker'[x] = worker[x]
      BY <1>1, <2>1 DEF TypeOK
  <2>13. ASSUME NEW s \in Run PROVE Forgetful(s)'
    <3>1. SUFFICES ASSUME NEW x \in Worker, OnPath(x, s)', worker'[x].done = done[s],
                          worker'[x].next # last[s].next
                   PROVE  /\ WaitIsOver(s)
                          /\ \A y \in Worker : OnPath(y, s)' /\ run[s].owner = y =>
                                worker'[y].done = done[s] /\ worker'[y].next = None
        BY <1>1, <2>11 DEF Forgetful
    <3>2. CASE s = r
      <4>1. WaitIsOver(r)
        <5>1. CASE x = w
            BY <5>1, <3>1, <3>2, <2>4, <2>5, <2>6, <2>12
        <5>2. CASE x # w
            BY <5>2, <3>1, <3>2, <2>12 DEF PathInv, Forgetful, OnPath
        <5> QED
            BY <5>1, <5>2
      <4>2. \A y \in Worker : run[s].owner = y => y = w
          BY <1>4, <3>2 DEF Owns
      <4> QED
          BY <4>1, <4>2, <3>2, <2>4, <2>5, <2>6, <2>12
    <3>3. CASE s # r
      <4>1. OnPath(x, s) /\ worker'[x] = worker[x]
          BY <3>1, <3>3, <2>6, <2>12 DEF OnPath
      <4>2. ASSUME NEW y \in Worker, OnPath(y, s)' PROVE OnPath(y, s) /\ worker'[y] = worker[y]
          BY <4>2, <3>3, <2>6, <2>12 DEF OnPath
      <4> QED
          BY <4>1, <4>2, <3>1 DEF PathInv, Forgetful
    <3> QED
        BY <3>2, <3>3
  <2> QED
      BY <1>1, <2>1, <2>9, <2>10, <2>11, <2>13, RestingRows, JobMoves
<1> QED
    BY <1>3, <1>4

\* What a node may answer, asked or not.
LEMMA AnswersFit ==
    ASSUME NEW n, NEW s, NEW a,
           a \in UnaskedAnswers(n) \/ (n \in ModelNodes /\ a \in AskedAnswers(n, s))
    PROVE  /\ a \in Outcome /\ a.requests = 0
           /\ a.next = "continue" => n = "maybe_replan"
           /\ a.wait # None => n \in Interrupting /\ a.next = "pause"
<1> DEFINE Fits(b) == /\ b \in Outcome /\ b.requests = 0
                      /\ b.next = "continue" => n = "maybe_replan"
                      /\ b.wait # None => n \in Interrupting /\ b.next = "pause"
<1>1. ASSUME NEW next \in RuntimeAction \ {"continue"}, NEW p \in BOOLEAN,
             NEW x \in {None, "hitl", "observation"},
             x # None => n \in Interrupting /\ next = "pause"
      PROVE  Fits(Answer(next, p, x))
    BY <1>1 DEF Answer, Outcome
<1>2. /\ None \in RuntimeAction \ {"continue"} /\ "finish" \in RuntimeAction \ {"continue"}
      /\ "pause" \in RuntimeAction \ {"continue"}
    BY DEF RuntimeAction, None
<1>3. Fits(PlainAnswer) /\ Fits(Answer("finish", TRUE, None))
    BY <1>1, <1>2 DEF PlainAnswer
<1>4. /\ Fits(Answer(None, FALSE, None)) /\ Fits(Answer("pause", FALSE, None))
      /\ n \in Interrupting => /\ Fits(Answer("pause", TRUE, "observation"))
                              /\ Fits(Answer("pause", TRUE, "hitl"))
      /\ Fits(Answer("pause", TRUE, None)) /\ \A p \in BOOLEAN : Fits(Answer(None, p, None))
    BY <1>1, <1>2, ZenonT(40)
<1>5. \A b \in ReplanAnswers : n = "maybe_replan" => Fits(b)
    BY DEF ReplanAnswers, Outcome, RuntimeAction
<1> HIDE DEF Fits
<1>6. CASE a \in UnaskedAnswers(n)
    BY <1>3, <1>6 DEF UnaskedAnswers, SelectAnswers, NothingToObserve, ModelNodes, Fits
<1>7. CASE n \in ModelNodes /\ a \in AskedAnswers(n, s)
  <2>1. CASE n = "create_plan"
      BY <1>3, <1>7, <2>1 DEF AskedAnswers, PlanAnswers, Fits
  <2>2. CASE n = "run_investigator"
      BY <1>4, <1>7, <2>2 DEF AskedAnswers, InvestigatorAnswers, Fits, Interrupting
  <2>3. CASE n = "assess_evidence"
      BY <1>4, <1>7, <2>3 DEF AskedAnswers, AssessAnswers, Fits
  <2>4. CASE n = "propose_action"
      BY <1>3, <1>4, <1>7, <2>4 DEF AskedAnswers, ProposeAnswers, Fits, Interrupting
  <2>5. CASE n = "maybe_replan"
      BY <1>5, <1>7, <2>5 DEF AskedAnswers, Fits
  <2> QED
      BY <1>7, <2>1, <2>2, <2>3, <2>4, <2>5 DEF ModelNodes
<1> QED
    BY <1>6, <1>7

\* A job that goes on with the node it is at keeps its place on the path.
LEMMA StillFollows ==
    ASSUME NEW w, NEW j \in Job, NEW job \in Job, NEW row, NEW row2, NEW l, NEW d,
           row.graph \in Versions,
           JobSound(j, w, row, l, d), j.pc \in Walks, job.pc \in Walks,
           job.node = j.node, job.iteration = j.iteration, job.done = j.done,
           job.next = j.next,
           job.pc = "node" \/ j.pc # "node" \/ Key(j) \notin j.done,
           row2.graph = row.graph, row2.iteration = row.iteration,
           row2.sequence = row.sequence, row2.used = row.used, row2.owner = row.owner,
           job.pc \in {"write", "writing"} => OutFits(job),
           job.pc = "writing" =>
              /\ row.owner = w /\ job.seen.sequence <= row.sequence
              /\ job.seen.iteration = row.iteration /\ job.seen.used = row.used
    PROVE  JobSound(job, w, row2, l, d)
<1>1. j.done \subseteq d
    BY DEF JobSound
<1>2. PICK c \in Point : Follows(c, j, w, row, l, d)
    BY DEF JobSound
<1> DEFINE v == row.graph
<1>3. JobAt(v, c, job)
  <2>1. JobAt(v, c, j)
      BY <1>2 DEF Follows
  <2>2. CASE AtFrontier(v, c, j)
    <3>1. AtFrontier(v, c, job)
        BY <2>2 DEF AtFrontier
    <3> QED
        BY <2>1, <3>1 DEF JobAt
  <2>3. CASE ~AtFrontier(v, c, j)
    <3>1. j.pc = "node" /\ Walking(v, c, j)
        BY <2>1, <2>3 DEF JobAt
    <3>2. Key(j) \in j.done
        BY <2>1, <3>1, WalkedIsReached DEF JobAt
    <3>3. Walking(v, c, job)
        BY <3>1 DEF Walking
    <3> QED
        BY <2>1, <3>1, <3>2, <3>3 DEF JobAt
  <2> QED
      BY <2>2, <2>3
<1>4. Follows(c, job, w, row2, l, d)
    BY <1>2, <1>3 DEF Follows
<1> QED
    BY <1>1, <1>4 DEF JobSound, Walks

LEMMA SkipKeepsPath ==
    ASSUME PathInv, NEW w \in Worker, SkipNode(w)
    PROVE  PathInv'
<1> DEFINE j == worker[w]
           r == j.run
           v == run[r].graph
           job == Routed(j, v)
<1>1. TypeOK /\ j.pc = "node" /\ Key(j) \in j.done /\ worker' = [worker EXCEPT ![w] = job]
      /\ UNCHANGED <<run, last, done, waits, spent, faults>>
    BY DEF PathInv, SkipNode
<1>2. /\ j \in Job /\ r \in Run /\ run[r].status # None /\ v \in Versions
      /\ JobSound(j, w, run[r], last[r], done[r])
    BY <1>1, JobFacts
<1>3. j.done \subseteq done[r] /\ \E c \in Point : Follows(c, j, w, run[r], last[r], done[r])
    BY <1>1, <1>2 DEF JobSound, Walks
<1>4. PICK c \in Point : Follows(c, j, w, run[r], last[r], done[r])
    BY <1>3
<1>5. JobAt(v, c, j)
    BY <1>4 DEF Follows
<1>6. Walking(v, c, j) /\ Sound(v, c) /\ j.node \in NodeSet(v) /\ j.next \in {None, c.next}
  <2>1. ~AtFrontier(v, c, j)
      BY <1>1, <1>2, <1>5, FrontierIsNew DEF JobAt
  <2> QED
      BY <1>5, <2>1 DEF JobAt
<1>7. /\ job \in Job /\ Kept(j, job)
      /\ \/ /\ job.pc = "node" /\ job.node \in NodeSet(v)
            /\ Walking(v, c, job) \/ AtFrontier(v, c, job)
         \/ job.pc = "finish" /\ job.target \in {"paused", "completed"}
    BY <1>2, <1>6, RoutedStaysOnPath
<1> HIDE DEF job
<1>8. JobSound(job, w, run[r], last[r], done[r])
  <2>1. CASE job.pc = "node"
    <3>1. JobAt(v, c, job)
        BY <1>5, <1>7, <2>1 DEF JobAt, Kept
    <3>2. Follows(c, job, w, run[r], last[r], done[r])
        BY <1>4, <1>7, <2>1, <3>1 DEF Follows, Kept
    <3> QED
        BY <1>3, <1>7, <2>1, <3>2 DEF JobSound, Kept
  <2>2. CASE job.pc = "finish" /\ job.target \in {"paused", "completed"}
      BY <2>2 DEF JobSound, Walks
  <2> QED
      BY <1>7, <2>1, <2>2
<1>9. Placed(job, w) /\ Recalls(w, job)
    BY <1>1, <1>2, <1>7, <1>8 DEF Placed, Recalls, Kept, Walks
<1>10. TypeOK'
  <2>1. worker' \in [Worker -> Job]
      BY <1>1, <1>7 DEF TypeOK
  <2> QED
      BY <1>1, <2>1, Zenon DEF TypeOK, waits
<1>11. \A s \in Run : WaitIsOver(s) => WaitIsOver(s)'
    BY <1>1 DEF WaitIsOver, waits
<1> QED
    BY <1>1, <1>9, <1>10, <1>11, RestingRows, JobMoves

LEMMA RenewKeepsPath ==
    ASSUME PathInv, NEW w \in Worker, RenewLease(w)
    PROVE  PathInv'
<1> DEFINE j == worker[w]
           r == j.run
           row == [run[r] EXCEPT !.lease = "live"]
           job == [j EXCEPT !.pc = "call"]
<1>1. TypeOK /\ j.pc = "node" /\ Key(j) \notin j.done
      /\ UNCHANGED <<last, done, waits, spent, faults>>
    BY DEF PathInv, RenewLease
<1>2. /\ j \in Job /\ r \in Run /\ run[r].status # None /\ run[r].graph \in Versions
      /\ JobSound(j, w, run[r], last[r], done[r]) /\ run[r] \in RunRow
    BY <1>1, JobFacts
<1>3. CASE ~(run[r].status = "running" /\ Owns(w))
    BY <1>1, <1>3, IdleKeepsPath DEF RenewLease, TypeOK
<1>4. CASE run[r].status = "running" /\ Owns(w)
  <2>1. run' = [run EXCEPT ![r] = row] /\ worker' = [worker EXCEPT ![w] = job]
      BY <1>1, <1>2, <1>4 DEF RenewLease, TypeOK
  <2>2. /\ row \in RunRow /\ row.status = "running" /\ row.owner = w /\ row.lease = "live"
        /\ row.owner = run[r].owner
        /\ row.iteration = run[r].iteration /\ row.sequence = run[r].sequence
        /\ row.used = run[r].used /\ row.graph = run[r].graph
      BY <1>2, <1>4 DEF RunRow, Owns
  <2>3. /\ job \in Job /\ job.pc = "call" /\ job.node = j.node /\ job.run = r
        /\ job.iteration = j.iteration /\ job.done = j.done /\ job.next = j.next
      BY <1>2 DEF Job, PC
  <2> HIDE DEF row, job
  <2>4. TypeOK'
    <3>1. run' \in [Run -> RunRow] /\ worker' \in [Worker -> Job]
        BY <1>1, <2>1, <2>2, <2>3 DEF TypeOK
    <3> QED
        BY <1>1, <3>1, Zenon DEF TypeOK, waits
  <2>5. RowsSteady
    <3> SUFFICES ASSUME NEW s \in Run
                 PROVE  /\ run'[s].iteration = run[s].iteration
                        /\ run'[s].sequence = run[s].sequence
                        /\ run'[s].used = run[s].used
                        /\ run'[s].graph = run[s].graph
                        /\ run[s].status # None => run'[s].status # None
                        /\ run'[s].owner # None => run'[s].status = "running"
                        /\ run'[s].lease # None => run'[s].owner # None
                        /\ run'[s].owner = run[s].owner
                        /\ WaitIsOver(s) => WaitIsOver(s)'
        BY DEF RowsSteady
    <3>1. WaitIsOver(s) => WaitIsOver(s)'
        BY <1>1 DEF WaitIsOver, waits
    <3>2. RowSound(run[s], last[s], done[s])
        BY DEF PathInv
    <3>3. CASE s = r
        BY <3>1, <3>2, <3>3, <1>1, <1>2, <2>1, <2>2 DEF TypeOK, None, RuntimeConstants
    <3>4. CASE s # r
        BY <3>1, <3>2, <3>4, <1>1, <2>1 DEF TypeOK, RowSound
    <3> QED
        BY <3>3, <3>4
  <2>6. JobSound(job, w, row, last[r], done[r])
      BY <1>1, <1>2, <2>2, <2>3, StillFollows DEF Walks
  <2>7. Placed(job, w) /\ Recalls(w, job)
    <3>1. run'[r] = row
        BY <1>1, <1>2, <2>1 DEF TypeOK
    <3> QED
        BY <1>1, <1>2, <2>3, <2>6, <3>1 DEF Placed, Recalls, Walks
  <2> QED
      BY <1>1, <2>1, <2>4, <2>5, <2>7, JobMoves
<1> QED
    BY <1>3, <1>4

\* A job takes a step that only concerns itself.
LEMMA OwnStepKeepsPath ==
    ASSUME PathInv, NEW w \in Worker, worker[w].pc # "idle", NEW job \in Job,
           worker' = [worker EXCEPT ![w] = job], job.run = worker[w].run,
           UNCHANGED <<run, last, done, hitl, obs, faults>>,
           proposal' \in [Run -> [Iteration -> ProposalStatus]], spent' \in [Run -> Nat],
           Recalls(w, job),
           JobSound(job, w, run[job.run], last[job.run], done[job.run])
    PROVE  PathInv'
<1>1. TypeOK /\ worker[w].run \in Run /\ run[worker[w].run].status # None
    BY JobFacts DEF PathInv
<1>2. TypeOK'
  <2>1. worker' \in [Worker -> Job]
      BY <1>1 DEF TypeOK
  <2> QED
      BY <1>1, <2>1, Zenon DEF TypeOK
<1>3. \A s \in Run : WaitIsOver(s) => WaitIsOver(s)'
    BY DEF WaitIsOver
<1>4. Placed(job, w)
    BY <1>1 DEF Placed
<1> QED
    BY <1>2, <1>3, <1>4, RestingRows, JobMoves

\* The job of a worker that has been answered.
Answered(j, a, q) == [j EXCEPT !.pc = "write", !.out = [a EXCEPT !.requests = q]]
LEMMA AnsweredJob ==
    ASSUME PathInv, NEW w \in Worker, worker[w].pc = "call",
           NEW a \in Outcome, NEW q \in Nat, q <= CallLimit,
           a.next = "continue" => worker[w].node = "maybe_replan",
           a.wait # None => worker[w].node \in Interrupting /\ a.next = "pause",
           NEW job, job = Answered(worker[w], a, q)
    PROVE  /\ job \in Job /\ job.pc = "write" /\ job.run = worker[w].run
           /\ job.done = worker[w].done /\ job.out.requests = q /\ job.out.wait = a.wait
           /\ Recalls(w, job)
           /\ JobSound(job, w, run[job.run], last[job.run], done[job.run])
<1> DEFINE j == worker[w]
           r == j.run
<1>1. /\ j \in Job /\ run[r].graph \in Versions
      /\ JobSound(j, w, run[r], last[r], done[r])
    BY JobFacts
<1>2. /\ job \in Job /\ job.pc = "write" /\ job.node = j.node /\ job.run = r
      /\ job.iteration = j.iteration /\ job.done = j.done /\ job.next = j.next
      /\ job.out.next = a.next /\ job.out.requests = q /\ job.out.wait = a.wait
  <2> DEFINE out == [a EXCEPT !.requests = q]
  <2>1. out \in Outcome /\ out.next = a.next /\ out.requests = q /\ out.wait = a.wait
      BY DEF Outcome
  <2>2. job = [j EXCEPT !.pc = "write", !.out = out]
      BY DEF Answered
  <2> HIDE DEF out
  <2> QED
      BY <1>1, <2>1, <2>2, ZenonT(40) DEF Job, PC
<1>3. OutFits(job)
    BY <1>2 DEF OutFits
<1>4. JobSound(job, w, run[r], last[r], done[r])
    BY <1>1, <1>2, <1>3, StillFollows DEF Walks
<1> QED
    BY <1>2, <1>4 DEF Recalls, Walks

LEMMA AnswerKeepsPath ==
    ASSUME PathInv, NEW w \in Worker, AnswerWithoutModel(w)
    PROVE  PathInv'
<1>1. TypeOK /\ worker[w].pc = "call" /\ UNCHANGED <<run, last, done, waits, spent, faults>>
    BY DEF AnswerWithoutModel, PathInv
<1>2. PICK a \in UnaskedAnswers(worker[w].node) :
        worker' = [worker EXCEPT ![w].pc = "write", ![w].out = a]
    BY DEF AnswerWithoutModel
<1>3. a \in Outcome /\ a.requests = 0
      /\ (a.next = "continue" => worker[w].node = "maybe_replan")
      /\ (a.wait # None => worker[w].node \in Interrupting /\ a.next = "pause")
    BY AnswersFit
<1> DEFINE job == Answered(worker[w], a, 0)
<1>4. worker' = [worker EXCEPT ![w] = job]
  <2>1. [a EXCEPT !.requests = 0] = a
      BY <1>3 DEF Outcome
  <2> QED
      BY <1>1, <1>2, <2>1 DEF Answered, TypeOK
<1>5. /\ job \in Job /\ job.run = worker[w].run /\ Recalls(w, job)
      /\ JobSound(job, w, run[job.run], last[job.run], done[job.run])
    BY <1>1, <1>3, AnsweredJob DEF RuntimeConstants
<1> HIDE DEF job
<1> QED
    BY <1>1, <1>4, <1>5, OwnStepKeepsPath DEF TypeOK, waits

LEMMA AskKeepsPath ==
    ASSUME PathInv, NEW w \in Worker, AskModel(w)
    PROVE  PathInv'
<1> DEFINE j == worker[w]
           r == j.run
           old == proposal[r][j.iteration]
           proposed == IF j.node = "propose_action" /\ old = None
                       THEN {None, "awaiting_approval", "denied", "authorized"}
                       ELSE {old}
<1>1. TypeOK /\ j.pc = "call" /\ j.node \in ModelNodes
      /\ UNCHANGED <<run, last, done, hitl, obs, faults>>
    BY DEF AskModel, PathInv
<1>2. j \in Job /\ r \in Run
    BY <1>1, JobFacts
<1>3. PICK q \in 1..CallLimit, s \in proposed :
        /\ \E answer \in AskedAnswers(j.node, s) :
             worker' = [worker EXCEPT ![w].pc = "write",
                                      ![w].out = [answer EXCEPT !.requests = q]]
        /\ spent' = [spent EXCEPT ![r] = @ + q]
        /\ proposal' = [proposal EXCEPT ![r][j.iteration] = s]
    BY Zenon DEF AskModel
<1>4. PICK a \in AskedAnswers(j.node, s) :
        worker' = [worker EXCEPT ![w].pc = "write", ![w].out = [a EXCEPT !.requests = q]]
    BY <1>3
<1>5. a \in Outcome /\ (a.next = "continue" => j.node = "maybe_replan")
      /\ (a.wait # None => j.node \in Interrupting /\ a.next = "pause")
    BY <1>1, AnswersFit
<1> DEFINE job == Answered(worker[w], a, q)
<1>6. worker' = [worker EXCEPT ![w] = job]
    BY <1>1, <1>4 DEF Answered, TypeOK
<1>7. q \in Nat /\ q <= CallLimit
    BY DEF RuntimeConstants
<1>8. /\ job \in Job /\ job.run = worker[w].run /\ Recalls(w, job)
      /\ JobSound(job, w, run[job.run], last[job.run], done[job.run])
    BY <1>1, <1>5, <1>7, AnsweredJob
<1>9. spent' \in [Run -> Nat]
    BY <1>1, <1>2, <1>3, <1>7 DEF TypeOK
<1>10. proposal' \in [Run -> [Iteration -> ProposalStatus]]
  <2>1. old \in ProposalStatus
      BY <1>1, <1>2 DEF TypeOK, Job
  <2>2. s \in ProposalStatus
      BY <2>1 DEF ProposalStatus
  <2>3. proposal \in [Run -> [Iteration -> ProposalStatus]]
      BY <1>1 DEF TypeOK
  <2> QED
      BY <1>3, <2>2, <2>3
<1> HIDE DEF job
<1> QED
    BY <1>1, <1>6, <1>8, <1>9, <1>10, OwnStepKeepsPath

LEMMA HandlerFailureKeepsPath ==
    ASSUME PathInv, NEW w \in Worker, HandlerFails(w)
    PROVE  PathInv'
<1>1. TypeOK /\ worker[w].pc = "call" /\ Fail(w) /\ UNCHANGED <<run, last, done, waits, faults>>
    BY DEF HandlerFails, PathInv
<1>2. PICK q \in 0..CallLimit : spent' = [spent EXCEPT ![worker[w].run] = @ + q]
    BY DEF HandlerFails
<1>3. spent' \in [Run -> Nat]
  <2>1. worker[w].run \in Run /\ spent \in [Run -> Nat] /\ q \in Nat
      BY <1>1, JobFacts DEF TypeOK, RuntimeConstants
  <2> QED
      BY <1>2, <2>1
<1> QED
    BY <1>1, <1>3, FailureKeepsPath

LEMMA ReadKeepsPath ==
    ASSUME PathInv, NEW w \in Worker, ReadRun(w)
    PROVE  PathInv'
<1> DEFINE j == worker[w]
           r == j.run
           seen == [sequence |-> run[r].sequence, used |-> run[r].used,
                    iteration |-> run[r].iteration]
           job == [j EXCEPT !.pc = "writing", !.seen = seen]
<1>1. TypeOK /\ j.pc = "write" /\ UNCHANGED <<run, last, done, waits, spent, faults>>
    BY DEF PathInv, ReadRun
<1>2. /\ j \in Job /\ r \in Run /\ run[r].graph \in Versions
      /\ JobSound(j, w, run[r], last[r], done[r]) /\ run[r] \in RunRow
    BY <1>1, JobFacts
<1>3. CASE ~Owns(w)
    BY <1>1, <1>3, IdleKeepsPath DEF ReadRun, TypeOK
<1>4. CASE Owns(w)
  <2>1. worker' = [worker EXCEPT ![w] = job]
      BY <1>1, <1>4 DEF ReadRun, TypeOK
  <2>2. seen \in Seen
      BY <1>2 DEF Seen, RunRow
  <2>3. /\ job \in Job /\ job.pc = "writing" /\ job.node = j.node /\ job.run = r
        /\ job.iteration = j.iteration /\ job.done = j.done /\ job.next = j.next
        /\ job.out = j.out /\ job.seen = seen
      BY <1>2, <2>2 DEF Job, PC
  <2>4. OutFits(job)
      BY <1>1, <1>2, <2>3 DEF OutFits, JobSound
  <2>5. /\ job.seen.sequence = run[r].sequence /\ job.seen.iteration = run[r].iteration
        /\ job.seen.used = run[r].used /\ run[r].sequence \in Nat
      BY <1>2, <2>3 DEF RunRow
  <2> HIDE DEF job
  <2>6. JobSound(job, w, run[r], last[r], done[r])
      BY <1>1, <1>2, <1>4, <2>3, <2>4, <2>5, StillFollows DEF Walks, Owns
  <2>7. Recalls(w, job)
      BY <1>1, <2>3 DEF Recalls, Walks
  <2> QED
      BY <1>1, <2>1, <2>3, <2>6, <2>7, OwnStepKeepsPath DEF waits, TypeOK
<1> QED
    BY <1>3, <1>4

LEMMA ReadForFinishKeepsPath ==
    ASSUME PathInv, NEW w \in Worker, ReadForFinish(w)
    PROVE  PathInv'
<1> DEFINE j == worker[w]
           r == j.run
           job == [j EXCEPT !.pc = "finishing"]
<1>1. TypeOK /\ j.pc = "finish" /\ UNCHANGED <<run, last, done, waits, spent, faults>>
    BY DEF PathInv, ReadForFinish
<1>2. j \in Job /\ j.target \in {"paused", "completed", "failed"}
    BY <1>1, JobFacts DEF JobSound
<1>3. CASE ~Owns(w)
    BY <1>1, <1>3, IdleKeepsPath DEF ReadForFinish, TypeOK, Owns
<1>4. CASE Owns(w)
  <2>1. worker' = [worker EXCEPT ![w] = job]
      BY <1>1, <1>4 DEF ReadForFinish, TypeOK, Owns
  <2>2. job \in Job /\ job.pc = "finishing" /\ job.run = r /\ job.target = j.target
      BY <1>2 DEF Job, PC
  <2> HIDE DEF job
  <2>3. JobSound(job, w, run[job.run], last[job.run], done[job.run]) /\ Recalls(w, job)
      BY <1>2, <2>2 DEF JobSound, Walks, Recalls
  <2> QED
      BY <1>1, <2>1, <2>2, <2>3, OwnStepKeepsPath DEF waits, TypeOK
<1> QED
    BY <1>3, <1>4

LEMMA FinishKeepsPath ==
    ASSUME PathInv, NEW w \in Worker, Finish(w)
    PROVE  PathInv'
<1> DEFINE j == worker[w]
           r == j.run
           row == Moved(run[r], j.target)
<1>1. TypeOK /\ j.pc = "finishing" /\ run' = [run EXCEPT ![r] = row]
      /\ worker' = [worker EXCEPT ![w] = Idle]
      /\ UNCHANGED <<last, done, waits, spent, faults>>
    BY DEF PathInv, Finish, GoIdle
<1>2. /\ r \in Run /\ run[r] \in RunRow /\ run[r].status # None
      /\ j.target \in {"paused", "completed", "failed"}
    BY <1>1, JobFacts DEF JobSound
<1>3. /\ row \in RunRow /\ row.status = j.target /\ row.owner = None /\ row.lease = None
      /\ row.iteration = run[r].iteration /\ row.sequence = run[r].sequence
      /\ row.used = run[r].used /\ row.graph = run[r].graph
    BY <1>2, MovedRow DEF RunStatus, Terminal
<1> HIDE DEF row
<1>4. TypeOK'
  <2>1. run' \in [Run -> RunRow] /\ worker' \in [Worker -> Job]
      BY <1>1, <1>2, <1>3, IdleIsPlaced DEF TypeOK
  <2> QED
      BY <1>1, <2>1, Zenon DEF TypeOK, waits
<1>5. RowsSteady
  <2> SUFFICES ASSUME NEW s \in Run
               PROVE  /\ run'[s].iteration = run[s].iteration
                      /\ run'[s].sequence = run[s].sequence
                      /\ run'[s].used = run[s].used
                      /\ run'[s].graph = run[s].graph
                      /\ run[s].status # None => run'[s].status # None
                      /\ run'[s].owner # None => run'[s].status = "running"
                      /\ run'[s].lease # None => run'[s].owner # None
                      /\ run'[s].owner \in {None, run[s].owner}
                      /\ WaitIsOver(s) => WaitIsOver(s)'
      BY DEF RowsSteady, RuntimeConstants, None
  <2>1. WaitIsOver(s) => WaitIsOver(s)'
      BY <1>1 DEF WaitIsOver, waits
  <2>2. RowSound(run[s], last[s], done[s])
      BY DEF PathInv
  <2>3. CASE s = r
      BY <2>1, <2>3, <1>1, <1>2, <1>3 DEF TypeOK, None
  <2>4. CASE s # r
      BY <2>1, <2>2, <2>4, <1>1 DEF TypeOK, RowSound
  <2> QED
      BY <2>3, <2>4
<1> QED
    BY <1>1, <1>4, <1>5, IdleIsPlaced, JobMoves

LEMMA CrashKeepsPath ==
    ASSUME PathInv, NEW w \in Worker, Crash(w)
    PROVE  PathInv'
BY IdleKeepsPath DEF Crash, PathInv, TypeOK

-----------------------------------------------------------------------------
(* Steps that write a checkpoint *)

\* What a job at the frontier writes is the next checkpoint of the path.
LEMMA NextAction ==
    ASSUME NEW j \in Job, OutFits(j), j.node = "escalate_or_finish" => j.next # "continue"
    PROVE  /\ NextAfter(j) \in RuntimeAction /\ NoProgressAfter(j) \in Nat
           /\ j.node = "maybe_replan" /\ NextAfter(j) = "continue" =>
                 j.iteration + 1 < MaxIterations
           /\ j.node = "escalate_or_finish" => NextAfter(j) # "continue"
<1>1. /\ j.next \in RuntimeAction /\ j.out \in Outcome /\ j.noProgress \in Nat
      /\ j.iteration \in Nat /\ MaxIterations \in Nat /\ NoProgressLimit \in Nat
    BY DEF Job, Iteration, RuntimeConstants
<1>2. j.out.next \in RuntimeAction
    BY <1>1 DEF Outcome
<1>3. NoProgressAfter(j) \in Nat
    BY <1>1 DEF NoProgressAfter
<1>4. Carried(j) \in RuntimeAction
      /\ (j.node = "escalate_or_finish" => Carried(j) # "continue")
    BY <1>1, <1>2 DEF Carried, OutFits
<1>5. CASE j.node = "maybe_replan" /\ NoProgressAfter(j) >= NoProgressLimit
  <2>1. NextAfter(j) = "no_progress"
      BY <1>1, <1>3, <1>5 DEF NextAfter
  <2> QED
      BY <2>1, <1>3, <1>5 DEF RuntimeAction
<1>6. CASE j.node = "maybe_replan" /\ NoProgressAfter(j) < NoProgressLimit
           /\ Carried(j) = "continue" /\ j.iteration + 1 >= MaxIterations
  <2>1. NextAfter(j) = "max_iterations"
      BY <1>1, <1>3, <1>6 DEF NextAfter
  <2> QED
      BY <2>1, <1>3, <1>6 DEF RuntimeAction
<1>7. CASE /\ ~(j.node = "maybe_replan" /\ NoProgressAfter(j) >= NoProgressLimit)
           /\ ~(/\ j.node = "maybe_replan" /\ NoProgressAfter(j) < NoProgressLimit
                /\ Carried(j) = "continue" /\ j.iteration + 1 >= MaxIterations)
  <2>1. NextAfter(j) = Carried(j)
      BY <1>7 DEF NextAfter
  <2> QED
      BY <2>1, <1>1, <1>3, <1>4, <1>7
<1> QED
    BY <1>5, <1>6, <1>7

StepsTo(v, c, j, d, k) ==
    /\ d \in Checkpoint /\ Sound(v, d) /\ d.iteration = j.iteration /\ d.node = j.node
    /\ KeyIteration(j) = j.iteration /\ Key(j) = Onward(v, c, j.next)
    /\ ~StoppedAt(c.node, j.next) /\ Key(j)[2] = j.iteration
    /\ Key(j) \in Node \X Iteration /\ Key(j) \notin j.done
    /\ Reached(v, d) = j.done \union {Key(j)}
    /\ k \in Job /\ k.run = j.run /\ k.done = j.done \union {Key(j)}
    /\ k.next = d.next
    /\ \/ k.pc = "node" /\ JobAt(v, d, k)
       \/ /\ k.pc = "finish" /\ k.target \in {"paused", "completed"}
          /\ k.target = "paused" => d.next \in Stopping
    /\ j.out.wait # None => k.pc = "finish"
LEMMA WrittenFollows ==
    ASSUME NEW j \in Job, j.pc = "writing", OutFits(j), run[j.run].graph \in Versions,
           NEW c, JobAt(run[j.run].graph, c, j)
    PROVE  StepsTo(run[j.run].graph, c, j, Written(j), AfterWrite(j))
<1> DEFINE v == run[j.run].graph
           d == Written(j)
           k == AfterWrite(j)
<1>1. /\ Sound(v, c) /\ j.done = Reached(v, c) /\ j.next \in {None, c.next}
      /\ AtFrontier(v, c, j)
    BY DEF JobAt
<1>2. /\ Key(j) = <<j.node, j.iteration>> /\ KeyIteration(j) = j.iteration
      /\ Key(j) = Onward(v, c, j.next) /\ Key(j) \notin j.done
      /\ j.node \in NodeSet(v) /\ j.iteration \in Iteration
    BY <1>1, FrontierIsNew
<1>3. /\ j.node \in ContextNodes => j.iteration = 0
      /\ j.node = "escalate_or_finish" => j.next # "continue"
      /\ \A e : e.node = j.node /\ e.iteration = j.iteration =>
            Reached(v, e) = j.done \union {Key(j)}
    BY <1>1, <1>2, NextIsNew DEF AtFrontier
<1>4. /\ NextAfter(j) \in RuntimeAction /\ NoProgressAfter(j) \in Nat
      /\ j.node = "maybe_replan" /\ NextAfter(j) = "continue" =>
            j.iteration + 1 < MaxIterations
      /\ j.node = "escalate_or_finish" => NextAfter(j) # "continue"
    BY <1>3, NextAction
<1>5. d.node = j.node /\ d.iteration = j.iteration /\ d.next = NextAfter(j)
      /\ d.noProgress = NoProgressAfter(j)
    BY <1>2 DEF Written
<1>6. NodeSet(v) \subseteq Node /\ None \notin Node /\ Key(j) \in Node \X Iteration
    BY <1>2, NodePlaces
<1>7. d \in Checkpoint
    BY <1>2, <1>4, <1>6 DEF Written, Checkpoint
<1>8. Sound(v, d)
    BY <1>2, <1>3, <1>4, <1>5, <1>6 DEF Sound
<1>9. Reached(v, d) = j.done \union {Key(j)}
    BY <1>3, <1>5
<1> DEFINE i == [j EXCEPT !.done = j.done \union {Key(j)}, !.noProgress = NoProgressAfter(j),
                          !.next = NextAfter(j), !.out = NoOutcome, !.seen = NoSeen]
<1>10. k = Routed(i, v)
    BY Zenon DEF AfterWrite
<1>11. /\ i \in Job /\ i.run = j.run /\ i.node = j.node /\ i.iteration = j.iteration
       /\ i.done = j.done \union {Key(j)} /\ i.next = NextAfter(j)
  <2>1. NoOutcome \in Outcome /\ NoSeen \in Seen
      BY DEF NoOutcome, Outcome, NoSeen, Seen, Iteration, RuntimeAction,
             RuntimeConstants, None
  <2>2. j.done \union {Key(j)} \in SUBSET (Node \X Iteration)
      BY <1>6 DEF Job
  <2> QED
      BY <1>4, <2>1, <2>2 DEF Job
<1> HIDE DEF i
<1>12. Walking(v, d, i)
  <2>1. Place(v, d.node) \in 1..Size(v)
      BY <1>2, <1>5, NodePlaces
  <2> QED
      BY <2>1, <1>2, <1>5, <1>6, <1>11, NodePlaces DEF Walking
<1>13. /\ k \in Job /\ Kept(i, k)
       /\ \/ /\ k.pc = "node" /\ k.node \in NodeSet(v)
             /\ Walking(v, d, k) \/ AtFrontier(v, d, k)
          \/ /\ k.pc = "finish" /\ k.target \in {"paused", "completed"}
             /\ k.target = "paused" => d.next \in Stopping
    BY <1>2, <1>5, <1>8, <1>10, <1>11, <1>12, RoutedStaysOnPath
<1>14. k.run = j.run /\ k.done = j.done \union {Key(j)} /\ k.next = d.next
    BY <1>5, <1>11, <1>13 DEF Kept
<1>15. k.pc = "node" => JobAt(v, d, k)
    BY <1>8, <1>9, <1>13, <1>14 DEF JobAt
<1>16. ~StoppedAt(c.node, j.next)
    BY <1>1 DEF AtFrontier
<1>17. j.out.wait # None => k.pc = "finish"
  <2>1. SUFFICES ASSUME j.out.wait # None PROVE k.pc = "finish"
      OBVIOUS
  <2>2. j.node \in Interrupting /\ j.out.next = "pause" /\ j.node # "maybe_replan"
      BY <2>1 DEF OutFits, Interrupting
  <2>3. NextAfter(j) = "pause"
      BY <2>2 DEF NextAfter, Carried, None
  <2>4. k = [i EXCEPT !.pc = "finish", !.node = End, !.target = "paused"]
      BY <1>10, <1>11, <2>2, <2>3 DEF Routed, Interrupting, Stopping
  <2> QED
      BY <1>11, <2>4 DEF Job
<1> QED
    BY <1>2, <1>5, <1>6, <1>7, <1>8, <1>9, <1>13, <1>14, <1>15, <1>16, <1>17 DEF StepsTo

\* Whoever stood where the writer stood cannot write any more.
LEMMA Overtaken ==
    ASSUME NEW v, NEW c, Sound(v, c), NEW x, NEW y, x = y \/ x = None
    PROVE  \/ Onward(v, c, x) = Onward(v, c, y)
           \/ Onward(v, c, x)[2] < Onward(v, c, y)[2]
<1>1. CASE c.node = "maybe_replan" /\ y = "continue" /\ x = None
  <2>1. c.node # None /\ None # "continue" /\ c.iteration \in Nat
      BY <1>1 DEF None, Sound, Iteration
  <2>2. Onward(v, c, y)[2] = c.iteration + 1 /\ Onward(v, c, x)[2] = c.iteration
      BY <1>1, <2>1 DEF Onward
  <2> QED
      BY <2>1, <2>2
<1>2. CASE ~(c.node = "maybe_replan" /\ y = "continue" /\ x = None)
  <2>1. Onward(v, c, x) = Onward(v, c, y)
      BY <1>2 DEF Onward, None
  <2> QED
      BY <2>1
<1> QED
    BY <1>1, <1>2

\* A write that gets through comes from a job that is abreast of its run.
LEMMA WriterIsAbreast ==
    ASSUME PathInv, NEW w \in Worker, worker[w].pc = "writing",
           Key(worker[w]) \notin done[worker[w].run], ~Refused(worker[w])
    PROVE  LET j == worker[w]
               r == j.run
           IN  /\ \E c \in Point :
                    /\ JobAt(run[r].graph, c, j) /\ Same(c, last[r])
               /\ j.done = done[r] /\ j.seen.sequence = run[r].sequence
               /\ j.seen.iteration = run[r].iteration /\ j.seen.used = run[r].used
               /\ OutFits(j) /\ run[r].iteration <= j.iteration
               /\ j.seen.used + j.out.requests <= RequestLimit
<1> DEFINE j == worker[w]
           r == j.run
           v == run[r].graph
<1>1. /\ j \in Job /\ r \in Run /\ run[r] \in RunRow /\ v \in Versions
      /\ JobSound(j, w, run[r], last[r], done[r])
    BY JobFacts
<1>2. OutFits(j)
    BY <1>1 DEF JobSound
<1>3. PICK c \in Point : Follows(c, j, w, run[r], last[r], done[r])
    BY <1>1 DEF JobSound, Walks
<1>4. JobAt(v, c, j)
    BY <1>3 DEF Follows
<1>5. AtFrontier(v, c, j) /\ Sound(v, c) /\ j.next \in {None, c.next}
    BY <1>4 DEF JobAt
<1>6. KeyIteration(j) = j.iteration /\ Key(j) = <<j.node, j.iteration>>
      /\ Key(j) = Onward(v, c, j.next)
    BY <1>1, <1>5, FrontierIsNew
<1>7. j.seen.sequence = run[r].sequence /\ ~(KeyIteration(j) < j.seen.iteration)
      /\ ~(j.seen.used + j.out.requests > RequestLimit)
    BY DEF Refused
<1>8. /\ j.seen.iteration = run[r].iteration /\ j.seen.used = run[r].used
      /\ j.done = done[r] \/ Passed(v, c, j.next, done[r], run[r].iteration)
    BY <1>3, <1>7 DEF Follows
<1>9. run[r].iteration \in Nat /\ j.iteration \in Nat /\ run[r].used \in Nat
      /\ j.out.requests \in Nat
    BY <1>1 DEF RunRow, Job, Iteration, Outcome
<1>10. ~Passed(v, c, j.next, done[r], run[r].iteration)
    BY <1>5, <1>6, <1>7, <1>8, <1>9 DEF Passed, AtFrontier
<1>11. j.done = done[r] /\ Same(c, last[r])
    BY <1>3, <1>8, <1>10 DEF Follows
<1>12. \E e \in Point : JobAt(v, e, j) /\ Same(e, last[r])
    BY <1>3, <1>4, <1>11, Zenon
<1>13. run[r].iteration <= j.iteration
    BY <1>6, <1>7, <1>8, <1>9
<1>14. j.seen.used + j.out.requests <= RequestLimit
    BY <1>7, <1>8, <1>9 DEF RuntimeConstants
<1> QED
    BY <1>2, <1>7, <1>8, <1>11, <1>12, <1>13, <1>14, Zenon

LEMMA FlushedRow ==
    ASSUME NEW j \in Job, j.run \in Run, NEW row, row = run[j.run], row \in RunRow,
           KeyIteration(j) = j.iteration
    PROVE  /\ Flushed(j) \in RunRow /\ Flushed(j).iteration = j.iteration
           /\ Flushed(j).sequence = j.seen.sequence + 1
           /\ Flushed(j).used = j.seen.used + j.out.requests
           /\ Flushed(j).graph = row.graph
           /\ IF j.out.wait = None
              THEN /\ Flushed(j).status = row.status /\ Flushed(j).owner = row.owner
                   /\ Flushed(j).lease = row.lease
              ELSE /\ Flushed(j).status = "paused" /\ Flushed(j).owner = None
                   /\ Flushed(j).lease = None
<1> DEFINE written == [row EXCEPT !.iteration = j.iteration,
                         !.sequence = j.seen.sequence + 1,
                         !.used = j.seen.used + j.out.requests]
<1>1. j.seen.sequence \in Nat /\ j.seen.used \in Nat /\ j.out.requests \in Nat
      /\ j.iteration \in Iteration
    BY DEF Job, Seen, Outcome
<1>2. /\ written \in RunRow /\ written.iteration = j.iteration
      /\ written.sequence = j.seen.sequence + 1
      /\ written.used = j.seen.used + j.out.requests
      /\ written.graph = row.graph /\ written.status = row.status
      /\ written.owner = row.owner /\ written.lease = row.lease
  <2>1. j.seen.sequence + 1 \in Nat /\ j.seen.used + j.out.requests \in Nat
      BY <1>1
  <2> QED
      BY <1>1, <2>1 DEF RunRow
<1>3. Flushed(j) = IF j.out.wait = None THEN written ELSE Moved(written, "paused")
    BY DEF Flushed
<1> HIDE DEF written
<1>4. CASE j.out.wait = None
    BY <1>2, <1>3, <1>4
<1>5. CASE j.out.wait # None
  <2>1. "paused" \in RunStatus /\ "paused" \in Terminal \union {"paused"}
      BY DEF RunStatus
  <2> QED
      BY <1>2, <1>3, <1>5, <2>1, MovedRow
<1> QED
    BY <1>4, <1>5

\* A job that has just written or found the latest checkpoint follows it.
LEMMA AtLatest ==
    ASSUME NEW d \in Checkpoint, NEW k, k.pc = "node", NEW row, JobAt(row.graph, d, k),
           NEW w
    PROVE  \E e \in Point : Follows(e, k, w, row, d, k.done)
<1> DEFINE e == [node |-> d.node, iteration |-> d.iteration, next |-> d.next]
           v == row.graph
<1>1. e \in Point /\ Same(e, d)
    BY DEF Point, Checkpoint, Same
<1>2. Sound(v, e) /\ Reached(v, e) = Reached(v, d)
    BY <1>1, SamePoint DEF JobAt
<1>3. AtFrontier(v, d, k) => AtFrontier(v, e, k)
    BY <1>1 DEF AtFrontier, Onward, Same
<1>4. Walking(v, d, k) => Walking(v, e, k)
    BY <1>1 DEF Walking, Same
<1> HIDE DEF e
<1>5. JobAt(v, e, k)
    BY <1>1, <1>2, <1>3, <1>4 DEF JobAt, Same
<1>6. Follows(e, k, w, row, d, k.done)
    BY <1>1, <1>5 DEF Follows
<1> QED
    BY <1>1, <1>6

LEMMA SavedKeepsPath ==
    ASSUME PathInv, NEW w \in Worker, Saved(w),
           hitl' \in [Run -> [Iteration -> HitlRow]], obs' \in [Run -> [Iteration -> ObsRow]],
           \A s \in Run \ {worker[w].run} : hitl'[s] = hitl[s] /\ obs'[s] = obs[s]
    PROVE  PathInv'
<1> DEFINE j == worker[w]
           r == j.run
           v == run[r].graph
           row == Flushed(j)
           d == Written(j)
           k == AfterWrite(j)
<1>1. /\ TypeOK /\ j.pc = "writing" /\ Key(j) \notin done[r] /\ ~Refused(j)
      /\ run' = [run EXCEPT ![r] = row] /\ last' = [last EXCEPT ![r] = d]
      /\ done' = [done EXCEPT ![r] = done[r] \union {Key(j)}]
      /\ worker' = [worker EXCEPT ![w] = k] /\ UNCHANGED <<proposal, spent, faults>>
    BY DEF PathInv, Saved
<1>2. /\ j \in Job /\ r \in Run /\ run[r] \in RunRow /\ v \in Versions
      /\ run[r].status # None /\ RowSound(run[r], last[r], done[r])
    BY <1>1, JobFacts
<1>3. PICK c \in Point : JobAt(v, c, j) /\ Same(c, last[r])
    BY <1>1, WriterIsAbreast
<1>4. /\ j.done = done[r] /\ j.seen.sequence = run[r].sequence
      /\ j.seen.used = run[r].used
      /\ OutFits(j) /\ run[r].iteration <= j.iteration
      /\ j.seen.used + j.out.requests <= RequestLimit
    BY <1>1, WriterIsAbreast
<1>5. /\ d \in Checkpoint /\ Sound(v, d) /\ d.iteration = j.iteration /\ d.node = j.node
      /\ KeyIteration(j) = j.iteration /\ Key(j) = Onward(v, c, j.next)
      /\ ~StoppedAt(c.node, j.next) /\ Key(j)[2] = j.iteration
      /\ Key(j) \in Node \X Iteration
      /\ Reached(v, d) = done[r] \union {Key(j)}
      /\ k \in Job /\ k.run = r /\ k.done = done[r] \union {Key(j)}
      /\ k.next = d.next
      /\ \/ k.pc = "node" /\ JobAt(v, d, k)
         \/ /\ k.pc = "finish" /\ k.target \in {"paused", "completed"}
            /\ k.target = "paused" => d.next \in Stopping
  <2>1. StepsTo(v, c, j, d, k)
      BY <1>1, <1>2, <1>3, <1>4, WrittenFollows, Zenon
  <2> HIDE DEF d, k
  <2> QED
      BY <1>4, <2>1 DEF StepsTo
<1>6. /\ row \in RunRow /\ row.iteration = j.iteration /\ row.sequence = run[r].sequence + 1
      /\ row.used = run[r].used + j.out.requests /\ row.graph = v
      /\ IF j.out.wait = None
         THEN row.status = run[r].status /\ row.owner = run[r].owner /\ row.lease = run[r].lease
         ELSE row.status = "paused" /\ row.owner = None /\ row.lease = None
  <2>1. /\ row \in RunRow /\ row.iteration = j.iteration
        /\ row.sequence = j.seen.sequence + 1
        /\ row.used = j.seen.used + j.out.requests /\ row.graph = v
        /\ IF j.out.wait = None
           THEN row.status = run[r].status /\ row.owner = run[r].owner /\ row.lease = run[r].lease
           ELSE row.status = "paused" /\ row.owner = None /\ row.lease = None
    <3>1. KeyIteration(j) = j.iteration
        BY <1>5
    <3> QED
        BY <1>2, <3>1, FlushedRow, SMTT(20)
  <2> HIDE DEF row
  <2> QED
      BY <1>4, <2>1, SMTT(20)
<1> HIDE DEF row, d, k
<1>7. /\ run'[r] = row /\ last'[r] = d /\ done'[r] = done[r] \union {Key(j)}
      /\ worker'[w] = k
      /\ \A s \in Run \ {r} : run'[s] = run[s] /\ last'[s] = last[s] /\ done'[s] = done[s]
      /\ \A x \in Worker \ {w} : worker'[x] = worker[x]
    BY <1>1, <1>2 DEF TypeOK
<1>8. TypeOK'
  <2>1. run' \in [Run -> RunRow] /\ last' \in [Run -> Checkpoint]
        /\ worker' \in [Worker -> Job]
      BY <1>1, <1>2, <1>5, <1>6 DEF TypeOK
  <2>2. done' \in [Run -> SUBSET (Node \X Iteration)]
      BY <1>1, <1>2, <1>5, ZenonT(40) DEF TypeOK
  <2> QED
      BY <1>1, <2>1, <2>2, Zenon DEF TypeOK
<1>9. ASSUME NEW s \in Run PROVE RowSound(run'[s], last'[s], done'[s])
  <2>1. CASE s = r
    <3>1. /\ IsFiniteSet(done[r] \union {Key(j)})
          /\ Cardinality(done[r] \union {Key(j)}) = Cardinality(done[r]) + 1
        BY <1>1, <1>2, FS_AddElement DEF RowSound
    <3>2. RowSound(row, d, done[r] \union {Key(j)})
      <4>1. row.sequence = Cardinality(done[r] \union {Key(j)})
          BY <1>2, <1>6, <3>1 DEF RowSound
      <4>2. row.used <= RequestLimit
          BY <1>4, <1>6
      <4>3. row.owner # None => row.status = "running"
          BY <1>2, <1>6 DEF RowSound
      <4>4. row.lease # None => row.owner # None
          BY <1>2, <1>6 DEF RowSound
      <4>5. row.status # None
          BY <1>2, <1>6 DEF None
      <4> QED
          BY <1>5, <1>6, <3>1, <4>1, <4>2, <4>3, <4>4, <4>5 DEF RowSound
    <3> QED
        BY <2>1, <3>2, <1>7
  <2>2. CASE s # r
      BY <2>2, <1>7 DEF PathInv
  <2> QED
      BY <2>1, <2>2
<1>10. ASSUME NEW s \in Run PROVE Untouched(s)'
  <2>1. SUFFICES ASSUME run'[s].status = None, NEW x \in Worker PROVE ~On(x, s)'
      BY DEF Untouched
  <2>2. s # r
      BY <2>1, <1>2, <1>6, <1>7 DEF None
  <2>3. ~On(x, s)
      BY <2>1, <2>2, <1>7 DEF PathInv, Untouched
  <2> QED
    <3>1. CASE x = w
        BY <3>1, <2>2, <1>5, <1>7 DEF On
    <3>2. CASE x # w
        BY <3>2, <2>3, <1>7 DEF On
    <3> QED
        BY <3>1, <3>2
<1>11. JobOK(w)'
  <2>1. JobSound(k, w, row, d, done'[r])
    <3>1. CASE k.pc = "node" /\ JobAt(v, d, k)
      <4>1. \E e \in Point : Follows(e, k, w, row, d, done'[r])
        <5>1. JobAt(row.graph, d, k) /\ k.pc = "node" /\ done'[r] = k.done
            BY <3>1, <1>5, <1>6, <1>7
        <5>2. d \in Checkpoint
            BY <1>5
        <5>3. \E e \in Point : Follows(e, k, w, row, d, k.done)
            BY <5>1, <5>2, AtLatest, Zenon
        <5> QED
            BY <5>1, <5>3
      <4> QED
          BY <3>1, <4>1, <1>5, <1>7 DEF JobSound
    <3>2. CASE k.pc = "finish" /\ k.target \in {"paused", "completed"}
        BY <3>2 DEF JobSound, Walks
    <3> QED
        BY <3>1, <3>2, <1>5
  <2> QED
      BY <2>1, <1>2, <1>5, <1>7 DEF JobOK
<1>12. ASSUME NEW x \in Worker, x # w PROVE JobOK(x)'
  <2> DEFINE i == worker[x]
  <2>1. SUFFICES ASSUME i.pc # "idle" PROVE JobOK(x)'
      BY <1>7, <1>12 DEF JobOK
  <2>2. i \in Job /\ i.run \in Run /\ JobSound(i, x, run[i.run], last[i.run], done[i.run])
      BY <2>1, JobFacts
  <2>3. CASE i.run # r
      BY <2>2, <2>3, <1>7, <1>12 DEF JobOK
  <2>4. CASE i.run = r
    <3>1. run[r].sequence \in Nat /\ i.seen.sequence \in Nat
        BY <1>2, <2>2 DEF RunRow, Job, Seen
    <3>2. i.pc = "writing" => i.seen.sequence < row.sequence
        BY <2>2, <2>4, <3>1, <1>6 DEF JobSound
    <3>3. ASSUME i.pc \in Walks
          PROVE  i.done \subseteq done'[r] /\ \E e \in Point : Follows(e, i, x, row, d, done'[r])
      <4>1. i.done \subseteq done[r]
          BY <2>2, <2>4, <3>3 DEF JobSound
      <4>2. PICK e \in Point : Follows(e, i, x, run[r], last[r], done[r])
          BY <2>2, <2>4, <3>3 DEF JobSound
      <4>3. i.done # done'[r]
          BY <4>1, <1>1, <1>7
      <4>4. ASSUME row.owner = x
            PROVE  Passed(v, e, i.next, done'[r], row.iteration)
        <5>1. run[r].owner = x
            BY <4>4, <1>6 DEF RuntimeConstants, None
        <5>2. i.done = done[r] \/ Passed(v, e, i.next, done[r], run[r].iteration)
            BY <5>1, <4>2 DEF Follows
        <5>3. CASE Passed(v, e, i.next, done[r], run[r].iteration)
          <6>1. JobAt(v, e, i)
              BY <4>2 DEF Follows
          <6>2. StoppedAt(e.node, i.next) \/ Onward(v, e, i.next) \in done'[r]
                \/ Onward(v, e, i.next)[2] < run[r].iteration
              BY <5>3, <1>7 DEF Passed
          <6>3. run[r].iteration \in Nat /\ row.iteration \in Nat
                /\ run[r].iteration <= row.iteration
              BY <1>2, <1>4, <1>6 DEF RunRow, Iteration
          <6>4. ~StoppedAt(e.node, i.next) => Onward(v, e, i.next)[2] \in Nat
            <7>1. Sound(v, e) /\ i.next \in {None, e.next}
                BY <6>1 DEF JobAt
            <7>2. e.iteration \in Nat
                BY <7>1 DEF Sound, Iteration
            <7> QED
                BY <7>2 DEF Onward
          <6> QED
              BY <6>2, <6>3, <6>4 DEF Passed
        <5>4. CASE i.done = done[r]
          <6>1. Same(e, last[r]) /\ JobAt(v, e, i)
              BY <4>2, <5>4 DEF Follows
          <6>2. Sound(v, e) /\ i.next \in {None, e.next}
              BY <6>1 DEF JobAt
          <6>3. j.next \in {None, e.next} /\ e.node = c.node /\ e.iteration = c.iteration
                /\ e.next = last[r].next
              BY <6>1, <1>3 DEF Same, JobAt
          <6>4. i.next = j.next \/ i.next = None
            <7>1. OnPath(x, r) /\ OnPath(w, r)
                BY <3>3, <2>4, <1>1 DEF OnPath, Walks
            <7>2. Forgetful(r)
                BY <1>2 DEF PathInv
            <7>3. CASE i.next # last[r].next
                BY <6>2, <6>3, <7>3
            <7>4. CASE j.next # last[r].next
                BY <7>1, <7>2, <7>4, <5>1, <1>4 DEF Forgetful
            <7> QED
                BY <7>3, <7>4
          <6>5. Onward(v, e, j.next) = Onward(v, c, j.next) /\ ~StoppedAt(e.node, j.next)
              BY <6>3, <1>5 DEF Onward
          <6>6. Onward(v, e, j.next) \in done'[r] /\ Onward(v, e, j.next)[2] = row.iteration
              BY <6>5, <1>5, <1>6, <1>7, ZenonT(40)
          <6> QED
            <7>1. \/ Onward(v, e, i.next) = Onward(v, e, j.next)
                  \/ Onward(v, e, i.next)[2] < Onward(v, e, j.next)[2]
                BY <6>2, <6>4, Overtaken
            <7> QED
                BY <6>6, <7>1 DEF Passed
        <5> QED
            BY <5>2, <5>3, <5>4
      <4>5. Follows(e, i, x, row, d, done'[r])
          BY <4>2, <4>3, <4>4, <3>1, <3>2, <1>6 DEF Follows
      <4> QED
          BY <4>1, <4>5, <1>7
    <3>4. JobSound(i, x, row, d, done'[r])
        BY <2>2, <2>4, <3>1, <3>2, <3>3, <1>6 DEF JobSound
    <3> QED
        BY <2>2, <2>4, <3>4, <1>7, <1>12, ZenonT(40) DEF JobOK
  <2> QED
      BY <2>3, <2>4
<1>13. ASSUME NEW s \in Run PROVE Forgetful(s)'
  <2>1. SUFFICES ASSUME NEW x \in Worker, OnPath(x, s)', worker'[x].done = done'[s],
                        worker'[x].next # last'[s].next
                 PROVE  /\ WaitIsOver(s)'
                        /\ \A y \in Worker : OnPath(y, s)' /\ run'[s].owner = y =>
                              worker'[y].done = done'[s] /\ worker'[y].next = None
      BY DEF Forgetful
  <2>2. CASE s = r
    <3>1. x # w
        BY <2>1, <2>2, <1>5, <1>7
    <3>2. worker[x].done \subseteq done[r]
      <4>1. OnPath(x, r)
          BY <2>1, <2>2, <3>1, <1>7 DEF OnPath
      <4>2. worker[x].pc # "idle"
          BY <4>1 DEF OnPath, Walks
      <4> QED
          BY <4>1, <4>2, JobFacts DEF JobSound, OnPath
    <3> QED
        BY <3>1, <3>2, <2>1, <2>2, <1>1, <1>7
  <2>3. CASE s # r
    <3>1. ASSUME NEW y \in Worker, OnPath(y, s)' PROVE OnPath(y, s) /\ worker'[y] = worker[y]
        BY <3>1, <2>3, <1>5, <1>7 DEF OnPath
    <3>2. WaitIsOver(s) /\ \A y \in Worker : OnPath(y, s) /\ run[s].owner = y =>
                              worker[y].done = done[s] /\ worker[y].next = None
        BY <2>1, <2>3, <3>1, <1>7 DEF PathInv, Forgetful
    <3>3. WaitIsOver(s)'
        BY <2>3, <3>2 DEF WaitIsOver
    <3> QED
        BY <2>3, <3>1, <3>2, <3>3, <1>7
  <2> QED
      BY <2>2, <2>3
<1> QED
  <2>1. \A x \in Worker : JobOK(x)'
      BY <1>11, <1>12
  <2> QED
      BY <1>8, <1>9, <1>10, <1>13, <2>1 DEF PathInv

LEMMA KnownKeepsPath ==
    ASSUME PathInv, NEW w \in Worker, KnownCheckpoint(w)
    PROVE  PathInv'
<1> DEFINE j == worker[w]
           r == j.run
           v == run[r].graph
           d == Written(j)
           k == AfterWrite(j)
<1>1. /\ TypeOK /\ j.pc = "writing" /\ done[r] = j.done \union {Key(j)} /\ last[r] = d
      /\ worker' = [worker EXCEPT ![w] = k]
      /\ UNCHANGED <<run, last, done, waits, spent, faults>>
    BY DEF PathInv, KnownCheckpoint
<1>2. /\ j \in Job /\ r \in Run /\ v \in Versions /\ run[r].status # None
      /\ JobSound(j, w, run[r], last[r], done[r])
    BY <1>1, JobFacts
<1>3. OutFits(j) /\ \E c \in Point : JobAt(v, c, j)
    BY <1>1, <1>2 DEF JobSound, Walks, Follows
<1>4. PICK c \in Point : JobAt(v, c, j)
    BY <1>3
<1>5. StepsTo(v, c, j, d, k)
    BY <1>1, <1>2, <1>3, <1>4, WrittenFollows, Zenon
<1> HIDE DEF d, k
<1>6. /\ d \in Checkpoint /\ Key(j) \notin j.done
      /\ k \in Job /\ k.run = r /\ k.done = done[r] /\ k.next = last[r].next
      /\ \/ k.pc = "node" /\ JobAt(v, d, k)
         \/ k.pc = "finish" /\ k.target \in {"paused", "completed"}
    BY <1>1, <1>5 DEF StepsTo
<1>7. JobSound(k, w, run[r], last[r], done[r])
  <2>1. CASE k.pc = "node" /\ JobAt(v, d, k)
    <3>1. \E e \in Point : Follows(e, k, w, run[r], d, k.done)
        BY <2>1, <1>6, AtLatest
    <3> QED
        BY <2>1, <3>1, <1>1, <1>6 DEF JobSound
  <2>2. CASE k.pc = "finish" /\ k.target \in {"paused", "completed"}
      BY <2>2 DEF JobSound, Walks
  <2> QED
      BY <2>1, <2>2, <1>6
<1>8. worker'[w] = k /\ \A x \in Worker \ {w} : worker'[x] = worker[x]
    BY <1>1 DEF TypeOK
<1>9. \A s \in Run : WaitIsOver(s) <=> WaitIsOver(s)'
    BY <1>1 DEF WaitIsOver, waits
<1>10. ASSUME NEW s \in Run PROVE Forgetful(s)'
  <2>1. SUFFICES ASSUME NEW x \in Worker, OnPath(x, s)', worker'[x].done = done[s],
                        worker'[x].next # last[s].next
                 PROVE  /\ WaitIsOver(s)
                        /\ \A y \in Worker : OnPath(y, s)' /\ run[s].owner = y =>
                              worker'[y].done = done[s] /\ worker'[y].next = None
      BY <1>1, <1>9 DEF Forgetful
  <2>2. x # w
      BY <2>1, <1>6, <1>8 DEF OnPath
  <2>3. /\ WaitIsOver(s)
        /\ \A y \in Worker : OnPath(y, s) /\ run[s].owner = y =>
              worker[y].done = done[s] /\ worker[y].next = None
      BY <2>1, <2>2, <1>8 DEF OnPath, PathInv, Forgetful
  <2>4. ASSUME NEW y \in Worker, OnPath(y, s)', run[s].owner = y
        PROVE  worker'[y].done = done[s] /\ worker'[y].next = None
    <3>1. CASE y = w
      <4>1. s = r /\ OnPath(w, r)
          BY <2>4, <3>1, <1>1, <1>6, <1>8 DEF OnPath, Walks
      <4>2. j.done = done[r]
          BY <2>3, <2>4, <3>1, <4>1
      <4> QED
          BY <4>2, <1>1, <1>6
    <3>2. CASE y # w
        BY <2>3, <2>4, <3>2, <1>8 DEF OnPath
    <3> QED
        BY <3>1, <3>2
  <2> QED
      BY <2>3, <2>4
<1>11. TypeOK'
  <2>1. worker' \in [Worker -> Job]
      BY <1>1, <1>6 DEF TypeOK
  <2> QED
      BY <1>1, <2>1, Zenon DEF TypeOK, waits
<1>12. Placed(k, w)
    BY <1>1, <1>2, <1>6, <1>7 DEF Placed
<1> QED
    BY <1>1, <1>9, <1>10, <1>11, <1>12, RestingRows, JobMoves

LEMMA WriteFailureKeepsPath ==
    ASSUME PathInv, NEW w \in Worker, WriteFails(w)
    PROVE  PathInv'
<1>1. TypeOK /\ worker[w].pc = "writing" /\ Fail(w)
      /\ UNCHANGED <<run, last, done, waits, spent, faults>>
    BY DEF WriteFails, PathInv
<1> QED
    BY <1>1, FailureKeepsPath DEF TypeOK

\* The three ways to write a checkpoint differ in the wait they open.
LEMMA WriteKeepsPath ==
    ASSUME PathInv, NEW w \in Worker,
           WriteCheckpoint(w) \/ WriteAndAwaitDecision(w) \/ WriteAndAwaitObservation(w)
    PROVE  PathInv'
<1> DEFINE j == worker[w]
           r == j.run
<1>1. TypeOK /\ Saved(w)
    BY DEF PathInv, WriteCheckpoint, WriteAndAwaitDecision, WriteAndAwaitObservation
<1>2. r \in Run /\ j.iteration \in Iteration
    BY <1>1, JobFacts DEF Saved, Job
<1>3. /\ hitl \in [Run -> [Iteration -> HitlRow]] /\ obs \in [Run -> [Iteration -> HitlRow]]
      /\ Waiting \in HitlRow
    BY <1>1, WaitRows DEF TypeOK, Waiting, HitlRow, WaitStatus
<1>4. /\ hitl' \in [Run -> [Iteration -> HitlRow]] /\ obs' \in [Run -> [Iteration -> HitlRow]]
      /\ \A s \in Run \ {r} : hitl'[s] = hitl[s] /\ obs'[s] = obs[s]
  <2>1. CASE WriteCheckpoint(w)
      BY <2>1, <1>3 DEF WriteCheckpoint
  <2>2. CASE WriteAndAwaitDecision(w)
    <3>1. hitl' = [hitl EXCEPT ![r] = [hitl[r] EXCEPT ![j.iteration] = Waiting]]
          /\ UNCHANGED obs
        BY <2>2, <1>2, <1>3 DEF WriteAndAwaitDecision
    <3> QED
        BY <3>1, <1>2, <1>3
  <2>3. CASE WriteAndAwaitObservation(w)
    <3>1. obs' = [obs EXCEPT ![r] = [obs[r] EXCEPT ![j.iteration] = Waiting]]
          /\ UNCHANGED hitl
        BY <2>3, <1>2, <1>3 DEF WriteAndAwaitObservation
    <3> QED
        BY <3>1, <1>2, <1>3
  <2> QED
      BY <2>1, <2>2, <2>3
<1> QED
    BY <1>1, <1>4, SavedKeepsPath, WaitRows

LEMMA PathStep ==
    ASSUME PathInv, [RunNext]_vars
    PROVE  PathInv'
<1>1. CASE PublicApi
  <2>1. ASSUME NEW r \in Run, CancelRun(r) PROVE PathInv'
      BY <2>1, TransitionKeepsPath DEF CancelRun, RunStatus, PathInv, TypeOK
  <2> QED
      BY <1>1, <2>1, CreateKeepsPath DEF PublicApi
<1>2. CASE InternalApi
  <2>1. ASSUME NEW r \in Run, NEW t \in RunStatus, RequestTransition(r, t) PROVE PathInv'
    <3>1. faults' \in Nat
        BY <2>1 DEF RequestTransition, PathInv, TypeOK
    <3> QED
        BY <2>1, <3>1, TransitionKeepsPath DEF RequestTransition
  <2> QED
      BY <1>2, <2>1 DEF InternalApi
<1>3. CASE Decisions
    BY <1>3, DecideKeepsPath, ResolveKeepsPath DEF Decisions
<1>4. CASE Faults
    BY <1>4, CrashKeepsPath, ExpiryKeepsPath DEF Faults
<1>5. ASSUME NEW w \in Worker, WorkerStep(w) PROVE PathInv'
    BY <1>5, ClaimKeepsPath, LoadKeepsPath, SkipKeepsPath, RenewKeepsPath, AnswerKeepsPath,
       AskKeepsPath, HandlerFailureKeepsPath, ReadKeepsPath, WriteKeepsPath, KnownKeepsPath,
       WriteFailureKeepsPath, ReadForFinishKeepsPath, FinishKeepsPath
       DEF WorkerStep, NodeStep, CheckpointStep
<1>6. CASE UNCHANGED vars
  <2>1. TypeOK'
      BY <1>6 DEF vars, waits, PathInv, TypeOK
  <2>2. \A r \in Run : WaitIsOver(r) => WaitIsOver(r)'
      BY <1>6 DEF vars, waits, WaitIsOver
  <2>3. JobsSteady /\ Remembered
      BY <1>6 DEF vars, JobsSteady, Remembered
  <2> QED
      BY <1>6, <2>1, <2>2, <2>3, RestingRows, SteadyStep DEF vars
<1> QED
    BY <1>1, <1>2, <1>3, <1>4, <1>5, <1>6 DEF RunNext

\* Type correctness and the path invariant hold in every reachable state.
THEOREM RunsStayOnPath == RunSpec => []PathInv
<1>1. PathInv /\ [RunNext]_vars => PathInv'
    BY PathStep
<1> QED
    BY PathInit, <1>1, PTL DEF RunSpec

-----------------------------------------------------------------------------
(* What follows from the path *)

\* Behind every node of the path lies its predecessor.
LEMMA ReachedInOrder ==
    ASSUME NEW v \in Versions, NEW c, Sound(v, c), NEW k \in Reached(v, c),
           k[1] # "load_incident"
    PROVE  Predecessor(v, k) \in Reached(v, c)
<1> DEFINE n == Place(v, k[1])
           m == Place(v, c.node)
           b == NodesOf(v)[n - 1]
<1>1. /\ k[1] \in NodeSet(v) /\ k[2] \in Iteration /\ k[2] \in Nat /\ Within(v, c, k)
      /\ c.node \in NodeSet(v) /\ c.node # None /\ c.iteration \in Nat
    BY DEF Reached, Sound, Iteration
<1>2. /\ n \in 1..Size(v) /\ m \in 1..Size(v) /\ n # 1 /\ Size(v) \in {10, 11}
      /\ k[1] = "select_next_step" => n = 6
      /\ n = 6 => k[1] = "select_next_step"
      /\ m <= 5 => c.iteration = 0
    BY <1>1, NodePlaces DEF Sound
<1>3. n - 1 \in 1..Size(v) /\ b \in NodeSet(v) /\ Place(v, b) = n - 1
    BY <1>2, Places
<1>4. b \in ContextNodes <=> n - 1 <= 5
    BY <1>3, NodePlaces
<1>5. Predecessor(v, k) = IF k[1] = "select_next_step" /\ k[2] > 0
                          THEN <<"maybe_replan", k[2] - 1>>
                          ELSE <<b, IF b \in ContextNodes THEN 0 ELSE k[2]>>
    BY DEF Predecessor, Place
<1> HIDE DEF b, n, m
<1>6. CASE k[1] = "select_next_step" /\ k[2] > 0
  <2>1. Predecessor(v, k) = <<"maybe_replan", k[2] - 1>>
      BY <1>5, <1>6
  <2>2. "maybe_replan" \in NodeSet(v) /\ Place(v, "maybe_replan") = Size(v) - 1
      BY NodePlaces
  <2>3. k[2] - 1 \in Iteration /\ k[2] - 1 < c.iteration
      BY <1>1, <1>2, <1>6 DEF Within, Iteration, n, m
  <2> QED
      BY <2>1, <2>2, <2>3, <1>1, <1>2 DEF Reached, Within
<1>7. CASE ~(k[1] = "select_next_step" /\ k[2] > 0)
  <2>1. Predecessor(v, k) = <<b, IF b \in ContextNodes THEN 0 ELSE k[2]>>
      BY <1>5, <1>7
  <2>2. CASE n <= 6
    <3>1. Predecessor(v, k) = <<b, 0>> /\ 0 \in Iteration
        BY <2>1, <2>2, <1>2, <1>4 DEF Iteration, RuntimeConstants
    <3>2. n - 1 <= m
        BY <1>1, <1>2, <2>2 DEF Within, n, m
    <3> QED
        BY <3>1, <3>2, <2>2, <1>1, <1>2, <1>3 DEF Reached, Within, m
  <2>3. CASE n > 6
    <3>1. Predecessor(v, k) = <<b, k[2]>>
        BY <2>1, <2>3, <1>2, <1>4
    <3> QED
        BY <3>1, <2>3, <1>1, <1>2, <1>3 DEF Reached, Within, n, m
  <2> QED
      BY <2>2, <2>3, <1>2
<1> QED
    BY <1>6, <1>7

LEMMA PathImplies ==
    ASSUME PathInv
    PROVE  /\ TypeOK /\ SequenceCountsCheckpoints /\ NodesInOrder
           /\ \A r \in Run : run[r].used <= RequestLimit
<1>1. TypeOK /\ \A r \in Run : RowSound(run[r], last[r], done[r])
    BY DEF PathInv
<1>2. SequenceCountsCheckpoints /\ \A r \in Run : run[r].used <= RequestLimit
    BY <1>1 DEF RowSound, SequenceCountsCheckpoints
<1>3. NodesInOrder
  <2> SUFFICES ASSUME NEW r \in Run, NEW k \in done[r], k[1] # "load_incident"
               PROVE  Predecessor(run[r].graph, k) \in done[r]
      BY DEF NodesInOrder
  <2>1. run[r].graph \in Versions
      BY <1>1 DEF TypeOK, RunRow, Versions, RuntimeConstants
  <2>2. Sound(run[r].graph, last[r]) /\ done[r] = Reached(run[r].graph, last[r])
      BY <1>1 DEF RowSound
  <2> QED
      BY <2>1, <2>2, ReachedInOrder
<1> QED
    BY <1>1, <1>2, <1>3

\* Only a write adds to what is checkpointed.
LEMMA OnlyWritesAdd ==
    ASSUME [RunNext]_vars
    PROVE  UNCHANGED done \/ \E w \in Worker : Saved(w)
<1>1. CASE PublicApi \/ InternalApi \/ Decisions \/ Faults
    BY <1>1 DEF PublicApi, InternalApi, Decisions, Faults, CreateRun, CancelRun,
           RequestTransition, TransitionRun, DecideApproval, ResolveTask, Crash, LeaseExpires
<1>2. ASSUME NEW w \in Worker, WorkerStep(w) PROVE UNCHANGED done \/ Saved(w)
  <2>1. CASE NodeStep(w)
      BY <2>1 DEF NodeStep, SkipNode, RenewLease, AnswerWithoutModel, AskModel, HandlerFails
  <2>2. CASE CheckpointStep(w)
      BY <2>2 DEF CheckpointStep, ReadRun, WriteCheckpoint, WriteAndAwaitDecision,
             WriteAndAwaitObservation, KnownCheckpoint, WriteFails
  <2> QED
      BY <1>2, <2>1, <2>2 DEF WorkerStep, Claim, Load, ReadForFinish, Finish
<1> QED
    BY <1>1, <1>2 DEF RunNext, vars

LEMMA EdgeStep ==
    ASSUME PathInv, [RunNext]_vars, NEW r \in Run, done'[r] # done[r]
    PROVE  WaitIsOver(r) \/ last'[r].node \in EdgesFrom(r)
<1>1. PICK w \in Worker : Saved(w)
    BY OnlyWritesAdd
<1> DEFINE j == worker[w]
           v == run[r].graph
<1>2. TypeOK /\ j.pc = "writing" /\ Key(j) \notin done[j.run] /\ ~Refused(j) /\ j.run \in Run
    BY <1>1, JobFacts DEF Saved, PathInv
<1>3. j.run = r /\ last'[r] = Written(j)
    BY <1>1, <1>2 DEF Saved, TypeOK
<1>4. PICK c \in Point : JobAt(v, c, j) /\ Same(c, last[r])
    BY <1>2, <1>3, WriterIsAbreast
<1>5. j.done = done[r]
    BY <1>2, <1>3, WriterIsAbreast
<1>6. /\ ~StoppedAt(c.node, j.next) /\ <<j.node, j.iteration>> = Onward(v, c, j.next)
      /\ Sound(v, c) /\ j.next \in {None, c.next}
    BY <1>2, <1>4 DEF JobAt, AtFrontier
<1>7. CASE j.next = last[r].next
  <2>1. c.node = last[r].node /\ c.iteration = last[r].iteration
      BY <1>4 DEF Same
  <2>2. last'[r].node = j.node
      BY <1>3 DEF Written
  <2>3. CASE c.node = None
    <3>1. j.node = "load_incident"
        BY <1>6, <2>3 DEF Onward, None
    <3> QED
        BY <3>1, <2>1, <2>2, <2>3 DEF EdgesFrom, None
  <2>4. CASE c.node = "maybe_replan" /\ j.next = "continue"
    <3>1. j.node = "select_next_step" /\ None # "maybe_replan"
        BY <1>6, <2>4 DEF Onward, None
    <3> QED
        BY <3>1, <1>6, <1>7, <2>1, <2>2, <2>4 DEF EdgesFrom
  <2>5. CASE c.node # None /\ ~(c.node = "maybe_replan" /\ j.next = "continue")
    <3>1. j.node = Following(v, c.node)
        BY <1>6, <2>5 DEF Onward
    <3> QED
        BY <3>1, <1>6, <1>7, <2>1, <2>2, <2>5 DEF EdgesFrom
  <2> QED
      BY <2>3, <2>4, <2>5
<1>8. CASE j.next # last[r].next
    BY <1>2, <1>3, <1>5, <1>8 DEF PathInv, Forgetful, OnPath, Walks
<1> QED
    BY <1>7, <1>8

\* From one checkpoint to the next a run follows an edge of its graph, through every crash
\* and takeover, and every node it has checkpointed is preceded by the one before it.
THEOREM RunsFollowTheirGraph == RunSpec => RecoveryFollowsGraph
<1>1. PathInv => NodesInOrder
    BY PathImplies
<1>2. PathInv /\ [RunNext]_vars =>
        [\A r \in Run : done'[r] # done[r] =>
            WaitIsOver(r) \/ last'[r].node \in EdgesFrom(r)]_vars
    BY EdgeStep
<1> QED
    BY RunsStayOnPath, <1>1, <1>2, PTL DEF RunSpec, RecoveryFollowsGraph, CheckpointsFollowEdges

-----------------------------------------------------------------------------
(* As long as nothing fails, a run has one worker, and rests while it waits *)

\* A worker that is about to find that the run is no longer its own.
Parting(w) == worker[w].pc = "finish" /\ ~Owns(w)
Active(w, r) == On(w, r) /\ ~Parting(w)
WaitsAt(r, i) == hitl[r][i].status = "waiting" \/ obs[r][i].status = "waiting"
OneWait(r) ==
    \A i, k \in Iteration : WaitsAt(r, i) /\ WaitsAt(r, k) =>
        /\ i = k
        /\ ~(hitl[r][i].status = "waiting" /\ obs[r][i].status = "waiting")

Calm(r) ==
    /\ run[r].status = "running" =>
          run[r].lease = "live" /\ \E w \in Worker : run[r].owner = w /\ On(w, r)
    /\ \A w \in Worker : Active(w, r) =>
          /\ \/ run[r].status = "running" /\ run[r].owner = w
             \/ run[r].status = "cancelled"
          /\ \A x \in Worker : Active(x, r) => x = w
          /\ worker[w].pc \in Walks => worker[w].done = done[r]
          /\ worker[w].pc \in {"finish", "finishing"} /\ worker[w].target = "paused" =>
                last[r].next \in Stopping
    /\ \A i \in Iteration : WaitsAt(r, i) => run[r].status = "paused"
    /\ OneWait(r)
    /\ run[r].status = "paused" =>
          (\E i \in Iteration : WaitsAt(r, i)) \/ last[r].next \in Stopping
CalmInv == faults = 0 => \A r \in Run : Calm(r)

LEMMA CalmInit == RunInit => CalmInv
<1> SUFFICES ASSUME RunInit, NEW r \in Run PROVE Calm(r)
    BY DEF CalmInv
<1>1. run[r].status = None /\ \A i \in Iteration : ~WaitsAt(r, i)
    BY DEF RunInit, NoRun, NoWait, WaitsAt, None
<1>2. \A w \in Worker : ~On(w, r)
    BY DEF RunInit, Idle, On
<1> QED
    BY <1>1, <1>2 DEF Calm, OneWait, Active, None

\* A step on one run leaves the others as calm as they were.
LEMMA CalmElsewhere ==
    ASSUME NEW r, Calm(r), run'[r] = run[r], last'[r] = last[r], done'[r] = done[r],
           hitl'[r] = hitl[r], obs'[r] = obs[r],
           \A w \in Worker : worker'[w] = worker[w] \/ (~On(w, r) /\ ~On(w, r)')
    PROVE  Calm(r)'
<1>1. \A w \in Worker : On(w, r)' <=> On(w, r)
    BY DEF On
<1>2. \A w \in Worker : Active(w, r)' <=> Active(w, r)
    BY <1>1 DEF Active, Parting, On, Owns
<1>3. \A w \in Worker : Active(w, r) => worker'[w] = worker[w]
    BY DEF Active
<1>4. \A i \in Iteration : WaitsAt(r, i)' <=> WaitsAt(r, i)
    BY DEF WaitsAt
<1>5. OneWait(r)'
    BY <1>4 DEF Calm, OneWait
<1> QED
    BY <1>1, <1>2, <1>3, <1>4, <1>5 DEF Calm

\* The steps of an active worker that write nothing and keep its lease.
StaysAsActive(w, job) ==
    \/ job.pc = "idle" /\ ~Owns(w)
    \/ /\ job.run = worker[w].run /\ job.pc # "idle"
       /\ worker[w].pc = "finish" => job.pc = "finish" \/ Owns(w)
       /\ Active(w, worker[w].run) =>
             /\ job.pc \in Walks => job.done = done[worker[w].run]
             /\ job.pc \in {"finish", "finishing"} /\ job.target = "paused" =>
                   last[worker[w].run].next \in Stopping
LEMMA CalmOwnStep ==
    ASSUME PathInv, \A s \in Run : Calm(s), NEW w \in Worker, worker[w].pc # "idle",
           NEW job, worker' = [worker EXCEPT ![w] = job],
           UNCHANGED <<last, done, hitl, obs>>,
           \A s \in Run : /\ run'[s].status = run[s].status /\ run'[s].owner = run[s].owner
                          /\ run'[s].lease \in {run[s].lease, "live"},
           \A s \in Run \ {worker[w].run} : run'[s] = run[s],
           StaysAsActive(w, job)
    PROVE  \A s \in Run : Calm(s)'
<1>0. worker[w].run \in Run
    BY JobFacts
<1> SUFFICES ASSUME NEW r \in Run, r = worker[w].run
             PROVE  \A s \in Run : Calm(s)'
    BY <1>0
<1>1. TypeOK /\ r \in Run /\ On(w, r) /\ worker'[w] = job
      /\ \A x \in Worker \ {w} : worker'[x] = worker[x]
    BY JobFacts DEF PathInv, TypeOK, On
<1>2. run'[r].status = run[r].status /\ run'[r].owner = run[r].owner
      /\ run'[r].lease \in {run[r].lease, "live"} /\ Calm(r)
    BY <1>1
<1>3. last' = last /\ done' = done /\ hitl' = hitl /\ obs' = obs
    OBVIOUS
<1>4. ASSUME NEW s \in Run, s # r PROVE Calm(s)'
  <2>1. job.pc = "idle" \/ job.run = r
      BY DEF StaysAsActive
  <2>2. \A x \in Worker : worker'[x] = worker[x] \/ (~On(x, s) /\ ~On(x, s)')
      BY <1>1, <1>4, <2>1 DEF On
  <2>3. run'[s] = run[s] /\ Calm(s)
      BY <1>4
  <2> QED
      BY <1>3, <2>2, <2>3, CalmElsewhere
<1>5. Calm(r)'
  <2>1. \A x \in Worker : Active(x, r)' => Active(x, r)
    <3> SUFFICES ASSUME NEW x \in Worker, Active(x, r)' PROVE Active(x, r)
        OBVIOUS
    <3>1. worker'[x].pc # "idle" /\ worker'[x].run = r
          /\ ~(worker'[x].pc = "finish" /\ run[r].owner # x)
        BY <1>2 DEF Active, On, Parting, Owns
    <3>2. CASE x = w
      <4>1. ~(worker[w].pc = "finish" /\ run[r].owner # w)
          BY <3>1, <3>2, <1>1 DEF StaysAsActive, Owns
      <4> QED
          BY <3>2, <4>1, <1>1 DEF Active, On, Parting, Owns
    <3>3. CASE x # w
        BY <3>1, <3>3, <1>1 DEF Active, On, Parting, Owns
    <3> QED
        BY <3>2, <3>3
  <2>2. run'[r].status = "running" =>
            run'[r].lease = "live" /\ \E x \in Worker : run'[r].owner = x /\ On(x, r)'
    <3> SUFFICES ASSUME run[r].status = "running"
                 PROVE  run'[r].lease = "live" /\ \E x \in Worker : run'[r].owner = x /\ On(x, r)'
        BY <1>2
    <3>1. PICK x \in Worker : run[r].owner = x /\ On(x, r)
        BY <1>2 DEF Calm
    <3>2. run[r].lease = "live"
        BY <1>2 DEF Calm
    <3>3. On(x, r)'
      <4>1. CASE x = w
          BY <3>1, <4>1, <1>1 DEF On, StaysAsActive, Owns
      <4>2. CASE x # w
          BY <3>1, <4>2, <1>1 DEF On
      <4> QED
          BY <4>1, <4>2
    <3> QED
        BY <3>1, <3>2, <3>3, <1>2
  <2>3. ASSUME NEW x \in Worker, Active(x, r)'
        PROVE  /\ \/ run'[r].status = "running" /\ run'[r].owner = x
                  \/ run'[r].status = "cancelled"
               /\ \A y \in Worker : Active(y, r)' => y = x
               /\ worker'[x].pc \in Walks => worker'[x].done = done'[r]
               /\ worker'[x].pc \in {"finish", "finishing"} /\ worker'[x].target = "paused" =>
                     last'[r].next \in Stopping
    <3>1. Active(x, r)
        BY <2>1, <2>3
    <3>2. /\ \/ run'[r].status = "running" /\ run'[r].owner = x
             \/ run'[r].status = "cancelled"
          /\ \A y \in Worker : Active(y, r)' => y = x
        BY <3>1, <2>1, <1>2 DEF Calm
    <3>3. /\ worker'[x].pc \in Walks => worker'[x].done = done'[r]
          /\ worker'[x].pc \in {"finish", "finishing"} /\ worker'[x].target = "paused" =>
                last'[r].next \in Stopping
      <4>1. CASE x = w
        <5>1. job.pc # "idle"
            BY <2>3, <4>1, <1>1 DEF Active, On
        <5> QED
            BY <3>1, <4>1, <5>1, <1>1, <1>3 DEF StaysAsActive
      <4>2. CASE x # w
          BY <3>1, <4>2, <1>1, <1>2, <1>3 DEF Calm
      <4> QED
          BY <4>1, <4>2
    <3> QED
        BY <3>2, <3>3
  <2>4. \A i \in Iteration : WaitsAt(r, i)' <=> WaitsAt(r, i)
      BY <1>3 DEF WaitsAt
  <2>5. OneWait(r)'
    <3>1. OneWait(r)
        BY <1>2 DEF Calm
    <3> QED
        BY <3>1, <1>3, <2>4 DEF OneWait
  <2>6. /\ \A i \in Iteration : WaitsAt(r, i)' => run'[r].status = "paused"
        /\ run'[r].status = "paused" =>
              (\E i \in Iteration : WaitsAt(r, i)') \/ last'[r].next \in Stopping
      BY <1>2, <1>3, <2>4 DEF Calm
  <2> QED
      BY <2>2, <2>3, <2>5, <2>6 DEF Calm
<1> QED
    BY <1>4, <1>5

\* The steps that only move one worker, or renew its lease.
LEMMA CalmGoIdle ==
    ASSUME PathInv, \A s \in Run : Calm(s), NEW w \in Worker, worker[w].pc # "idle",
           ~Owns(w), GoIdle(w), UNCHANGED <<run, last, done, hitl, obs>>
    PROVE  \A s \in Run : Calm(s)'
<1>1. worker' = [worker EXCEPT ![w] = Idle] /\ StaysAsActive(w, Idle)
    BY DEF GoIdle, Idle, StaysAsActive
<1> QED
    BY <1>1, CalmOwnStep

LEMMA CalmFail ==
    ASSUME PathInv, \A s \in Run : Calm(s), NEW w \in Worker,
           worker[w].pc \in {"call", "writing"}, Fail(w), UNCHANGED <<run, last, done, hitl, obs>>
    PROVE  \A s \in Run : Calm(s)'
<1> DEFINE job == [worker[w] EXCEPT !.pc = "finish", !.target = "failed", !.node = End,
                                    !.out = NoOutcome, !.seen = NoSeen]
<1>1. TypeOK /\ worker[w] \in Job /\ worker[w].pc # "idle"
    BY JobFacts DEF PathInv
<1>2. worker' = [worker EXCEPT ![w] = job]
    BY <1>1 DEF Fail, TypeOK
<1>3. job.pc = "finish" /\ job.run = worker[w].run /\ job.target = "failed"
    BY <1>1 DEF Job
<1> HIDE DEF job
<1>4. StaysAsActive(w, job)
    BY <1>1, <1>3 DEF StaysAsActive, Walks
<1> QED
    BY <1>1, <1>2, <1>4, CalmOwnStep

LEMMA CalmLoad ==
    ASSUME PathInv, \A s \in Run : Calm(s), NEW w \in Worker, Load(w)
    PROVE  \A s \in Run : Calm(s)'
<1> DEFINE r == worker[w].run
           next == IF ResolvedAt(hitl[r]) \union ResolvedAt(obs[r]) # {}
                   THEN None ELSE last[r].next
           job == [worker[w] EXCEPT !.pc = "node", !.node = GraphV1[1],
                      !.iteration = last[r].iteration, !.done = done[r],
                      !.noProgress = last[r].noProgress, !.next = next]
<1>1. TypeOK /\ worker[w].pc = "claimed" /\ UNCHANGED <<run, last, done, hitl, obs>>
    BY DEF PathInv, Load, waits
<1>2. worker[w] \in Job /\ r \in Run
    BY <1>1, JobFacts
<1>3. CASE ~Owns(w)
    BY <1>1, <1>3, CalmGoIdle DEF Load
<1>4. CASE Owns(w)
  <2>1. worker' = [worker EXCEPT ![w] = job]
      BY <1>1, <1>4, ZenonT(40) DEF Load, TypeOK
  <2>2. job.pc = "node" /\ job.run = r /\ job.done = done[r]
      BY <1>2 DEF Job
  <2> HIDE DEF job
  <2>3. StaysAsActive(w, job)
      BY <1>1, <2>2 DEF StaysAsActive, Walks
  <2> QED
      BY <1>1, <2>1, <2>3, CalmOwnStep
<1> QED
    BY <1>3, <1>4

\* A job that skips to the end abreast of its run does so for a reason it can see.
LEMMA CalmSkip ==
    ASSUME PathInv, \A s \in Run : Calm(s), NEW w \in Worker, SkipNode(w)
    PROVE  \A s \in Run : Calm(s)'
<1> DEFINE j == worker[w]
           r == j.run
           v == run[r].graph
           job == Routed(j, v)
<1>1. TypeOK /\ j.pc = "node" /\ Key(j) \in j.done /\ worker' = [worker EXCEPT ![w] = job]
      /\ UNCHANGED <<run, last, done, hitl, obs>>
    BY DEF PathInv, SkipNode, waits
<1>2. /\ j \in Job /\ r \in Run /\ v \in Versions
      /\ JobSound(j, w, run[r], last[r], done[r])
    BY <1>1, JobFacts
<1>3. PICK c \in Point : Follows(c, j, w, run[r], last[r], done[r])
    BY <1>1, <1>2 DEF JobSound, Walks
<1>4. JobAt(v, c, j) /\ (j.done = done[r] => Same(c, last[r]))
    BY <1>3 DEF Follows
<1>5. Walking(v, c, j) /\ Sound(v, c) /\ j.node \in NodeSet(v) /\ j.next \in {None, c.next}
  <2>1. ~AtFrontier(v, c, j)
      BY <1>1, <1>2, <1>4, FrontierIsNew DEF JobAt
  <2> QED
      BY <1>4, <2>1 DEF JobAt
<1>6. /\ job \in Job /\ Kept(j, job)
      /\ job.pc \in {"node", "finish"}
    BY <1>2, <1>5, RoutedStaysOnPath
<1>7. job.pc = "finish" /\ job.target = "paused" => j.next \in Stopping
    BY <1>2 DEF Routed, Job
<1> HIDE DEF job
<1>8. j.next \in Stopping /\ j.done = done[r] => last[r].next \in Stopping
    BY <1>4, <1>5 DEF Same, Stopping, None
<1>9. Active(w, r) => j.done = done[r]
    BY <1>1, <1>2 DEF Calm, Walks
<1>10. StaysAsActive(w, job)
    BY <1>1, <1>6, <1>7, <1>8, <1>9 DEF StaysAsActive, Kept
<1> QED
    BY <1>1, <1>10, CalmOwnStep

LEMMA CalmRenew ==
    ASSUME PathInv, \A s \in Run : Calm(s), NEW w \in Worker, RenewLease(w)
    PROVE  \A s \in Run : Calm(s)'
<1> DEFINE j == worker[w]
           r == j.run
           row == [run[r] EXCEPT !.lease = "live"]
           job == [j EXCEPT !.pc = "call"]
<1>1. TypeOK /\ j.pc = "node" /\ UNCHANGED <<last, done, hitl, obs>>
    BY DEF PathInv, RenewLease, waits
<1>2. /\ j \in Job /\ r \in Run /\ run[r] \in RunRow
      /\ RowSound(run[r], last[r], done[r])
    BY <1>1, JobFacts
<1>3. Owns(w) => run[r].status = "running"
    BY <1>2 DEF Owns, RowSound, None, RuntimeConstants
<1>4. CASE ~Owns(w)
    BY <1>1, <1>4, CalmGoIdle DEF RenewLease
<1>5. CASE Owns(w)
  <2>1. run' = [run EXCEPT ![r] = row] /\ worker' = [worker EXCEPT ![w] = job]
      BY <1>1, <1>2, <1>3, <1>5 DEF RenewLease, TypeOK
  <2>2. row.status = run[r].status /\ row.owner = run[r].owner /\ row.lease = "live"
      BY <1>2 DEF RunRow
  <2>3. job.pc = "call" /\ job.run = r /\ job.done = j.done
      BY <1>2 DEF Job
  <2> HIDE DEF row, job
  <2>4. Active(w, r) => j.done = done[r]
      BY <1>1, <1>2 DEF Calm, Walks
  <2>5. StaysAsActive(w, job)
      BY <1>1, <2>3, <2>4 DEF StaysAsActive
  <2>6. /\ \A s \in Run : /\ run'[s].status = run[s].status /\ run'[s].owner = run[s].owner
                          /\ run'[s].lease \in {run[s].lease, "live"}
        /\ \A s \in Run \ {r} : run'[s] = run[s]
      BY <1>1, <2>1, <2>2 DEF TypeOK
  <2> QED
      BY <1>1, <2>1, <2>5, <2>6, CalmOwnStep
<1> QED
    BY <1>4, <1>5

\* A step of the job itself after which it is still between two checkpoints.
LEMMA CalmWalk ==
    ASSUME PathInv, \A s \in Run : Calm(s), NEW w \in Worker, worker[w].pc \in Walks,
           NEW job, worker' = [worker EXCEPT ![w] = job], job.run = worker[w].run,
           job.pc \in Walks, job.done = worker[w].done,
           UNCHANGED <<run, last, done, hitl, obs>>
    PROVE  \A s \in Run : Calm(s)'
<1>1. worker[w].pc # "idle" /\ worker[w].pc # "finish" /\ worker[w].run \in Run
    BY JobFacts DEF Walks
<1>2. Active(w, worker[w].run) => worker[w].done = done[worker[w].run]
    BY <1>1 DEF Calm
<1>3. StaysAsActive(w, job)
    BY <1>1, <1>2 DEF StaysAsActive, Walks
<1> QED
    BY <1>1, <1>3, CalmOwnStep

LEMMA CalmAnswer ==
    ASSUME PathInv, \A s \in Run : Calm(s), NEW w \in Worker,
           AnswerWithoutModel(w) \/ AskModel(w)
    PROVE  \A s \in Run : Calm(s)'
<1>1. TypeOK /\ worker[w].pc = "call" /\ UNCHANGED <<run, last, done, hitl, obs>>
    BY DEF PathInv, AnswerWithoutModel, AskModel, waits
<1>2. worker[w] \in Job
    BY <1>1, JobFacts
<1>3. \E out : worker' = [worker EXCEPT ![w].pc = "write", ![w].out = out]
    BY DEF AnswerWithoutModel, AskModel
<1>4. PICK out : worker' = [worker EXCEPT ![w].pc = "write", ![w].out = out]
    BY <1>3
<1> DEFINE job == [worker[w] EXCEPT !.pc = "write", !.out = out]
<1>5. worker' = [worker EXCEPT ![w] = job]
    BY <1>1, <1>4 DEF TypeOK
<1>6. job.pc = "write" /\ job.run = worker[w].run /\ job.done = worker[w].done
    BY <1>2 DEF Job
<1> HIDE DEF job
<1> QED
    BY <1>1, <1>5, <1>6, CalmWalk DEF Walks

LEMMA CalmRead ==
    ASSUME PathInv, \A s \in Run : Calm(s), NEW w \in Worker, ReadRun(w)
    PROVE  \A s \in Run : Calm(s)'
<1> DEFINE r == worker[w].run
           seen == [sequence |-> run[r].sequence, used |-> run[r].used,
                    iteration |-> run[r].iteration]
           job == [worker[w] EXCEPT !.pc = "writing", !.seen = seen]
<1>1. TypeOK /\ worker[w].pc = "write" /\ UNCHANGED <<run, last, done, hitl, obs>>
    BY DEF PathInv, ReadRun, waits
<1>2. worker[w] \in Job
    BY <1>1, JobFacts
<1>3. CASE ~Owns(w)
    BY <1>1, <1>3, CalmGoIdle DEF ReadRun
<1>4. CASE Owns(w)
  <2>1. worker' = [worker EXCEPT ![w] = job]
      BY <1>1, <1>4 DEF ReadRun, TypeOK
  <2>2. job.pc = "writing" /\ job.run = r /\ job.done = worker[w].done
      BY <1>2 DEF Job
  <2> HIDE DEF job
  <2> QED
      BY <1>1, <2>1, <2>2, CalmWalk DEF Walks
<1> QED
    BY <1>3, <1>4

LEMMA CalmReadForFinish ==
    ASSUME PathInv, \A s \in Run : Calm(s), NEW w \in Worker, ReadForFinish(w)
    PROVE  \A s \in Run : Calm(s)'
<1> DEFINE r == worker[w].run
           job == [worker[w] EXCEPT !.pc = "finishing"]
<1>1. TypeOK /\ worker[w].pc = "finish" /\ UNCHANGED <<run, last, done, hitl, obs>>
    BY DEF PathInv, ReadForFinish, waits
<1>2. worker[w] \in Job /\ r \in Run
    BY <1>1, JobFacts
<1>3. CASE ~Owns(w)
    BY <1>1, <1>3, CalmGoIdle DEF ReadForFinish, Owns
<1>4. CASE Owns(w)
  <2>1. worker' = [worker EXCEPT ![w] = job]
      BY <1>1, <1>4 DEF ReadForFinish, TypeOK, Owns
  <2>2. job.pc = "finishing" /\ job.run = r /\ job.target = worker[w].target
      BY <1>2 DEF Job
  <2> HIDE DEF job
  <2>3. Active(w, r) /\ worker[w].target = "paused" => last[r].next \in Stopping
      BY <1>1, <1>2 DEF Calm
  <2>4. StaysAsActive(w, job)
      BY <1>1, <1>4, <2>2, <2>3 DEF StaysAsActive, Walks
  <2> QED
      BY <1>1, <2>1, <2>4, CalmOwnStep
<1> QED
    BY <1>3, <1>4

\* A stored checkpoint is only found by a worker that was overtaken.
LEMMA CalmKnown ==
    ASSUME PathInv, \A s \in Run : Calm(s), NEW w \in Worker, KnownCheckpoint(w)
    PROVE  FALSE
<1> DEFINE j == worker[w]
           r == j.run
           v == run[r].graph
<1>1. j.pc = "writing" /\ done[r] = j.done \union {Key(j)}
    BY DEF KnownCheckpoint
<1>2. j \in Job /\ r \in Run /\ v \in Versions /\ JobSound(j, w, run[r], last[r], done[r])
    BY <1>1, JobFacts
<1>3. OutFits(j) /\ \E c \in Point : JobAt(v, c, j)
    BY <1>1, <1>2 DEF JobSound, Walks, Follows
<1>4. PICK c \in Point : JobAt(v, c, j)
    BY <1>3
<1>5. Key(j) \notin j.done
  <2>1. StepsTo(v, c, j, Written(j), AfterWrite(j))
      BY <1>1, <1>2, <1>3, <1>4, WrittenFollows, Zenon
  <2> QED
      BY <2>1 DEF StepsTo
<1>6. Active(w, r)
    BY <1>1 DEF Active, On, Parting
<1>7. j.done = done[r]
    BY <1>1, <1>2, <1>6 DEF Calm, Walks
<1> QED
    BY <1>1, <1>5, <1>7

\* Steps of the API, of decisions and of time.
LEMMA CalmCreate ==
    ASSUME PathInv, \A s \in Run : Calm(s), NEW r \in Run, NEW v \in Graphs, CreateRun(r, v)
    PROVE  \A s \in Run : Calm(s)'
<1> DEFINE row == [run[r] EXCEPT !.status = "queued", !.graph = v]
<1>1. /\ TypeOK /\ run[r].status = None /\ run' = [run EXCEPT ![r] = row]
      /\ UNCHANGED <<last, done, hitl, obs, worker>>
    BY DEF PathInv, CreateRun, TypeOK, waits
<1>2. run'[r].status = "queued" /\ \A s \in Run \ {r} : run'[s] = run[s]
    BY <1>1 DEF TypeOK, RunRow
<1>3. \A x \in Worker : ~On(x, r)
    BY <1>1 DEF PathInv, Untouched
<1>4. \A x \in Worker : ~Active(x, r)'
    BY <1>1, <1>3 DEF Active, On
<1>5. \A i \in Iteration : ~WaitsAt(r, i)'
    BY <1>1 DEF Calm, WaitsAt, None
<1>6. Calm(r)'
    BY <1>2, <1>4, <1>5 DEF Calm, OneWait
<1>7. ASSUME NEW s \in Run, s # r PROVE Calm(s)'
    BY <1>1, <1>2, <1>7, CalmElsewhere
<1> QED
    BY <1>6, <1>7

LEMMA CalmCancel ==
    ASSUME PathInv, \A s \in Run : Calm(s), NEW r \in Run, TransitionRun(r, "cancelled")
    PROVE  \A s \in Run : Calm(s)'
<1> DEFINE row == Moved(run[r], "cancelled")
<1>1. /\ TypeOK /\ run' = [run EXCEPT ![r] = row] /\ UNCHANGED <<last, done, worker>>
      /\ hitl' = [hitl EXCEPT ![r] = CancelledWaits(hitl[r])]
      /\ obs' = [obs EXCEPT ![r] = CancelledWaits(obs[r])]
      /\ run[r] \in RunRow
    BY DEF PathInv, TransitionRun, TypeOK
<1>2. row.status = "cancelled" /\ row.owner = None
    BY <1>1, MovedRow DEF RunStatus, Terminal
<1> HIDE DEF row
<1>3. /\ run'[r].status = "cancelled" /\ run'[r].owner = None
      /\ \A s \in Run \ {r} : run'[s] = run[s] /\ hitl'[s] = hitl[s] /\ obs'[s] = obs[s]
    BY <1>1, <1>2 DEF TypeOK
<1>4. ASSUME NEW x \in Worker, Active(x, r)' PROVE Active(x, r) /\ worker[x].pc # "finish"
  <2>1. worker[x].pc # "idle" /\ worker[x].run = r
        /\ ~(worker[x].pc = "finish" /\ run'[r].owner # x)
      BY <1>1, <1>4 DEF Active, On, Parting, Owns
  <2>2. worker[x].pc # "finish"
      BY <2>1, <1>3 DEF None, RuntimeConstants
  <2> QED
      BY <2>1, <2>2 DEF Active, On, Parting
<1>5. ASSUME NEW i \in Iteration PROVE ~WaitsAt(r, i)'
  <2>1. hitl[r][i] \in HitlRow /\ obs[r][i] \in HitlRow
      BY <1>1, WaitRows DEF TypeOK
  <2>2. hitl'[r][i].status # "waiting" /\ obs'[r][i].status # "waiting"
      BY <1>1, <2>1 DEF CancelledWaits, TypeOK, HitlRow
  <2> QED
      BY <2>2 DEF WaitsAt
<1>6. Calm(r)'
  <2>1. ASSUME NEW x \in Worker, Active(x, r)'
        PROVE  /\ \A y \in Worker : Active(y, r)' => y = x
               /\ worker'[x].pc \in Walks => worker'[x].done = done'[r]
               /\ worker'[x].pc \in {"finish", "finishing"} /\ worker'[x].target = "paused" =>
                     last'[r].next \in Stopping
      BY <2>1, <1>1, <1>4 DEF Calm
  <2> QED
      BY <2>1, <1>3, <1>5 DEF Calm, OneWait
<1>7. ASSUME NEW s \in Run, s # r PROVE Calm(s)'
    BY <1>1, <1>3, <1>7, CalmElsewhere
<1> QED
    BY <1>6, <1>7

\* The wait of a run is over: it had only that one, and is queued without a worker.
LEMMA CalmRequeue ==
    ASSUME PathInv, \A s \in Run : Calm(s), NEW r \in Run, NEW i \in Iteration,
           WaitsAt(r, i), run' = [run EXCEPT ![r] = Requeued(run[r])],
           UNCHANGED <<last, done, worker>>,
           \A s \in Run \ {r} : hitl'[s] = hitl[s] /\ obs'[s] = obs[s],
           \A k \in Iteration : WaitsAt(r, k)' => WaitsAt(r, k) /\ k # i
    PROVE  \A s \in Run : Calm(s)'
<1>1. TypeOK /\ run[r] \in RunRow /\ run[r].status = "paused"
    BY DEF PathInv, TypeOK, Calm
<1>2. /\ run'[r].status = "queued" /\ run'[r].owner = None
      /\ \A s \in Run \ {r} : run'[s] = run[s]
    BY <1>1 DEF TypeOK, Requeued, RunRow
<1>3. \A k \in Iteration : ~WaitsAt(r, k)'
    BY DEF Calm, OneWait
<1>4. \A x \in Worker : ~Active(x, r)
    BY <1>1 DEF Calm
<1>5. run[r].owner = None
    BY <1>1 DEF PathInv, RowSound
<1>6. \A x \in Worker : ~Active(x, r)'
    BY <1>2, <1>4, <1>5 DEF Active, On, Parting, Owns
<1>7. Calm(r)'
    BY <1>2, <1>3, <1>6 DEF Calm, OneWait
<1>8. ASSUME NEW s \in Run, s # r PROVE Calm(s)'
    BY <1>2, <1>8, CalmElsewhere
<1> QED
    BY <1>7, <1>8

LEMMA CalmDecide ==
    ASSUME PathInv, \A s \in Run : Calm(s), NEW r \in Run, NEW i \in Iteration,
           DecideApproval(r, i)
    PROVE  \A s \in Run : Calm(s)'
<1>1. TypeOK /\ UNCHANGED <<last, done, obs, worker>>
    BY DEF PathInv, DecideApproval
<1>2. hitl \in [Run -> [Iteration -> HitlRow]]
    BY <1>1 DEF TypeOK
<1>3. CASE hitl[r][i].status = "waiting"
  <2>1. hitl' = [hitl EXCEPT ![r] = [hitl[r] EXCEPT ![i] = [hitl[r][i] EXCEPT !.status = "resolved"]]]
        /\ run' = [run EXCEPT ![r] = Requeued(run[r])]
      BY <1>2, <1>3 DEF DecideApproval
  <2>2. /\ hitl'[r][i].status = "resolved"
        /\ \A k \in Iteration \ {i} : hitl'[r][k] = hitl[r][k]
        /\ \A s \in Run \ {r} : hitl'[s] = hitl[s]
      BY <1>2, <2>1 DEF HitlRow
  <2>3. WaitsAt(r, i) /\ obs[r][i].status # "waiting"
      BY <1>3 DEF WaitsAt, Calm, OneWait
  <2>4. \A k \in Iteration : WaitsAt(r, k)' => WaitsAt(r, k) /\ k # i
      BY <1>1, <2>2, <2>3 DEF WaitsAt
  <2> QED
      BY <1>1, <2>1, <2>2, <2>3, <2>4, CalmRequeue, ZenonT(40)
<1>4. CASE hitl[r][i].status # "waiting"
  <2>1. UNCHANGED <<run, hitl>>
      BY <1>4 DEF DecideApproval
  <2> QED
      BY <1>1, <2>1, CalmElsewhere
<1> QED
    BY <1>3, <1>4

LEMMA CalmResolve ==
    ASSUME PathInv, \A s \in Run : Calm(s), NEW r \in Run, NEW i \in Iteration,
           ResolveTask(r, i)
    PROVE  \A s \in Run : Calm(s)'
<1>1. TypeOK /\ UNCHANGED <<last, done, hitl, worker>> /\ obs[r][i].status = "waiting"
      /\ run' = [run EXCEPT ![r] = Requeued(run[r])]
    BY DEF PathInv, ResolveTask
<1>2. obs \in [Run -> [Iteration -> HitlRow]]
    BY <1>1, WaitRows DEF TypeOK
<1>3. obs' = [obs EXCEPT ![r] = [obs[r] EXCEPT ![i] = [obs[r][i] EXCEPT !.status = "resolved"]]]
    BY <1>2 DEF ResolveTask
<1>4. /\ obs'[r][i].status = "resolved"
      /\ \A k \in Iteration \ {i} : obs'[r][k] = obs[r][k]
      /\ \A s \in Run \ {r} : obs'[s] = obs[s]
    BY <1>2, <1>3 DEF HitlRow
<1>5. WaitsAt(r, i) /\ hitl[r][i].status # "waiting"
    BY <1>1 DEF WaitsAt, Calm, OneWait
<1>6. \A k \in Iteration : WaitsAt(r, k)' => WaitsAt(r, k) /\ k # i
    BY <1>1, <1>4, <1>5 DEF WaitsAt
<1> QED
    BY <1>1, <1>4, <1>5, <1>6, CalmRequeue

\* A calm run is claimed from the queue, with no other worker on it.
LEMMA CalmClaim ==
    ASSUME PathInv, \A s \in Run : Calm(s), NEW w \in Worker, Claim(w)
    PROVE  \A s \in Run : Calm(s)'
<1>0. Min(Claimable) \in Run /\ Min(Claimable) \in Claimable
    BY ClaimedRun DEF Claim
<1> SUFFICES ASSUME NEW r \in Run, r = Min(Claimable)
             PROVE  \A s \in Run : Calm(s)'
    BY <1>0
<1> DEFINE row == [run[r] EXCEPT !.status = "running", !.owner = w, !.lease = "live"]
           job == [worker[w] EXCEPT !.pc = "claimed", !.run = r]
<1>1. TypeOK /\ r \in Claimable /\ run[r] \in RunRow /\ worker[w] \in Job
      /\ worker[w].pc = "idle"
    BY <1>0 DEF Claim, PathInv, TypeOK
<1>2. run' = [run EXCEPT ![r] = row] /\ worker' = [worker EXCEPT ![w] = job]
    BY <1>1 DEF Claim, TypeOK
<1>3. /\ hitl' = [hitl EXCEPT ![r] = Resumed(hitl[r])]
      /\ obs' = [obs EXCEPT ![r] = Resumed(obs[r])]
      /\ UNCHANGED <<last, done>>
    BY DEF Claim
<1>4. row.status = "running" /\ row.owner = w /\ row.lease = "live"
    BY <1>1 DEF RunRow
<1>5. job.pc = "claimed" /\ job.run = r
    BY <1>1 DEF Job
<1> HIDE DEF row, job
<1>6. run[r].status = "queued"
    BY <1>1 DEF Calm, Claimable
<1>7. /\ run'[r].status = "running" /\ run'[r].owner = w /\ run'[r].lease = "live"
      /\ worker'[w].pc = "claimed" /\ worker'[w].run = r
      /\ \A x \in Worker \ {w} : worker'[x] = worker[x]
      /\ \A s \in Run \ {r} : run'[s] = run[s] /\ hitl'[s] = hitl[s] /\ obs'[s] = obs[s]
    BY <1>1, <1>2, <1>3, <1>4, <1>5 DEF TypeOK
<1>8. ASSUME NEW x \in Worker, Active(x, r)' PROVE x = w
  <2> SUFFICES ASSUME x # w PROVE FALSE
      OBVIOUS
  <2>1. worker[x].pc # "idle" /\ worker[x].run = r
        /\ ~(worker[x].pc = "finish" /\ run'[r].owner # x)
      BY <1>7, <1>8 DEF Active, On, Parting, Owns
  <2>2. Active(x, r)
      BY <2>1, <1>7 DEF Active, On, Parting
  <2> QED
      BY <2>2, <1>6 DEF Calm
<1>9. ASSUME NEW i \in Iteration PROVE ~WaitsAt(r, i)'
  <2>1. hitl[r] \in [Iteration -> HitlRow] /\ obs[r] \in [Iteration -> HitlRow]
      BY <1>1, WaitRows DEF TypeOK
  <2>2. /\ Resumed(hitl[r])[i].status = hitl[r][i].status
        /\ Resumed(obs[r])[i].status = obs[r][i].status
      BY <2>1, WaitsKept
  <2>3. ~WaitsAt(r, i)
      BY <1>6 DEF Calm
  <2>4. hitl'[r] = Resumed(hitl[r]) /\ obs'[r] = Resumed(obs[r])
      BY <1>1, <1>3 DEF TypeOK
  <2> QED
      BY <2>2, <2>3, <2>4 DEF WaitsAt
<1>10. Calm(r)'
    BY <1>7, <1>8, <1>9 DEF Calm, OneWait, On, Walks
<1>11. ASSUME NEW s \in Run, s # r PROVE Calm(s)'
  <2>1. \A x \in Worker : worker'[x] = worker[x] \/ (~On(x, s) /\ ~On(x, s)')
      BY <1>1, <1>7, <1>11 DEF On
  <2> QED
      BY <1>3, <1>7, <1>11, <2>1, CalmElsewhere
<1> QED
    BY <1>10, <1>11

LEMMA CalmFinish ==
    ASSUME PathInv, \A s \in Run : Calm(s), NEW w \in Worker, Finish(w)
    PROVE  \A s \in Run : Calm(s)'
<1>0. worker[w].run \in Run /\ worker[w].pc = "finishing"
    BY JobFacts DEF Finish
<1> SUFFICES ASSUME NEW r \in Run, r = worker[w].run
             PROVE  \A s \in Run : Calm(s)'
    BY <1>0
<1> DEFINE row == Moved(run[r], worker[w].target)
<1>1. TypeOK /\ run' = [run EXCEPT ![r] = row] /\ worker' = [worker EXCEPT ![w] = Idle]
      /\ UNCHANGED <<last, done, hitl, obs>>
    BY DEF PathInv, Finish, GoIdle, waits
<1>2. run[r] \in RunRow /\ worker[w].target \in {"paused", "completed", "failed"}
    BY <1>0, JobFacts DEF JobSound
<1>3. row.status = worker[w].target /\ row.owner = None
    BY <1>2, MovedRow DEF RunStatus, Terminal
<1> HIDE DEF row
<1>4. /\ run'[r].status = worker[w].target /\ run'[r].owner = None
      /\ worker'[w].pc = "idle" /\ \A x \in Worker \ {w} : worker'[x] = worker[x]
      /\ \A s \in Run \ {r} : run'[s] = run[s]
    BY <1>1, <1>3 DEF TypeOK, Idle
<1>5. Active(w, r)
    BY <1>0 DEF Active, On, Parting
<1>6. run[r].status \in {"running", "cancelled"}
      /\ (worker[w].target = "paused" => last[r].next \in Stopping)
    BY <1>0, <1>5 DEF Calm
<1>7. ASSUME NEW x \in Worker, Active(x, r)' PROVE FALSE
  <2>1. x # w /\ worker[x].pc # "idle" /\ worker[x].run = r
        /\ ~(worker[x].pc = "finish" /\ run'[r].owner # x)
      BY <1>4, <1>7 DEF Active, On, Parting, Owns
  <2>2. Active(x, r)
      BY <2>1, <1>4 DEF Active, On, Parting, None, RuntimeConstants
  <2> QED
      BY <2>1, <2>2, <1>5 DEF Calm
<1>8. \A i \in Iteration : ~WaitsAt(r, i)'
    BY <1>1, <1>6 DEF Calm, WaitsAt
<1>9. Calm(r)'
    BY <1>1, <1>2, <1>4, <1>6, <1>7, <1>8 DEF Calm, OneWait
<1>10. ASSUME NEW s \in Run, s # r PROVE Calm(s)'
  <2>1. \A x \in Worker : worker'[x] = worker[x] \/ (~On(x, s) /\ ~On(x, s)')
      BY <1>4, <1>10 DEF On
  <2> QED
      BY <1>1, <1>4, <1>10, <2>1, CalmElsewhere
<1> QED
    BY <1>9, <1>10

\* A checkpoint that opens a wait takes the run out of its worker's hand.
LEMMA CalmSaved ==
    ASSUME PathInv, \A s \in Run : Calm(s), NEW w \in Worker, Saved(w),
           NEW r \in Run, r = worker[w].run, NEW i \in Iteration,
           \A s \in Run \ {r} : hitl'[s] = hitl[s] /\ obs'[s] = obs[s],
           \A k \in Iteration \ {i} : hitl'[r][k] = hitl[r][k] /\ obs'[r][k] = obs[r][k],
           IF worker[w].out.wait = None
           THEN hitl'[r] = hitl[r] /\ obs'[r] = obs[r]
           ELSE \/ hitl'[r][i].status = "waiting" /\ obs'[r][i] = obs[r][i]
                \/ obs'[r][i].status = "waiting" /\ hitl'[r][i] = hitl[r][i]
    PROVE  \A s \in Run : Calm(s)'
<1> DEFINE j == worker[w]
           v == run[r].graph
           row == Flushed(j)
           d == Written(j)
           k == AfterWrite(j)
<1>1. /\ TypeOK /\ j.pc = "writing" /\ Key(j) \notin done[r] /\ ~Refused(j)
      /\ run' = [run EXCEPT ![r] = row] /\ last' = [last EXCEPT ![r] = d]
      /\ done' = [done EXCEPT ![r] = done[r] \union {Key(j)}]
      /\ worker' = [worker EXCEPT ![w] = k]
    BY DEF PathInv, Saved
<1>2. /\ j \in Job /\ run[r] \in RunRow /\ v \in Versions
    BY <1>1, JobFacts
<1>3. PICK c \in Point : JobAt(v, c, j) /\ Same(c, last[r])
    BY <1>1, WriterIsAbreast
<1>4. j.done = done[r] /\ OutFits(j)
    BY <1>1, WriterIsAbreast
<1>5. /\ KeyIteration(j) = j.iteration
      /\ k.run = r /\ k.done = done[r] \union {Key(j)} /\ k.pc \in {"node", "finish"}
      /\ k.pc = "finish" /\ k.target = "paused" => d.next \in Stopping
      /\ j.out.wait # None => k.pc = "finish"
  <2>1. StepsTo(v, c, j, d, k)
      BY <1>1, <1>2, <1>3, <1>4, WrittenFollows, Zenon
  <2> HIDE DEF d, k
  <2> QED
      BY <1>4, <2>1 DEF StepsTo
<1>6. IF j.out.wait = None
      THEN row.status = run[r].status /\ row.owner = run[r].owner /\ row.lease = run[r].lease
      ELSE row.status = "paused" /\ row.owner = None
    BY <1>2, <1>5, FlushedRow
<1> HIDE DEF row, d, k
<1>7. /\ run'[r] = row /\ last'[r] = d /\ done'[r] = done[r] \union {Key(j)}
      /\ worker'[w] = k /\ \A x \in Worker \ {w} : worker'[x] = worker[x]
      /\ \A s \in Run \ {r} : run'[s] = run[s] /\ last'[s] = last[s] /\ done'[s] = done[s]
    BY <1>1 DEF TypeOK
<1>8. Active(w, r)
    BY <1>1 DEF Active, On, Parting
<1>9. /\ \/ run[r].status = "running" /\ run[r].owner = w
         \/ run[r].status = "cancelled"
      /\ \A x \in Worker : Active(x, r) => x = w
      /\ \A m \in Iteration : ~WaitsAt(r, m)
    BY <1>8 DEF Calm
<1>10. ASSUME NEW x \in Worker, Active(x, r)' PROVE x = w
  <2> SUFFICES ASSUME x # w PROVE FALSE
      OBVIOUS
  <2>1. worker[x].pc # "idle" /\ worker[x].run = r
        /\ ~(worker[x].pc = "finish" /\ run'[r].owner # x)
      BY <1>7, <1>10 DEF Active, On, Parting, Owns
  <2>2. run'[r].owner # x => run[r].owner # x \/ run'[r].owner = None
      BY <1>6, <1>7
  <2>3. Active(x, r)
      BY <2>1, <2>2, <1>6, <1>7 DEF Active, On, Parting, Owns, None, RuntimeConstants
  <2> QED
      BY <2>3, <1>9
<1>11. ASSUME j.out.wait = None PROVE Calm(r)'
  <2>1. \A m \in Iteration : ~WaitsAt(r, m)'
      BY <1>9, <1>11 DEF WaitsAt
  <2>2. /\ run'[r].status = run[r].status /\ run'[r].owner = run[r].owner
        /\ run'[r].lease = run[r].lease
      BY <1>6, <1>7, <1>11
  <2>3. run'[r].status = "running" => run'[r].lease = "live" /\ run'[r].owner = w /\ On(w, r)'
      BY <2>2, <1>5, <1>7, <1>9 DEF Calm, On
  <2>4. /\ worker'[w].pc \in Walks => worker'[w].done = done'[r]
        /\ worker'[w].pc \in {"finish", "finishing"} /\ worker'[w].target = "paused" =>
              last'[r].next \in Stopping
      BY <1>5, <1>7 DEF Walks
  <2>5. OneWait(r)'
      BY <2>1 DEF OneWait
  <2>6. run'[r].status \in {"running", "cancelled"}
        /\ (run'[r].status = "running" => run'[r].owner = w)
      BY <2>2, <1>9
  <2>7. ASSUME NEW x \in Worker, Active(x, r)'
        PROVE  /\ \/ run'[r].status = "running" /\ run'[r].owner = x
                  \/ run'[r].status = "cancelled"
               /\ \A y \in Worker : Active(y, r)' => y = x
               /\ worker'[x].pc \in Walks => worker'[x].done = done'[r]
               /\ worker'[x].pc \in {"finish", "finishing"} /\ worker'[x].target = "paused" =>
                     last'[r].next \in Stopping
    <3>1. x = w /\ \A y \in Worker : Active(y, r)' => y = x
        BY <2>7, <1>10
    <3> QED
        BY <3>1, <2>4, <2>6
  <2>8. run'[r].status = "running" =>
            run'[r].lease = "live" /\ \E x \in Worker : run'[r].owner = x /\ On(x, r)'
      BY <2>3
  <2>9. run'[r].status # "paused"
      BY <2>6
  <2> QED
      BY <2>1, <2>5, <2>7, <2>8, <2>9 DEF Calm
<1>12. ASSUME j.out.wait # None PROVE Calm(r)'
  <2>1. run'[r].status = "paused" /\ run'[r].owner = None
      BY <1>6, <1>7, <1>12
  <2>2. \A x \in Worker : ~Active(x, r)'
    <3>1. worker'[w].pc = "finish" /\ worker'[w].run = r /\ run'[r].owner # w
        BY <2>1, <1>5, <1>7, <1>12 DEF None, RuntimeConstants
    <3>2. ~Active(w, r)'
        BY <3>1 DEF Active, Parting, Owns
    <3> QED
        BY <3>2, <1>10
  <2>3. \A m \in Iteration : WaitsAt(r, m)' <=> m = i
    <3>1. WaitsAt(r, i)'
        BY <1>12 DEF WaitsAt
    <3>2. ASSUME NEW m \in Iteration, m # i PROVE ~WaitsAt(r, m)'
      <4>1. hitl'[r][m] = hitl[r][m] /\ obs'[r][m] = obs[r][m]
          BY <3>2
      <4>2. ~WaitsAt(r, m)
          BY <1>9
      <4> QED
          BY <4>1, <4>2 DEF WaitsAt
    <3> QED
        BY <3>1, <3>2
  <2>4. ~(hitl'[r][i].status = "waiting" /\ obs'[r][i].status = "waiting")
      BY <1>9, <1>12 DEF WaitsAt
  <2>5. OneWait(r)'
      BY <2>3, <2>4 DEF OneWait
  <2>6. \E m \in Iteration : WaitsAt(r, m)'
      BY <2>3
  <2>7. run'[r].status # "running"
      BY <2>1
  <2> QED
      BY <2>1, <2>2, <2>5, <2>6, <2>7 DEF Calm
<1>13. ASSUME NEW s \in Run, s # r PROVE Calm(s)'
  <2>1. \A x \in Worker : worker'[x] = worker[x] \/ (~On(x, s) /\ ~On(x, s)')
      BY <1>5, <1>7, <1>13 DEF On
  <2> QED
      BY <1>7, <1>13, <2>1, CalmElsewhere
<1> QED
    BY <1>11, <1>12, <1>13

LEMMA CalmWrite ==
    ASSUME PathInv, \A s \in Run : Calm(s), NEW w \in Worker,
           WriteCheckpoint(w) \/ WriteAndAwaitDecision(w) \/ WriteAndAwaitObservation(w)
    PROVE  \A s \in Run : Calm(s)'
<1> DEFINE j == worker[w]
           r == j.run
           i == j.iteration
<1>1. TypeOK /\ Saved(w)
    BY DEF PathInv, WriteCheckpoint, WriteAndAwaitDecision, WriteAndAwaitObservation
<1>2. r \in Run /\ i \in Iteration /\ j.out \in Outcome
    BY <1>1, JobFacts DEF Saved, Job
<1>3. hitl \in [Run -> [Iteration -> HitlRow]] /\ obs \in [Run -> [Iteration -> HitlRow]]
    BY <1>1, WaitRows DEF TypeOK
<1>4. /\ \A s \in Run \ {r} : hitl'[s] = hitl[s] /\ obs'[s] = obs[s]
      /\ \A m \in Iteration \ {i} : hitl'[r][m] = hitl[r][m] /\ obs'[r][m] = obs[r][m]
      /\ IF j.out.wait = None
         THEN hitl'[r] = hitl[r] /\ obs'[r] = obs[r]
         ELSE \/ hitl'[r][i].status = "waiting" /\ obs'[r][i] = obs[r][i]
              \/ obs'[r][i].status = "waiting" /\ hitl'[r][i] = hitl[r][i]
  <2>1. CASE WriteCheckpoint(w)
      BY <2>1 DEF WriteCheckpoint
  <2>2. CASE WriteAndAwaitDecision(w)
    <3>1. hitl' = [hitl EXCEPT ![r] = [hitl[r] EXCEPT ![i] = Waiting]]
          /\ UNCHANGED obs /\ j.out.wait = "hitl"
        BY <2>2, <1>2, <1>3 DEF WriteAndAwaitDecision
    <3> QED
        BY <3>1, <1>2, <1>3 DEF Waiting, None
  <2>3. CASE WriteAndAwaitObservation(w)
    <3>1. obs' = [obs EXCEPT ![r] = [obs[r] EXCEPT ![i] = Waiting]]
          /\ UNCHANGED hitl /\ j.out.wait = "observation"
        BY <2>3, <1>2, <1>3 DEF WriteAndAwaitObservation
    <3> QED
        BY <3>1, <1>2, <1>3 DEF Waiting, None
  <2> QED
      BY <2>1, <2>2, <2>3
<1> QED
    BY <1>1, <1>2, <1>4, CalmSaved

LEMMA CalmStep ==
    ASSUME PathInv, CalmInv, [RunNext]_vars
    PROVE  CalmInv'
<1> SUFFICES ASSUME faults' = 0 PROVE \A s \in Run : Calm(s)'
    BY DEF CalmInv
<1>1. TypeOK /\ faults \in Nat
    BY DEF PathInv, TypeOK
<1>2. ASSUME NEW w \in Worker, WorkerStep(w) PROVE UNCHANGED faults
    BY <1>2, Zenon DEF WorkerStep, NodeStep, CheckpointStep, Claim, Load, SkipNode, RenewLease,
       AnswerWithoutModel, AskModel, HandlerFails, ReadRun, WriteCheckpoint, Saved,
       WriteAndAwaitDecision, WriteAndAwaitObservation, KnownCheckpoint, WriteFails,
       ReadForFinish, Finish
<1>3. ~InternalApi
    BY <1>1 DEF InternalApi, RequestTransition
<1>4. CASE PublicApi
  <2>1. CASE \E r \in Run, v \in Graphs : CreateRun(r, v)
    <3>1. faults = 0
        BY <2>1 DEF CreateRun
    <3> QED
        BY <2>1, <3>1, CalmCreate DEF CalmInv
  <2>2. CASE \E r \in Run : CancelRun(r)
    <3>1. faults = 0
        BY <2>2 DEF CancelRun
    <3> QED
        BY <2>2, <3>1, CalmCancel DEF CalmInv, CancelRun
  <2> QED
      BY <1>4, <2>1, <2>2 DEF PublicApi
<1>5. CASE Decisions
  <2>1. faults = 0
      BY <1>5 DEF Decisions, DecideApproval, ResolveTask
  <2> QED
      BY <1>5, <2>1, CalmDecide, CalmResolve DEF CalmInv, Decisions
<1>6. CASE Faults
  <2>1. PICK r \in Run : LeaseExpires(r)
      BY <1>1, <1>6 DEF Faults, Crash
  <2>2. faults = 0 /\ Abandoned(r) /\ run[r].lease = "live"
      BY <1>1, <2>1 DEF LeaseExpires
  <2>3. run[r].status = "running"
      BY <2>2 DEF PathInv, RowSound, None
  <2>4. PICK w \in Worker : On(w, r)
      BY <2>2, <2>3 DEF CalmInv, Calm
  <2> QED
      BY <2>2, <2>4 DEF Abandoned, On
<1>7. ASSUME NEW w \in Worker, WorkerStep(w) PROVE \A s \in Run : Calm(s)'
  <2>1. \A s \in Run : Calm(s)
      BY <1>2, <1>7 DEF CalmInv
  <2>2. CASE Claim(w) \/ Load(w) \/ ReadForFinish(w) \/ Finish(w)
      BY <2>1, <2>2, CalmClaim, CalmLoad, CalmReadForFinish, CalmFinish
  <2>3. CASE SkipNode(w) \/ RenewLease(w) \/ AnswerWithoutModel(w) \/ AskModel(w)
      BY <2>1, <2>3, CalmSkip, CalmRenew, CalmAnswer
  <2>4. CASE HandlerFails(w) \/ WriteFails(w)
      BY <2>1, <2>4, CalmFail DEF HandlerFails, WriteFails, waits
  <2>5. CASE ReadRun(w) \/ WriteCheckpoint(w) \/ WriteAndAwaitDecision(w)
             \/ WriteAndAwaitObservation(w) \/ KnownCheckpoint(w)
      BY <2>1, <2>5, CalmRead, CalmWrite, CalmKnown
  <2> QED
      BY <1>7, <2>2, <2>3, <2>4, <2>5 DEF WorkerStep, NodeStep, CheckpointStep
<1>8. CASE UNCHANGED vars
  <2>1. UNCHANGED <<run, last, done, hitl, obs, worker, faults>>
      BY <1>8 DEF vars
  <2> QED
      BY <2>1, CalmElsewhere DEF CalmInv
<1> QED
    BY <1>3, <1>4, <1>5, <1>6, <1>7, <1>8 DEF RunNext

LEMMA CalmImplies ==
    ASSUME CalmInv, TypeOK
    PROVE  PausedForAReason /\ WaitingRunRests
<1>1. CASE faults # 0
  <2>1. faults > 0
      BY <1>1 DEF TypeOK
  <2> QED
      BY <1>1, <2>1 DEF PausedForAReason, WaitingRunRests
<1>2. CASE faults = 0
  <2>1. PausedForAReason
      BY <1>2 DEF CalmInv, Calm, WaitsAt, PausedForAReason
  <2>2. WaitingRunRests
      BY <1>2 DEF CalmInv, Calm, WaitsAt, WaitingRunRests
  <2> QED
      BY <2>1, <2>2
<1> QED
    BY <1>1, <1>2

\* While nothing fails, a paused run has a reason to be, and a run that waits for a human
\* or a runner rests: no worker holds it and none will claim it.
THEOREM CalmRunsRest == RunSpec => [](PausedForAReason /\ WaitingRunRests)
<1>1. PathInv /\ CalmInv /\ [RunNext]_vars => CalmInv'
    BY CalmStep
<1>2. PathInv /\ CalmInv => PausedForAReason /\ WaitingRunRests
    BY CalmImplies DEF PathInv
<1> QED
    BY CalmInit, RunsStayOnPath, <1>1, <1>2, PTL DEF RunSpec

-----------------------------------------------------------------------------
(* What is spent and not recorded is covered by the calls still in flight *)

\* The sum of f over the workers, as the size of a set of calls: induction over the
\* workers is not needed to take it apart at one of them.
Calls == 1..(2 * CallLimit)
Share == 0..(2 * CallLimit)
Sum(f) == Cardinality({p \in Worker \X Calls : p[2] <= f[p[1]]})

LEMMA SumApart ==
    ASSUME NEW f \in [Worker -> Share], NEW w \in Worker
    PROVE  LET rest == {p \in Worker \X Calls : p[2] <= f[p[1]] /\ p[1] # w}
           IN  /\ IsFiniteSet(rest) /\ Cardinality(rest) \in Nat
               /\ Sum(f) = Cardinality(rest) + f[w]
<1> DEFINE all == Worker \X Calls
           sum == {p \in all : p[2] <= f[p[1]]}
           rest == {p \in all : p[2] <= f[p[1]] /\ p[1] # w}
           here == {w} \X (1..f[w])
<1>1. 2 * CallLimit \in Nat /\ f[w] \in Share /\ f[w] \in Nat
    BY DEF Share, RuntimeConstants
<1>2. IsFiniteSet(all)
  <2>1. IsFiniteSet(Calls) /\ IsFiniteSet(Worker)
      BY <1>1, FS_Interval DEF Calls, RuntimeConstants
  <2> QED
      BY <2>1, FS_Product, Zenon
<1>3. IsFiniteSet(rest) /\ Cardinality(rest) \in Nat
  <2>1. rest \in SUBSET all
      OBVIOUS
  <2> QED
      BY <1>2, <2>1, FS_Subset, FS_CardinalityType, Zenon
<1>4. IsFiniteSet(here) /\ Cardinality(here) = f[w]
  <2>1. IsFiniteSet(1..f[w]) /\ Cardinality(1..f[w]) = f[w]
      BY <1>1, FS_Interval
  <2>2. IsFiniteSet({w}) /\ Cardinality({w}) = 1
      BY FS_Singleton
  <2>3. IsFiniteSet(here) /\ Cardinality(here) = Cardinality({w}) * Cardinality(1..f[w])
      BY <2>1, <2>2, FS_Product, Zenon
  <2> QED
      BY <1>1, <2>1, <2>2, <2>3
<1>5. sum = rest \union here
    BY <1>1 DEF Share, Calls
<1>6. rest \intersect here = {}
    OBVIOUS
<1> HIDE DEF rest, here, sum
<1>7. Cardinality(rest \union here) = Cardinality(rest) + Cardinality(here)
  <2>1. Cardinality(rest \union here)
            = Cardinality(rest) + Cardinality(here) - Cardinality(rest \intersect here)
      BY <1>3, <1>4, FS_Union, Zenon
  <2>2. Cardinality(rest \intersect here) = 0
      BY <1>6, FS_EmptySet, Zenon
  <2> QED
      BY <2>1, <2>2, <1>1, <1>3, <1>4
<1> QED
    BY <1>3, <1>4, <1>5, <1>7 DEF Sum, sum, rest

\* If the share of one worker changes and those of the others do not grow, the sum
\* changes by at most what that one does.
LEMMA SumMoves ==
    ASSUME NEW f \in [Worker -> Share], NEW g \in [Worker -> Share], NEW w \in Worker,
           \A x \in Worker \ {w} : g[x] <= f[x]
    PROVE  Sum(f) \in Nat /\ Sum(g) \in Nat /\ Sum(g) + f[w] <= Sum(f) + g[w]
<1> DEFINE A == {p \in Worker \X Calls : p[2] <= f[p[1]] /\ p[1] # w}
           B == {p \in Worker \X Calls : p[2] <= g[p[1]] /\ p[1] # w}
<1>1. IsFiniteSet(A) /\ Cardinality(A) \in Nat /\ Sum(f) = Cardinality(A) + f[w]
    BY SumApart
<1>2. IsFiniteSet(B) /\ Cardinality(B) \in Nat /\ Sum(g) = Cardinality(B) + g[w]
    BY SumApart
<1>3. B \in SUBSET A
  <2> SUFFICES ASSUME NEW p \in B PROVE p \in A
      OBVIOUS
  <2>1. p[1] \in Worker /\ p[1] # w /\ p[2] \in Calls /\ p[2] <= g[p[1]]
      OBVIOUS
  <2>2. g[p[1]] <= f[p[1]] /\ g[p[1]] \in Nat /\ f[p[1]] \in Nat /\ p[2] \in Nat
      BY <2>1 DEF Share, Calls, RuntimeConstants
  <2>3. p[2] <= f[p[1]]
      BY <2>1, <2>2
  <2> QED
      BY <2>1, <2>3
<1> HIDE DEF A, B
<1>4. Cardinality(B) <= Cardinality(A)
    BY <1>1, <1>3, FS_Subset, Zenon
<1>5. f[w] \in Nat /\ g[w] \in Nat
    BY DEF Share, RuntimeConstants
<1> QED
    BY <1>1, <1>2, <1>4, <1>5

\* The model requests that a job may still spend without recording them, or record
\* without having spent them: those of one call, and of another one if it is the owner
\* of a run whose checkpoint it has not seen.
Due(j, mine, abreast) ==
    LET late == IF mine /\ ~abreast THEN CallLimit ELSE 0 IN
    CASE j.pc = "claimed" -> IF mine THEN CallLimit ELSE 0
      [] j.pc = "node" -> IF mine THEN CallLimit + late ELSE 0
      [] j.pc = "call" -> CallLimit + late
      [] j.pc \in {"write", "writing"} -> CallLimit + late - j.out.requests
      [] j.pc = "finish" -> IF mine /\ j.target # "failed" THEN CallLimit ELSE 0
      [] j.pc = "finishing" -> IF j.target = "paused" THEN CallLimit ELSE 0
      [] OTHER -> 0
Spare(w, r) ==
    IF worker[w].run = r
    THEN Due(worker[w], run[r].owner = w, worker[w].done = done[r]) ELSE 0
Spares(r) == [w \in Worker |-> Spare(w, r)]

\* A run that a worker may still claim, or resume, without a fault.
Attended(r) == run[r].lease = "live" /\ \E w \in Worker : run[r].owner = w /\ On(w, r)
Open(r) == \/ run[r].status \in {None, "queued", "paused"}
           \/ run[r].status = "running" /\ ~Attended(r)
Opening(r) == IF Open(r) THEN CallLimit ELSE 0
Budget(r) ==
    spent[r] + Sum(Spares(r)) + Opening(r) <= run[r].used + CallLimit * (faults + 1)
BudgetInv == \A r \in Run : Budget(r)

LEMMA DueBounds ==
    ASSUME NEW j \in Job, NEW mine, NEW abreast,
           j.pc \in {"write", "writing"} => j.out.requests <= CallLimit
    PROVE  Due(j, mine, abreast) \in Share
<1>1. CallLimit \in Nat /\ j.out.requests \in Nat
    BY DEF Job, Outcome, RuntimeConstants
<1> DEFINE late == IF mine /\ ~abreast THEN CallLimit ELSE 0
<1>2. late \in {0, CallLimit}
    OBVIOUS
<1>3. Due(j, mine, abreast) =
        CASE j.pc = "claimed" -> IF mine THEN CallLimit ELSE 0
          [] j.pc = "node" -> IF mine THEN CallLimit + late ELSE 0
          [] j.pc = "call" -> CallLimit + late
          [] j.pc \in {"write", "writing"} -> CallLimit + late - j.out.requests
          [] j.pc = "finish" -> IF mine /\ j.target # "failed" THEN CallLimit ELSE 0
          [] j.pc = "finishing" -> IF j.target = "paused" THEN CallLimit ELSE 0
          [] OTHER -> 0
    BY DEF Due
<1> HIDE DEF late
<1>4. CASE j.pc \in {"write", "writing"}
    BY <1>1, <1>2, <1>3, <1>4 DEF Share
<1>5. CASE j.pc \notin {"write", "writing"}
    BY <1>1, <1>2, <1>3, <1>5 DEF Share
<1> QED
    BY <1>4, <1>5

Shared == \A r \in Run : Spares(r) \in [Worker -> Share]
LEMMA SpareBounds == PathInv => Shared
<1> SUFFICES ASSUME PathInv, NEW r \in Run, NEW w \in Worker PROVE Spare(w, r) \in Share
    BY DEF Shared, Spares
<1>1. worker[w] \in Job
    BY DEF PathInv, TypeOK
<1>2. worker[w].pc \in {"write", "writing"} => worker[w].out.requests <= CallLimit
    BY JobFacts DEF JobSound, OutFits
<1>3. Due(worker[w], run[r].owner = w, worker[w].done = done[r]) \in Share
    BY <1>1, <1>2, DueBounds
<1>4. 0 \in Share
    BY DEF Share, RuntimeConstants
<1> QED
    BY <1>3, <1>4 DEF Spare

\* What another worker has in flight grows only if it becomes the owner, or is the owner
\* of a run that gets a checkpoint.
LEMMA OthersSpare ==
    ASSUME TypeOK, NEW r \in Run, NEW x \in Worker, worker'[x] = worker[x],
           done'[r] = done[r], run'[r].owner # x \/ run'[r].owner = run[r].owner
    PROVE  Spare(x, r)' <= Spare(x, r)
<1> DEFINE j == worker[x]
           d == j.done = done[r]
<1>1. j \in Job /\ CallLimit \in Nat /\ j.out.requests \in Nat
    BY DEF TypeOK, Job, Outcome, RuntimeConstants
<1>2. /\ Spare(x, r)' = IF j.run = r THEN Due(j, run'[r].owner = x, d) ELSE 0
      /\ Spare(x, r) = IF j.run = r THEN Due(j, run[r].owner = x, d) ELSE 0
    BY DEF Spare
<1> HIDE DEF d, j
<1>3. Due(j, run'[r].owner = x, d) <= Due(j, run[r].owner = x, d)
    BY <1>1 DEF Due
<1> QED
    BY <1>1, <1>2, <1>3

LEMMA SumShrinks ==
    ASSUME NEW f \in [Worker -> Share], NEW g \in [Worker -> Share],
           \A x \in Worker : g[x] <= f[x]
    PROVE  Sum(f) \in Nat /\ Sum(g) \in Nat /\ Sum(g) <= Sum(f)
<1> DEFINE A == {p \in Worker \X Calls : p[2] <= f[p[1]]}
           B == {p \in Worker \X Calls : p[2] <= g[p[1]]}
<1>1. IsFiniteSet(Worker \X Calls)
  <2>1. 2 * CallLimit \in Int
      BY DEF RuntimeConstants
  <2>2. IsFiniteSet(Calls)
      BY <2>1, FS_Interval DEF Calls
  <2>3. IsFiniteSet(Worker)
      BY RuntimeConstants
  <2> QED
      BY <2>2, <2>3, FS_Product, Zenon
<1>2. A \in SUBSET (Worker \X Calls)
    OBVIOUS
<1>3. B \in SUBSET A
  <2> SUFFICES ASSUME NEW p \in B PROVE p \in A
      OBVIOUS
  <2>1. p[1] \in Worker /\ p[2] \in Calls /\ p[2] <= g[p[1]]
      OBVIOUS
  <2>2. g[p[1]] <= f[p[1]] /\ g[p[1]] \in Nat /\ f[p[1]] \in Nat /\ p[2] \in Nat
      BY <2>1 DEF Share, Calls, RuntimeConstants
  <2>3. p[2] <= f[p[1]]
      BY <2>1, <2>2
  <2> QED
      BY <2>1, <2>3
<1>4. Sum(f) = Cardinality(A) /\ Sum(g) = Cardinality(B)
    BY DEF Sum
<1> HIDE DEF A, B
<1>5. IsFiniteSet(A)
    BY <1>1, <1>2, FS_Subset, Zenon
<1>6. IsFiniteSet(B) /\ Cardinality(B) <= Cardinality(A)
    BY <1>3, <1>5, FS_Subset, Zenon
<1> QED
    BY <1>4, <1>5, <1>6, FS_CardinalityType, Zenon

LEMMA BudgetTerms ==
    ASSUME PathInv
    PROVE  /\ CallLimit \in Nat /\ faults \in Nat /\ CallLimit * (faults + 1) \in Nat
           /\ \A r \in Run : /\ spent[r] \in Nat /\ run[r].used \in Nat
                             /\ Opening(r) \in {0, CallLimit}
<1>1. TypeOK /\ CallLimit \in Nat
    BY DEF PathInv, RuntimeConstants
<1>2. faults \in Nat /\ CallLimit * (faults + 1) \in Nat
    BY <1>1 DEF TypeOK
<1> QED
    BY <1>1, <1>2 DEF TypeOK, RunRow, Opening

\* The shares before and after a step.
LEMMA SharesMove ==
    ASSUME PathInv, PathInv', NEW r \in Run
    PROVE  /\ Spares(r) \in [Worker -> Share] /\ Spares(r)' \in [Worker -> Share]
           /\ \A x \in Worker : Spares(r)[x] = Spare(x, r) /\ Spares(r)'[x] = Spare(x, r)'
<1>1. Shared /\ Shared'
    BY SpareBounds, PTL
<1>2. Spares(r) \in [Worker -> Share] /\ Spares(r)' \in [Worker -> Share]
    BY <1>1 DEF Shared
<1>3. \A x \in Worker : Spares(r)[x] = Spare(x, r) /\ Spares(r)'[x] = Spare(x, r)'
    BY DEF Spares
<1> QED
    BY <1>2, <1>3

\* A step that spends nothing on a run, or is a fault.
LEMMA BudgetShrinks ==
    ASSUME PathInv, PathInv', NEW r \in Run, Budget(r),
           spent'[r] = spent[r], run'[r].used = run[r].used,
           \A x \in Worker : Spare(x, r)' <= Spare(x, r),
           \/ faults' = faults /\ Opening(r)' <= Opening(r)
           \/ faults' = faults + 1
    PROVE  Budget(r)'
<1>1. /\ CallLimit \in Nat /\ faults \in Nat /\ CallLimit * (faults + 1) \in Nat
      /\ spent[r] \in Nat /\ run[r].used \in Nat /\ Opening(r) \in {0, CallLimit}
    BY BudgetTerms
<1>2. Opening(r)' \in {0, CallLimit}
    BY DEF Opening
<1>3. /\ Sum(Spares(r)) \in Nat /\ Sum(Spares(r)') \in Nat
      /\ Sum(Spares(r)') <= Sum(Spares(r))
  <2>1. /\ Spares(r) \in [Worker -> Share] /\ Spares(r)' \in [Worker -> Share]
        /\ \A x \in Worker : Spares(r)'[x] <= Spares(r)[x]
      BY SharesMove
  <2> QED
      BY <2>1, SumShrinks
<1>4. \/ CallLimit * (faults' + 1) = CallLimit * (faults + 1) /\ Opening(r)' <= Opening(r)
      \/ CallLimit * (faults' + 1) = CallLimit * (faults + 1) + CallLimit
    BY <1>1
<1>5. spent[r] + Sum(Spares(r)) + Opening(r) <= run[r].used + CallLimit * (faults + 1)
    BY DEF Budget
<1>6. spent'[r] + Sum(Spares(r)') + Opening(r)' <= run'[r].used + CallLimit * (faults' + 1)
    BY <1>1, <1>2, <1>3, <1>4, <1>5
<1> QED
    BY <1>6 DEF Budget

\* A step of one worker: what it spends on a run is recorded, or was its due.
LEMMA BudgetMoves ==
    ASSUME PathInv, PathInv', NEW r \in Run, Budget(r), NEW w \in Worker, faults' = faults,
           \A x \in Worker \ {w} : Spare(x, r)' <= Spare(x, r),
           spent'[r] + Spare(w, r)' + Opening(r)' + run[r].used
                <= spent[r] + Spare(w, r) + Opening(r) + run'[r].used,
           spent'[r] \in Nat, run'[r].used \in Nat
    PROVE  Budget(r)'
<1>1. /\ CallLimit \in Nat /\ CallLimit * (faults + 1) \in Nat
      /\ spent[r] \in Nat /\ run[r].used \in Nat /\ Opening(r) \in Nat
    BY BudgetTerms
<1>2. Opening(r)' \in Nat
    BY <1>1 DEF Opening
<1>3. /\ Sum(Spares(r)) \in Nat /\ Sum(Spares(r)') \in Nat
      /\ Spare(w, r) \in Nat /\ Spare(w, r)' \in Nat
      /\ Sum(Spares(r)') + Spare(w, r) <= Sum(Spares(r)) + Spare(w, r)'
  <2>1. /\ Spares(r) \in [Worker -> Share] /\ Spares(r)' \in [Worker -> Share]
        /\ \A x \in Worker \ {w} : Spares(r)'[x] <= Spares(r)[x]
        /\ Spares(r)[w] = Spare(w, r) /\ Spares(r)'[w] = Spare(w, r)'
      BY SharesMove
  <2>2. Spares(r)[w] \in Nat /\ Spares(r)'[w] \in Nat
      BY <2>1 DEF Share, RuntimeConstants
  <2>3. /\ Sum(Spares(r)) \in Nat /\ Sum(Spares(r)') \in Nat
        /\ Sum(Spares(r)') + Spares(r)[w] <= Sum(Spares(r)) + Spares(r)'[w]
      BY <2>1, SumMoves
  <2> QED
      BY <2>1, <2>2, <2>3
<1>4. spent[r] + Sum(Spares(r)) + Opening(r) <= run[r].used + CallLimit * (faults + 1)
    BY DEF Budget
<1>5. CallLimit * (faults' + 1) = CallLimit * (faults + 1)
    OBVIOUS
<1>6. spent'[r] + Sum(Spares(r)') + Opening(r)' <= run'[r].used + CallLimit * (faults' + 1)
    BY <1>1, <1>2, <1>3, <1>4, <1>5
<1> QED
    BY <1>6 DEF Budget

LEMMA BudgetInit == RunInit => BudgetInv
<1> SUFFICES ASSUME RunInit, NEW r \in Run PROVE Budget(r)
    BY DEF BudgetInv
<1>1. \A w \in Worker : Spare(w, r) = 0
    BY DEF RunInit, Idle, Spare, Run
<1>2. Sum(Spares(r)) = 0
  <2>1. {p \in Worker \X Calls : p[2] <= Spares(r)[p[1]]} = {}
      BY <1>1 DEF Spares, Calls
  <2> QED
      BY <2>1, FS_EmptySet DEF Sum
<1>3. spent[r] = 0 /\ run[r].used = 0 /\ faults = 0 /\ run[r].status = None
    BY DEF RunInit, NoRun
<1>4. Opening(r) = CallLimit
    BY <1>3 DEF Opening, Open
<1> QED
    BY <1>2, <1>3, <1>4 DEF Budget, RuntimeConstants

\* The opening of a run is kept when no worker comes or goes that owns it.
LEMMA OpeningKept ==
    ASSUME NEW r, run'[r].status = run[r].status, run'[r].owner = run[r].owner,
           run'[r].lease \in {run[r].lease, "live"}, CallLimit \in Nat,
           \A x \in Worker : On(x, r) /\ run[r].owner = x => On(x, r)'
    PROVE  Opening(r)' <= Opening(r)
<1>1. Attended(r) => Attended(r)'
    BY DEF Attended
<1>2. Open(r)' => Open(r)
    BY <1>1 DEF Open
<1> QED
    BY <1>2 DEF Opening

\* A step of a job that neither writes a checkpoint nor moves its run.
LEMMA OwnBudget ==
    ASSUME PathInv, PathInv', BudgetInv, NEW w \in Worker, worker[w].pc # "idle",
           NEW job, worker' = [worker EXCEPT ![w] = job],
           \/ job.pc = "idle" /\ ~Owns(w)
           \/ job.pc # "idle" /\ job.run = worker[w].run,
           UNCHANGED <<done, faults>>,
           \A s \in Run : /\ run'[s].status = run[s].status /\ run'[s].owner = run[s].owner
                          /\ run'[s].used = run[s].used
                          /\ run'[s].lease \in {run[s].lease, "live"},
           \A s \in Run \ {worker[w].run} : spent'[s] = spent[s],
           LET r == worker[w].run
           IN  spent'[r] + Due(job, Owns(w), job.done = done[r])
                  <= spent[r] + Due(worker[w], Owns(w), worker[w].done = done[r])
    PROVE  BudgetInv'
<1>0. worker[w].run \in Run
    BY JobFacts
<1> SUFFICES ASSUME NEW r \in Run, r = worker[w].run, NEW s \in Run
             PROVE  Budget(s)'
    BY <1>0 DEF BudgetInv
<1>1. TypeOK /\ TypeOK' /\ CallLimit \in Nat /\ worker'[w] = job
      /\ \A x \in Worker \ {w} : worker'[x] = worker[x]
    BY DEF PathInv, TypeOK, RuntimeConstants
<1>2. /\ run'[s].status = run[s].status /\ run'[s].owner = run[s].owner
      /\ run'[s].used = run[s].used /\ run'[s].lease \in {run[s].lease, "live"}
      /\ done'[s] = done[s] /\ faults' = faults
    OBVIOUS
<1>3. \A x \in Worker \ {w} : Spare(x, s)' <= Spare(x, s)
    BY <1>1, <1>2, OthersSpare
<1>4. Opening(s)' <= Opening(s)
  <2>1. ASSUME NEW x \in Worker, On(x, s), run[s].owner = x PROVE On(x, s)'
    <3>1. CASE x = w
        BY <2>1, <3>1, <1>1 DEF On, Owns
    <3>2. CASE x # w
        BY <2>1, <3>2, <1>1 DEF On
    <3> QED
        BY <3>1, <3>2
  <2> QED
      BY <2>1, <1>1, <1>2, OpeningKept
<1>5. job.pc = "idle" => \A m, d : Due(job, m, d) = 0
    BY DEF Due
<1>6. Budget(s)
    BY DEF BudgetInv
<1>7. CASE s # r
  <2>1. Spare(w, s) = 0 /\ Spare(w, s)' = 0
      BY <1>1, <1>5, <1>7 DEF Spare
  <2>2. \A x \in Worker : Spare(x, s)' <= Spare(x, s)
      BY <1>3, <2>1
  <2>3. spent'[s] = spent[s]
      BY <1>7
  <2> QED
      BY <1>2, <1>4, <1>6, <2>2, <2>3, BudgetShrinks
<1>8. CASE s = r
  <2>1. Spare(w, r) = Due(worker[w], Owns(w), worker[w].done = done[r])
      BY DEF Spare, Owns
  <2>2. Spare(w, r)' = Due(job, Owns(w), job.done = done[r])
      BY <1>1, <1>2, <1>5, <1>8 DEF Spare, Owns
  <2>3. spent'[r] \in Nat /\ run'[r].used \in Nat /\ spent[r] \in Nat /\ run[r].used \in Nat
      BY <1>1 DEF TypeOK, RunRow
  <2>4. Spare(w, r) \in Nat /\ Spare(w, r)' \in Nat
    <3>1. /\ Spares(r) \in [Worker -> Share] /\ Spares(r)' \in [Worker -> Share]
          /\ Spares(r)[w] = Spare(w, r) /\ Spares(r)'[w] = Spare(w, r)'
        BY SharesMove
    <3>2. Spares(r)[w] \in Nat /\ Spares(r)'[w] \in Nat
        BY <3>1 DEF Share, RuntimeConstants
    <3> QED
        BY <3>1, <3>2
  <2>5. Opening(r) \in Nat /\ Opening(r)' \in Nat
      BY <1>1 DEF Opening
  <2>6. spent'[r] + Spare(w, r)' <= spent[r] + Spare(w, r)
      BY <2>1, <2>2
  <2>7. spent'[r] + Spare(w, r)' + Opening(r)' + run[r].used
            <= spent[r] + Spare(w, r) + Opening(r) + run'[r].used
      BY <1>2, <1>4, <1>8, <2>3, <2>4, <2>5, <2>6
  <2> QED
      BY <1>2, <1>3, <1>6, <1>8, <2>3, <2>7, BudgetMoves
<1> QED
    BY <1>7, <1>8

\* What a job is due, by where it is.
LEMMA DueAt ==
    ASSUME NEW j \in Job, NEW mine, NEW abreast
    PROVE  /\ j.pc = "idle" => Due(j, mine, abreast) = 0
           /\ j.pc = "claimed" => Due(j, mine, abreast) = IF mine THEN CallLimit ELSE 0
           /\ j.pc = "node" =>
                 Due(j, mine, abreast)
                     = IF mine
                       THEN CallLimit + (IF mine /\ ~abreast THEN CallLimit ELSE 0) ELSE 0
           /\ j.pc = "call" =>
                 Due(j, mine, abreast)
                     = CallLimit + (IF mine /\ ~abreast THEN CallLimit ELSE 0)
           /\ j.pc \in {"write", "writing"} =>
                 Due(j, mine, abreast)
                     = CallLimit + (IF mine /\ ~abreast THEN CallLimit ELSE 0) - j.out.requests
           /\ j.pc = "finish" =>
                 Due(j, mine, abreast)
                     = IF mine /\ j.target # "failed" THEN CallLimit ELSE 0
           /\ j.pc = "finishing" =>
                 Due(j, mine, abreast) = IF j.target = "paused" THEN CallLimit ELSE 0
           /\ CallLimit \in Nat /\ j.out.requests \in Nat
BY DEF Due, Job, Outcome, RuntimeConstants

LEMMA BudgetGoIdle ==
    ASSUME PathInv, PathInv', BudgetInv, NEW w \in Worker, worker[w].pc # "idle", ~Owns(w),
           GoIdle(w), UNCHANGED <<run, done, spent, faults>>
    PROVE  BudgetInv'
<1> DEFINE r == worker[w].run
<1>1. worker' = [worker EXCEPT ![w] = Idle] /\ Idle.pc = "idle"
    BY DEF GoIdle, Idle
<1>2. Due(Idle, Owns(w), Idle.done = done[r]) = 0
    BY <1>1 DEF Due
<1>3. Due(worker[w], Owns(w), worker[w].done = done[r]) \in Nat
  <2>1. /\ worker[w] \in Job
        /\ worker[w].pc \in {"write", "writing"} => worker[w].out.requests <= CallLimit
      BY JobFacts DEF JobSound, OutFits
  <2>2. Due(worker[w], Owns(w), worker[w].done = done[r]) \in Share
      BY <2>1, DueBounds
  <2> QED
      BY <2>2 DEF Share, RuntimeConstants
<1>4. spent[r] \in Nat
    BY JobFacts DEF PathInv, TypeOK
<1>5. spent'[r] + Due(Idle, Owns(w), Idle.done = done[r])
          <= spent[r] + Due(worker[w], Owns(w), worker[w].done = done[r])
    BY <1>2, <1>3, <1>4
<1> QED
    BY <1>1, <1>5, OwnBudget

LEMMA BudgetFail ==
    ASSUME PathInv, PathInv', BudgetInv, NEW w \in Worker, Fail(w),
           worker[w].pc \in {"call", "writing"}, UNCHANGED <<run, done, faults>>,
           \A s \in Run \ {worker[w].run} : spent'[s] = spent[s],
           \/ spent' = spent
           \/ worker[w].pc = "call" /\ spent'[worker[w].run] <= spent[worker[w].run] + CallLimit
    PROVE  BudgetInv'
<1> DEFINE r == worker[w].run
           job == [worker[w] EXCEPT !.pc = "finish", !.target = "failed", !.node = End,
                                    !.out = NoOutcome, !.seen = NoSeen]
<1>1. TypeOK /\ TypeOK' /\ worker[w] \in Job /\ r \in Run /\ worker[w].pc # "idle"
      /\ (worker[w].pc = "writing" => worker[w].out.requests <= CallLimit)
    BY JobFacts DEF PathInv, JobSound, OutFits
<1>2. worker' = [worker EXCEPT ![w] = job]
    BY <1>1 DEF Fail, TypeOK
<1>3. job.pc = "finish" /\ job.run = r /\ job.target = "failed"
    BY <1>1 DEF Job
<1> HIDE DEF job
<1>4. Due(job, Owns(w), job.done = done[r]) = 0
    BY <1>3 DEF Due
<1>5. spent[r] \in Nat /\ spent'[r] \in Nat
    BY <1>1 DEF TypeOK
<1>6. spent'[r] <= spent[r] + Due(worker[w], Owns(w), worker[w].done = done[r])
  <2>1. CallLimit \in Nat /\ worker[w].out.requests \in Nat
      BY <1>1, DueAt
  <2>2. worker[w].pc = "call" =>
            Due(worker[w], Owns(w), worker[w].done = done[r]) \in {CallLimit, CallLimit + CallLimit}
      BY <1>1, DueAt
  <2>3. worker[w].pc = "writing" =>
            Due(worker[w], Owns(w), worker[w].done = done[r])
                \in {CallLimit - worker[w].out.requests,
                     CallLimit + CallLimit - worker[w].out.requests}
      BY <1>1, DueAt
  <2> QED
      BY <1>1, <1>5, <2>1, <2>2, <2>3
<1>7. spent'[r] + Due(job, Owns(w), job.done = done[r])
          <= spent[r] + Due(worker[w], Owns(w), worker[w].done = done[r])
    BY <1>4, <1>5, <1>6
<1> QED
    BY <1>1, <1>2, <1>3, <1>7, OwnBudget

LEMMA BudgetLoad ==
    ASSUME PathInv, PathInv', BudgetInv, NEW w \in Worker, Load(w)
    PROVE  BudgetInv'
<1> DEFINE r == worker[w].run
           next == IF ResolvedAt(hitl[r]) \union ResolvedAt(obs[r]) # {}
                   THEN None ELSE last[r].next
           job == [worker[w] EXCEPT !.pc = "node", !.node = GraphV1[1],
                      !.iteration = last[r].iteration, !.done = done[r],
                      !.noProgress = last[r].noProgress, !.next = next]
<1>1. TypeOK /\ worker[w].pc = "claimed" /\ UNCHANGED <<run, done, spent, faults>>
    BY DEF PathInv, Load
<1>2. worker[w] \in Job /\ r \in Run /\ spent[r] \in Nat /\ CallLimit \in Nat
    BY <1>1, JobFacts DEF TypeOK, RuntimeConstants
<1>3. CASE ~Owns(w)
    BY <1>1, <1>3, BudgetGoIdle DEF Load
<1>4. CASE Owns(w)
  <2>1. worker' = [worker EXCEPT ![w] = job]
      BY <1>1, <1>4, ZenonT(40) DEF Load, TypeOK
  <2>2. job.pc = "node" /\ job.run = r /\ job.done = done[r]
      BY <1>2 DEF Job
  <2> HIDE DEF job
  <2>3. Due(job, Owns(w), job.done = done[r]) = CallLimit
      BY <1>2, <1>4, <2>2 DEF Due
  <2>4. Due(worker[w], Owns(w), worker[w].done = done[r]) = CallLimit
      BY <1>1, <1>4 DEF Due
  <2>5. spent'[r] + Due(job, Owns(w), job.done = done[r])
            <= spent[r] + Due(worker[w], Owns(w), worker[w].done = done[r])
      BY <1>1, <1>2, <2>3, <2>4
  <2> QED
      BY <1>1, <2>1, <2>2, <2>5, OwnBudget
<1> QED
    BY <1>3, <1>4

LEMMA BudgetSkip ==
    ASSUME PathInv, PathInv', BudgetInv, NEW w \in Worker, SkipNode(w)
    PROVE  BudgetInv'
<1> DEFINE j == worker[w]
           r == j.run
           v == run[r].graph
           job == Routed(j, v)
<1>1. TypeOK /\ j.pc = "node" /\ Key(j) \in j.done /\ worker' = [worker EXCEPT ![w] = job]
      /\ UNCHANGED <<run, done, spent, faults>>
    BY DEF PathInv, SkipNode
<1>2. /\ j \in Job /\ r \in Run /\ v \in Versions /\ spent[r] \in Nat /\ CallLimit \in Nat
      /\ JobSound(j, w, run[r], last[r], done[r])
    BY <1>1, JobFacts DEF TypeOK, RuntimeConstants
<1>3. PICK c \in Point : Follows(c, j, w, run[r], last[r], done[r])
    BY <1>1, <1>2 DEF JobSound, Walks
<1>4. JobAt(v, c, j)
    BY <1>3 DEF Follows
<1>5. Walking(v, c, j) /\ Sound(v, c) /\ j.node \in NodeSet(v) /\ j.next \in {None, c.next}
  <2>1. ~AtFrontier(v, c, j)
      BY <1>1, <1>2, <1>4, FrontierIsNew DEF JobAt
  <2> QED
      BY <1>4, <2>1 DEF JobAt
<1>6. job.run = r /\ job.done = j.done /\ job.pc \in {"node", "finish"}
    BY <1>2, <1>5, RoutedStaysOnPath DEF Kept
<1> HIDE DEF job
<1>7. Due(job, Owns(w), job.done = done[r]) <= Due(j, Owns(w), j.done = done[r])
      /\ Due(job, Owns(w), job.done = done[r]) \in Nat
      /\ Due(j, Owns(w), j.done = done[r]) \in Nat
    BY <1>1, <1>2, <1>6 DEF Due
<1>8. spent'[r] + Due(job, Owns(w), job.done = done[r])
          <= spent[r] + Due(j, Owns(w), j.done = done[r])
    BY <1>1, <1>2, <1>7
<1> QED
    BY <1>1, <1>6, <1>8, OwnBudget

LEMMA BudgetRenew ==
    ASSUME PathInv, PathInv', BudgetInv, NEW w \in Worker, RenewLease(w)
    PROVE  BudgetInv'
<1> DEFINE j == worker[w]
           r == j.run
           row == [run[r] EXCEPT !.lease = "live"]
           job == [j EXCEPT !.pc = "call"]
<1>1. TypeOK /\ j.pc = "node" /\ UNCHANGED <<done, spent, faults>>
    BY DEF PathInv, RenewLease
<1>2. /\ j \in Job /\ r \in Run /\ run[r] \in RunRow /\ spent[r] \in Nat /\ CallLimit \in Nat
      /\ RowSound(run[r], last[r], done[r])
    BY <1>1, JobFacts DEF TypeOK, RuntimeConstants
<1>3. Owns(w) => run[r].status = "running"
    BY <1>2 DEF Owns, RowSound, None, RuntimeConstants
<1>4. CASE ~Owns(w)
    BY <1>1, <1>4, BudgetGoIdle DEF RenewLease
<1>5. CASE Owns(w)
  <2>1. run' = [run EXCEPT ![r] = row] /\ worker' = [worker EXCEPT ![w] = job]
      BY <1>1, <1>2, <1>3, <1>5 DEF RenewLease, TypeOK
  <2>2. row.status = run[r].status /\ row.owner = run[r].owner /\ row.lease = "live"
        /\ row.used = run[r].used
      BY <1>2 DEF RunRow
  <2>3. job.pc = "call" /\ job.run = r /\ job.done = j.done
      BY <1>2 DEF Job
  <2> HIDE DEF row, job
  <2>4. Due(job, Owns(w), job.done = done[r]) = Due(j, Owns(w), j.done = done[r])
        /\ Due(j, Owns(w), j.done = done[r]) \in Nat
      BY <1>1, <1>2, <1>5, <2>3 DEF Due
  <2>5. spent'[r] + Due(job, Owns(w), job.done = done[r])
            <= spent[r] + Due(j, Owns(w), j.done = done[r])
      BY <1>1, <1>2, <2>4
  <2>6. \A s \in Run : /\ run'[s].status = run[s].status /\ run'[s].owner = run[s].owner
                       /\ run'[s].used = run[s].used
                       /\ run'[s].lease \in {run[s].lease, "live"}
      BY <1>1, <2>1, <2>2 DEF TypeOK
  <2> QED
      BY <1>1, <2>1, <2>3, <2>5, <2>6, OwnBudget
<1> QED
    BY <1>4, <1>5

\* An answer has spent what the job will record.
LEMMA BudgetAnswered ==
    ASSUME PathInv, PathInv', BudgetInv, NEW w \in Worker, worker[w].pc = "call",
           NEW a \in Outcome, NEW q \in Nat, q <= CallLimit,
           a.next = "continue" => worker[w].node = "maybe_replan",
           a.wait # None => worker[w].node \in Interrupting /\ a.next = "pause",
           worker' = [worker EXCEPT ![w] = Answered(worker[w], a, q)],
           UNCHANGED <<run, done, faults>>,
           \A s \in Run \ {worker[w].run} : spent'[s] = spent[s],
           spent'[worker[w].run] = spent[worker[w].run] + q
    PROVE  BudgetInv'
<1> DEFINE r == worker[w].run
           job == Answered(worker[w], a, q)
<1>1. worker[w] \in Job /\ spent[r] \in Nat /\ CallLimit \in Nat
    BY JobFacts DEF PathInv, TypeOK, RuntimeConstants
<1>2. /\ job \in Job /\ job.pc = "write" /\ job.run = r /\ job.done = worker[w].done
      /\ job.out.requests = q
    BY AnsweredJob
<1> HIDE DEF job
<1>3. Due(worker[w], Owns(w), worker[w].done = done[r]) \in {CallLimit, CallLimit + CallLimit}
      /\ Due(job, Owns(w), job.done = done[r])
            = Due(worker[w], Owns(w), worker[w].done = done[r]) - q
    BY <1>1, <1>2 DEF Due
<1>4. spent'[r] + Due(job, Owns(w), job.done = done[r])
          <= spent[r] + Due(worker[w], Owns(w), worker[w].done = done[r])
    BY <1>1, <1>3
<1> QED
    BY <1>2, <1>4, OwnBudget DEF job

LEMMA BudgetAnswer ==
    ASSUME PathInv, PathInv', BudgetInv, NEW w \in Worker, AnswerWithoutModel(w)
    PROVE  BudgetInv'
<1>1. TypeOK /\ worker[w].pc = "call" /\ UNCHANGED <<run, done, spent, faults>>
      /\ worker[w].run \in Run
    BY JobFacts DEF AnswerWithoutModel, PathInv
<1>2. PICK a \in UnaskedAnswers(worker[w].node) :
        worker' = [worker EXCEPT ![w].pc = "write", ![w].out = a]
    BY DEF AnswerWithoutModel
<1>3. a \in Outcome /\ a.requests = 0
      /\ (a.next = "continue" => worker[w].node = "maybe_replan")
      /\ (a.wait # None => worker[w].node \in Interrupting /\ a.next = "pause")
    BY AnswersFit
<1>4. worker' = [worker EXCEPT ![w] = Answered(worker[w], a, 0)]
  <2>1. [a EXCEPT !.requests = 0] = a
      BY <1>3 DEF Outcome
  <2> QED
      BY <1>1, <1>2, <2>1 DEF Answered, TypeOK
<1>5. 0 \in Nat /\ 0 <= CallLimit /\ spent'[worker[w].run] = spent[worker[w].run] + 0
    BY <1>1 DEF TypeOK, RuntimeConstants
<1> QED
    BY <1>1, <1>3, <1>4, <1>5, BudgetAnswered

LEMMA BudgetAsk ==
    ASSUME PathInv, PathInv', BudgetInv, NEW w \in Worker, AskModel(w)
    PROVE  BudgetInv'
<1> DEFINE j == worker[w]
           r == j.run
           old == proposal[r][j.iteration]
           proposed == IF j.node = "propose_action" /\ old = None
                       THEN {None, "awaiting_approval", "denied", "authorized"}
                       ELSE {old}
<1>1. TypeOK /\ j.pc = "call" /\ j.node \in ModelNodes /\ r \in Run
      /\ UNCHANGED <<run, done, faults>>
    BY JobFacts DEF AskModel, PathInv
<1>2. PICK q \in 1..CallLimit, s \in proposed :
        /\ \E answer \in AskedAnswers(j.node, s) :
             worker' = [worker EXCEPT ![w].pc = "write",
                                      ![w].out = [answer EXCEPT !.requests = q]]
        /\ spent' = [spent EXCEPT ![r] = @ + q]
    BY Zenon DEF AskModel
<1>3. PICK a \in AskedAnswers(j.node, s) :
        worker' = [worker EXCEPT ![w].pc = "write", ![w].out = [a EXCEPT !.requests = q]]
    BY <1>2
<1>4. a \in Outcome /\ (a.next = "continue" => j.node = "maybe_replan")
      /\ (a.wait # None => j.node \in Interrupting /\ a.next = "pause")
    BY <1>1, AnswersFit
<1>5. worker' = [worker EXCEPT ![w] = Answered(j, a, q)]
    BY <1>1, <1>3 DEF Answered, TypeOK
<1>6. q \in Nat /\ q <= CallLimit
    BY DEF RuntimeConstants
<1>7. spent'[r] = spent[r] + q /\ \A x \in Run \ {r} : spent'[x] = spent[x]
    BY <1>1, <1>2 DEF TypeOK
<1> QED
    BY <1>1, <1>4, <1>5, <1>6, <1>7, BudgetAnswered

LEMMA BudgetHandlerFails ==
    ASSUME PathInv, PathInv', BudgetInv, NEW w \in Worker, HandlerFails(w)
    PROVE  BudgetInv'
<1> DEFINE r == worker[w].run
<1>1. TypeOK /\ worker[w].pc = "call" /\ Fail(w) /\ UNCHANGED <<run, done, faults>>
      /\ r \in Run
    BY JobFacts DEF HandlerFails, PathInv
<1>2. PICK q \in 0..CallLimit : spent' = [spent EXCEPT ![r] = @ + q]
    BY DEF HandlerFails
<1>3. \A x \in Run \ {r} : spent'[x] = spent[x]
    BY <1>1, <1>2 DEF TypeOK
<1>4. spent'[r] <= spent[r] + CallLimit
  <2>1. spent[r] \in Nat /\ CallLimit \in Nat /\ q \in Nat /\ q <= CallLimit
      BY <1>1 DEF TypeOK, RuntimeConstants
  <2>2. spent'[r] = spent[r] + q
      BY <1>1, <1>2 DEF TypeOK
  <2> QED
      BY <2>1, <2>2
<1> QED
    BY <1>1, <1>3, <1>4, BudgetFail

LEMMA BudgetRead ==
    ASSUME PathInv, PathInv', BudgetInv, NEW w \in Worker, ReadRun(w)
    PROVE  BudgetInv'
<1> DEFINE r == worker[w].run
           seen == [sequence |-> run[r].sequence, used |-> run[r].used,
                    iteration |-> run[r].iteration]
           job == [worker[w] EXCEPT !.pc = "writing", !.seen = seen]
<1>1. TypeOK /\ worker[w].pc = "write" /\ UNCHANGED <<run, done, spent, faults>>
    BY DEF PathInv, ReadRun
<1>2. /\ worker[w] \in Job /\ r \in Run /\ spent[r] \in Nat /\ CallLimit \in Nat
      /\ worker[w].out.requests \in Nat
    BY <1>1, JobFacts DEF TypeOK, RuntimeConstants, Job, Outcome
<1>3. CASE ~Owns(w)
    BY <1>1, <1>3, BudgetGoIdle DEF ReadRun
<1>4. CASE Owns(w)
  <2>1. worker' = [worker EXCEPT ![w] = job]
      BY <1>1, <1>4 DEF ReadRun, TypeOK
  <2>2. job.pc = "writing" /\ job.run = r /\ job.done = worker[w].done
        /\ job.out = worker[w].out
      BY <1>2 DEF Job
  <2> HIDE DEF job
  <2>3. Due(job, Owns(w), job.done = done[r])
            = Due(worker[w], Owns(w), worker[w].done = done[r])
        /\ Due(worker[w], Owns(w), worker[w].done = done[r]) \in Int
      BY <1>1, <1>2, <2>2 DEF Due
  <2>4. spent'[r] + Due(job, Owns(w), job.done = done[r])
            <= spent[r] + Due(worker[w], Owns(w), worker[w].done = done[r])
      BY <1>1, <1>2, <2>3
  <2> QED
      BY <1>1, <2>1, <2>2, <2>4, OwnBudget
<1> QED
    BY <1>3, <1>4

LEMMA BudgetReadForFinish ==
    ASSUME PathInv, PathInv', BudgetInv, NEW w \in Worker, ReadForFinish(w)
    PROVE  BudgetInv'
<1> DEFINE r == worker[w].run
           job == [worker[w] EXCEPT !.pc = "finishing"]
<1>1. TypeOK /\ worker[w].pc = "finish" /\ UNCHANGED <<run, done, spent, faults>>
    BY DEF PathInv, ReadForFinish
<1>2. worker[w] \in Job /\ r \in Run /\ spent[r] \in Nat /\ CallLimit \in Nat
    BY <1>1, JobFacts DEF TypeOK, RuntimeConstants
<1>3. CASE ~Owns(w)
    BY <1>1, <1>3, BudgetGoIdle DEF ReadForFinish, Owns
<1>4. CASE Owns(w)
  <2>1. worker' = [worker EXCEPT ![w] = job]
      BY <1>1, <1>4 DEF ReadForFinish, TypeOK, Owns
  <2>2. job.pc = "finishing" /\ job.run = r /\ job.target = worker[w].target
      BY <1>2 DEF Job
  <2> HIDE DEF job
  <2>3. /\ Due(job, Owns(w), job.done = done[r])
              <= Due(worker[w], Owns(w), worker[w].done = done[r])
        /\ Due(job, Owns(w), job.done = done[r]) \in Nat
        /\ Due(worker[w], Owns(w), worker[w].done = done[r]) \in Nat
      BY <1>1, <1>2, <1>4, <2>2 DEF Due
  <2>4. spent'[r] + Due(job, Owns(w), job.done = done[r])
            <= spent[r] + Due(worker[w], Owns(w), worker[w].done = done[r])
      BY <1>1, <1>2, <2>3
  <2> QED
      BY <1>1, <2>1, <2>2, <2>4, OwnBudget
<1> QED
    BY <1>3, <1>4

\* A worker that finds its checkpoint written by its predecessor has used a call of its
\* own for it, which its owner was due.
LEMMA BudgetKnown ==
    ASSUME PathInv, PathInv', BudgetInv, NEW w \in Worker, KnownCheckpoint(w)
    PROVE  BudgetInv'
<1> DEFINE j == worker[w]
           r == j.run
           v == run[r].graph
           k == AfterWrite(j)
<1>1. /\ TypeOK /\ j.pc = "writing" /\ done[r] = j.done \union {Key(j)}
      /\ worker' = [worker EXCEPT ![w] = k] /\ UNCHANGED <<run, done, spent, faults>>
    BY DEF PathInv, KnownCheckpoint
<1>2. /\ j \in Job /\ r \in Run /\ v \in Versions /\ spent[r] \in Nat /\ CallLimit \in Nat
      /\ JobSound(j, w, run[r], last[r], done[r]) /\ j.out.requests \in Nat
    BY <1>1, JobFacts DEF TypeOK, RuntimeConstants, Job, Outcome
<1>3. OutFits(j) /\ \E c \in Point : JobAt(v, c, j)
    BY <1>1, <1>2 DEF JobSound, Walks, Follows
<1>4. PICK c \in Point : JobAt(v, c, j)
    BY <1>3
<1>5. /\ Key(j) \notin j.done /\ k.run = r /\ k.done = done[r]
      /\ k.pc \in {"node", "finish"}
  <2>1. StepsTo(v, c, j, Written(j), k)
      BY <1>1, <1>2, <1>3, <1>4, WrittenFollows, Zenon
  <2> HIDE DEF k
  <2> QED
      BY <1>1, <2>1 DEF StepsTo
<1> HIDE DEF k
<1>6. j.done # done[r] /\ j.out.requests <= CallLimit
    BY <1>1, <1>3, <1>5 DEF OutFits
<1>7. /\ Due(j, Owns(w), j.done = done[r])
            = CallLimit + (IF Owns(w) THEN CallLimit ELSE 0) - j.out.requests
      /\ Due(k, Owns(w), k.done = done[r]) \in {0, IF Owns(w) THEN CallLimit ELSE 0}
    BY <1>1, <1>2, <1>5, <1>6 DEF Due
<1>8. spent'[r] + Due(k, Owns(w), k.done = done[r])
          <= spent[r] + Due(j, Owns(w), j.done = done[r])
    BY <1>1, <1>2, <1>6, <1>7
<1> QED
    BY <1>1, <1>5, <1>8, OwnBudget

\* Steps that take a run out of its workers' hands, or bring no new one to it.
LEMMA RowBudget ==
    ASSUME PathInv, PathInv', BudgetInv, NEW r \in Run, UNCHANGED <<done, worker, spent>>,
           \A s \in Run \ {r} : run'[s] = run[s], run'[r].used = run[r].used,
           run'[r].owner \in {run[r].owner, None},
           \/ faults' = faults /\ Opening(r)' <= Opening(r)
           \/ faults' = faults + 1
    PROVE  BudgetInv'
<1> SUFFICES ASSUME NEW s \in Run PROVE Budget(s)'
    BY DEF BudgetInv
<1>1. TypeOK /\ CallLimit \in Nat /\ Budget(s)
    BY DEF PathInv, RuntimeConstants, BudgetInv
<1>2. run'[s].used = run[s].used /\ run'[s].owner \in {run[s].owner, None}
    OBVIOUS
<1>3. \A x \in Worker : Spare(x, s)' <= Spare(x, s)
  <2> SUFFICES ASSUME NEW x \in Worker PROVE Spare(x, s)' <= Spare(x, s)
      OBVIOUS
  <2>1. run'[s].owner # x \/ run'[s].owner = run[s].owner
      BY <1>2 DEF None, RuntimeConstants
  <2> QED
      BY <1>1, <2>1, OthersSpare
<1>4. \/ faults' = faults /\ Opening(s)' <= Opening(s)
      \/ faults' = faults + 1
  <2>1. CASE s = r
      BY <2>1
  <2>2. CASE s # r
    <3>1. Opening(s)' <= Opening(s)
        BY <1>1, <2>2, OpeningKept DEF On
    <3> QED
        BY <3>1
  <2> QED
      BY <2>1, <2>2
<1> QED
    BY <1>1, <1>2, <1>3, <1>4, BudgetShrinks

LEMMA BudgetOutside ==
    ASSUME PathInv, PathInv', BudgetInv, NEW r \in Run,
           \/ \E v \in Graphs : CreateRun(r, v)
           \/ CancelRun(r)
           \/ \E t \in RunStatus : RequestTransition(r, t)
    PROVE  BudgetInv'
<1>1. /\ TypeOK /\ run[r] \in RunRow /\ CallLimit \in Nat /\ Opening(r) \in {0, CallLimit}
      /\ RowSound(run[r], last[r], done[r])
    BY DEF PathInv, TypeOK, RuntimeConstants, Opening
<1>2. CASE \E v \in Graphs : CreateRun(r, v)
  <2>1. PICK v \in Graphs : CreateRun(r, v)
      BY <1>2
  <2>2. /\ run[r].status = None /\ UNCHANGED <<done, worker, spent, faults>>
        /\ run' = [run EXCEPT ![r] = [run[r] EXCEPT !.status = "queued", !.graph = v]]
      BY <1>1, <2>1 DEF CreateRun, TypeOK
  <2>3. /\ run'[r].status = "queued" /\ run'[r].owner = run[r].owner
        /\ run'[r].used = run[r].used /\ \A s \in Run \ {r} : run'[s] = run[s]
      BY <1>1, <2>2 DEF TypeOK, RunRow
  <2>4. Opening(r)' <= Opening(r)
      BY <1>1, <2>2, <2>3 DEF Opening, Open
  <2> QED
      BY <2>2, <2>3, <2>4, RowBudget
<1>3. CASE \E t \in RunStatus : TransitionRun(r, t) /\ (faults' = faults + 1 \/
                                                        (faults' = faults /\ t = "cancelled"))
  <2>1. PICK t \in RunStatus : /\ TransitionRun(r, t)
                               /\ faults' = faults + 1 \/ (faults' = faults /\ t = "cancelled")
      BY <1>3
  <2>2. /\ UNCHANGED <<done, worker, spent>>
        /\ run' = [run EXCEPT ![r] = Moved(run[r], t)]
      BY <2>1 DEF TransitionRun
  <2>3. /\ Moved(run[r], t).status = t /\ Moved(run[r], t).used = run[r].used
        /\ Moved(run[r], t).owner \in {run[r].owner, None}
      BY <1>1, MovedRow
  <2>4. /\ run'[r].status = t /\ run'[r].used = run[r].used
        /\ run'[r].owner \in {run[r].owner, None}
        /\ \A s \in Run \ {r} : run'[s] = run[s]
      BY <1>1, <2>2, <2>3 DEF TypeOK
  <2>5. t = "cancelled" => Opening(r)' <= Opening(r)
      BY <1>1, <2>4 DEF Opening, Open, None
  <2> QED
      BY <2>1, <2>2, <2>4, <2>5, RowBudget
<1> QED
    BY <1>2, <1>3 DEF CancelRun, RequestTransition, RunStatus

LEMMA BudgetDecisions ==
    ASSUME PathInv, PathInv', BudgetInv, NEW r \in Run, NEW i \in Iteration,
           DecideApproval(r, i) \/ ResolveTask(r, i)
    PROVE  BudgetInv'
<1>1. /\ TypeOK /\ run[r] \in RunRow /\ CallLimit \in Nat
      /\ UNCHANGED <<done, worker, spent, faults>>
    BY DEF PathInv, TypeOK, RuntimeConstants, DecideApproval, ResolveTask
<1>2. CASE run' = run
  <2>1. Opening(r)' <= Opening(r)
      BY <1>1, <1>2, OpeningKept DEF On
  <2> QED
      BY <1>1, <1>2, <2>1, RowBudget
<1>3. CASE run' = [run EXCEPT ![r] = Requeued(run[r])]
  <2>1. /\ run'[r] = Requeued(run[r]) /\ \A s \in Run \ {r} : run'[s] = run[s]
      BY <1>1, <1>3 DEF TypeOK
  <2>2. CASE run[r].status = "paused"
    <3>1. /\ run'[r].status = "queued" /\ run'[r].owner = None
          /\ run'[r].used = run[r].used
        BY <1>1, <2>1, <2>2, RequeuedRow
    <3>2. Opening(r)' <= Opening(r)
        BY <1>1, <2>2, <3>1 DEF Opening, Open
    <3> QED
        BY <1>1, <2>1, <3>1, <3>2, RowBudget
  <2>3. CASE run[r].status # "paused"
    <3>1. run'[r] = run[r]
        BY <2>1, <2>3 DEF Requeued
    <3>2. Opening(r)' <= Opening(r)
        BY <1>1, <3>1, OpeningKept DEF On
    <3> QED
        BY <1>1, <2>1, <3>1, <3>2, RowBudget
  <2> QED
      BY <2>2, <2>3
<1> QED
    BY <1>2, <1>3 DEF DecideApproval, ResolveTask

\* A lease runs out on a run that no worker is on, which was open before, or by a fault.
LEMMA BudgetExpiry ==
    ASSUME PathInv, PathInv', BudgetInv, NEW r \in Run, LeaseExpires(r)
    PROVE  BudgetInv'
<1>1. /\ TypeOK /\ run[r] \in RunRow /\ CallLimit \in Nat /\ run[r].lease = "live"
      /\ UNCHANGED <<done, worker, spent>>
      /\ run' = [run EXCEPT ![r] = [run[r] EXCEPT !.lease = "expired"]]
    BY DEF PathInv, TypeOK, RuntimeConstants, LeaseExpires
<1>2. /\ run'[r].status = run[r].status /\ run'[r].owner = run[r].owner
      /\ run'[r].used = run[r].used /\ \A s \in Run \ {r} : run'[s] = run[s]
    BY <1>1 DEF TypeOK, RunRow
<1>3. CASE Abandoned(r) /\ faults' = faults
  <2>1. run[r].status = "running"
      BY <1>1 DEF PathInv, RowSound, None
  <2>2. Open(r)
      BY <1>3, <2>1 DEF Open, Attended, Abandoned, On
  <2>3. Opening(r)' <= Opening(r)
      BY <1>1, <2>2 DEF Opening
  <2> QED
      BY <1>1, <1>2, <1>3, <2>3, RowBudget
<1>4. CASE faults' = faults + 1
    BY <1>1, <1>2, <1>4, RowBudget
<1> QED
    BY <1>3, <1>4 DEF LeaseExpires

LEMMA BudgetCrash ==
    ASSUME PathInv, PathInv', BudgetInv, NEW w \in Worker, Crash(w)
    PROVE  BudgetInv'
<1> SUFFICES ASSUME NEW s \in Run PROVE Budget(s)'
    BY DEF BudgetInv
<1>1. /\ TypeOK /\ Budget(s) /\ CallLimit \in Nat /\ faults' = faults + 1
      /\ UNCHANGED <<run, done, spent>> /\ worker' = [worker EXCEPT ![w] = Idle]
    BY DEF PathInv, RuntimeConstants, BudgetInv, Crash, GoIdle
<1>2. worker'[w] = Idle /\ \A x \in Worker \ {w} : worker'[x] = worker[x]
    BY <1>1 DEF TypeOK
<1>3. \A x \in Worker \ {w} : Spare(x, s)' <= Spare(x, s)
    BY <1>1, <1>2, OthersSpare
<1>4. Spare(w, s)' <= Spare(w, s)
  <2>1. Spare(w, s)' = 0
      BY <1>2 DEF Spare, Due, Idle
  <2>2. Spares(s) \in [Worker -> Share] /\ Spares(s)[w] = Spare(w, s)
      BY SharesMove
  <2>3. Spares(s)[w] \in Nat
      BY <2>2 DEF Share, RuntimeConstants
  <2> QED
      BY <2>1, <2>2, <2>3
<1> QED
    BY <1>1, <1>3, <1>4, BudgetShrinks

LEMMA BudgetClaim ==
    ASSUME PathInv, PathInv', BudgetInv, NEW w \in Worker, Claim(w)
    PROVE  BudgetInv'
<1>0. Min(Claimable) \in Run /\ Min(Claimable) \in Claimable
    BY ClaimedRun DEF Claim
<1> SUFFICES ASSUME NEW r \in Run, r = Min(Claimable), NEW s \in Run PROVE Budget(s)'
    BY <1>0 DEF BudgetInv
<1> DEFINE row == [run[r] EXCEPT !.status = "running", !.owner = w, !.lease = "live"]
           job == [worker[w] EXCEPT !.pc = "claimed", !.run = r]
<1>1. TypeOK /\ r \in Claimable /\ run[r] \in RunRow /\ worker[w] \in Job
      /\ worker[w].pc = "idle" /\ CallLimit \in Nat /\ Budget(s)
    BY <1>0 DEF Claim, PathInv, TypeOK, RuntimeConstants, BudgetInv
<1>2. run' = [run EXCEPT ![r] = row] /\ worker' = [worker EXCEPT ![w] = job]
      /\ UNCHANGED <<done, spent, faults>>
    BY <1>1 DEF Claim, TypeOK
<1>3. row.status = "running" /\ row.owner = w /\ row.lease = "live"
      /\ row.used = run[r].used
    BY <1>1 DEF RunRow
<1>4. job.pc = "claimed" /\ job.run = r
    BY <1>1 DEF Job
<1> HIDE DEF row, job
<1>5. /\ run'[r] = row /\ worker'[w] = job
      /\ \A x \in Worker \ {w} : worker'[x] = worker[x]
      /\ \A x \in Run \ {r} : run'[x] = run[x]
    BY <1>1, <1>2 DEF TypeOK
<1>6. ASSUME NEW x \in Worker \ {w} PROVE Spare(x, s)' <= Spare(x, s)
  <2>1. run'[s].owner # x \/ run'[s].owner = run[s].owner
      BY <1>3, <1>5
  <2> QED
      BY <1>1, <1>2, <1>5, <2>1, OthersSpare
<1>7. Spare(w, s) = 0
    BY <1>1 DEF Spare, Due
<1>8. CASE s # r
  <2>1. Spare(w, s)' = 0
      BY <1>4, <1>5, <1>8 DEF Spare
  <2>2. \A x \in Worker : Spare(x, s)' <= Spare(x, s)
      BY <1>6, <1>7, <2>1
  <2>3. Opening(s)' <= Opening(s)
      BY <1>1, <1>4, <1>5, <1>8, OpeningKept DEF On
  <2> QED
      BY <1>1, <1>2, <1>5, <1>8, <2>2, <2>3, BudgetShrinks
<1>9. CASE s = r
  <2>1. Spare(w, r)' = CallLimit
      BY <1>3, <1>4, <1>5 DEF Spare, Due
  <2>2. Opening(r) = CallLimit
      BY <1>1 DEF Opening, Open, Attended, Claimable
  <2>3. Opening(r)' = 0
      BY <1>3, <1>4, <1>5 DEF Opening, Open, Attended, On, None
  <2>4. spent[r] \in Nat /\ run[r].used \in Nat /\ spent'[r] = spent[r]
        /\ run'[r].used = run[r].used
      BY <1>1, <1>2, <1>3, <1>5 DEF TypeOK, RunRow
  <2>5. spent'[r] + Spare(w, r)' + Opening(r)' + run[r].used
            <= spent[r] + Spare(w, r) + Opening(r) + run'[r].used
      BY <1>1, <1>7, <1>9, <2>1, <2>2, <2>3, <2>4
  <2> QED
      BY <1>1, <1>2, <1>6, <1>9, <2>4, <2>5, BudgetMoves
<1> QED
    BY <1>8, <1>9

LEMMA BudgetFinish ==
    ASSUME PathInv, PathInv', BudgetInv, NEW w \in Worker, Finish(w)
    PROVE  BudgetInv'
<1>0. worker[w].run \in Run /\ worker[w].pc = "finishing"
    BY JobFacts DEF Finish
<1> SUFFICES ASSUME NEW r \in Run, r = worker[w].run, NEW s \in Run PROVE Budget(s)'
    BY <1>0 DEF BudgetInv
<1> DEFINE row == Moved(run[r], worker[w].target)
<1>1. /\ TypeOK /\ CallLimit \in Nat /\ Budget(s) /\ run' = [run EXCEPT ![r] = row]
      /\ worker' = [worker EXCEPT ![w] = Idle] /\ UNCHANGED <<done, spent, faults>>
    BY DEF PathInv, RuntimeConstants, BudgetInv, Finish, GoIdle
<1>2. run[r] \in RunRow /\ worker[w].target \in {"paused", "completed", "failed"}
    BY <1>0, JobFacts DEF JobSound
<1>3. row.status = worker[w].target /\ row.owner = None /\ row.used = run[r].used
    BY <1>2, MovedRow DEF RunStatus, Terminal
<1> HIDE DEF row
<1>4. /\ run'[r] = row /\ worker'[w] = Idle
      /\ \A x \in Worker \ {w} : worker'[x] = worker[x]
      /\ \A x \in Run \ {r} : run'[x] = run[x]
    BY <1>1 DEF TypeOK
<1>5. ASSUME NEW x \in Worker \ {w} PROVE Spare(x, s)' <= Spare(x, s)
  <2>1. run'[s].owner # x \/ run'[s].owner = run[s].owner
      BY <1>3, <1>4 DEF None, RuntimeConstants
  <2> QED
      BY <1>1, <1>4, <2>1, OthersSpare
<1>6. Spare(w, s)' = 0
    BY <1>4 DEF Spare, Due, Idle
<1>7. CASE s # r
  <2>1. Spare(w, s) = 0
      BY <1>7 DEF Spare
  <2>2. \A x \in Worker : Spare(x, s)' <= Spare(x, s)
      BY <1>5, <1>6, <2>1
  <2>3. Opening(s)' <= Opening(s)
      BY <1>1, <1>4, <1>7, OpeningKept DEF On
  <2> QED
      BY <1>1, <1>4, <1>7, <2>2, <2>3, BudgetShrinks
<1>8. CASE s = r
  <2>1. Spare(w, r) = IF worker[w].target = "paused" THEN CallLimit ELSE 0
      BY <1>0 DEF Spare, Due
  <2>2. Opening(r)' = IF worker[w].target = "paused" THEN CallLimit ELSE 0
      BY <1>2, <1>3, <1>4 DEF Opening, Open, None
  <2>3. Opening(r) \in Nat
      BY <1>1 DEF Opening
  <2>4. spent[r] \in Nat /\ run[r].used \in Nat /\ spent'[r] = spent[r]
        /\ run'[r].used = run[r].used
      BY <1>1, <1>2, <1>3, <1>4 DEF TypeOK, RunRow
  <2>5. spent'[r] + Spare(w, r)' + Opening(r)' + run[r].used
            <= spent[r] + Spare(w, r) + Opening(r) + run'[r].used
      BY <1>1, <1>6, <1>8, <2>1, <2>2, <2>3, <2>4
  <2> QED
      BY <1>1, <1>5, <1>8, <2>4, <2>5, BudgetMoves
<1> QED
    BY <1>7, <1>8

\* What a checkpoint changes for the jobs of other workers: the owner may be overtaken.
LEMMA OvertakenSpare ==
    ASSUME TypeOK, NEW r \in Run, NEW x \in Worker, worker'[x] = worker[x]
    PROVE  /\ run'[r].owner # x => Spare(x, r)' <= Spare(x, r)
           /\ run'[r].owner = run[r].owner => Spare(x, r)' <= Spare(x, r) + CallLimit
<1> DEFINE j == worker[x]
<1>1. j \in Job /\ CallLimit \in Nat /\ j.out.requests \in Nat
    BY DEF TypeOK, Job, Outcome, RuntimeConstants
<1>2. /\ Spare(x, r)' = IF j.run = r THEN Due(j, run'[r].owner = x, j.done = done'[r]) ELSE 0
      /\ Spare(x, r) = IF j.run = r THEN Due(j, run[r].owner = x, j.done = done[r]) ELSE 0
    BY DEF Spare
<1> HIDE DEF j
<1>3. run'[r].owner # x =>
        Due(j, run'[r].owner = x, j.done = done'[r]) <= Due(j, run[r].owner = x, j.done = done[r])
    BY <1>1 DEF Due
<1>4. run'[r].owner = run[r].owner =>
        Due(j, run'[r].owner = x, j.done = done'[r])
            <= Due(j, run[r].owner = x, j.done = done[r]) + CallLimit
    BY <1>1 DEF Due
<1> QED
    BY <1>1, <1>2, <1>3, <1>4

LEMMA BudgetSaved ==
    ASSUME PathInv, PathInv', BudgetInv, NEW w \in Worker, Saved(w)
    PROVE  BudgetInv'
<1>0. worker[w].run \in Run
    BY JobFacts DEF Saved
<1> SUFFICES ASSUME NEW r \in Run, r = worker[w].run, NEW s \in Run PROVE Budget(s)'
    BY <1>0 DEF BudgetInv
<1> DEFINE j == worker[w]
           v == run[r].graph
           q == j.out.requests
           row == Flushed(j)
           k == AfterWrite(j)
<1>1. /\ TypeOK /\ j.pc = "writing" /\ Key(j) \notin done[r] /\ ~Refused(j)
      /\ run' = [run EXCEPT ![r] = row]
      /\ done' = [done EXCEPT ![r] = done[r] \union {Key(j)}]
      /\ worker' = [worker EXCEPT ![w] = k] /\ UNCHANGED <<spent, faults>>
    BY DEF PathInv, Saved
<1>2. /\ j \in Job /\ run[r] \in RunRow /\ v \in Versions /\ q \in Nat /\ CallLimit \in Nat
      /\ Budget(s) /\ spent[r] \in Nat /\ run[r].used \in Nat
    BY <1>1, JobFacts DEF Job, Outcome, RuntimeConstants, BudgetInv, TypeOK, RunRow
<1>3. PICK c \in Point : JobAt(v, c, j) /\ Same(c, last[r])
    BY <1>1, WriterIsAbreast
<1>4. j.done = done[r] /\ OutFits(j) /\ j.seen.used = run[r].used /\ q <= CallLimit
    BY <1>1, WriterIsAbreast DEF OutFits
<1>5. /\ KeyIteration(j) = j.iteration
      /\ k.run = r /\ k.done = done[r] \union {Key(j)} /\ k.pc \in {"node", "finish"}
      /\ j.out.wait # None => k.pc = "finish"
  <2>1. StepsTo(v, c, j, Written(j), k)
      BY <1>1, <1>2, <1>3, <1>4, WrittenFollows, Zenon
  <2> HIDE DEF k
  <2> QED
      BY <1>4, <2>1 DEF StepsTo
<1>6. /\ row.used = run[r].used + q
      /\ IF j.out.wait = None
         THEN row.status = run[r].status /\ row.owner = run[r].owner /\ row.lease = run[r].lease
         ELSE row.status = "paused" /\ row.owner = None /\ row.lease = None
    BY <1>2, <1>4, <1>5, FlushedRow
<1> HIDE DEF row, k
<1>7. /\ run'[r] = row /\ done'[r] = done[r] \union {Key(j)} /\ worker'[w] = k
      /\ \A x \in Worker \ {w} : worker'[x] = worker[x]
      /\ \A x \in Run \ {r} : run'[x] = run[x] /\ done'[x] = done[x]
    BY <1>1 DEF TypeOK
<1>8. ASSUME s # r PROVE Budget(s)'
  <2>1. Spare(w, s) = 0 /\ Spare(w, s)' = 0
      BY <1>5, <1>7, <1>8 DEF Spare
  <2>2. ASSUME NEW x \in Worker \ {w} PROVE Spare(x, s)' <= Spare(x, s)
      BY <1>1, <1>7, <1>8, OthersSpare
  <2>3. \A x \in Worker : Spare(x, s)' <= Spare(x, s)
      BY <2>1, <2>2
  <2>4. Opening(s)' <= Opening(s)
      BY <1>2, <1>5, <1>7, <1>8, OpeningKept DEF On
  <2> QED
      BY <1>1, <1>2, <1>7, <1>8, <2>3, <2>4, BudgetShrinks
<1>9. /\ spent'[r] = spent[r] /\ run'[r].used = run[r].used + q
      /\ run'[r].used \in Nat /\ Opening(r) \in Nat /\ Opening(r)' \in {0, CallLimit}
    BY <1>1, <1>2, <1>6, <1>7 DEF Opening
<1>10. /\ Spare(w, r) = CallLimit - q
       /\ Spare(w, r)' = IF run'[r].owner = w THEN
                            IF k.pc = "node" \/ k.target # "failed" THEN CallLimit ELSE 0
                         ELSE 0
  <2>1. Spare(w, r) = CallLimit - q
      BY <1>1, <1>2, <1>4 DEF Spare, Due
  <2>2. worker'[w].done = done'[r] /\ worker'[w].run = r
      BY <1>5, <1>7
  <2> QED
      BY <1>2, <1>5, <1>7, <2>1, <2>2 DEF Spare, Due
<1>11. ASSUME j.out.wait # None PROVE Budget(r)'
  <2>1. run'[r].owner = None
      BY <1>6, <1>7, <1>11
  <2>2. ASSUME NEW x \in Worker \ {w} PROVE Spare(x, r)' <= Spare(x, r)
      BY <1>1, <1>7, <2>1, OvertakenSpare DEF None, RuntimeConstants
  <2>3. Spare(w, r)' = 0
      BY <1>10, <2>1 DEF None, RuntimeConstants
  <2>4. spent'[r] + Spare(w, r)' + Opening(r)' + run[r].used
            <= spent[r] + Spare(w, r) + Opening(r) + run'[r].used
      BY <1>2, <1>4, <1>9, <1>10, <2>3
  <2>5. Budget(r) /\ faults' = faults /\ spent'[r] \in Nat
      BY <1>1, <1>2, <1>9 DEF BudgetInv
  <2> QED
      BY <1>9, <2>2, <2>4, <2>5, BudgetMoves
<1>12. ASSUME j.out.wait = None PROVE Opening(r)' <= Opening(r) /\ run'[r].owner = run[r].owner
  <2>1. /\ run'[r].status = run[r].status /\ run'[r].owner = run[r].owner
        /\ run'[r].lease = run[r].lease
      BY <1>6, <1>7, <1>12
  <2>2. \A x \in Worker : On(x, r) => On(x, r)'
      BY <1>5, <1>7 DEF On
  <2> QED
      BY <1>2, <2>1, <2>2, OpeningKept
<1>13. ASSUME j.out.wait = None, \A x \in Worker \ {w} : run[r].owner # x PROVE Budget(r)'
  <2>1. ASSUME NEW x \in Worker \ {w} PROVE Spare(x, r)' <= Spare(x, r)
      BY <1>1, <1>7, <1>12, <1>13, OvertakenSpare
  <2>2. Spare(w, r)' \in {0, CallLimit}
      BY <1>10
  <2>3. spent'[r] + Spare(w, r)' + Opening(r)' + run[r].used
            <= spent[r] + Spare(w, r) + Opening(r) + run'[r].used
      BY <1>2, <1>4, <1>9, <1>10, <1>12, <1>13, <2>2
  <2>4. Budget(r) /\ faults' = faults /\ spent'[r] \in Nat
      BY <1>1, <1>2, <1>9 DEF BudgetInv
  <2> QED
      BY <1>9, <2>1, <2>3, <2>4, BudgetMoves
<1>14. ASSUME j.out.wait = None, NEW x \in Worker \ {w}, run[r].owner = x PROVE Budget(r)'
  <2>1. Spare(w, r)' = 0
      BY <1>10, <1>12, <1>14
  <2>2. Spare(x, r)' <= Spare(x, r) + CallLimit
      BY <1>1, <1>7, <1>12, <1>14, OvertakenSpare
  <2>3. ASSUME NEW y \in Worker, y # w, y # x PROVE Spare(y, r)' <= Spare(y, r)
      BY <1>1, <1>7, <1>12, <1>14, <2>3, OvertakenSpare
  <2> DEFINE f == Spares(r)
             g == Spares(r)'
             h == [f EXCEPT ![w] = 0]
  <2>4. /\ f \in [Worker -> Share] /\ g \in [Worker -> Share]
        /\ \A y \in Worker : f[y] = Spare(y, r) /\ g[y] = Spare(y, r)'
      BY SharesMove
  <2>5. 0 \in Share /\ \A z \in Share : z \in Nat
      BY DEF Share, RuntimeConstants
  <2>6. h \in [Worker -> Share] /\ h[w] = 0 /\ \A y \in Worker \ {w} : h[y] = f[y]
      BY <2>4, <2>5
  <2> HIDE DEF f, g, h
  <2>7. Sum(f) \in Nat /\ Sum(h) \in Nat /\ Sum(h) + f[w] <= Sum(f) + h[w]
    <3>1. \A y \in Worker \ {w} : h[y] <= f[y]
        BY <2>4, <2>5, <2>6
    <3> QED
        BY <2>4, <2>6, <3>1, SumMoves
  <2>8. Sum(g) \in Nat /\ Sum(g) + h[x] <= Sum(h) + g[x]
    <3>1. \A y \in Worker \ {x} : g[y] <= h[y]
        BY <2>1, <2>3, <2>4, <2>6
    <3> QED
        BY <2>4, <2>6, <3>1, SumMoves
  <2>9. /\ f[w] = CallLimit - q /\ h[w] = 0 /\ h[x] \in Nat /\ g[x] \in Nat
        /\ g[x] <= h[x] + CallLimit
      BY <1>10, <1>14, <2>2, <2>4, <2>5, <2>6
  <2>10. Sum(g) <= Sum(f) + q
      BY <1>2, <2>7, <2>8, <2>9
  <2>11. spent[r] + Sum(f) + Opening(r) <= run[r].used + CallLimit * (faults + 1)
      BY DEF f, BudgetInv, Budget
  <2>12. CallLimit * (faults' + 1) = CallLimit * (faults + 1)
         /\ CallLimit * (faults + 1) \in Nat
      BY <1>1, BudgetTerms
  <2>13. spent'[r] + Sum(g) + Opening(r)' <= run'[r].used + CallLimit * (faults' + 1)
      BY <1>2, <1>9, <1>12, <1>14, <2>7, <2>8, <2>10, <2>11, <2>12
  <2> QED
      BY <2>13 DEF g, Budget
<1> QED
    BY <1>8, <1>11, <1>13, <1>14

LEMMA BudgetStep ==
    ASSUME PathInv, PathInv', BudgetInv, [RunNext]_vars
    PROVE  BudgetInv'
<1>1. CASE PublicApi \/ InternalApi
    BY <1>1, BudgetOutside DEF PublicApi, InternalApi
<1>2. CASE Decisions
    BY <1>2, BudgetDecisions DEF Decisions
<1>3. CASE Faults
    BY <1>3, BudgetCrash, BudgetExpiry DEF Faults
<1>4. ASSUME NEW w \in Worker, WorkerStep(w) PROVE BudgetInv'
  <2>1. CASE Claim(w) \/ Load(w) \/ ReadForFinish(w) \/ Finish(w)
      BY <2>1, BudgetClaim, BudgetLoad, BudgetReadForFinish, BudgetFinish
  <2>2. CASE NodeStep(w)
      BY <2>2, BudgetSkip, BudgetRenew, BudgetAnswer, BudgetAsk, BudgetHandlerFails
         DEF NodeStep
  <2>3. CASE ReadRun(w) \/ KnownCheckpoint(w)
      BY <2>3, BudgetRead, BudgetKnown
  <2>4. CASE WriteCheckpoint(w) \/ WriteAndAwaitDecision(w) \/ WriteAndAwaitObservation(w)
      BY <2>4, BudgetSaved DEF WriteCheckpoint, WriteAndAwaitDecision,
         WriteAndAwaitObservation
  <2>5. CASE WriteFails(w)
      BY <2>5, BudgetFail DEF WriteFails
  <2> QED
      BY <1>4, <2>1, <2>2, <2>3, <2>4, <2>5 DEF WorkerStep, CheckpointStep
<1>5. CASE UNCHANGED vars
  <2>1. UNCHANGED <<run, done, worker, spent, faults>>
      BY <1>5 DEF vars
  <2>2. ASSUME NEW r \in Run PROVE Budget(r)'
    <3>1. Budget(r) /\ TypeOK /\ CallLimit \in Nat
        BY DEF BudgetInv, PathInv, RuntimeConstants
    <3>2. \A x \in Worker : Spare(x, r)' <= Spare(x, r)
        BY <2>1, <3>1, OthersSpare
    <3>3. Opening(r)' <= Opening(r)
        BY <2>1, <3>1, OpeningKept DEF On
    <3> QED
        BY <2>1, <3>1, <3>2, <3>3, BudgetShrinks
  <2> QED
      BY <2>2 DEF BudgetInv
<1> QED
    BY <1>1, <1>2, <1>3, <1>4, <1>5 DEF RunNext

LEMMA BudgetImplies ==
    ASSUME PathInv, BudgetInv
    PROVE  RequestsAreBounded
<1> SUFFICES ASSUME NEW r \in Run
             PROVE  /\ run[r].used <= RequestLimit
                    /\ spent[r] <= run[r].used + CallLimit * (faults + 1)
    BY DEF RequestsAreBounded
<1>1. run[r].used <= RequestLimit
    BY PathImplies
<1>2. Sum(Spares(r)) \in Nat
  <2>1. Spares(r) \in [Worker -> Share]
      BY SpareBounds DEF Shared
  <2> QED
      BY <2>1, SumShrinks DEF Share, RuntimeConstants
<1>3. /\ spent[r] \in Nat /\ run[r].used \in Nat /\ Opening(r) \in Nat
      /\ CallLimit * (faults + 1) \in Nat
    BY BudgetTerms
<1>4. spent[r] + Sum(Spares(r)) + Opening(r) <= run[r].used + CallLimit * (faults + 1)
    BY DEF BudgetInv, Budget
<1> QED
    BY <1>1, <1>2, <1>3, <1>4

\* No run uses more model requests than it may, and what was spent without being recorded
\* is at most one call for each fault, and one for the execution under way.
THEOREM RequestsStayBounded == RunSpec => []RequestsAreBounded
<1>1. PathInv /\ PathInv' /\ BudgetInv /\ [RunNext]_vars => BudgetInv'
    BY BudgetStep
<1>2. PathInv /\ BudgetInv => RequestsAreBounded
    BY BudgetImplies
<1> QED
    BY BudgetInit, RunsStayOnPath, <1>1, <1>2, PTL DEF RunSpec

\* The checkpoints, the budget and the waits of every run agree, whoever works on it and
\* however often it is taken over.
THEOREM RunsAreConsistent == RunSpec => []RunIsConsistent
<1>1. PathInv => TypeOK /\ SequenceCountsCheckpoints
    BY PathImplies
<1>2. TypeOK /\ SequenceCountsCheckpoints /\ RequestsAreBounded
        /\ (PausedForAReason /\ WaitingRunRests) => RunIsConsistent
    BY DEF RunIsConsistent
<1> QED
    BY RunsStayOnPath, CalmRunsRest, RequestsStayBounded, <1>1, <1>2, PTL
=============================================================================
