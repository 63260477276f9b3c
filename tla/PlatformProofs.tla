---------------------------- MODULE PlatformProofs ----------------------------
(***************************************************************************)
(* Why the components around the incident work keep their promises, for    *)
(* every value of their constants.  They share no state, so each has its   *)
(* own inductive invariant, and its own part here.                         *)
(***************************************************************************)
EXTENDS RunnerTokens, Access, ControlPlane, WorkerHealth, AuditArchive, Connectors,
        DemoData, Backups, FaultLab, FiniteSetTheorems, SequenceTheorems, TLAPS

-----------------------------------------------------------------------------
(* Tokens of Runners.                                                       *)
(* That the token which a Runner holds is known is not inductive: it rests  *)
(* on the order of heartbeats, each of which is sent with the token that    *)
(* the file holds, which changes only when the newest one is answered.      *)

USE RunnerTokensConstants

\* Heartbeats are handled at most once; one that is handled in its turn was sent with
\* the token that the Runner still has, for the file changes when the newest is answered.
BeatsInTurn ==
    /\ row.current = NoToken => newest = 0 /\ file = NoToken
    /\ \A b \in Beat : b > newest => sent[b] = NoToken
    /\ \A b \in Beat : b <= newest /\ b > lastDone => sent[b] = file /\ file # NoToken
    /\ lastDone > 0 => sent[lastDone] = NoToken
    /\ \A b \in Beat : sent[b] # NoToken \/ b > newest => answered[b] = NoToken
    /\ awaited # NoBeat => awaited = newest
    /\ ~overtaken /\ lastDone > 0 => answered[lastDone] \in {NoToken, row.current}

TokenInv == TokenTypeOK /\ HeldTokenIsKnown /\ BeatsInTurn

LEMMA HandleStep ==
    ASSUME TokenInv, NEW b \in Beat, HandleHeartbeat(b)
    PROVE  TokenInv'
<1> USE DEF TokenInv, TokenTypeOK, HeldTokenIsKnown, BeatsInTurn, Token, Beat, NoToken,
            NoBeat
<1>1. /\ sent[b] # NoToken /\ sent' = [sent EXCEPT ![b] = NoToken]
      /\ lastDone' = IF b > lastDone THEN b ELSE lastDone
      /\ overtaken' = (overtaken \/ b < lastDone)
      /\ UNCHANGED <<file, newest, awaited>>
  BY DEF HandleHeartbeat
<1>2. /\ sent' \in [Beat -> Token \union {NoToken}] /\ sent'[b] = NoToken
      /\ \A a \in Beat \ {b} : sent'[a] = sent[a]
  BY <1>1
<1>3. b <= newest /\ b # lastDone /\ lastDone' \in 0..newest /\ overtaken' \in BOOLEAN
  BY <1>1
<1>4. b > lastDone => sent[b] = file
  BY <1>3
<1>5. /\ \A a \in Beat : a > newest' => sent'[a] = NoToken
      /\ \A a \in Beat : a <= newest' /\ a > lastDone' => sent'[a] = file' /\ file' # NoToken
      /\ lastDone' > 0 => sent'[lastDone'] = NoToken
  BY <1>1, <1>2, <1>3
<1>6. ~overtaken' => ~overtaken /\ b > lastDone /\ lastDone' = b
  <2>1. ~overtaken' => ~overtaken /\ ~(b < lastDone)
    BY <1>1, Zenon
  <2> QED
    BY <1>1, <1>3, <2>1
<1>7. CASE /\ issued < MaxTokens /\ row' = RotatedRow(sent[b]) /\ issued' = issued + 1
           /\ answered' = [answered EXCEPT ![b] = issued + 1]
  <2>1. /\ row' \in TokenRow /\ row'.current = issued + 1 /\ row'.previous = sent[b]
        /\ issued' \in 0..MaxTokens /\ row'.current # NoToken
    BY <1>7 DEF RotatedRow, TokenRow
  <2>2. /\ answered' \in [Beat -> Token \union {NoToken}]
        /\ answered'[b] = issued + 1
        /\ \A a \in Beat \ {b} : answered'[a] = answered[a]
    BY <1>7
  <2> QED
    BY <1>1, <1>2, <1>3, <1>4, <1>5, <1>6, <1>7, <2>1, <2>2
<1>8. CASE UNCHANGED <<row, issued, answered>>
  <2>1. answered[b] = NoToken
    BY <1>1
  <2> QED
    BY <1>1, <1>2, <1>3, <1>4, <1>5, <1>6, <1>8, <2>1
<1> QED
  BY <1>7, <1>8 DEF HandleHeartbeat

LEMMA TokenStep ==
    ASSUME TokenInv, [TokenNext]_tokenVars
    PROVE  TokenInv'
<1> USE DEF TokenInv, TokenTypeOK, HeldTokenIsKnown, BeatsInTurn, Token, Beat, NoToken,
            NoBeat
<1>1. CASE Register
  <2>1. row' \in TokenRow /\ row'.current = 1 /\ issued' = 1 /\ file' \in {0, 1}
    BY <1>1 DEF Register, TokenRow
  <2>2. newest = 0 /\ lastDone = 0 /\ awaited = 0
    BY <1>1 DEF Register
  <2> QED
    BY <1>1, <2>1, <2>2 DEF Register
<1>2. CASE SendHeartbeat
  <2>1. /\ sent' \in [Beat -> Token \union {NoToken}] /\ sent'[newest + 1] = file
        /\ \A a \in Beat \ {newest + 1} : sent'[a] = sent[a]
    BY <1>2 DEF SendHeartbeat
  <2>2. newest + 1 \in Beat /\ newest' = newest + 1 /\ awaited' = newest + 1
    BY <1>2 DEF SendHeartbeat
  <2> QED
    BY <1>2, <2>1, <2>2 DEF SendHeartbeat
<1>3. CASE ReceiveAnswer
  <2>1. awaited = newest /\ newest \in Beat /\ sent[newest] = NoToken
    BY <1>3 DEF ReceiveAnswer
  <2>2. lastDone = newest
    BY <2>1
  <2>3. /\ file' \in Token \union {NoToken}
        /\ ~overtaken /\ file' # NoToken => file' \in {row.current, row.previous}
    <3>1. file' = IF answered[newest] # NoToken THEN answered[newest] ELSE file
      BY <1>3, <2>1 DEF ReceiveAnswer
    <3> QED
      BY <2>1, <2>2, <3>1
  <2> QED
    BY <1>3, <2>2, <2>3 DEF ReceiveAnswer
<1>4. CASE RestartRunner
  BY <1>4 DEF RestartRunner
<1>5. CASE TokenAges
  <2>1. row' \in TokenRow /\ row'.current = row.current /\ row'.previous = row.previous
    BY <1>5 DEF TokenAges, TokenRow
  <2> QED
    BY <1>5, <2>1 DEF TokenAges
<1>6. CASE UNCHANGED tokenVars
  BY <1>6 DEF tokenVars
<1> QED
  BY <1>1, <1>2, <1>3, <1>4, <1>5, <1>6, HandleStep DEF TokenNext

LEMMA AcceptedBeat ==
    ASSUME TokenInv, NEW b \in Beat, HandleHeartbeat(b), TokenKind(sent[b]) # "refused"
    PROVE  row'.current \in {sent[b], answered'[b]}
<1>1. CASE /\ row' = RotatedRow(sent[b]) /\ answered' = [answered EXCEPT ![b] = issued + 1]
  BY <1>1 DEF TokenInv, TokenTypeOK, RotatedRow
<1>2. CASE ~RotationNeeded(TokenKind(sent[b])) /\ UNCHANGED row
  BY <1>2 DEF RotationNeeded, TokenKind
<1> QED
  BY <1>1, <1>2 DEF HandleHeartbeat

\* The token that a Runner holds is one that the row knows, and an accepted heartbeat
\* settles it, for any number of heartbeats that are lost, repeated or overtaken.
THEOREM RunnerStaysIn == TokenSpec => RunnerKeepsAccess
<1>1. TokenInit => TokenInv
  <2> SUFFICES ASSUME TokenInit PROVE TokenInv
    OBVIOUS
  <2>1. /\ row \in TokenRow /\ row.current = 0
        /\ issued = 0 /\ file = 0 /\ newest = 0 /\ awaited = 0 /\ lastDone = 0
        /\ overtaken \in BOOLEAN
    BY Zenon DEF TokenInit, TokenRow, NoToken, NoBeat
  <2>2. /\ sent \in [Beat -> Token \union {NoToken}]
        /\ answered \in [Beat -> Token \union {NoToken}]
        /\ \A b \in Beat : sent[b] = NoToken /\ answered[b] = NoToken
    BY DEF TokenInit
  <2> QED
    BY <2>1, <2>2
    DEF TokenInv, TokenTypeOK, HeldTokenIsKnown, BeatsInTurn, Token, Beat, NoToken, NoBeat
<1>2. TokenInv /\ [TokenNext]_tokenVars =>
        [\A b \in Beat :
            HandleHeartbeat(b) /\ TokenKind(sent[b]) # "refused"
            => row'.current \in {sent[b], answered'[b]}]_tokenVars
  BY AcceptedBeat
<1>3. TokenInv => TokenTypeOK /\ HeldTokenIsKnown
  BY DEF TokenInv
<1> QED
  BY <1>1, <1>2, <1>3, TokenStep, PTL DEF TokenSpec, RunnerKeepsAccess, AcceptedBeatSettles

HIDE RunnerTokensConstants

-----------------------------------------------------------------------------
(* Principals and browser sessions.                                         *)
(* A request reads, waits and commits, so the invariant says of every       *)
(* request in flight what is still true of what it has read, and marks the  *)
(* ones whose reading was overtaken: a revocation will find, when it        *)
(* commits, every session and every request of the principal, or they are   *)
(* marked.                                                                  *)

USE AccessConstants

Login(r) ==
    r \in [kind: {"login"}, who: Principal, epoch: 1..MaxEpoch, overlapped: BOOLEAN]

Refresh(r) ==
    r \in [kind: {"refresh"}, of: DOMAIN sessions, n: {r.n}, overlapped: BOOLEAN]

Locks(r) == r.kind \in {"rotate", "deactivate"} /\ r.who \in Principal

AccessTypeOK ==
    /\ now \in Nat /\ sessions \in Seq(SessionRow) /\ SessionsBounded
    /\ \A s \in DOMAIN sessions : sessions[s].login <= Len(sessions)
    /\ \A r \in flight : r.kind = "bootstrap" \/ Login(r) \/ Refresh(r) \/ Locks(r)

\* Whoever has a session or a request was created.
PrincipalsExist ==
    /\ \A p \in Principal : principals[p].state # "none" => principals[p].epoch >= 1
    /\ \A s \in DOMAIN sessions : principals[sessions[s].owner].state # "none"
    /\ \A r \in flight :
          /\ r.kind \in {"login", "rotate", "deactivate"} => principals[r.who].state # "none"
          /\ r.kind = "rotate" => principals[r.who].epoch < MaxEpoch

\* The row of a principal is locked once, and the row of the setup too.
LocksExclude ==
    \A q, r \in flight :
        q.kind \in {"rotate", "deactivate"} /\ r.kind \in {"rotate", "deactivate"} =>
            /\ q.who = r.who => q = r
            /\ q.kind = "deactivate" /\ r.kind = "deactivate" => q = r

\* What a revocation will not find, when it commits, is marked.
RevocationCovers ==
    \A q \in flight : q.kind \in {"rotate", "deactivate"} =>
        /\ \A r \in flight : Affected(q.who, r) => r.overlapped
        /\ \A s \in OpenSessions(q.who) : s \in q.seen \/ sessions[s].overlapped
        /\ \A s \in q.seen : s \in DOMAIN sessions /\ sessions[s].owner = q.who

\* A request that is not marked has read what is still so.
UnmarkedIsCurrent ==
    \A r \in flight :
        /\ r.kind = "login" /\ ~r.overlapped =>
              /\ principals[r.who].state = "active"
              /\ principals[r.who].epoch = r.epoch
        /\ r.kind = "refresh" /\ ~r.overlapped => sessions[r.of].open

\* The setup makes the first Admin, and a deactivation that waits for its commit
\* leaves another Admin.
AdminsAreLeft ==
    /\ \A p \in Principal : principals[p].bootstrapped =>
          setup /\ \A q \in Principal : principals[q].bootstrapped => q = p
    /\ \A r \in flight : r.kind = "deactivate" /\ r.live =>
          \E a \in Principal \ {r.who} : principals[a].state = "active" /\ principals[a].admin

AccessInv ==
    /\ AccessTypeOK /\ PrincipalsExist /\ LocksExclude /\ RevocationCovers
    /\ UnmarkedIsCurrent /\ AdminsAreLeft /\ SurvivorOverlapped /\ OneSessionPerLogin

Marked(r) == [r EXCEPT !.overlapped = TRUE]

\* Every request in flight was there, is marked now, or is the new one.
FlightGrows(new) ==
    \A r \in flight' :
        \/ r = new \/ r \in flight
        \/ \E q \in flight : q.kind \in {"login", "refresh"} /\ r = Marked(q)

LEMMA MarkedLogin ==
    ASSUME NEW r, Login(r)
    PROVE  /\ Login(Marked(r)) /\ Marked(r).overlapped /\ Marked(r).kind = "login"
           /\ r.kind = "login" /\ Marked(r).who = r.who /\ Marked(r).epoch = r.epoch
BY DEF Login, Marked

LEMMA MarkedRefresh ==
    ASSUME NEW r, Refresh(r)
    PROVE  /\ Refresh(Marked(r)) /\ Marked(r).overlapped /\ Marked(r).kind = "refresh"
           /\ r.kind = "refresh" /\ Marked(r).of = r.of
<1> DEFINE N == {r.n}
<1>1. r \in [kind: {"refresh"}, of: DOMAIN sessions, n: N, overlapped: BOOLEAN]
  BY DEF Refresh
<1> HIDE DEF N
<1>2. /\ Marked(r) \in [kind: {"refresh"}, of: DOMAIN sessions, n: N, overlapped: BOOLEAN]
      /\ Marked(r).overlapped /\ Marked(r).of = r.of /\ Marked(r).n = r.n
  BY <1>1 DEF Marked
<1> QED
  BY <1>1, <1>2 DEF Refresh, N

LEMMA KindIsShape ==
    ASSUME AccessTypeOK, NEW r \in flight
    PROVE  /\ r.kind = "login" <=> Login(r)
           /\ r.kind = "refresh" <=> Refresh(r)
           /\ r.kind \in {"rotate", "deactivate"} <=> Locks(r)
           /\ r.kind \in {"bootstrap", "login", "refresh", "rotate", "deactivate"}
<1>1. Login(r) => r.kind = "login"
  BY MarkedLogin
<1>2. Refresh(r) => r.kind = "refresh"
  BY MarkedRefresh
<1> QED
  BY <1>1, <1>2 DEF AccessTypeOK, Locks

\* What a request that starts has to bring along.
MayStart(new) ==
    /\ new.kind = "bootstrap" \/ Login(new) \/ Refresh(new) \/ Locks(new)
    /\ new.kind = "login" => /\ principals[new.who].state = "active"
                             /\ principals[new.who].epoch = new.epoch
    /\ new.kind = "refresh" => sessions[new.of].open
    /\ new.kind = "rotate" => principals[new.who].epoch < MaxEpoch
    /\ new.kind \in {"rotate", "deactivate"} =>
          /\ principals[new.who].state # "none" /\ new.seen = OpenSessions(new.who)
          /\ \A r \in flight' : Affected(new.who, r) => r.overlapped
          /\ \A q \in flight : q.kind \in {"rotate", "deactivate"} =>
                q.who # new.who /\ ~(q.kind = "deactivate" /\ new.kind = "deactivate")
    /\ \A q \in flight :
          q.kind \in {"rotate", "deactivate"} /\ Affected(q.who, new) => new.overlapped
    /\ new.kind = "deactivate" /\ new.live =>
          \E a \in Principal \ {new.who} :
              principals[a].state = "active" /\ principals[a].admin

LEMMA RequestStarts ==
    ASSUME AccessInv, NEW new, FlightGrows(new), MayStart(new),
           UNCHANGED <<now, setup, principals, sessions>>
    PROVE  AccessInv'
<1>0. ASSUME NEW r \in flight'
      PROVE  \/ r = new \/ r \in flight
             \/ \E q \in flight :
                   /\ r = Marked(q) /\ r.overlapped
                   /\ \/ /\ q.kind = "login" /\ Login(q) /\ r.kind = "login" /\ Login(r)
                         /\ r.who = q.who
                      \/ /\ q.kind = "refresh" /\ Refresh(q) /\ r.kind = "refresh"
                         /\ Refresh(r) /\ r.of = q.of
  BY <1>0, MarkedLogin, MarkedRefresh, KindIsShape DEF FlightGrows, AccessInv
<1>1. \A r \in flight' : r.kind \in {"rotate", "deactivate"} => r = new \/ r \in flight
  BY <1>0
<1>2. AccessTypeOK'
  <2>1. \A r \in flight' : r.kind = "bootstrap" \/ Login(r) \/ Refresh(r) \/ Locks(r)
    BY <1>0 DEF AccessInv, AccessTypeOK, MayStart
  <2> QED
    BY <2>1 DEF AccessInv, AccessTypeOK, SessionsBounded, Login, Refresh, Locks
<1>3. PrincipalsExist'
  BY <1>0 DEF AccessInv, PrincipalsExist, MayStart
<1>4. LocksExclude'
  BY <1>1 DEF AccessInv, LocksExclude, MayStart
<1>5. RevocationCovers'
  <2> SUFFICES ASSUME NEW q \in flight', q.kind \in {"rotate", "deactivate"}
               PROVE  /\ \A r \in flight' : Affected(q.who, r)' => r.overlapped
                      /\ \A s \in OpenSessions(q.who)' : s \in q.seen \/ sessions'[s].overlapped
                      /\ \A s \in q.seen : s \in DOMAIN sessions' /\ sessions'[s].owner = q.who
    BY DEF RevocationCovers
  <2>1. CASE q = new
    BY <2>1 DEF MayStart, Affected, OpenSessions
  <2>2. CASE q \in flight
    <3>1. ASSUME NEW r \in flight', Affected(q.who, r)' PROVE r.overlapped
      <4>1. CASE r = new
        BY <2>2, <3>1, <4>1 DEF MayStart, Affected
      <4>2. CASE r \in flight
        BY <2>2, <3>1, <4>2 DEF AccessInv, RevocationCovers, Affected
      <4> QED
        BY <1>0, <4>1, <4>2
    <3> QED
      BY <2>2, <3>1 DEF AccessInv, RevocationCovers, OpenSessions
  <2> QED
    BY <1>1, <2>1, <2>2
<1>6. UnmarkedIsCurrent'
  BY <1>0 DEF AccessInv, UnmarkedIsCurrent, MayStart
<1>7. AdminsAreLeft'
  BY <1>1 DEF AccessInv, AdminsAreLeft, MayStart
<1>8. SurvivorOverlapped' /\ OneSessionPerLogin'
  BY DEF AccessInv, SurvivorOverlapped, OneSessionPerLogin
<1> QED
  BY <1>2, <1>3, <1>4, <1>5, <1>6, <1>7, <1>8 DEF AccessInv

LEMMA PrincipalAppears ==
    ASSUME AccessInv, NEW p \in Principal, principals[p].state = "none",
           NEW admin \in BOOLEAN, NEW bootstrapped \in BOOLEAN,
           principals' = [principals EXCEPT ![p] = NewPrincipal(admin, bootstrapped)],
           flight' \subseteq flight, UNCHANGED <<now, sessions>>,
           \/ ~bootstrapped /\ setup' = setup
           \/ bootstrapped /\ ~setup /\ setup'= TRUE
    PROVE  AccessInv'
<1>0. /\ principals \in [Principal -> PrincipalRow] /\ setup \in BOOLEAN /\ now \in Nat
      /\ setup' \in BOOLEAN
  BY DEF AccessInv, AccessTypeOK, SessionsBounded
<1>1. /\ principals' \in [Principal -> PrincipalRow]
      /\ principals'[p].state = "active" /\ principals'[p].epoch = 1
      /\ principals'[p].bootstrapped = bootstrapped
      /\ \A q \in Principal \ {p} : principals'[q] = principals[q]
  BY <1>0 DEF NewPrincipal, PrincipalRow
<1>2. \A s \in DOMAIN sessions : sessions[s].owner \in Principal /\ sessions[s].owner # p
  BY DEF AccessInv, PrincipalsExist, AccessTypeOK, SessionsBounded, SessionRow
<1>3. \A r \in flight : r.kind \in {"login", "rotate", "deactivate"} =>
          r.who \in Principal /\ r.who # p
  BY KindIsShape DEF AccessInv, PrincipalsExist, Login, Locks
<1>4. AccessTypeOK'
  BY <1>0, <1>1 DEF AccessInv, AccessTypeOK, SessionsBounded, Login, Refresh, Locks
<1>5. PrincipalsExist'
  BY <1>1, <1>2, <1>3 DEF AccessInv, PrincipalsExist
<1>6. LocksExclude'
  BY DEF AccessInv, LocksExclude
<1>7. RevocationCovers'
  BY DEF AccessInv, RevocationCovers, Affected, OpenSessions
<1>8. UnmarkedIsCurrent'
  BY <1>1, <1>3 DEF AccessInv, UnmarkedIsCurrent
<1>9. AdminsAreLeft'
  <2>1. ASSUME NEW q \in Principal, principals'[q].bootstrapped
        PROVE  setup' /\ \A o \in Principal : principals'[o].bootstrapped => o = q
    BY <1>1, <2>1 DEF AccessInv, AdminsAreLeft
  <2>2. ASSUME NEW r \in flight', r.kind = "deactivate", r.live
        PROVE  \E a \in Principal \ {r.who} :
                  principals'[a].state = "active" /\ principals'[a].admin
    <3>1. PICK a \in Principal \ {r.who} :
              principals[a].state = "active" /\ principals[a].admin
      BY <2>2 DEF AccessInv, AdminsAreLeft
    <3> QED
      BY <1>1, <3>1
  <2> QED
    BY <2>1, <2>2 DEF AdminsAreLeft
<1>10. SurvivorOverlapped' /\ OneSessionPerLogin'
  BY <1>1, <1>2 DEF AccessInv, SurvivorOverlapped, OneSessionPerLogin
<1> QED
  BY <1>4, <1>5, <1>6, <1>7, <1>8, <1>9, <1>10 DEF AccessInv

\* Sessions stay what they are, but may be closed.
SessionsKept ==
    /\ sessions' \in Seq(SessionRow) /\ Len(sessions) <= Len(sessions')
    /\ \A s \in DOMAIN sessions :
          /\ sessions'[s].owner = sessions[s].owner /\ sessions'[s].epoch = sessions[s].epoch
          /\ sessions'[s].login = sessions[s].login /\ sessions'[s].born = sessions[s].born
          /\ sessions'[s].expires = sessions[s].expires
          /\ sessions'[s].absolute = sessions[s].absolute
          /\ (sessions'[s].overlapped <=> sessions[s].overlapped)
          /\ (sessions'[s].open => sessions[s].open)

LEMMA SessionFacts ==
    ASSUME AccessInv, SessionsKept
    PROVE  /\ Len(sessions) \in Nat /\ DOMAIN sessions = 1..Len(sessions)
           /\ Len(sessions') \in Nat /\ DOMAIN sessions' = 1..Len(sessions')
           /\ DOMAIN sessions \subseteq DOMAIN sessions'
           /\ \A s \in DOMAIN sessions : sessions[s] \in SessionRow
           /\ \A s \in DOMAIN sessions' : sessions'[s] \in SessionRow
<1>1. sessions \in Seq(SessionRow) /\ sessions' \in Seq(SessionRow)
  BY DEF AccessInv, AccessTypeOK, SessionsKept
<1> QED
  BY <1>1, LenProperties, ElementOfSeq DEF SessionsKept

LEMMA RevocationCommits ==
    ASSUME AccessInv, NEW r \in flight, CommitRotate(r) \/ CommitDeactivate(r),
           SessionsKept, Len(sessions') = Len(sessions),
           \A s \in DOMAIN sessions :
               sessions'[s].open <=> sessions[s].open /\ s \notin r.seen
    PROVE  AccessInv'
<1>0. /\ principals \in [Principal -> PrincipalRow] /\ setup \in BOOLEAN /\ now \in Nat
      /\ flight' = flight \ {r} /\ UNCHANGED <<now, setup>>
      /\ DOMAIN sessions' = DOMAIN sessions
  BY SessionFacts
  DEF AccessInv, AccessTypeOK, SessionsBounded, CommitRotate, CommitDeactivate
<1> DEFINE p == r.who
<1>1. /\ r.kind \in {"rotate", "deactivate"} /\ p \in Principal
      /\ principals[p] \in PrincipalRow /\ principals[p].state # "none"
  BY <1>0, KindIsShape
  DEF CommitRotate, CommitDeactivate, AccessInv, PrincipalsExist, Locks
<1>2. /\ principals' \in [Principal -> PrincipalRow]
      /\ \A q \in Principal \ {p} : principals'[q] = principals[q]
      /\ principals'[p].state # "none" /\ principals'[p].epoch >= 1
      /\ principals'[p].admin = principals[p].admin
      /\ principals'[p].bootstrapped = principals[p].bootstrapped
      /\ r.kind = "rotate" => principals'[p].state = principals[p].state
  <2>0. principals[p].epoch >= 1
    BY <1>1 DEF AccessInv, PrincipalsExist
  <2>1. CASE CommitRotate(r)
    <3> DEFINE new == [principals[p] EXCEPT !.epoch = @ + 1, !.expires = now + TokenTTL]
    <3>1. principals[p].epoch + 1 \in 0..MaxEpoch /\ now + TokenTTL \in Nat
      <4>1. r.kind = "rotate" /\ now \in Nat
        BY <2>1 DEF CommitRotate, AccessInv, AccessTypeOK
      <4>2. principals[p].epoch < MaxEpoch
        BY <1>0, <4>1 DEF AccessInv, PrincipalsExist
      <4>3. principals[p].epoch \in 0..MaxEpoch
        BY <1>1 DEF PrincipalRow
      <4> QED
        BY <4>1, <4>2, <4>3, AccessConstants
    <3>2. /\ new \in PrincipalRow /\ new.state = principals[p].state
          /\ new.epoch = principals[p].epoch + 1 /\ new.admin = principals[p].admin
      BY <1>1, <3>1 DEF PrincipalRow
    <3>3. new.bootstrapped = principals[p].bootstrapped
      BY <1>1, <3>1 DEF PrincipalRow
    <3>4. principals' = [principals EXCEPT ![p] = new]
      BY <2>1 DEF CommitRotate
    <3> HIDE DEF new
    <3> QED
      BY <1>0, <1>1, <2>0, <3>1, <3>2, <3>3, <3>4 DEF PrincipalRow
  <2>2. CASE CommitDeactivate(r)
    <3> DEFINE new == [principals[p] EXCEPT !.state = "inactive"]
    <3>2. /\ new \in PrincipalRow /\ new.state = "inactive"
          /\ new.epoch = principals[p].epoch /\ new.admin = principals[p].admin
      BY <1>1 DEF PrincipalRow
    <3>3. new.bootstrapped = principals[p].bootstrapped
      BY <1>1 DEF PrincipalRow
    <3>4. principals' = [principals EXCEPT ![p] = new] /\ r.kind = "deactivate"
      BY <2>2 DEF CommitDeactivate
    <3> HIDE DEF new
    <3> QED
      BY <1>0, <1>1, <2>0, <3>2, <3>3, <3>4
  <2> QED
    BY <2>1, <2>2
<1>3. AccessTypeOK'
  BY <1>0, <1>2, SessionFacts
  DEF AccessInv, AccessTypeOK, SessionsBounded, SessionsKept, Login, Refresh, Locks
<1>4. PrincipalsExist'
  <2>1. \A q \in Principal : principals[q].state # "none" => principals'[q].state # "none"
    BY <1>2
  <2>2. \A q \in flight' : q.kind \in {"login", "rotate", "deactivate"} => q.who \in Principal
    BY <1>0, KindIsShape DEF AccessInv, Login, Locks
  <2>3. \A q \in flight' : q.kind \in {"rotate", "deactivate"} => q.who # p
    BY <1>0, <1>1 DEF AccessInv, LocksExclude
  <2>4. \A s \in DOMAIN sessions' : sessions'[s].owner \in Principal
    BY SessionFacts DEF SessionRow
  <2> QED
    BY <1>0, <1>2, <2>1, <2>2, <2>3, <2>4 DEF AccessInv, PrincipalsExist, SessionsKept
<1>5. LocksExclude'
  BY <1>0 DEF AccessInv, LocksExclude
<1>6. RevocationCovers'
  <2>1. \A q \in flight' : q.kind = "refresh" => q.of \in DOMAIN sessions
    BY <1>0, KindIsShape DEF AccessInv, Refresh
  <2>2. \A q, a \in flight' : q.kind \in {"rotate", "deactivate"} /\ Affected(q.who, a)'
            => Affected(q.who, a)
    BY <2>1 DEF Affected, SessionsKept
  <2>3. \A q : OpenSessions(q)' \subseteq OpenSessions(q)
    BY <1>0 DEF OpenSessions, SessionsKept
  <2> QED
    BY <1>0, <2>2, <2>3 DEF AccessInv, RevocationCovers, SessionsKept, OpenSessions
<1>7. UnmarkedIsCurrent'
  <2> SUFFICES ASSUME NEW q \in flight', ~q.overlapped
               PROVE  /\ q.kind = "login" => /\ principals'[q.who].state = "active"
                                             /\ principals'[q.who].epoch = q.epoch
                      /\ q.kind = "refresh" => sessions'[q.of].open
    BY DEF UnmarkedIsCurrent
  <2>1. ~Affected(p, q) /\ q \in flight
    BY <1>0, <1>1 DEF AccessInv, RevocationCovers
  <2>2. CASE q.kind = "login"
    <3>1. q.who \in Principal \ {p}
      BY <2>1, <2>2, KindIsShape DEF AccessInv, Login, Affected
    <3> QED
      BY <1>2, <2>1, <2>2, <3>1 DEF AccessInv, UnmarkedIsCurrent
  <2>3. CASE q.kind = "refresh"
    <3>1. /\ q.of \in DOMAIN sessions /\ sessions[q.of].owner # p /\ sessions[q.of].open
      BY <2>1, <2>3, KindIsShape DEF AccessInv, Refresh, Affected, UnmarkedIsCurrent
    <3>2. q.of \notin r.seen
      BY <1>1, <3>1 DEF AccessInv, RevocationCovers
    <3> QED
      BY <2>3, <3>1, <3>2
  <2> QED
    BY <2>2, <2>3
<1>8. AdminsAreLeft'
  <2>1. \A q \in flight' : q.kind = "deactivate" => r.kind = "rotate" /\ q \in flight
    BY <1>0, <1>1 DEF AccessInv, LocksExclude
  <2>2. \A q \in Principal : principals'[q].bootstrapped = principals[q].bootstrapped
    BY <1>2
  <2> QED
    BY <1>0, <1>2, <2>1, <2>2 DEF AccessInv, AdminsAreLeft
<1>9. SurvivorOverlapped'
  <2> SUFFICES ASSUME NEW s \in DOMAIN sessions', sessions'[s].open,
                      \/ principals'[sessions'[s].owner].state = "inactive"
                      \/ principals'[sessions'[s].owner].epoch # sessions'[s].epoch
               PROVE  sessions'[s].overlapped
    BY DEF SurvivorOverlapped
  <2>1. sessions[s].open /\ sessions[s].owner \in Principal /\ s \notin r.seen
    BY <1>0, SessionFacts DEF SessionsKept, SessionRow
  <2>2. CASE sessions[s].owner = p
    BY <1>0, <1>1, <2>1, <2>2
    DEF AccessInv, RevocationCovers, OpenSessions, SessionsKept
  <2>3. CASE sessions[s].owner # p
    BY <1>0, <1>2, <2>1, <2>3 DEF AccessInv, SurvivorOverlapped, SessionsKept
  <2> QED
    BY <2>2, <2>3
<1>10. OneSessionPerLogin'
  BY <1>0 DEF AccessInv, OneSessionPerLogin, SessionsKept
<1> QED
  BY <1>3, <1>4, <1>5, <1>6, <1>7, <1>8, <1>9, <1>10 DEF AccessInv

\* A new session and the session that it continues.
MayBegin(new) ==
    /\ new.expires <= new.absolute /\ new.absolute <= new.born + AbsoluteTTL
    /\ new.login <= Len(sessions) + 1
    /\ principals[new.owner].state # "none"
    /\ ~new.overlapped => /\ principals[new.owner].state # "inactive"
                          /\ principals[new.owner].epoch = new.epoch
                          /\ \A s \in DOMAIN sessions :
                                sessions'[s].open /\ ~sessions[s].overlapped
                                => sessions[s].login # new.login
    /\ \A q \in flight : q.kind \in {"rotate", "deactivate"} /\ q.who = new.owner
                          => new.overlapped

LEMMA SessionsGoOn ==
    ASSUME AccessInv, NEW new, SessionsKept, UNCHANGED <<now, setup, principals>>,
           FlightGrows([kind |-> "none"]), [kind |-> "none"] \notin flight',
           \A r \in flight' : r.kind = "refresh" /\ ~r.overlapped => sessions'[r.of].open,
           \/ Len(sessions') = Len(sessions)
           \/ /\ Len(sessions') = Len(sessions) + 1
              /\ sessions'[Len(sessions) + 1] = new /\ MayBegin(new)
    PROVE  AccessInv'
<1> DEFINE n == Len(sessions) + 1
<1>0. /\ Len(sessions) \in Nat /\ DOMAIN sessions = 1..Len(sessions)
      /\ DOMAIN sessions \subseteq DOMAIN sessions'
      /\ \A s \in DOMAIN sessions : sessions[s] \in SessionRow
      /\ \A s \in DOMAIN sessions' :
            /\ sessions'[s] \in SessionRow
            /\ \/ s \in DOMAIN sessions
               \/ s = n /\ sessions'[s] = new /\ MayBegin(new)
  <2>1. /\ Len(sessions) \in Nat /\ DOMAIN sessions = 1..Len(sessions)
        /\ DOMAIN sessions \subseteq DOMAIN sessions' /\ DOMAIN sessions' = 1..Len(sessions')
        /\ \A s \in DOMAIN sessions : sessions[s] \in SessionRow
        /\ \A s \in DOMAIN sessions' : sessions'[s] \in SessionRow
    BY SessionFacts
  <2>2. CASE Len(sessions') = Len(sessions)
    BY <2>1, <2>2
  <2>3. CASE Len(sessions') = n /\ sessions'[n] = new /\ MayBegin(new)
    <3>1. \A s \in DOMAIN sessions' : s \in DOMAIN sessions \/ s = n
      BY <2>1, <2>3
    <3> QED
      BY <2>1, <2>3, <3>1
  <2> QED
    BY <2>2, <2>3
<1>1. ASSUME NEW r \in flight'
      PROVE  \/ r \in flight
             \/ \E q \in flight :
                   /\ r = Marked(q) /\ r.overlapped
                   /\ \/ /\ q.kind = "login" /\ Login(q) /\ r.kind = "login" /\ Login(r)
                         /\ r.who = q.who
                      \/ /\ q.kind = "refresh" /\ Refresh(q) /\ r.kind = "refresh"
                         /\ Refresh(r) /\ r.of = q.of
  BY <1>1, MarkedLogin, MarkedRefresh, KindIsShape DEF FlightGrows, AccessInv
<1>2. \A r \in flight' : r.kind \in {"rotate", "deactivate"} => r \in flight
  BY <1>1
<1>3. \A r \in flight' : r.kind = "refresh" => r.of \in DOMAIN sessions
  BY <1>1, KindIsShape DEF AccessInv, Refresh
<1>4. AccessTypeOK'
  <2>1. ASSUME NEW r \in flight'
        PROVE  (r.kind = "bootstrap" \/ Login(r) \/ Refresh(r) \/ Locks(r))'
    <3>1. r.kind = "bootstrap" \/ Login(r) \/ Refresh(r) \/ Locks(r)
      BY <1>1, <2>1 DEF AccessInv, AccessTypeOK
    <3>2. Refresh(r) => Refresh(r)'
      BY <1>0 DEF Refresh
    <3> QED
      BY <3>1, <3>2 DEF Login, Locks
  <2>2. SessionsBounded' /\ \A s \in DOMAIN sessions' : sessions'[s].login <= Len(sessions')
    <3>1. ASSUME NEW s \in DOMAIN sessions
          PROVE  /\ sessions'[s].expires <= sessions'[s].absolute
                 /\ sessions'[s].absolute <= sessions'[s].born + AbsoluteTTL
                 /\ sessions'[s].login <= Len(sessions)
      BY <3>1 DEF AccessInv, AccessTypeOK, SessionsBounded, SessionsKept
    <3>2. ASSUME NEW s \in DOMAIN sessions', s = n, sessions'[s] = new, MayBegin(new)
          PROVE  /\ sessions'[s].expires <= sessions'[s].absolute
                 /\ sessions'[s].absolute <= sessions'[s].born + AbsoluteTTL
                 /\ sessions'[s].login <= Len(sessions')
      <4>1. /\ DOMAIN sessions' = 1..Len(sessions') /\ Len(sessions') \in Nat
            /\ Len(sessions) \in Nat
        BY SessionFacts
      <4>2. new \in SessionRow
        BY <1>0, <3>2
      <4>3. new.login \in Nat
        BY <4>2 DEF SessionRow
      <4>4. n \in 1..Len(sessions')
        BY <3>2, <4>1, Zenon
      <4>5. new.expires <= new.absolute /\ new.absolute <= new.born + AbsoluteTTL
        BY <3>2 DEF MayBegin
      <4>7. new.login <= n
        BY <3>2 DEF MayBegin
      <4>6. new.login <= Len(sessions')
        <5> DEFINE most == Len(sessions')  login == new.login
        <5>1. n \in 1..most /\ most \in Nat /\ login \in Nat /\ login <= n
          BY <4>1, <4>3, <4>4, <4>7, Zenon
        <5> HIDE DEF n, most, login
        <5>2. login <= most
          BY <5>1
        <5> QED
          BY <5>2 DEF most, login
      <4> QED
        BY <3>2, <4>5, <4>6, Zenon
    <3>3. ASSUME NEW s \in DOMAIN sessions' PROVE sessions'[s].login <= Len(sessions')
      <4>1. /\ sessions'[s].login \in Nat /\ Len(sessions) <= Len(sessions')
            /\ Len(sessions) \in Nat /\ Len(sessions') \in Nat
        BY <1>0, SessionFacts DEF SessionsKept, SessionRow
      <4> QED
        BY <1>0, <3>1, <3>2, <4>1
    <3> QED
      BY <1>0, <3>1, <3>2, <3>3 DEF AccessInv, AccessTypeOK, SessionsBounded
  <2> QED
    BY <2>1, <2>2 DEF AccessInv, AccessTypeOK, SessionsKept
<1>5. PrincipalsExist'
  BY <1>0, <1>1 DEF AccessInv, PrincipalsExist, SessionsKept, MayBegin
<1>6. LocksExclude'
  BY <1>2 DEF AccessInv, LocksExclude
<1>7. RevocationCovers'
  <2> SUFFICES ASSUME NEW q \in flight', q.kind \in {"rotate", "deactivate"}
               PROVE  /\ \A r \in flight' : Affected(q.who, r)' => r.overlapped
                      /\ \A s \in OpenSessions(q.who)' : s \in q.seen \/ sessions'[s].overlapped
                      /\ \A s \in q.seen : s \in DOMAIN sessions' /\ sessions'[s].owner = q.who
    BY DEF RevocationCovers
  <2>0. q \in flight
    BY <1>2
  <2>1. ASSUME NEW r \in flight', Affected(q.who, r)' PROVE r.overlapped
    <3>1. Affected(q.who, r)
      BY <1>3, <2>1 DEF Affected, SessionsKept
    <3> QED
      BY <1>1, <2>0, <3>1 DEF AccessInv, RevocationCovers
  <2>2. ASSUME NEW s \in OpenSessions(q.who)' PROVE s \in q.seen \/ sessions'[s].overlapped
    <3>1. CASE s \in DOMAIN sessions
      BY <2>0, <2>2, <3>1 DEF AccessInv, RevocationCovers, OpenSessions, SessionsKept
    <3>2. CASE s = n /\ sessions'[s] = new /\ MayBegin(new)
      BY <2>0, <2>2, <3>2 DEF OpenSessions, MayBegin
    <3> QED
      BY <1>0, <2>2, <3>1, <3>2 DEF OpenSessions
  <2> QED
    BY <1>0, <2>0, <2>1, <2>2 DEF AccessInv, RevocationCovers, SessionsKept
<1>8. UnmarkedIsCurrent'
  BY <1>1 DEF AccessInv, UnmarkedIsCurrent
<1>9. AdminsAreLeft'
  BY <1>2 DEF AccessInv, AdminsAreLeft
<1>10. SurvivorOverlapped'
  BY <1>0 DEF AccessInv, SurvivorOverlapped, SessionsKept, MayBegin
<1>11. OneSessionPerLogin'
  BY <1>0 DEF AccessInv, OneSessionPerLogin, SessionsKept, MayBegin
<1> QED
  BY <1>4, <1>5, <1>6, <1>7, <1>8, <1>9, <1>10, <1>11 DEF AccessInv

Closed(it) == [it EXCEPT !.open = FALSE]

LEMMA ClosedRow ==
    ASSUME NEW it \in SessionRow
    PROVE  /\ Closed(it) \in SessionRow /\ Closed(it).owner = it.owner
           /\ Closed(it).epoch = it.epoch /\ Closed(it).login = it.login
           /\ Closed(it).born = it.born /\ Closed(it).expires = it.expires
           /\ Closed(it).absolute = it.absolute /\ ~Closed(it).open
           /\ Closed(it).overlapped = it.overlapped
<1>1. Closed(it).overlapped = it.overlapped
  BY DEF SessionRow, Closed
<1>2. /\ Closed(it) \in SessionRow /\ Closed(it).owner = it.owner
      /\ Closed(it).epoch = it.epoch /\ Closed(it).login = it.login
      /\ Closed(it).born = it.born /\ Closed(it).expires = it.expires
      /\ Closed(it).absolute = it.absolute /\ ~Closed(it).open
  BY DEF SessionRow, Closed
<1> QED
  BY <1>1, <1>2

LEMMA OneSessionCloses ==
    ASSUME AccessInv, NEW s \in DOMAIN sessions
    PROVE  LET closed == [sessions EXCEPT ![s].open = FALSE]
           IN  /\ closed \in Seq(SessionRow) /\ Len(closed) = Len(sessions)
               /\ \A t \in DOMAIN sessions \ {s} : closed[t] = sessions[t]
               /\ closed[s] = Closed(sessions[s])
<1>1. sessions \in Seq(SessionRow) /\ sessions[s] \in SessionRow
  BY DEF AccessInv, AccessTypeOK, SessionsBounded
<1> DEFINE new == Closed(sessions[s])
<1>2. new \in SessionRow
  BY <1>1, ClosedRow
<1>3. [sessions EXCEPT ![s].open = FALSE] = [sessions EXCEPT ![s] = new]
  BY DEF Closed
<1> HIDE DEF new
<1>4. /\ [sessions EXCEPT ![s] = new] \in Seq(SessionRow)
      /\ Len([sessions EXCEPT ![s] = new]) = Len(sessions)
      /\ DOMAIN sessions = 1..Len(sessions)
  BY <1>1, <1>2, ExceptSeq, LenProperties
<1>5. /\ \A t \in DOMAIN sessions \ {s} : [sessions EXCEPT ![s] = new][t] = sessions[t]
      /\ [sessions EXCEPT ![s] = new][s] = new
  BY <1>1, <1>4
<1> QED
  BY <1>3, <1>4, <1>5 DEF new

LEMMA SmallerIsLess ==
    ASSUME NEW a \in Nat, NEW b \in Nat
    PROVE  Smaller(a, b) \in Nat /\ Smaller(a, b) <= b
BY DEF Smaller

LEMMA LogoutStep ==
    ASSUME AccessInv, NEW s \in DOMAIN sessions, Logout(s)
    PROVE  AccessInv'
<1>1. sessions[s] \in SessionRow
  BY DEF AccessInv, AccessTypeOK, SessionsBounded
<1>2. SessionsKept /\ Len(sessions') = Len(sessions) /\ ~sessions'[s].open
      /\ \A t \in DOMAIN sessions \ {s} : sessions'[t] = sessions[t]
  <2>1. /\ sessions' \in Seq(SessionRow) /\ Len(sessions') = Len(sessions)
        /\ \A t \in DOMAIN sessions \ {s} : sessions'[t] = sessions[t]
        /\ sessions'[s] = Closed(sessions[s])
    BY OneSessionCloses DEF Logout
  <2>2. Len(sessions) \in Nat
    BY LenProperties DEF AccessInv, AccessTypeOK
  <2> QED
    BY <1>1, <2>1, <2>2, ClosedRow DEF SessionsKept
<1>3. ASSUME NEW r \in flight'
      PROVE  \/ r \in flight /\ ~RefreshesOf(s, r)
             \/ \E q \in flight : q.kind = "refresh" /\ Refresh(q) /\ r = Marked(q)
  BY <1>3, KindIsShape DEF Logout, RefreshesOf, Marked, AccessInv
<1>4. FlightGrows([kind |-> "none"])
  BY <1>3 DEF FlightGrows
<1>5. [kind |-> "none"] \notin flight'
  BY <1>3, KindIsShape, MarkedRefresh DEF AccessInv
<1>6. \A r \in flight' : r.kind = "refresh" /\ ~r.overlapped => sessions'[r.of].open
  BY <1>2, <1>3, MarkedRefresh, KindIsShape
  DEF AccessInv, UnmarkedIsCurrent, RefreshesOf, Refresh
<1> QED
  BY <1>2, <1>4, <1>5, <1>6, SessionsGoOn DEF Logout

LEMMA RequestLeaves ==
    ASSUME AccessInv, flight' \subseteq flight,
           UNCHANGED <<now, setup, principals, sessions>>
    PROVE  AccessInv'
<1>1. SessionsKept
  BY LenProperties DEF SessionsKept, AccessInv, AccessTypeOK
<1>2. FlightGrows([kind |-> "none"])
  BY DEF FlightGrows
<1>3. \A r \in flight : r.kind # "none"
  BY KindIsShape DEF AccessInv
<1>4. [kind |-> "none"] \notin flight'
  BY <1>3
<1>5. \A r \in flight' : r.kind = "refresh" /\ ~r.overlapped => sessions'[r.of].open
  BY DEF AccessInv, UnmarkedIsCurrent
<1> QED
  BY <1>1, <1>2, <1>4, <1>5, SessionsGoOn

LEMMA BootstrapStep ==
    ASSUME AccessInv,
           StartBootstrap \/ \E r \in flight : FinishBootstrap(r)
    PROVE  AccessInv'
<1>1. CASE StartBootstrap
  <2> DEFINE new == [kind |-> "bootstrap", n |-> Cardinality(flight)]
  <2>1. /\ flight' = flight \union {new}
        /\ UNCHANGED <<now, setup, principals, sessions>>
    BY <1>1 DEF StartBootstrap
  <2>2. FlightGrows(new)
    BY <2>1 DEF FlightGrows
  <2>3. MayStart(new)
    BY DEF MayStart, Affected
  <2> QED
    BY <2>1, <2>2, <2>3, RequestStarts
<1>2. ASSUME NEW r \in flight, FinishBootstrap(r) PROVE AccessInv'
  <2>1. flight' \subseteq flight /\ UNCHANGED <<now, sessions>>
    BY <1>2 DEF FinishBootstrap
  <2>2. ASSUME NEW p \in Principal, BootstrapOpen, principals[p].state = "none",
               principals' = [principals EXCEPT ![p] = NewPrincipal(TRUE, TRUE)],
               setup' = TRUE
        PROVE  AccessInv'
    BY <2>1, <2>2, PrincipalAppears DEF BootstrapOpen
  <2>3. CASE UNCHANGED <<setup, principals>>
    BY <2>1, <2>3, RequestLeaves
  <2> QED
    BY <1>2, <2>2, <2>3 DEF FinishBootstrap
<1> QED
  BY <1>1, <1>2

LEMMA CreateStep ==
    ASSUME AccessInv, NEW p \in Principal, NEW admin \in BOOLEAN, CreatePrincipal(p, admin)
    PROVE  AccessInv'
BY PrincipalAppears DEF CreatePrincipal

\* A rotation or a deactivation marks what it cannot revoke.
LEMMA LockIsTaken ==
    ASSUME AccessInv, NEW p, NEW new, flight' = MarkOverlapped(p) \union {new},
           new.kind \in {"rotate", "deactivate"}
    PROVE  /\ FlightGrows(new)
           /\ \A r \in flight' : Affected(p, r) => r.overlapped
<1>1. ASSUME NEW r \in MarkOverlapped(p)
      PROVE  \/ r \in flight /\ ~Affected(p, r)
             \/ \E q \in flight : Affected(p, q) /\ r = Marked(q)
  BY <1>1 DEF MarkOverlapped, Marked
<1>2. \A q : Affected(p, q) => q.kind \in {"login", "refresh"}
  BY DEF Affected
<1>3. \A q \in flight : Affected(p, q) => Marked(q).overlapped
  BY <1>2, KindIsShape, MarkedLogin, MarkedRefresh DEF AccessInv
<1>4. ~Affected(p, new)
  BY <1>2
<1> QED
  BY <1>1, <1>2, <1>3, <1>4 DEF FlightGrows

LEMMA LockStep ==
    ASSUME AccessInv, NEW p \in Principal, StartRotate(p) \/ StartDeactivate(p)
    PROVE  AccessInv'
<1>1. CASE StartRotate(p)
  <2> DEFINE new == [kind |-> "rotate", who |-> p, seen |-> OpenSessions(p),
                     live |-> TRUE]
  <2>1. /\ flight' = MarkOverlapped(p) \union {new} /\ ~PrincipalLocked(p)
        /\ principals[p].state = "active" /\ principals[p].epoch < MaxEpoch
        /\ UNCHANGED <<now, setup, principals, sessions>>
    BY <1>1 DEF StartRotate, RevokedByRotation
  <2>2. FlightGrows(new) /\ \A r \in flight' : Affected(p, r) => r.overlapped
    BY <2>1, LockIsTaken
  <2>3. MayStart(new)
    BY <2>1, <2>2 DEF MayStart, Locks, Affected, PrincipalLocked
  <2> QED
    BY <2>1, <2>2, <2>3, RequestStarts
<1>2. CASE StartDeactivate(p)
  <2> DEFINE new == [kind |-> "deactivate", who |-> p, seen |-> OpenSessions(p),
                     live |-> LiveAdmin(p)]
  <2>1. /\ flight' = MarkOverlapped(p) \union {new} /\ ~PrincipalLocked(p)
        /\ ~SetupLocked /\ principals[p].state # "none"
        /\ UNCHANGED <<now, setup, principals, sessions>>
    BY <1>2 DEF StartDeactivate, DeactivationLock
  <2>2. FlightGrows(new) /\ \A r \in flight' : Affected(p, r) => r.overlapped
    BY <2>1, LockIsTaken
  <2>3. new.live => \E a \in Principal \ {p} :
                        principals[a].state = "active" /\ principals[a].admin
    BY <1>2, Zenon DEF StartDeactivate, LiveAdmin, TokenIsLive
  <2>4. MayStart(new)
    <3>1. /\ new.kind = "deactivate" /\ new.who = p /\ new.seen = OpenSessions(p)
          /\ Locks(new)
      BY DEF Locks
    <3>2. \A q \in flight : q.kind \in {"rotate", "deactivate"} =>
              q.who # p /\ q.kind # "deactivate"
      BY <2>1 DEF PrincipalLocked, SetupLocked
    <3>3. \A q : ~Affected(q, new)
      BY <3>1 DEF Affected
    <3> HIDE DEF new
    <3> QED
      BY <2>1, <2>2, <2>3, <3>1, <3>2, <3>3 DEF MayStart
  <2> QED
    BY <2>1, <2>2, <2>4, RequestStarts
<1> QED
  BY <1>1, <1>2

LEMMA ReadStep ==
    ASSUME AccessInv,
           \/ \E p \in Principal : StartLogin(p)
           \/ \E s \in DOMAIN sessions : StartRefresh(s)
    PROVE  AccessInv'
<1>1. ASSUME NEW p \in Principal, StartLogin(p) PROVE AccessInv'
  <2> DEFINE new == [kind |-> "login", who |-> p, epoch |-> principals[p].epoch,
                     overlapped |-> PrincipalLocked(p)]
  <2>1. /\ flight' = flight \union {new} /\ principals[p].state = "active"
        /\ UNCHANGED <<now, setup, principals, sessions>>
    BY <1>1 DEF StartLogin, TokenIsLive
  <2>2. FlightGrows(new)
    BY <2>1 DEF FlightGrows
  <2>3. principals[p].epoch \in 1..MaxEpoch
    BY <2>1 DEF AccessInv, PrincipalsExist, AccessTypeOK, SessionsBounded, PrincipalRow
  <2>4. PrincipalLocked(p) \in BOOLEAN
    BY DEF PrincipalLocked
  <2>5. Login(new) /\ new.kind = "login" /\ new.who = p /\ new.epoch = principals[p].epoch
    BY <2>3, <2>4 DEF Login
  <2>6. \A q \in flight :
            q.kind \in {"rotate", "deactivate"} /\ Affected(q.who, new) => new.overlapped
    BY Zenon DEF Affected, PrincipalLocked
  <2> HIDE DEF new
  <2>7. MayStart(new)
    BY <2>1, <2>5, <2>6 DEF MayStart
  <2> QED
    BY <2>1, <2>2, <2>7, RequestStarts
<1>2. ASSUME NEW s \in DOMAIN sessions, StartRefresh(s) PROVE AccessInv'
  <2> DEFINE p == sessions[s].owner
             others == {r \in flight : RefreshesOf(s, r)}
             new == [kind |-> "refresh", of |-> s, n |-> Cardinality(others),
                     overlapped |-> PrincipalLocked(p)]
  <2>1. /\ flight' = flight \union {new} /\ sessions[s].open
        /\ UNCHANGED <<now, setup, principals, sessions>>
    BY <1>2 DEF StartRefresh, SessionIsLive
  <2>2. FlightGrows(new)
    BY <2>1 DEF FlightGrows
  <2>4. PrincipalLocked(p) \in BOOLEAN
    BY DEF PrincipalLocked
  <2>5. Refresh(new) /\ new.kind = "refresh" /\ new.of = s
    BY <2>4 DEF Refresh
  <2>6. \A q \in flight :
            q.kind \in {"rotate", "deactivate"} /\ Affected(q.who, new) => new.overlapped
    <3>1. ASSUME NEW q \in flight, q.kind \in {"rotate", "deactivate"}, Affected(q.who, new)
          PROVE  PrincipalLocked(p)
      BY <2>5, <3>1 DEF Affected, PrincipalLocked
    <3> QED
      BY <3>1
  <2> HIDE DEF new
  <2>7. MayStart(new)
    BY <2>1, <2>5, <2>6 DEF MayStart
  <2> QED
    BY <2>1, <2>2, <2>7, RequestStarts
<1> QED
  BY <1>1, <1>2

LEMMA CommitStep ==
    ASSUME AccessInv, NEW r \in flight, CommitRotate(r) \/ CommitDeactivate(r)
    PROVE  AccessInv'
<1>1. /\ sessions \in Seq(SessionRow) /\ Len(sessions) \in Nat
      /\ DOMAIN sessions = 1..Len(sessions)
  BY LenProperties DEF AccessInv, AccessTypeOK
<1>2. \A s \in DOMAIN sessions : sessions[s] \in SessionRow
  BY DEF AccessInv, AccessTypeOK, SessionsBounded
<1> DEFINE After(s) == [sessions[s] EXCEPT !.open = @ /\ s \notin r.seen]
<1>3. ASSUME NEW s \in DOMAIN sessions
      PROVE  /\ After(s) \in SessionRow /\ After(s).owner = sessions[s].owner
             /\ After(s).epoch = sessions[s].epoch /\ After(s).login = sessions[s].login
             /\ After(s).born = sessions[s].born /\ After(s).expires = sessions[s].expires
             /\ After(s).absolute = sessions[s].absolute
             /\ (After(s).overlapped <=> sessions[s].overlapped)
             /\ (After(s).open <=> sessions[s].open /\ s \notin r.seen)
  <2> DEFINE it == sessions[s]  open == it.open /\ s \notin r.seen
  <2>1. it \in SessionRow /\ open \in BOOLEAN
    BY <1>2 DEF SessionRow
  <2>2. After(s) = [it EXCEPT !.open = open]
    OBVIOUS
  <2> HIDE DEF it, open, After
  <2>3. /\ [it EXCEPT !.open = open] \in SessionRow
        /\ [it EXCEPT !.open = open].owner = it.owner
        /\ [it EXCEPT !.open = open].epoch = it.epoch
        /\ [it EXCEPT !.open = open].login = it.login
        /\ [it EXCEPT !.open = open].born = it.born
        /\ [it EXCEPT !.open = open].expires = it.expires
        /\ [it EXCEPT !.open = open].absolute = it.absolute
    BY <2>1 DEF SessionRow
  <2>4. [it EXCEPT !.open = open].overlapped = it.overlapped
    BY <2>1 DEF SessionRow
  <2>5. [it EXCEPT !.open = open].open = open
    BY <2>1 DEF SessionRow
  <2> QED
    BY <2>2, <2>3, <2>4, <2>5 DEF it, open
<1> HIDE DEF After
<1>4. sessions' = [s \in DOMAIN sessions |-> After(s)]
  BY DEF CommitRotate, CommitDeactivate, Revoked, After
<1>5. sessions' \in [1..Len(sessions) -> SessionRow]
  BY <1>1, <1>3, <1>4
<1>6. sessions' \in Seq(SessionRow) /\ Len(sessions') = Len(sessions)
  BY <1>1, <1>5, SeqDef, LenProperties
<1>7. \A s \in DOMAIN sessions : sessions'[s] = After(s)
  BY <1>4
<1>8. SessionsKept
  BY <1>1, <1>3, <1>6, <1>7 DEF SessionsKept
<1>9. \A s \in DOMAIN sessions : sessions'[s].open <=> sessions[s].open /\ s \notin r.seen
  BY <1>3, <1>7
<1> QED
  BY <1>6, <1>8, <1>9, RevocationCommits

LEMMA LoginStep ==
    ASSUME AccessInv, NEW r \in flight, FinishLogin(r)
    PROVE  AccessInv'
<1> DEFINE new == NewSession(r.who, r.epoch, Len(sessions) + 1, now, now + AbsoluteTTL,
                             r.overlapped)
<1>1. /\ sessions \in Seq(SessionRow) /\ Len(sessions) \in Nat /\ now \in Nat
      /\ DOMAIN sessions = 1..Len(sessions)
      /\ \A s \in DOMAIN sessions : sessions[s] \in SessionRow
  BY LenProperties DEF AccessInv, AccessTypeOK, SessionsBounded
<1>2. /\ r.who \in Principal /\ r.epoch \in 1..MaxEpoch /\ r.overlapped \in BOOLEAN
      /\ r.kind = "login"
  BY KindIsShape DEF AccessInv, Login, FinishLogin
<1>3. /\ new \in SessionRow /\ new.owner = r.who /\ new.epoch = r.epoch /\ new.born = now
      /\ new.login = Len(sessions) + 1 /\ new.absolute = now + AbsoluteTTL
      /\ new.expires <= now + AbsoluteTTL /\ new.overlapped = r.overlapped
  <2> DEFINE login == Len(sessions) + 1
             limit == now + AbsoluteTTL
  <2>1. login \in Nat /\ limit \in Nat
    BY <1>1
  <2>2. new = NewSession(r.who, r.epoch, login, now, limit, r.overlapped)
    OBVIOUS
  <2> HIDE DEF login, limit, new
  <2>3. Smaller(now + SessionTTL, limit) \in Nat /\ Smaller(now + SessionTTL, limit) <= limit
    <3>1. now + SessionTTL \in Nat
      BY <1>1
    <3> QED
      BY <2>1, <3>1, SmallerIsLess
  <2>4. /\ new \in SessionRow /\ new.owner = r.who /\ new.epoch = r.epoch /\ new.born = now
        /\ new.login = login /\ new.absolute = limit /\ new.expires <= limit
    BY <1>1, <1>2, <2>1, <2>2, <2>3 DEF NewSession, SessionRow
  <2>5. new.overlapped = r.overlapped
    BY <2>2 DEF NewSession
  <2> QED
    BY <2>4, <2>5 DEF login, limit
<1>4. sessions' = Append(sessions, new) /\ flight' = flight \ {r}
      /\ UNCHANGED <<now, setup, principals>>
  BY DEF FinishLogin
<1> HIDE DEF new
<1>5. /\ sessions' \in Seq(SessionRow) /\ Len(sessions') = Len(sessions) + 1
      /\ sessions'[Len(sessions) + 1] = new
      /\ \A s \in DOMAIN sessions : sessions'[s] = sessions[s]
  BY <1>1, <1>3, <1>4, AppendProperties
<1>6. SessionsKept
  BY <1>1, <1>5 DEF SessionsKept
<1>7. MayBegin(new)
  <2>1. \A s \in DOMAIN sessions : sessions[s].login # new.login
    BY <1>1, <1>3 DEF AccessInv, AccessTypeOK, SessionRow
  <2>2. principals[r.who].state # "none"
    BY <1>2 DEF AccessInv, PrincipalsExist
  <2>3. ~r.overlapped => principals[r.who].state = "active" /\ principals[r.who].epoch = r.epoch
    BY <1>2 DEF AccessInv, UnmarkedIsCurrent
  <2>4. \A q \in flight : q.kind \in {"rotate", "deactivate"} /\ q.who = r.who => r.overlapped
    BY <1>2 DEF AccessInv, RevocationCovers, Affected
  <2> QED
    BY <1>1, <1>3, <2>1, <2>2, <2>3, <2>4 DEF MayBegin
<1>8. FlightGrows([kind |-> "none"]) /\ \A q \in flight' : q.kind # "none"
  BY <1>4, KindIsShape DEF FlightGrows, AccessInv
<1>9. \A q \in flight' : q.kind = "refresh" /\ ~q.overlapped => sessions'[q.of].open
  BY <1>4, <1>5, KindIsShape DEF AccessInv, UnmarkedIsCurrent, Refresh
<1>10. [kind |-> "none"] \notin flight'
  BY <1>8
<1> QED
  BY <1>4, <1>5, <1>6, <1>7, <1>8, <1>9, <1>10, SessionsGoOn

\* A refresh closes a session and opens the one that continues it.
LEMMA SessionContinues ==
    ASSUME AccessInv, NEW s \in DOMAIN sessions, NEW overlapped \in BOOLEAN,
           sessions' = Replaced(s, overlapped), ~overlapped => sessions[s].open,
           \A q \in flight : q.kind \in {"rotate", "deactivate"}
               /\ q.who = sessions[s].owner => overlapped,
           \A r \in flight' :
               \/ r \in flight /\ ~RefreshesOf(s, r)
               \/ \E q \in flight : q.kind = "refresh" /\ r = Marked(q),
           UNCHANGED <<now, setup, principals>>
    PROVE  AccessInv'
<1> DEFINE new == Continued(s, overlapped)
           closed == [sessions EXCEPT ![s].open = FALSE]
           old == sessions[s]
<1>1. /\ sessions \in Seq(SessionRow) /\ Len(sessions) \in Nat /\ now \in Nat
      /\ DOMAIN sessions = 1..Len(sessions) /\ old \in SessionRow
      /\ \A t \in DOMAIN sessions : sessions[t] \in SessionRow
  BY LenProperties DEF AccessInv, AccessTypeOK, SessionsBounded
<1>2. /\ old.absolute <= old.born + AbsoluteTTL /\ old.login <= Len(sessions)
      /\ principals[old.owner].state # "none"
      /\ old.login \in Nat /\ old.overlapped \in BOOLEAN
  BY <1>1 DEF AccessInv, AccessTypeOK, SessionsBounded, PrincipalsExist, SessionRow
<1>3. /\ new \in SessionRow /\ new.owner = old.owner /\ new.epoch = old.epoch
      /\ new.born = old.born /\ new.login = old.login /\ new.absolute = old.absolute
      /\ new.expires <= old.absolute
      /\ new.overlapped = (overlapped \/ old.overlapped)
  <2> DEFINE either == overlapped \/ old.overlapped
  <2>1. /\ old.owner \in Principal /\ old.epoch \in 1..MaxEpoch /\ old.login \in Nat
        /\ old.born \in Nat /\ old.absolute \in Nat /\ either \in BOOLEAN
    BY <1>1 DEF SessionRow
  <2>2. new = NewSession(old.owner, old.epoch, old.login, old.born, old.absolute, either)
    BY DEF Continued
  <2> HIDE DEF new, old, either
  <2>3. /\ Smaller(now + SessionTTL, old.absolute) \in Nat
        /\ Smaller(now + SessionTTL, old.absolute) <= old.absolute
    <3>1. now + SessionTTL \in Nat
      BY <1>1
    <3> QED
      BY <2>1, <3>1, SmallerIsLess
  <2>4. /\ new \in SessionRow /\ new.owner = old.owner /\ new.epoch = old.epoch
        /\ new.born = old.born /\ new.login = old.login /\ new.absolute = old.absolute
        /\ new.expires <= old.absolute
    BY <1>1, <2>1, <2>2, <2>3 DEF NewSession, SessionRow
  <2>5. new.overlapped = either
    BY <2>2 DEF NewSession
  <2> QED
    BY <2>4, <2>5 DEF either
<1>4. /\ closed \in Seq(SessionRow) /\ Len(closed) = Len(sessions)
      /\ \A t \in DOMAIN sessions \ {s} : closed[t] = sessions[t]
      /\ closed[s] = Closed(old) /\ sessions' = Append(closed, new)
  BY OneSessionCloses DEF Replaced
<1> HIDE DEF new, closed, old
<1>5. /\ sessions' \in Seq(SessionRow) /\ Len(sessions') = Len(sessions) + 1
      /\ sessions'[Len(sessions) + 1] = new
      /\ \A t \in DOMAIN sessions : sessions'[t] = closed[t]
  <2>1. \A t \in 1..Len(closed) : Append(closed, new)[t] = closed[t]
    BY <1>3, <1>4, AppendProperties
  <2>2. /\ Append(closed, new) \in Seq(SessionRow)
        /\ Len(Append(closed, new)) = Len(closed) + 1
        /\ Append(closed, new)[Len(closed) + 1] = new
    BY <1>3, <1>4, AppendProperties
  <2> QED
    BY <1>1, <1>4, <2>1, <2>2
<1>6. ~sessions'[s].open /\ \A t \in DOMAIN sessions \ {s} : sessions'[t] = sessions[t]
  BY <1>1, <1>4, <1>5, ClosedRow
<1>7. SessionsKept
  <2>1. sessions'[s] = Closed(sessions[s]) /\ sessions[s] \in SessionRow
    BY <1>1, <1>4, <1>5 DEF old
  <2> QED
    BY <1>1, <1>5, <1>6, <2>1, ClosedRow DEF SessionsKept
<1>8. MayBegin(new)
  <2>1. ASSUME ~new.overlapped
        PROVE  /\ principals[old.owner].state # "inactive"
               /\ principals[old.owner].epoch = old.epoch
               /\ \A t \in DOMAIN sessions :
                     sessions'[t].open /\ ~sessions[t].overlapped
                     => sessions[t].login # old.login
    <3>1. ~overlapped /\ ~old.overlapped /\ old.open
      BY <1>3, <2>1 DEF old
    <3>2. /\ principals[old.owner].state # "inactive"
          /\ principals[old.owner].epoch = old.epoch
      BY <3>1 DEF AccessInv, SurvivorOverlapped, old
    <3> QED
      BY <1>6, <3>1, <3>2 DEF AccessInv, OneSessionPerLogin, old
  <2>2. \A q \in flight : q.kind \in {"rotate", "deactivate"} /\ q.who = old.owner
            => overlapped
    BY DEF old
  <2> QED
    BY <1>1, <1>2, <1>3, <2>1, <2>2 DEF MayBegin
<1>9. FlightGrows([kind |-> "none"])
  BY DEF FlightGrows
<1>10. [kind |-> "none"] \notin flight'
  BY KindIsShape, MarkedRefresh DEF AccessInv
<1>11. \A r \in flight' : r.kind = "refresh" /\ ~r.overlapped => sessions'[r.of].open
  BY <1>6, MarkedRefresh, KindIsShape
  DEF AccessInv, UnmarkedIsCurrent, RefreshesOf, Refresh
<1> QED
  BY <1>5, <1>7, <1>8, <1>9, <1>10, <1>11, SessionsGoOn

LEMMA RefreshStep ==
    ASSUME AccessInv,
           \/ \E r \in flight : FinishRefresh(r)
           \/ \E s \in DOMAIN sessions : RefreshWithBearer(s)
    PROVE  AccessInv'
<1>1. ASSUME NEW r \in flight, FinishRefresh(r) PROVE AccessInv'
  <2>1. /\ r.kind = "refresh" /\ r.of \in DOMAIN sessions /\ r.overlapped \in BOOLEAN
        /\ UNCHANGED <<now, setup, principals>>
    BY <1>1, KindIsShape DEF AccessInv, Refresh, FinishRefresh
  <2>2. CASE /\ sessions' = Replaced(r.of, r.overlapped)
             /\ flight' = {IF RefreshesOf(r.of, q) THEN [q EXCEPT !.overlapped = TRUE] ELSE q :
                              q \in flight \ {r}}
    <3>1. ~r.overlapped => sessions[r.of].open
      BY <2>1 DEF AccessInv, UnmarkedIsCurrent
    <3>2. \A q \in flight : q.kind \in {"rotate", "deactivate"}
              /\ q.who = sessions[r.of].owner => r.overlapped
      BY <2>1 DEF AccessInv, RevocationCovers, Affected
    <3>3. \A t \in flight' :
              \/ t \in flight /\ ~RefreshesOf(r.of, t)
              \/ \E q \in flight : q.kind = "refresh" /\ t = Marked(q)
      BY <2>2 DEF RefreshesOf, Marked
    <3> QED
      BY <2>1, <2>2, <3>1, <3>2, <3>3, SessionContinues
  <2>3. CASE flight' = flight \ {r} /\ UNCHANGED sessions
    BY <2>1, <2>3, RequestLeaves
  <2> QED
    BY <1>1, <2>2, <2>3 DEF FinishRefresh
<1>2. ASSUME NEW s \in DOMAIN sessions, RefreshWithBearer(s) PROVE AccessInv'
  <2> DEFINE locked == PrincipalLocked(sessions[s].owner)
  <2>1. /\ locked \in BOOLEAN /\ sessions' = Replaced(s, locked) /\ sessions[s].open
        /\ UNCHANGED <<now, setup, principals>>
    BY <1>2 DEF RefreshWithBearer, SessionIsLive, PrincipalLocked
  <2>2. \A q \in flight : q.kind \in {"rotate", "deactivate"}
            /\ q.who = sessions[s].owner => locked
    BY DEF PrincipalLocked
  <2>3. \A t \in flight' :
            \/ t \in flight /\ ~RefreshesOf(s, t)
            \/ \E q \in flight : q.kind = "refresh" /\ t = Marked(q)
    BY <1>2 DEF RefreshWithBearer, RefreshesOf, Marked
  <2> HIDE DEF locked
  <2> QED
    BY <2>1, <2>2, <2>3, SessionContinues
<1> QED
  BY <1>1, <1>2

LEMMA AccessStep == AccessInv /\ [AccessNext]_accessVars => AccessInv'
<1> SUFFICES ASSUME AccessInv, AccessNext \/ UNCHANGED accessVars PROVE AccessInv'
  OBVIOUS
<1>1. CASE AccessTick \/ UNCHANGED accessVars
  <2>1. now' \in Nat /\ UNCHANGED <<setup, principals, sessions, flight>>
    BY <1>1 DEF AccessTick, accessVars, AccessInv, AccessTypeOK
  <2>2. AccessTypeOK'
    BY <2>1 DEF AccessInv, AccessTypeOK, SessionsBounded, Login, Refresh, Locks
  <2>3. PrincipalsExist' /\ LocksExclude' /\ UnmarkedIsCurrent' /\ AdminsAreLeft'
    BY <2>1 DEF AccessInv, PrincipalsExist, LocksExclude, UnmarkedIsCurrent, AdminsAreLeft
  <2>4. RevocationCovers'
    BY <2>1 DEF AccessInv, RevocationCovers, Affected, OpenSessions
  <2>5. SurvivorOverlapped' /\ OneSessionPerLogin'
    BY <2>1 DEF AccessInv, SurvivorOverlapped, OneSessionPerLogin
  <2> QED
    BY <2>2, <2>3, <2>4, <2>5 DEF AccessInv
<1> QED
  BY <1>1, BootstrapStep, CreateStep, LockStep, ReadStep, CommitStep, LoginStep,
     RefreshStep, LogoutStep DEF AccessNext

LEMMA AccessStarts == AccessInit => AccessInv
<1> SUFFICES ASSUME AccessInit PROVE AccessInv
  OBVIOUS
<1>1. /\ now = 0 /\ setup = FALSE /\ sessions = <<>> /\ flight = {}
      /\ principals \in [Principal -> PrincipalRow]
      /\ \A p \in Principal : principals[p].state = "none" /\ ~principals[p].bootstrapped
  BY DEF AccessInit, PrincipalRow
<1>2. sessions \in Seq(SessionRow) /\ DOMAIN sessions = {}
  BY <1>1, EmptySeq
<1> QED
  BY <1>1, <1>2 DEF AccessInv, AccessTypeOK, SessionsBounded, PrincipalsExist, LocksExclude,
     RevocationCovers, UnmarkedIsCurrent, AdminsAreLeft, SurvivorOverlapped, OneSessionPerLogin

LEMMA AccessKept == AccessSpec => []AccessInv
BY AccessStarts, AccessStep, PTL DEF AccessSpec

\* No session outlives its login's absolute limit; one that is open after its token was
\* rotated, its principal deactivated, or the login refreshed elsewhere was made by a
\* request that was under way then: for any number of requests at a time, sessions and
\* principals.
THEOREM SessionsAlwaysEnd == AccessSpec => []SessionsEnd
<1>1. AccessInv => SessionsEnd
  BY DEF AccessInv, AccessTypeOK, SessionsEnd
<1> QED
  BY <1>1, AccessKept, PTL

LEMMA FirstAdminIsOne == AccessInv => OneInitialAdmin
<1> SUFFICES ASSUME AccessInv PROVE OneInitialAdmin
  OBVIOUS
<1> DEFINE first == {p \in Principal : principals[p].bootstrapped}
<1>1. first = {} \/ \E p \in Principal : first = {p}
  BY DEF AccessInv, AdminsAreLeft
<1>2. Cardinality(first) \in {0, 1}
  BY <1>1, FS_EmptySet, FS_Singleton
<1> QED
  BY <1>2 DEF OneInitialAdmin

LEMMA AnotherAdmin ==
    AccessInv /\ [AccessNext]_accessVars =>
        [\A r \in flight : CommitDeactivate(r) /\ r.live
            => \E a \in Principal \ {r.who} :
                  principals'[a].state = "active" /\ principals'[a].admin]_accessVars
<1> SUFFICES ASSUME AccessInv, NEW r \in flight, CommitDeactivate(r), r.live
             PROVE  \E a \in Principal \ {r.who} :
                       principals'[a].state = "active" /\ principals'[a].admin
  OBVIOUS
<1>1. PICK a \in Principal \ {r.who} : principals[a].state = "active" /\ principals[a].admin
  BY DEF CommitDeactivate, AccessInv, AdminsAreLeft
<1>2. principals'[a] = principals[a]
  BY DEF CommitDeactivate, AccessInv, AccessTypeOK, SessionsBounded
<1> QED
  BY <1>1, <1>2

\* The bootstrap token makes one Admin at most, and a deactivation that found its Admin
\* able to act commits while another one is active, in whatever order the requests of
\* any number of Admins wait for the locks and commit.
THEOREM AdminsStayInControl == AccessSpec => AdminsInControl
<1>1. AccessSpec => []AccessInv
  BY AccessKept
<1> QED
  BY <1>1, FirstAdminIsOne, AnotherAdmin, PTL DEF AdminsInControl, AdminRemains, AccessSpec

HIDE AccessConstants

-----------------------------------------------------------------------------
(* Mode of the control plane.                                               *)
(* What the newest scan found is handled or lies ahead of it, so that a     *)
(* scan which comes to its end has handled everything.                      *)

USE WritesAssumption

(* Steps that a scan has yet to do, from the one it is at.                   *)
Ahead(step) ==
    CASE step = "runners" -> Step
      [] step = "actions" -> {"actions", "compensations"}
      [] step = "compensations" -> {"compensations"}
      [] OTHER -> {}

(* What the newest scan found is handled, or lies ahead of it; a scan that   *)
(* failed leaves the process in another mode than normal.                    *)
ScanIsThorough ==
    /\ \A c \in Caller : Scanning(c) =>
          mode = "recovering" /\ unhandled \subseteq Ahead(caller[c])
    /\ mode = "normal" => unhandled = {}

(* The process was never normal without a scan that said so, and no task     *)
(* retries that may not.                                                     *)
NormalWasReached == mode = "normal" => recovered

PlaneInv ==
    PlaneTypeOK /\ ScanIsThorough /\ NormalWasReached /\ FailedStartupIsRetried

LEMMA NextStep ==
    ASSUME NEW step \in Step, step # Steps[3]
    PROVE  /\ Steps[Place(step) + 1] \in Step
           /\ Ahead(step) \ {step} \subseteq Ahead(Steps[Place(step) + 1])
<1>1. CASE step = "runners"
  <2>1. Place(step) = 1
    BY <1>1 DEF Place, Steps
  <2> QED
    BY <1>1, <2>1 DEF Steps, Step, Ahead
<1>2. CASE step = "actions"
  <2>1. Place(step) = 2
    BY <1>2 DEF Place, Steps
  <2> QED
    BY <1>2, <2>1 DEF Steps, Step, Ahead
<1> QED
  BY <1>1, <1>2 DEF Step, Steps

LEMMA PlaneStep ==
    ASSUME PlaneInv, [PlaneNext]_planeVars
    PROVE  PlaneInv'
<1> USE DEF PlaneInv, PlaneTypeOK, ScanIsThorough, NormalWasReached,
            FailedStartupIsRetried, Scanning, CallerState
<1>0. Steps[1] = "runners" /\ Steps[3] = "compensations" /\ "retry" \in Caller
  BY DEF Steps, Caller
<1>1. ASSUME NEW c \in Caller, BeginScan(c) PROVE PlaneInv'
  BY <1>0, <1>1 DEF BeginScan, LockIsFree, Ahead, Step
<1>2. ASSUME NEW c \in Caller, FinishStep(c) PROVE PlaneInv'
  <2> DEFINE next == Steps[Place(caller[c]) + 1]
  <2>1. caller[c] \in Step /\ caller[c] # Steps[3] /\ caller' = [caller EXCEPT ![c] = next]
    BY <1>2 DEF FinishStep
  <2>2. next \in Step /\ Ahead(caller[c]) \ {caller[c]} \subseteq Ahead(next)
    BY <2>1, NextStep
  <2> HIDE DEF next
  <2>3. \A d \in Caller \ {c} : caller[d] \notin Step /\ caller'[d] = caller[d]
    BY <2>1
  <2>4. caller'[c] = next
    BY <2>1
  <2> QED
    BY <1>0, <1>2, <2>1, <2>2, <2>3, <2>4 DEF FinishStep
<1>3. ASSUME NEW c \in Caller, FinishScan(c) PROVE PlaneInv'
  <2>1. /\ caller[c] \in Step
        /\ unhandled' = {}
    BY <1>0, <1>3 DEF FinishScan, Ahead, Step
  <2>2. \A d \in Caller : caller'[d] \notin Step
    BY <1>3, <2>1 DEF FinishScan, Step
  <2> QED
    BY <1>0, <1>3, <2>1, <2>2 DEF FinishScan, Serve, Step
<1>4. ASSUME NEW c \in Caller, FailScan(c) PROVE PlaneInv'
  <2>1. \A d \in Caller : caller'[d] \notin Step
    BY <1>4 DEF FailScan, AfterFailure, Step
  <2>2. caller' \in [Caller -> CallerState]
    BY <1>4 DEF FailScan, AfterFailure
  <2>3. caller'["retry"] = IF c \in {"startup", "retry"} THEN "asleep" ELSE caller["retry"]
    BY <1>0, <1>4 DEF FailScan, AfterFailure
  <2> QED
    BY <1>0, <1>4, <2>1, <2>2, <2>3 DEF FailScan, Serve
<1>5. ASSUME NEW c \in Caller, AskForRecovery(c) PROVE PlaneInv'
  BY <1>0, <1>5 DEF AskForRecovery, Step
<1>6. CASE WakeRetry
  BY <1>0, <1>6 DEF WakeRetry, Step
<1>7. CASE BeginWrite
  BY <1>7 DEF BeginWrite
<1>8. CASE EndWrite
  BY <1>8 DEF EndWrite
<1>9. CASE Restart
  <2>1. \A d \in Caller : caller'[d] = IF d = "startup" THEN "waiting" ELSE "idle"
    BY <1>9 DEF Restart, Fresh
  <2>2. caller' \in [Caller -> CallerState] /\ \A d \in Caller : caller'[d] \notin Step
    BY <1>9, <2>1 DEF Restart, Fresh, Step
  <2>3. /\ mode' = "recovering" /\ unhandled' = {} /\ writes' = 0
        /\ ~failed' /\ ~serving' /\ ~recovered' /\ stale' = stale
    BY <1>9 DEF Restart, Fresh
  <2>4. serving' \in BOOLEAN /\ failed' \in BOOLEAN /\ recovered' \in BOOLEAN
    BY <1>9, Zenon DEF Restart, Fresh
  <2>5. writes' \in 0..MaxWrites
    BY <2>3
  <2> QED
    BY <2>2, <2>3, <2>4, <2>5
<1>10. ASSUME NEW s \in Step, BecomeStale(s) PROVE PlaneInv'
  BY <1>10 DEF BecomeStale
<1>11. CASE UNCHANGED planeVars
  BY <1>11 DEF planeVars
<1> QED
  BY <1>1, <1>2, <1>3, <1>4, <1>5, <1>6, <1>7, <1>8, <1>9, <1>10, <1>11 DEF PlaneNext

LEMMA InvariantHolds == PlaneSpec => []PlaneInv
<1>1. PlaneInit => PlaneInv
  <2> SUFFICES ASSUME PlaneInit PROVE PlaneInv
    OBVIOUS
  <2>1. \A d \in Caller : caller[d] = IF d = "startup" THEN "waiting" ELSE "idle"
    BY DEF PlaneInit
  <2>2. caller \in [Caller -> CallerState] /\ \A d \in Caller : caller[d] \notin Step
    BY <2>1 DEF PlaneInit, CallerState, Step
  <2>3. /\ mode = "recovering" /\ unhandled = {} /\ writes = 0
        /\ ~failed /\ ~serving /\ ~recovered /\ stale \subseteq Step
    BY DEF PlaneInit
  <2>4. serving \in BOOLEAN /\ failed \in BOOLEAN /\ recovered \in BOOLEAN
    BY Zenon DEF PlaneInit
  <2>5. writes \in 0..MaxWrites
    BY <2>3
  <2> QED
    BY <2>2, <2>3, <2>4, <2>5
    DEF PlaneInv, PlaneTypeOK, ScanIsThorough, NormalWasReached, FailedStartupIsRetried,
        Scanning
<1> QED
  BY <1>1, PlaneStep, PTL DEF PlaneSpec

LEMMA InvariantSuffices == PlaneInv => NormalMeansRecovered
BY DEF PlaneInv, ScanIsThorough, NormalMeansRecovered

\* The control plane becomes writable only by a scan that recovered everything it
\* found, writes begin in no other state, and a start that failed is retried until a
\* scan succeeds, whoever asks for recoveries meanwhile and however often they fail.
THEOREM RecoveryKept == PlaneSpec => RecoveryIsKept
<1>1. PlaneInv /\ [PlaneNext]_planeVars =>
        [BeginWrite => unhandled = {} /\ \A c \in Caller : ~Scanning(c)]_planeVars
  BY DEF PlaneInv, ScanIsThorough, BeginWrite, Writable
<1>2. PlaneInv => PlaneTypeOK /\ NormalMeansRecovered /\ FailedStartupIsRetried
  BY InvariantSuffices DEF PlaneInv
<1> QED
  BY <1>1, <1>2, InvariantHolds, PTL DEF PlaneSpec, RecoveryIsKept, WritesWaitForRecovery

HIDE WritesAssumption

-----------------------------------------------------------------------------
(* Background workers.                                                      *)
(* The age of a beat is the timer of what the worker waits for, and no      *)
(* timer is overdue by more than the lag.                                   *)

USE WorkerConstants

\* Ticks until what a worker in some phase waits for is due.
Due(phase) ==
    CASE phase = "running" -> BeatEvery
      [] phase = "sleeping" -> Interval
      [] OTHER -> 0

\* A beat comes with every timer that is set, and no timer is overdue by more than Lag.
BeatsWithTimer(state) ==
    /\ state.phase = "running" <=> state.operation # "none"
    /\ state.phase # "ended" =>
          state.age = state.timer /\ state.timer <= Due(state.phase) + Lag

HealthInv ==
    /\ worker \in [Worker -> WorkerState] /\ asked \subseteq Worker /\ disposed \in BOOLEAN
    /\ \A w \in Worker :
          BeatsWithTimer(worker[w]) /\ (disposed => worker[w].phase = "ended")

LEMMA DueIsTimely ==
    ASSUME NEW phase \in {"ready", "running", "sleeping", "ended"}
    PROVE  Due(phase) \in Nat /\ Due(phase) + Lag <= StaleAfter
BY DEF Due

LEMMA BeatsAtOnce ==
    ASSUME NEW state \in WorkerState, state.timer = 0, state.age = 0,
           state.phase = "running" <=> state.operation # "none"
    PROVE  BeatsWithTimer(state)
<1>1. state.phase \in {"ready", "running", "sleeping", "ended"}
  BY DEF WorkerState
<1>2. Due(state.phase) \in Nat
  BY <1>1, DueIsTimely
<1> QED
  BY <1>2 DEF BeatsWithTimer

LEMMA HealthInvSuffices == HealthInv => WorkersAreWatched
<1> SUFFICES ASSUME HealthInv PROVE WorkersAreWatched
  OBVIOUS
<1>1. ASSUME NEW w \in Worker, worker[w].phase # "ended" PROVE worker[w].age <= StaleAfter
  <2>1. worker[w].phase \in {"ready", "running", "sleeping", "ended"} /\ worker[w].age \in Nat
    BY DEF HealthInv, WorkerState
  <2>2. worker[w].age <= Due(worker[w].phase) + Lag
    BY <1>1 DEF HealthInv, BeatsWithTimer
  <2> QED
    BY <2>1, <2>2, DueIsTimely
<1>2. NoFalseAlarm
  BY <1>1 DEF NoFalseAlarm, Healthy
<1>3. NoOrphanOperation
  BY DEF HealthInv, BeatsWithTimer, NoOrphanOperation
<1> QED
  BY <1>2, <1>3 DEF WorkersAreWatched

\* One worker comes to another state, and stays ended once the database is disposed of.
LEMMA WorkerMoves ==
    ASSUME HealthInv, NEW w \in Worker, NEW new \in WorkerState, BeatsWithTimer(new),
           worker' = [worker EXCEPT ![w] = new], asked' \subseteq Worker,
           UNCHANGED disposed, worker[w].phase = "ended" => new.phase = "ended"
    PROVE  HealthInv'
<1>1. /\ worker' \in [Worker -> WorkerState] /\ worker'[w] = new
      /\ \A v \in Worker \ {w} : worker'[v] = worker[v]
  BY DEF HealthInv
<1> QED
  BY <1>1 DEF HealthInv, BeatsWithTimer

LEMMA HealthStep ==
    ASSUME HealthInv, [HealthNext]_healthVars
    PROVE  HealthInv'
<1>0. \A w \in Worker : worker[w] \in WorkerState /\ BeatsWithTimer(worker[w])
  BY DEF HealthInv
<1>1. ASSUME NEW w \in Worker, BeginOperation(w) PROVE HealthInv'
  <2> DEFINE new == [worker[w] EXCEPT !.phase = "running", !.operation = "running",
                                      !.timer = 0, !.age = 0]
  <2>1. new \in WorkerState
    BY <1>0 DEF WorkerState
  <2>2. new.phase = "running" /\ new.operation = "running" /\ new.timer = 0 /\ new.age = 0
    BY <1>0 DEF WorkerState
  <2>3. worker' = [worker EXCEPT ![w] = new]
    BY <1>0, <1>1 DEF BeginOperation, Beaten, WorkerState
  <2> HIDE DEF new
  <2> QED
    <3>1. BeatsWithTimer(new)
      BY <2>1, <2>2, BeatsAtOnce
    <3>2. UNCHANGED <<asked, disposed>>
      BY <1>1 DEF BeginOperation
    <3> QED
      BY <1>1, <2>1, <2>2, <2>3, <3>1, <3>2, WorkerMoves DEF BeginOperation, HealthInv
<1>2. ASSUME NEW w \in Worker, BeatWhileRunning(w) PROVE HealthInv'
  <2> DEFINE new == [worker[w] EXCEPT !.timer = 0, !.age = 0]
  <2>1. new \in WorkerState
    BY <1>0 DEF WorkerState
  <2>2. /\ new.phase = worker[w].phase /\ new.operation = worker[w].operation
        /\ new.timer = 0 /\ new.age = 0
    BY <1>0 DEF WorkerState
  <2>3. worker' = [worker EXCEPT ![w] = new]
    BY <1>0, <1>2 DEF BeatWhileRunning, Beaten, WorkerState
  <2> HIDE DEF new
  <2>4. BeatsWithTimer(new)
    <3>1. worker[w].phase = "running" <=> worker[w].operation # "none"
      BY <1>0 DEF BeatsWithTimer
    <3>2. new.phase = "running" <=> new.operation # "none"
      BY <2>2, <3>1
    <3> QED
      BY <2>1, <2>2, <3>2, BeatsAtOnce
  <2>5. UNCHANGED <<asked, disposed>> /\ (worker[w].phase = "ended" => new.phase = "ended")
    BY <1>2, <2>2 DEF BeatWhileRunning
  <2> QED
    BY <2>1, <2>3, <2>4, <2>5, WorkerMoves DEF HealthInv
<1>3. ASSUME NEW w \in Worker, EndOperation(w) PROVE HealthInv'
  <2>1. PICK errors \in {0, OneMore(worker[w].errors)} :
          worker' = [worker EXCEPT ![w].phase = "sleeping", ![w].operation = "none",
                                   ![w].timer = 0, ![w].age = 0, ![w].errors = errors]
    BY <1>3 DEF EndOperation
  <2>2. errors \in 0..ErrorThreshold
    BY <1>0 DEF OneMore, WorkerState
  <2> DEFINE new == [worker[w] EXCEPT !.phase = "sleeping", !.operation = "none",
                                      !.timer = 0, !.age = 0, !.errors = errors]
  <2>3. new \in WorkerState
    BY <1>0, <2>2 DEF WorkerState
  <2>4. new.phase = "sleeping" /\ new.operation = "none" /\ new.timer = 0 /\ new.age = 0
    BY <1>0 DEF WorkerState
  <2>5. worker' = [worker EXCEPT ![w] = new]
    BY <2>1
  <2>6. worker[w].phase # "ended"
    BY <1>0, <1>3 DEF EndOperation, BeatsWithTimer
  <2> HIDE DEF new
  <2> QED
    BY <1>3, <2>3, <2>4, <2>5, <2>6, BeatsAtOnce, WorkerMoves DEF EndOperation, HealthInv
<1>4. ASSUME NEW w \in Worker, NextOperation(w) PROVE HealthInv'
  <2> DEFINE new == [worker[w] EXCEPT !.timer = 0, !.age = 0, !.errors = 0]
  <2>0. 0 \in 0..ErrorThreshold
    OBVIOUS
  <2>1. new \in WorkerState
    BY <1>0, <2>0 DEF WorkerState
  <2>2. /\ new.phase = worker[w].phase /\ new.operation = worker[w].operation
        /\ new.timer = 0 /\ new.age = 0
    BY <1>0 DEF WorkerState
  <2>3. worker' = [worker EXCEPT ![w] = new]
    BY <1>4 DEF NextOperation
  <2> HIDE DEF new
  <2> QED
    BY <1>0, <1>4, <2>1, <2>2, <2>3, BeatsAtOnce, WorkerMoves
    DEF NextOperation, BeatsWithTimer, HealthInv
<1>5. ASSUME NEW w \in Worker, CancelWorker(w) PROVE HealthInv'
  <2> DEFINE new == [worker[w] EXCEPT !.cancel = TRUE]
  <2>1. new \in WorkerState
    BY <1>0 DEF WorkerState
  <2>2. /\ new.phase = worker[w].phase /\ new.operation = worker[w].operation
        /\ new.timer = worker[w].timer /\ new.age = worker[w].age
    BY <1>0 DEF WorkerState
  <2>3. worker' = [worker EXCEPT ![w] = new]
    BY <1>5 DEF CancelWorker
  <2> HIDE DEF new
  <2>4. BeatsWithTimer(new) /\ (worker[w].phase = "ended" => new.phase = "ended")
    BY <1>0, <2>2 DEF BeatsWithTimer
  <2> QED
    BY <1>0, <1>5, <2>1, <2>4, <2>3, WorkerMoves DEF CancelWorker, HealthInv
<1>6. ASSUME NEW w \in Worker, TakeCancel(w) PROVE HealthInv'
  <2>1. CASE /\ worker[w].operation = "running"
             /\ worker' = [worker EXCEPT ![w] = AfterCancel(worker[w])]
    <3> DEFINE new == [worker[w] EXCEPT !.operation = "cancelled"]
    <3>1. new \in WorkerState
      BY <1>0 DEF WorkerState
    <3>2. /\ new.phase = worker[w].phase /\ new.operation = "cancelled"
          /\ new.timer = worker[w].timer /\ new.age = worker[w].age
      BY <1>0 DEF WorkerState
    <3>3. worker' = [worker EXCEPT ![w] = new]
      BY <2>1 DEF AfterCancel
    <3> HIDE DEF new
    <3> QED
      BY <1>0, <1>6, <2>1, <3>1, <3>2, <3>3, WorkerMoves
      DEF TakeCancel, BeatsWithTimer, HealthInv
  <2>2. CASE worker[w].operation = "none"
             /\ worker' = [worker EXCEPT ![w].phase = "ended", ![w].cancel = FALSE]
    <3> DEFINE new == [worker[w] EXCEPT !.phase = "ended", !.cancel = FALSE]
    <3>1. new \in WorkerState
      BY <1>0 DEF WorkerState
    <3>2. new.phase = "ended" /\ new.operation = "none"
      BY <1>0, <2>2 DEF WorkerState
    <3>3. worker' = [worker EXCEPT ![w] = new]
      BY <2>2
    <3> HIDE DEF new
    <3> QED
      BY <1>6, <3>1, <3>2, <3>3, WorkerMoves DEF TakeCancel, BeatsWithTimer, HealthInv
  <2> QED
    BY <1>6, <2>1, <2>2 DEF TakeCancel
<1>7. ASSUME NEW w \in Worker, EndCancelled(w) PROVE HealthInv'
  <2>1. CASE worker' = [worker EXCEPT ![w].phase = "ended", ![w].operation = "none",
                                      ![w].cancel = FALSE]
    <3> DEFINE new == [worker[w] EXCEPT !.phase = "ended", !.operation = "none",
                                        !.cancel = FALSE]
    <3>1. new \in WorkerState
      BY <1>0 DEF WorkerState
    <3>2. new.phase = "ended" /\ new.operation = "none"
      BY <1>0 DEF WorkerState
    <3>3. worker' = [worker EXCEPT ![w] = new]
      BY <2>1
    <3> HIDE DEF new
    <3> QED
      BY <1>7, <3>1, <3>2, <3>3, WorkerMoves DEF EndCancelled, BeatsWithTimer, HealthInv
  <2>2. CASE worker' = [worker EXCEPT ![w].phase = "sleeping", ![w].operation = "none",
                 ![w].cancel = FALSE, ![w].timer = 0, ![w].age = 0, ![w].errors = OneMore(@)]
    <3> DEFINE more == OneMore(worker[w].errors)
    <3>0. more \in 0..ErrorThreshold
      BY <1>0 DEF OneMore, WorkerState
    <3> DEFINE new == [worker[w] EXCEPT !.phase = "sleeping", !.operation = "none",
                            !.cancel = FALSE, !.timer = 0, !.age = 0, !.errors = more]
    <3>3. worker' = [worker EXCEPT ![w] = new]
      BY <2>2
    <3> HIDE DEF more
    <3>1. new \in WorkerState
      BY <1>0, <3>0 DEF WorkerState
    <3>2. new.phase = "sleeping" /\ new.operation = "none" /\ new.timer = 0 /\ new.age = 0
      BY <1>0 DEF WorkerState
    <3>4. worker[w].phase # "ended"
      BY <1>0, <1>7 DEF EndCancelled, BeatsWithTimer
    <3> HIDE DEF new
    <3> QED
      BY <1>7, <3>1, <3>2, <3>3, <3>4, BeatsAtOnce, WorkerMoves DEF EndCancelled, HealthInv
  <2> QED
    BY <1>7, <2>1, <2>2 DEF EndCancelled
<1>8. CASE Dispose
  BY <1>8 DEF Dispose, HealthInv, BeatsWithTimer
<1>9. CASE HealthTick
  <2>1. ASSUME NEW w \in Worker
        PROVE  /\ worker'[w] \in WorkerState /\ BeatsWithTimer(worker'[w])
    <3>1. CASE worker[w].phase = "ended"
      <4>1. worker'[w] = worker[w]
        BY <1>9, <3>1 DEF HealthTick
      <4> QED
        BY <1>0, <4>1
    <3>2. CASE worker[w].phase # "ended"
      <4> DEFINE new == [worker[w] EXCEPT !.timer = @ + 1, !.age = @ + 1]
      <4>1. worker'[w] = new
        BY <1>9, <3>2 DEF HealthTick
      <4>0. worker[w].timer + 1 \in Nat /\ worker[w].age + 1 \in Nat
        BY <1>0 DEF WorkerState
      <4>2. /\ new \in WorkerState /\ new.phase = worker[w].phase
            /\ new.operation = worker[w].operation
            /\ new.timer = worker[w].timer + 1 /\ new.age = worker[w].age + 1
        BY <1>0, <4>0 DEF WorkerState
      <4>3. /\ worker[w].timer < Due(worker[w].phase) + Lag
            /\ worker[w].timer \in Nat /\ Due(worker[w].phase) \in Nat
        BY <1>0, <1>9, <3>2, DueIsTimely DEF HealthTick, Deadline, Due, WorkerState
      <4> HIDE DEF new
      <4> QED
        BY <1>0, <4>1, <4>2, <4>3 DEF BeatsWithTimer
    <3> QED
      BY <3>1, <3>2
  <2>2. worker' \in [Worker -> WorkerState] /\ ~disposed /\ UNCHANGED <<asked, disposed>>
    BY <1>9, <2>1 DEF HealthTick
  <2> QED
    BY <2>1, <2>2 DEF HealthInv
<1>10. CASE UNCHANGED healthVars
  BY <1>10 DEF healthVars, HealthInv
<1> QED
  BY <1>1, <1>2, <1>3, <1>4, <1>5, <1>6, <1>7, <1>8, <1>9, <1>10 DEF HealthNext

\* No worker that lives looks stale, whatever it does, and an operation that is under
\* way belongs to a worker that runs: for any intervals that the assumption allows.
THEOREM WorkersStayWatched == HealthSpec => []WorkersAreWatched
<1>1. HealthInit => HealthInv
  <2> SUFFICES ASSUME HealthInit PROVE HealthInv
    OBVIOUS
  <2> DEFINE new == [phase |-> "ready", operation |-> "none", timer |-> 0, age |-> 0,
                     errors |-> 0, cancel |-> FALSE]
  <2>1. new \in WorkerState /\ new.phase = "ready" /\ new.operation = "none"
        /\ new.timer = 0 /\ new.age = 0
    BY DEF WorkerState
  <2>2. worker = [w \in Worker |-> new] /\ asked = {} /\ disposed = FALSE
    BY DEF HealthInit
  <2> HIDE DEF new
  <2> QED
    BY <2>1, <2>2, BeatsAtOnce DEF HealthInv
<1> QED
  BY <1>1, HealthStep, HealthInvSuffices, PTL DEF HealthSpec

HIDE WorkerConstants

-----------------------------------------------------------------------------
(* Audit archive.                                                           *)
(* A job keeps the rows it has chosen locked, and has written them before   *)
(* it deletes them; the table and the recorded batches divide the rows.     *)

AtWorkOnRows == {"selected", "written", "described", "deleted"}

JobState == [phase: Phase, held: SUBSET Row, chosen: SUBSET Row]

\* A job keeps its rows locked, and in the table, until it ends its transaction.
HeldRowsAreThere ==
    \A j \in Job :
        /\ job[j].held \subseteq rows
        /\ job[j].phase \in AtWorkOnRows => job[j].held = job[j].chosen

\* What a job has written by the time it deletes.
FilesComeFirst ==
    \A j \in Job :
        /\ job[j].phase \in {"written", "described", "deleted"} => archives[j] = job[j].chosen
        /\ job[j].phase \in {"described", "deleted"} => j \in manifests

\* A batch is recorded once its job has ended, with the files that hold it.
RecordedIsKept ==
    \A j \in Job : batches[j] # {} =>
        job[j].phase = "ended" /\ archives[j] = batches[j] /\ j \in manifests

\* The table and the batches divide the rows among them.
RowsAreDivided ==
    /\ \A r \in Row : r \in rows <=> \A j \in Job : r \notin batches[j]
    /\ \A i, j \in Job : i # j => batches[i] \intersect batches[j] = {}

ArchiveInv ==
    /\ ArchiveTypeOK /\ HeldRowsAreThere /\ FilesComeFirst /\ RecordedIsKept
    /\ RowsAreDivided

LEMMA ArchiveInvSuffices == ArchiveInv => ArchiveIsComplete
<1> SUFFICES ASSUME ArchiveInv PROVE ArchiveIsComplete
  OBVIOUS
<1>1. NothingLost
  BY DEF ArchiveInv, RowsAreDivided, RecordedIsKept, NothingLost, ArchiveTypeOK
<1>2. ASSUME NEW r \in Row
      PROVE  r \notin rows <=> Cardinality({j \in Job : r \in batches[j]}) = 1
  <2> DEFINE those == {j \in Job : r \in batches[j]}
  <2>1. CASE r \in rows
    <3>1. those = {}
      BY <2>1 DEF ArchiveInv, RowsAreDivided
    <3>2. Cardinality(those) = 0
      BY <3>1, FS_EmptySet
    <3> QED
      BY <2>1, <3>2
  <2>2. CASE r \notin rows
    <3>1. PICK j \in Job : r \in batches[j]
      BY <2>2 DEF ArchiveInv, RowsAreDivided
    <3>2. those = {j}
      BY <3>1 DEF ArchiveInv, RowsAreDivided
    <3>3. Cardinality(those) = 1
      BY <3>2, FS_Singleton
    <3> QED
      BY <2>2, <3>3
  <2> QED
    BY <2>1, <2>2
<1> QED
  BY <1>1, <1>2 DEF ArchiveInv, ArchiveIsComplete, ArchivedOnce

\* Job j goes to another phase and either keeps its rows locked or releases them.
LEMMA JobMoves ==
    ASSUME ArchiveInv, NEW j \in Job, NEW phase \in Phase, NEW held \in {{}, job[j].held},
           \/ job' = [job EXCEPT ![j].phase = phase] /\ held = job[j].held
           \/ job' = [job EXCEPT ![j].phase = phase, ![j].held = {}] /\ held = {}
    PROVE  /\ job' \in [Job -> JobState]
           /\ job'[j].phase = phase /\ job'[j].held = held
           /\ job'[j].chosen = job[j].chosen
           /\ \A i \in Job \ {j} : job'[i] = job[i]
           /\ \A i, k \in Job : i # k => job'[i].held \intersect job'[k].held = {}
<1>1. job \in [Job -> JobState] /\ job[j] \in JobState
  BY DEF ArchiveInv, ArchiveTypeOK, JobState
<1> DEFINE new == IF held = job[j].held THEN [job[j] EXCEPT !.phase = phase]
                  ELSE [job[j] EXCEPT !.phase = phase, !.held = {}]
<1>2. new \in JobState /\ new.phase = phase /\ new.held = held /\ new.chosen = job[j].chosen
  BY <1>1 DEF JobState
<1>3. job' = [job EXCEPT ![j] = new]
  <2>1. CASE job' = [job EXCEPT ![j].phase = phase] /\ held = job[j].held
    BY <2>1
  <2>2. CASE job' = [job EXCEPT ![j].phase = phase, ![j].held = {}] /\ held = {}
    <3>1. job[j].held = {} => [job[j] EXCEPT !.phase = phase, !.held = {}]
                                = [job[j] EXCEPT !.phase = phase]
      BY <1>1 DEF JobState
    <3> QED
      BY <2>2, <3>1
  <2> QED
    BY <2>1, <2>2
<1> HIDE DEF new
<1> QED
  BY <1>1, <1>2, <1>3 DEF ArchiveInv, ArchiveTypeOK

LEMMA ArchiveStep ==
    ASSUME ArchiveInv, NEW j \in Job,
           \/ Select(j) \/ WriteArchive(j) \/ WriteManifest(j) \/ RecordAndDelete(j)
           \/ Rollback(j) \/ Unlink(j) \/ Commit(j) \/ Die(j)
    PROVE  ArchiveInv'
<1> USE DEF ArchiveInv, ArchiveTypeOK, HeldRowsAreThere, FilesComeFirst, RecordedIsKept,
            RowsAreDivided, AtWorkOnRows
<1>0. job \in [Job -> JobState] /\ job[j] \in JobState
  BY DEF JobState
<1>1. CASE Select(j)
  <2>1. PICK chosen \in SUBSET Row :
          /\ Oldest(rows \ Locked, chosen)
          /\ job' = [job EXCEPT ![j] = [phase |-> "selected", held |-> chosen,
                                        chosen |-> chosen]]
    BY <1>1 DEF Select
  <2>2. \A i \in Job : chosen \subseteq rows /\ chosen \intersect job[i].held = {}
    BY <2>1 DEF Oldest, Locked
  <2> DEFINE new == [phase |-> "selected", held |-> chosen, chosen |-> chosen]
  <2>3. new \in JobState /\ new.phase = "selected" /\ new.held = chosen
        /\ new.chosen = chosen
    BY DEF JobState, Phase
  <2>4. job' = [job EXCEPT ![j] = new]
    BY <2>1
  <2> HIDE DEF new
  <2>5. /\ job' \in [Job -> JobState] /\ job'[j] = new
        /\ \A i \in Job \ {j} : job'[i] = job[i]
    BY <1>0, <2>3, <2>4
  <2>6. \A i, k \in Job : i # k => job'[i].held \intersect job'[k].held = {}
    BY <2>2, <2>3, <2>5
  <2>7. ArchiveTypeOK'
    BY <1>1, <2>5, <2>6 DEF Select, JobState
  <2>8. HeldRowsAreThere'
    BY <1>1, <2>2, <2>3, <2>5 DEF Select
  <2>9. FilesComeFirst' /\ RecordedIsKept' /\ RowsAreDivided'
    BY <1>1, <2>3, <2>5 DEF Select
  <2> QED
    BY <2>7, <2>8, <2>9
<1>2. CASE WriteArchive(j)
  <2>1. /\ job' \in [Job -> JobState]
        /\ job'[j].phase = "written" /\ job'[j].held = job[j].held
        /\ job'[j].chosen = job[j].chosen
        /\ \A i \in Job \ {j} : job'[i] = job[i]
        /\ \A i, k \in Job : i # k => job'[i].held \intersect job'[k].held = {}
    BY <1>2, JobMoves DEF WriteArchive, Phase
  <2>2. archives' \in [Job -> SUBSET Row] /\ archives'[j] = job[j].chosen
        /\ \A i \in Job \ {j} : archives'[i] = archives[i]
    BY <1>0, <1>2 DEF WriteArchive, JobState
  <2>3. ArchiveTypeOK'
    BY <1>2, <2>1, <2>2 DEF WriteArchive, JobState
  <2> QED
    BY <1>2, <2>1, <2>2, <2>3 DEF WriteArchive
<1>3. CASE WriteManifest(j)
  <2>1. /\ job' \in [Job -> JobState]
        /\ job'[j].phase = "described" /\ job'[j].held = job[j].held
        /\ job'[j].chosen = job[j].chosen
        /\ \A i \in Job \ {j} : job'[i] = job[i]
        /\ \A i, k \in Job : i # k => job'[i].held \intersect job'[k].held = {}
    BY <1>3, JobMoves DEF WriteManifest, Phase
  <2>2. ArchiveTypeOK'
    BY <1>3, <2>1 DEF WriteManifest, JobState
  <2> QED
    BY <1>3, <2>1, <2>2 DEF WriteManifest
<1>4. CASE RecordAndDelete(j)
  <2>1. /\ job' \in [Job -> JobState]
        /\ job'[j].phase = "deleted" /\ job'[j].held = job[j].held
        /\ job'[j].chosen = job[j].chosen
        /\ \A i \in Job \ {j} : job'[i] = job[i]
        /\ \A i, k \in Job : i # k => job'[i].held \intersect job'[k].held = {}
    BY <1>4, JobMoves DEF RecordAndDelete, Phase
  <2>2. ArchiveTypeOK'
    BY <1>4, <2>1 DEF RecordAndDelete, JobState
  <2> QED
    BY <1>4, <2>1, <2>2 DEF RecordAndDelete
<1>5. CASE Rollback(j) \/ Die(j)
  <2>1. PICK phase \in {"unlinking", "ended"} :
          job' = [job EXCEPT ![j].phase = phase, ![j].held = {}]
    BY <1>5 DEF Rollback, Die
  <2>2. /\ job' \in [Job -> JobState]
        /\ job'[j].phase = phase /\ job'[j].held = {}
        /\ job'[j].chosen = job[j].chosen
        /\ \A i \in Job \ {j} : job'[i] = job[i]
        /\ \A i, k \in Job : i # k => job'[i].held \intersect job'[k].held = {}
    BY <2>1, JobMoves DEF Phase
  <2>3. UNCHANGED <<rows, batches, archives, manifests>> /\ job[j].phase # "ended"
    BY <1>5 DEF Rollback, Die
  <2>4. ArchiveTypeOK'
    BY <2>2, <2>3 DEF JobState
  <2>5. HeldRowsAreThere'
    BY <2>2, <2>3
  <2>6. FilesComeFirst' /\ RecordedIsKept' /\ RowsAreDivided'
    BY <2>2, <2>3
  <2> QED
    BY <2>4, <2>5, <2>6
<1>6. CASE Unlink(j)
  <2>1. job[j].phase = "unlinking" /\ batches[j] = {} /\ UNCHANGED <<rows, batches>>
    BY <1>6 DEF Unlink
  <2>2. CASE archives' = [archives EXCEPT ![j] = {}] /\ UNCHANGED <<manifests, job>>
    BY <2>1, <2>2
  <2>3. CASE /\ manifests' = manifests \ {j} /\ UNCHANGED archives
             /\ job' = [job EXCEPT ![j].phase = "ended"]
    <3>1. /\ job' \in [Job -> JobState]
          /\ job'[j].phase = "ended" /\ job'[j].held = job[j].held
          /\ job'[j].chosen = job[j].chosen
          /\ \A i \in Job \ {j} : job'[i] = job[i]
          /\ \A i, k \in Job : i # k => job'[i].held \intersect job'[k].held = {}
      BY <2>3, JobMoves DEF Phase
    <3>2. ArchiveTypeOK'
      BY <2>1, <2>3, <3>1 DEF JobState
    <3> QED
      BY <2>1, <2>3, <3>1, <3>2
  <2> QED
    BY <1>6, <2>2, <2>3 DEF Unlink
<1>7. CASE Commit(j)
  <2>1. job' = [job EXCEPT ![j].phase = "ended", ![j].held = {}]
    BY <1>7 DEF Commit, AfterCommit
  <2>2. /\ job' \in [Job -> JobState]
        /\ job'[j].phase = "ended" /\ job'[j].held = {}
        /\ job'[j].chosen = job[j].chosen
        /\ \A i \in Job \ {j} : job'[i] = job[i]
        /\ \A i, k \in Job : i # k => job'[i].held \intersect job'[k].held = {}
    BY <2>1, JobMoves DEF Phase
  <2>3. /\ job[j].phase = "deleted" /\ job[j].chosen = job[j].held
        /\ archives[j] = job[j].chosen /\ j \in manifests /\ batches[j] = {}
        /\ job[j].chosen \subseteq rows /\ UNCHANGED <<archives, manifests>>
    BY <1>7 DEF Commit
  <2>4. CASE UNCHANGED <<rows, batches>>
    <3>1. ArchiveTypeOK'
      BY <2>2, <2>3, <2>4 DEF JobState
    <3> QED
      BY <2>2, <2>3, <2>4, <3>1
  <2>5. CASE rows' = rows \ job[j].chosen /\ batches' = [batches EXCEPT ![j] = job[j].chosen]
    <3>1. /\ batches' \in [Job -> SUBSET Row] /\ batches'[j] = job[j].chosen
          /\ \A i \in Job \ {j} : batches'[i] = batches[i]
      BY <1>0, <2>5 DEF JobState
    <3>2. ArchiveTypeOK'
      BY <2>2, <2>3, <2>5, <3>1 DEF JobState
    <3>3. HeldRowsAreThere'
      BY <2>2, <2>3, <2>5
    <3>4. FilesComeFirst' /\ RecordedIsKept'
      BY <2>2, <2>3, <3>1
    <3>5. \A i \in Job : batches[i] \intersect rows = {}
      OBVIOUS
    <3>6. RowsAreDivided'
      BY <2>3, <2>5, <3>1, <3>5
    <3> QED
      BY <3>2, <3>3, <3>4, <3>6
  <2> QED
    BY <1>7, <2>4, <2>5 DEF Commit, Deleted
<1> QED
  BY <1>1, <1>2, <1>3, <1>4, <1>5, <1>6, <1>7

\* Every row is in the table or in the files of exactly one recorded batch, however
\* many jobs choose rows at a time and wherever they fail.
THEOREM ArchiveStaysComplete == ArchiveSpec => []ArchiveIsComplete
<1>1. ArchiveInit => ArchiveInv
  <2> SUFFICES ASSUME ArchiveInit PROVE ArchiveInv
    OBVIOUS
  <2>1. /\ rows = Row /\ manifests = {}
        /\ batches \in [Job -> SUBSET Row] /\ archives \in [Job -> SUBSET Row]
        /\ \A j \in Job : batches[j] = {}
    BY DEF ArchiveInit
  <2>2. /\ job \in [Job -> [phase: Phase, held: SUBSET Row, chosen: SUBSET Row]]
        /\ \A j \in Job : job[j].phase = "new" /\ job[j].held = {}
    BY DEF ArchiveInit, Phase
  <2> QED
    BY <2>1, <2>2
    DEF ArchiveInv, ArchiveTypeOK, HeldRowsAreThere, FilesComeFirst, RecordedIsKept,
        RowsAreDivided, AtWorkOnRows
<1>2. ArchiveInv /\ [ArchiveNext]_archiveVars => ArchiveInv'
  <2> SUFFICES ASSUME ArchiveInv, [ArchiveNext]_archiveVars PROVE ArchiveInv'
    OBVIOUS
  <2>1. CASE UNCHANGED archiveVars
    BY <2>1 DEF archiveVars, ArchiveInv, ArchiveTypeOK, HeldRowsAreThere, FilesComeFirst,
                RecordedIsKept, RowsAreDivided
  <2> QED
    BY <2>1, ArchiveStep DEF ArchiveNext
<1> QED
  BY <1>1, <1>2, ArchiveInvSuffices, PTL DEF ArchiveSpec

-----------------------------------------------------------------------------
(* Circuit breaker of a connector.                                          *)
(* The query that is under way knows whether the circuit was open when it   *)
(* began.                                                                   *)

CircuitState == [failures: Nat, openedAt: 0..NotOpened, probe: BOOLEAN]

QueryState == [phase: {"idle", "attempt", "sleep"}, attempt: Nat, most: Nat,
               deadline: Nat, wake: Nat, probe: BOOLEAN]

ConnectorTypeOK ==
    /\ clock \in 0..MaxClock /\ groups \in Nat
    /\ circuit \in CircuitState /\ query \in QueryState
    /\ query.phase = "idle" <=> query = Idle

\* A query under way is the probe of an open circuit, and then has one attempt, or
\* the circuit was closed when it began and is closed still.
QueryKnowsCircuit ==
    query # Idle => /\ query.probe <=> Opened
                    /\ query.probe => query.attempt = 1 /\ query.most = 1
                                      /\ query.phase = "attempt"

ConnectorInv == ConnectorTypeOK /\ QueryKnowsCircuit /\ BreakerIsSound

LEMMA IdleIsState == Idle \in QueryState /\ Idle.phase = "idle" /\ ~Idle.probe
BY DEF Idle, QueryState

LEMMA ConnectorGivesUp ==
    ASSUME ConnectorInv, NEW retryable \in BOOLEAN, query.phase = "attempt",
           GiveUp(retryable), clock' = clock
    PROVE  ConnectorInv'
<1> USE ConnectorConstants
    DEF ConnectorInv, ConnectorTypeOK, QueryKnowsCircuit, BreakerIsSound, ProbeIsUnderWay,
        QueriesAreCounted, OpenMeansOneAttempt, Opened
<1>0. /\ query' = Idle /\ query # Idle /\ clock \in Nat /\ clock <= MaxClock
      /\ NotOpened = MaxClock + 1
  BY IdleIsState DEF GiveUp, NotOpened
<1>1. CASE ~retryable
  <2>1. circuit' = [circuit EXCEPT !.probe = FALSE] /\ groups' = groups
    BY <1>1 DEF GiveUp, RecordFailure
  <2>2. /\ circuit' \in CircuitState /\ circuit'.failures = circuit.failures
        /\ circuit'.openedAt = circuit.openedAt /\ ~circuit'.probe
    BY <2>1 DEF CircuitState
  <2> QED
    BY <1>0, <2>1, <2>2, IdleIsState
<1>2. CASE retryable /\ (circuit.probe \/ circuit.failures + 1 >= FailureThreshold)
  <2>1. /\ circuit' = [failures |-> circuit.failures + 1, openedAt |-> clock, probe |-> FALSE]
        /\ groups' = groups + 1
    BY <1>2 DEF GiveUp, RecordFailure
  <2>2. /\ circuit' \in CircuitState /\ circuit'.failures = circuit.failures + 1
        /\ circuit'.openedAt # NotOpened /\ ~circuit'.probe
    BY <1>0, <2>1 DEF CircuitState
  <2> QED
    BY <1>0, <2>1, <2>2, IdleIsState
<1>3. CASE retryable /\ ~circuit.probe /\ ~(circuit.failures + 1 >= FailureThreshold)
  <2>1. circuit' = [circuit EXCEPT !.failures = @ + 1] /\ groups' = groups + 1
    BY <1>3 DEF GiveUp, RecordFailure
  <2>2. /\ circuit' \in CircuitState /\ circuit'.failures = circuit.failures + 1
        /\ circuit'.openedAt = circuit.openedAt /\ ~circuit'.probe
    BY <1>3, <2>1 DEF CircuitState
  <2> QED
    BY <1>0, <1>3, <2>1, <2>2, IdleIsState DEF CircuitState
<1> QED
  BY <1>1, <1>2, <1>3

LEMMA ConnectorStep ==
    ASSUME ConnectorInv, [ConnectorNext]_connectorVars
    PROVE  ConnectorInv'
<1> USE ConnectorConstants
    DEF ConnectorInv, ConnectorTypeOK, QueryKnowsCircuit, BreakerIsSound, ProbeIsUnderWay,
        QueriesAreCounted, OpenMeansOneAttempt, Opened
<1>0. clock \in Nat /\ clock <= MaxClock /\ NotOpened = MaxClock + 1
  BY DEF NotOpened
<1>1. CASE BeginQuery
  <2>1. query = Idle /\ ~query.probe /\ ~circuit.probe
    BY <1>1, IdleIsState DEF BeginQuery
  <2>2. /\ circuit' \in CircuitState /\ circuit'.failures = circuit.failures
        /\ circuit'.openedAt = circuit.openedAt /\ circuit'.probe = Opened
    BY <1>1 DEF BeginQuery, CircuitState
  <2>3. /\ query' = [phase |-> "attempt", attempt |-> 1, most |-> AttemptsOf(Opened),
                     deadline |-> clock + Timeout, wake |-> 0, probe |-> Opened]
        /\ AttemptsOf(Opened) \in Nat /\ (Opened => AttemptsOf(Opened) = 1)
    BY <1>1 DEF BeginQuery, AttemptsOf
  <2>4. /\ query' \in QueryState /\ query'.phase = "attempt" /\ query'.attempt = 1
        /\ query'.most = AttemptsOf(Opened) /\ query'.probe = Opened
    BY <2>3 DEF QueryState
  <2> QED
    BY <1>1, <2>1, <2>2, <2>3, <2>4, IdleIsState DEF BeginQuery
<1>2. CASE Succeed
  <2>1. circuit' \in CircuitState /\ circuit'.failures = 0
        /\ circuit'.openedAt = NotOpened /\ ~circuit'.probe
    BY <1>0, <1>2 DEF Succeed, RecordSuccess, CircuitState
  <2> QED
    BY <1>2, <2>1, IdleIsState DEF Succeed
<1>3. CASE NextAttempt
  <2>0. query.attempt + 1 \in Nat
    BY DEF QueryState
  <2>1. query' \in QueryState /\ query'.phase = "attempt"
    BY <1>3, <2>0 DEF NextAttempt, QueryState
  <2>3. query'.probe = query.probe
    BY <1>3 DEF NextAttempt, QueryState
  <2>2. query # Idle /\ ~query.probe
    BY <1>3, IdleIsState DEF NextAttempt
  <2> QED
    BY <1>3, <2>1, <2>2, <2>3, IdleIsState DEF NextAttempt
<1>4. CASE CancelQuery
  <2>1. /\ circuit' \in CircuitState /\ circuit'.failures = circuit.failures
        /\ circuit'.openedAt = circuit.openedAt /\ ~circuit'.probe
    BY <1>4 DEF CancelQuery, Abandoned, CircuitState
  <2> QED
    BY <1>4, <2>1, IdleIsState DEF CancelQuery
<1>5. CASE ConnectorTick
  BY <1>0, <1>5 DEF ConnectorTick
<1>6. ASSUME NEW error \in {"final", "unexpected", "retryable", "timeout"}, Fail(error)
      PROVE  ConnectorInv'
  <2>1. query.phase = "attempt" /\ clock' = clock
    BY <1>6 DEF Fail
  <2>2. ASSUME NEW retryable \in BOOLEAN, GiveUp(retryable) PROVE ConnectorInv'
    BY <2>1, <2>2, ConnectorGivesUp
  <2>3. ASSUME query.attempt < query.most, NEW delay \in 1..MaxDelay,
               clock + delay < query.deadline,
               query' = [query EXCEPT !.phase = "sleep", !.wake = clock + delay],
               circuit' = WhileRetrying, groups' = groups
        PROVE  ConnectorInv'
    <3>0. clock + delay \in Nat
      BY <1>0
    <3>1. /\ query' \in QueryState /\ query'.phase = "sleep"
          /\ query'.wake = clock + delay /\ query'.deadline = query.deadline
      BY <2>3, <3>0 DEF QueryState
    <3>3. query'.probe = query.probe
      BY <2>3 DEF QueryState
    <3>2. query # Idle /\ ~query.probe /\ ~Opened
      BY <2>1, <2>3, IdleIsState
    <3> QED
      BY <2>1, <2>3, <3>1, <3>2, <3>3, IdleIsState DEF WhileRetrying
  <2> QED
    BY <1>6, <2>2, <2>3 DEF Fail
<1>7. CASE UNCHANGED connectorVars
  BY <1>7 DEF connectorVars
<1> QED
  BY <1>1, <1>2, <1>3, <1>4, <1>5, <1>6, <1>7 DEF ConnectorNext

\* An open circuit lets one attempt of one query through, and counts every query that
\* failed, for any threshold and any number of attempts.
THEOREM BreakerStaysSound == ConnectorSpec => []BreakerIsSound
<1>1. ConnectorInit => ConnectorInv
  <2> SUFFICES ASSUME ConnectorInit PROVE ConnectorInv
    OBVIOUS
  <2>1. /\ circuit \in CircuitState /\ circuit.failures = 0 /\ circuit.openedAt = NotOpened
        /\ ~circuit.probe
    BY ConnectorConstants DEF ConnectorInit, CircuitState, NotOpened
  <2> QED
    BY <2>1, ConnectorConstants, IdleIsState
    DEF ConnectorInit, ConnectorInv, ConnectorTypeOK, QueryKnowsCircuit, BreakerIsSound,
        ProbeIsUnderWay, QueriesAreCounted, OpenMeansOneAttempt, Opened
<1>2. ConnectorInv => BreakerIsSound
  BY DEF ConnectorInv
<1> QED
  BY <1>1, <1>2, ConnectorStep, PTL DEF ConnectorSpec

-----------------------------------------------------------------------------
(* Demo data.                                                               *)
(* An installation owns incidents of its own generation only.               *)

\* The incidents of the installation are of its generation, and gone when it is not
\* active.
InstallationIsCurrent ==
    /\ opened \in Nat
    /\ \A i \in installation.incidents : i.generation = installation.generation
    /\ ~installation.active => installation.incidents = {}

DemoInv == DemoIncidentsAreKnown /\ InstallationIsCurrent

LEMMA StoriesAreIncidents ==
    ASSUME NEW g \in 0..MaxGeneration
    PROVE  Stories(g) \subseteq Incident /\ \A i \in Stories(g) : i.generation = g
BY DEF Stories, Incident

LEMMA DemoStep ==
    ASSUME DemoInv, [DemoNext]_demoVars
    PROVE  DemoInv'
<1> USE DemoConstants DEF DemoInv, DemoIncidentsAreKnown, InstallationIsCurrent
<1> DEFINE Installations == [generation: 0..MaxGeneration, active: BOOLEAN,
                             incidents: SUBSET Incident, workspace: BOOLEAN]
<1>0. installation.generation \in 0..MaxGeneration
  OBVIOUS
<1>1. ASSUME NEW c \in Client, ReadStatus(c) PROVE DemoInv'
  <2>1. seen' \in [Client -> 0..installation.generation]
    BY <1>0, <1>1 DEF ReadStatus
  <2> QED
    BY <1>1, <2>1 DEF ReadStatus
<1>2. ASSUME NEW c \in Client, Initialize(c) PROVE DemoInv'
  <2> DEFINE g == installation.generation + 1
             new == [generation |-> g, active |-> TRUE, incidents |-> Stories(g),
                     workspace |-> TRUE]
  <2>1. g \in 0..MaxGeneration /\ installation' = new
        /\ incidents' = incidents \union Stories(g) /\ seen' = [seen EXCEPT ![c] = g]
        /\ opened' = opened /\ ~installation.active
    BY <1>0, <1>2 DEF Initialize, MayInitialize
  <2>2. Stories(g) \subseteq Incident /\ \A i \in Stories(g) : i.generation = g
    BY <2>1, StoriesAreIncidents
  <2> HIDE DEF g
  <2>3. new \in Installations /\ new.generation = g /\ new.active /\ new.incidents = Stories(g)
    BY <2>1, <2>2
  <2> HIDE DEF new
  <2>4. seen' \in [Client -> 0..g]
    BY <1>0, <2>1 DEF g
  <2>5. \A i \in incidents' : i.generation > 0 => i \in Stories(g)
    BY <2>1
  <2> QED
    BY <2>1, <2>2, <2>3, <2>4, <2>5
<1>3. ASSUME NEW c \in Client, Cleanup(c) PROVE DemoInv'
  <2> DEFINE new == [installation EXCEPT !.active = FALSE, !.incidents = {}]
  <2>1. new \in Installations /\ new.generation = installation.generation
        /\ ~new.active /\ new.incidents = {}
    OBVIOUS
  <2>2. installation' = new /\ incidents' = incidents \ installation.incidents
        /\ UNCHANGED <<opened, seen>>
    BY <1>3 DEF Cleanup, Owned
  <2> HIDE DEF new
  <2> QED
    BY <2>1, <2>2
<1>4. CASE OpenIncident
  <2>1. [generation |-> 0, story |-> opened + 1] \in Incident
    BY DEF Incident
  <2> QED
    BY <1>4, <2>1 DEF OpenIncident
<1>5. ASSUME NEW i \in incidents, DeleteByHand(i) PROVE DemoInv'
  BY <1>5 DEF DeleteByHand
<1>6. CASE UNCHANGED demoVars
  BY <1>6 DEF demoVars
<1> QED
  BY <1>1, <1>2, <1>3, <1>4, <1>5, <1>6 DEF DemoNext

\* A cleanup removes the incidents of the generation that its caller has read and no
\* other, for any number of clients and generations.
THEOREM DemoStaysExact == DemoSpec => DemoIsExact
<1>1. DemoInit => DemoInv
  BY DemoConstants DEF DemoInit, DemoInv, DemoIncidentsAreKnown, InstallationIsCurrent
<1>2. DemoInv /\ [DemoNext]_demoVars =>
        [\A c \in Client :
            Cleanup(c) => \A i \in incidents \ incidents' : i.generation = seen[c]]_demoVars
  BY DEF DemoInv, InstallationIsCurrent, Cleanup, SameGeneration, Owned
<1>3. DemoInv => DemoIncidentsAreKnown
  BY DEF DemoInv
<1> QED
  BY <1>1, <1>2, <1>3, DemoStep, PTL DEF DemoSpec, DemoIsExact, CleanupIsExact

-----------------------------------------------------------------------------
(* Backups.                                                                 *)
(* What was hashed was whole, and what a restore has verified is whole, or  *)
(* was replaced by what is whole.                                           *)

Dump == [by: Creator \union {"none"}, whole: BOOLEAN]

CreatorState ==
    [at: {"idle", "dumping", "dumped", "renamed", "measured", "failing", "removing"}
         \union Ended,
     tmp: Dump, seen: Dump]

RestorerState == [at: {"idle", "verified", "checked", "loading"} \union Ended, loads: Dump]

BackupTypeOK ==
    /\ output \in Dump /\ manifest \in Dump
    /\ creator \in [Creator -> CreatorState] /\ restorer \in [Restorer -> RestorerState]

NoneOrWhole(dump) == dump = NoFile \/ dump.whole

\* What was hashed was whole: nothing is damaged between the renaming and the hash.
HashedWasWhole ==
    /\ NoneOrWhole(manifest)
    /\ \A c \in Creator :
          /\ NoneOrWhole(creator[c].seen)
          /\ creator[c].at = "measured" => creator[c].seen # NoFile
          /\ creator[c].at = "renamed" => NoneOrWhole(output)

\* What a restore has verified, or loads, is whole, whoever has replaced it since, but
\* for damage that came later.
VerifiedIsWhole ==
    \A r \in Restorer \ late :
        /\ restorer[r].at \in {"verified", "checked"} => NoneOrWhole(output)
        /\ restorer[r].at \in {"loading", "done"} => restorer[r].loads.whole

BackupInv == BackupTypeOK /\ HashedWasWhole /\ VerifiedIsWhole /\ LeftOverHasOwner

AtWork == {"renamed", "measured", "failing", "removing", "killed"}

LEMMA CreatorMoves ==
    ASSUME BackupTypeOK, NEW c \in Creator, NEW step, CreatorAt(c, step),
           step \in {"idle", "dumping", "dumped", "renamed", "measured", "failing",
                     "removing"} \union Ended
    PROVE  /\ creator' \in [Creator -> CreatorState]
           /\ creator'[c].at = step /\ creator'[c].tmp = creator[c].tmp
           /\ creator'[c].seen = creator[c].seen
           /\ \A d \in Creator \ {c} : creator'[d] = creator[d]
<1> DEFINE new == [creator[c] EXCEPT !.at = step]
<1>1. creator[c] \in CreatorState
  BY DEF BackupTypeOK
<1>2. new \in CreatorState /\ new.at = step /\ new.tmp = creator[c].tmp
      /\ new.seen = creator[c].seen
  BY <1>1 DEF CreatorState
<1>3. creator' = [creator EXCEPT ![c] = new]
  BY DEF CreatorAt
<1> HIDE DEF new
<1> QED
  BY <1>2, <1>3 DEF BackupTypeOK

LEMMA RestorerMoves ==
    ASSUME BackupTypeOK, NEW r \in Restorer, NEW step, RestorerAt(r, step),
           step \in {"idle", "verified", "checked", "loading"} \union Ended
    PROVE  /\ restorer' \in [Restorer -> RestorerState]
           /\ restorer'[r].at = step /\ restorer'[r].loads = restorer[r].loads
           /\ \A q \in Restorer \ {r} : restorer'[q] = restorer[q]
<1> DEFINE new == [restorer[r] EXCEPT !.at = step]
<1>1. restorer[r] \in RestorerState
  BY DEF BackupTypeOK
<1>2. new \in RestorerState /\ new.at = step /\ new.loads = restorer[r].loads
  BY <1>1 DEF RestorerState
<1>3. restorer' = [restorer EXCEPT ![r] = new]
  BY DEF RestorerAt
<1> HIDE DEF new
<1> QED
  BY <1>2, <1>3 DEF BackupTypeOK

\* An error, a kill, or another step of a create command that touches no shared file.
LEMMA CreatorOnItsOwn ==
    ASSUME BackupInv, NEW c \in Creator, NEW new \in CreatorState,
           creator' = [creator EXCEPT ![c] = new],
           UNCHANGED <<output, manifest, restorer, database, late>>,
           NoneOrWhole(new.seen), new.at = "measured" => new.seen # NoFile,
           new.at = "renamed" => NoneOrWhole(output),
           LeftOver /\ creator[c].at \in AtWork => new.at \in AtWork
    PROVE  BackupInv'
<1>1. creator' \in [Creator -> CreatorState] /\ creator'[c] = new
      /\ \A d \in Creator \ {c} : creator'[d] = creator[d]
  BY DEF BackupInv, BackupTypeOK
<1>2. BackupTypeOK' /\ VerifiedIsWhole'
  BY <1>1 DEF BackupInv, BackupTypeOK, VerifiedIsWhole, NoneOrWhole
<1>3. HashedWasWhole'
  BY <1>1 DEF BackupInv, HashedWasWhole, NoneOrWhole
<1>4. LeftOverHasOwner'
  BY <1>1 DEF BackupInv, LeftOverHasOwner, LeftOver, AtWork
<1> QED
  BY <1>2, <1>3, <1>4 DEF BackupInv

LEMMA CreatorStep ==
    ASSUME BackupInv, NEW c \in Creator,
           \/ StartCreate(c) \/ EndDump(c) \/ Measure(c) \/ FailCreate(c)
           \/ LookForLeftOver(c) \/ KillCreate(c)
    PROVE  BackupInv'
<1>0. /\ creator[c] \in CreatorState /\ NoneOrWhole(creator[c].seen) /\ BackupTypeOK
      /\ output \in Dump /\ NoFile \in Dump
  BY DEF BackupInv, BackupTypeOK, HashedWasWhole, NoFile, Dump
<1>1. ASSUME NEW step \in {"dumping", "failed", "removing", "killed"},
             CreatorAt(c, step), UNCHANGED <<output, manifest, restorer, database, late>>,
             LeftOver /\ creator[c].at \in AtWork => step \in AtWork
      PROVE  BackupInv'
  <2> DEFINE new == [creator[c] EXCEPT !.at = step]
  <2>1. new \in CreatorState /\ new.at = step /\ new.seen = creator[c].seen
    BY <1>0 DEF CreatorState, Ended
  <2>2. creator' = [creator EXCEPT ![c] = new]
    BY <1>1 DEF CreatorAt
  <2> HIDE DEF new
  <2> QED
    BY <1>0, <1>1, <2>1, <2>2, CreatorOnItsOwn
<1>2. CASE StartCreate(c)
  <2>1. creator[c].at \notin AtWork
    BY <1>2 DEF StartCreate, AtWork
  <2> QED
    BY <1>1, <1>2, <2>1 DEF StartCreate
<1>3. CASE EndDump(c)
  <2>1. PICK whole \in BOOLEAN :
          creator' = [creator EXCEPT ![c].at = "dumped", ![c].tmp = [by |-> c, whole |-> whole]]
    BY <1>3 DEF EndDump
  <2> DEFINE new == [creator[c] EXCEPT !.at = "dumped", !.tmp = [by |-> c, whole |-> whole]]
  <2>2. [by |-> c, whole |-> whole] \in Dump
    BY DEF Dump
  <2>3. new \in CreatorState /\ new.at = "dumped" /\ new.seen = creator[c].seen
    BY <1>0, <2>2 DEF CreatorState
  <2>4. creator' = [creator EXCEPT ![c] = new] /\ creator[c].at \notin AtWork
    BY <1>3, <2>1 DEF EndDump, AtWork
  <2> HIDE DEF new
  <2> QED
    BY <1>0, <1>3, <2>3, <2>4, CreatorOnItsOwn DEF EndDump
<1>4. CASE Measure(c)
  <2> DEFINE new == [creator[c] EXCEPT !.at = "measured", !.seen = output]
  <2>1. new \in CreatorState /\ new.at = "measured" /\ new.seen = output
    BY <1>0 DEF CreatorState
  <2>2. creator' = [creator EXCEPT ![c] = new] /\ output # NoFile /\ NoneOrWhole(output)
    BY <1>4 DEF Measure, BackupInv, HashedWasWhole
  <2> HIDE DEF new
  <2> QED
    BY <1>0, <1>4, <2>1, <2>2, CreatorOnItsOwn DEF Measure, AtWork
<1>5. CASE FailCreate(c)
  <2> DEFINE new == [creator[c] EXCEPT !.at = "failing", !.tmp = NoFile]
  <2>1. new \in CreatorState /\ new.at = "failing" /\ new.seen = creator[c].seen
    BY <1>0 DEF CreatorState
  <2>2. creator' = [creator EXCEPT ![c] = new]
    BY <1>5 DEF FailCreate
  <2> HIDE DEF new
  <2> QED
    BY <1>0, <1>5, <2>1, <2>2, CreatorOnItsOwn DEF FailCreate, AtWork
<1>6. CASE LookForLeftOver(c)
  BY <1>1, <1>6 DEF LookForLeftOver, LeftToRemove, AtWork
<1>7. CASE KillCreate(c)
  BY <1>1, <1>7 DEF KillCreate, AtWork
<1> QED
  BY <1>2, <1>3, <1>4, <1>5, <1>6, <1>7

LEMMA FileStep ==
    ASSUME BackupInv, NEW c \in Creator,
           Rename(c) \/ WriteBackupManifest(c) \/ RemoveLeftOver(c)
    PROVE  BackupInv'
<1>0. /\ creator[c] \in CreatorState /\ NoneOrWhole(creator[c].seen) /\ BackupTypeOK
      /\ NoFile \in Dump
  BY DEF BackupInv, BackupTypeOK, HashedWasWhole, NoFile, Dump
<1>1. CASE Rename(c)
  <2> DEFINE new == [creator[c] EXCEPT !.at = "renamed", !.tmp = NoFile]
  <2>1. new \in CreatorState /\ new.at = "renamed" /\ new.seen = creator[c].seen
    BY <1>0 DEF CreatorState
  <2>2. creator' = [creator EXCEPT ![c] = new]
    BY <1>1 DEF Rename
  <2> HIDE DEF new
  <2>3. output' \in Dump /\ output'.whole
    BY <1>0, <1>1 DEF Rename, Dumped, CreatorState
  <2>4. creator' \in [Creator -> CreatorState] /\ creator'[c] = new
        /\ \A d \in Creator \ {c} : creator'[d] = creator[d]
    BY <1>0, <2>1, <2>2 DEF BackupTypeOK
  <2>5. BackupTypeOK' /\ VerifiedIsWhole'
    BY <1>1, <2>3, <2>4 DEF Rename, BackupInv, BackupTypeOK, VerifiedIsWhole, NoneOrWhole
  <2>6. HashedWasWhole'
    BY <1>0, <1>1, <2>1, <2>3, <2>4 DEF Rename, BackupInv, HashedWasWhole, NoneOrWhole
  <2>7. LeftOverHasOwner'
    BY <2>1, <2>4 DEF LeftOverHasOwner
  <2> QED
    BY <2>5, <2>6, <2>7 DEF BackupInv
<1>2. CASE WriteBackupManifest(c)
  <2>1. /\ creator' \in [Creator -> CreatorState]
        /\ creator'[c].at = "done" /\ creator'[c].seen = creator[c].seen
        /\ \A d \in Creator \ {c} : creator'[d] = creator[d]
    BY <1>0, <1>2, CreatorMoves DEF WriteBackupManifest, Ended
  <2>2. manifest' = creator[c].seen /\ manifest' \in Dump /\ NoneOrWhole(manifest')
        /\ manifest' # NoFile
    BY <1>0, <1>2 DEF WriteBackupManifest, CreatorState, BackupInv, HashedWasWhole
  <2>3. BackupTypeOK' /\ VerifiedIsWhole'
    BY <1>2, <2>1, <2>2
    DEF WriteBackupManifest, BackupInv, BackupTypeOK, VerifiedIsWhole, NoneOrWhole
  <2>4. HashedWasWhole'
    BY <1>0, <1>2, <2>1, <2>2
    DEF WriteBackupManifest, BackupInv, HashedWasWhole, NoneOrWhole
  <2>5. LeftOverHasOwner'
    BY <2>2 DEF LeftOverHasOwner, LeftOver, NoFile
  <2> QED
    BY <2>3, <2>4, <2>5 DEF BackupInv
<1>3. CASE RemoveLeftOver(c)
  <2>1. /\ creator' \in [Creator -> CreatorState]
        /\ creator'[c].at = "failed" /\ creator'[c].seen = creator[c].seen
        /\ \A d \in Creator \ {c} : creator'[d] = creator[d]
    BY <1>0, <1>3, CreatorMoves DEF RemoveLeftOver, Ended
  <2>2. BackupTypeOK' /\ VerifiedIsWhole'
    BY <1>0, <1>3, <2>1
    DEF RemoveLeftOver, BackupInv, BackupTypeOK, VerifiedIsWhole, NoneOrWhole, NoFile
  <2>3. HashedWasWhole'
    BY <1>0, <1>3, <2>1
    DEF RemoveLeftOver, BackupInv, HashedWasWhole, NoneOrWhole, NoFile
  <2>4. LeftOverHasOwner'
    BY <1>3 DEF RemoveLeftOver, LeftOverHasOwner, LeftOver, NoFile
  <2> QED
    BY <2>2, <2>3, <2>4 DEF BackupInv
<1> QED
  BY <1>1, <1>2, <1>3

LEMMA RestorerStep ==
    ASSUME BackupInv, NEW r \in Restorer,
           \/ StartRestore(r) \/ CheckEmpty(r) \/ BeginLoad(r) \/ EndLoad(r)
           \/ FailRestore(r)
    PROVE  BackupInv'
<1>0. BackupTypeOK /\ output \in Dump /\ UNCHANGED <<output, manifest, creator, late>>
  BY DEF BackupInv, BackupTypeOK, StartRestore, CheckEmpty, BeginLoad, EndLoad, FailRestore
<1>1. ASSUME restorer' \in [Restorer -> RestorerState],
             \A q \in Restorer \ {r} : restorer'[q] = restorer[q],
             r \notin late =>
                /\ restorer'[r].at \in {"verified", "checked"} => NoneOrWhole(output)
                /\ restorer'[r].at \in {"loading", "done"} => restorer'[r].loads.whole
      PROVE  BackupInv'
  <2>1. BackupTypeOK' /\ HashedWasWhole' /\ LeftOverHasOwner'
    BY <1>0, <1>1 DEF BackupInv, BackupTypeOK, HashedWasWhole, LeftOverHasOwner, LeftOver,
                      NoneOrWhole
  <2>2. VerifiedIsWhole'
    BY <1>0, <1>1 DEF BackupInv, VerifiedIsWhole, NoneOrWhole
  <2> QED
    BY <2>1, <2>2 DEF BackupInv
<1>2. CASE StartRestore(r)
  <2>1. Verified => NoneOrWhole(output)
    BY DEF Verified, BackupInv, HashedWasWhole
  <2> QED
    BY <1>0, <1>1, <1>2, <2>1, RestorerMoves DEF StartRestore, Ended
<1>3. CASE CheckEmpty(r)
  <2>1. r \notin late => NoneOrWhole(output)
    BY <1>3 DEF CheckEmpty, BackupInv, VerifiedIsWhole
  <2> QED
    BY <1>0, <1>1, <1>3, <2>1, RestorerMoves DEF CheckEmpty, Ended
<1>4. CASE BeginLoad(r)
  <2>1. r \notin late => output.whole
    BY <1>4 DEF BeginLoad, BackupInv, VerifiedIsWhole, NoneOrWhole
  <2>2. CASE database = "empty"
    <3> DEFINE new == [at |-> "loading", loads |-> output]
    <3>1. new \in RestorerState /\ new.at = "loading" /\ new.loads = output
      BY <1>0 DEF RestorerState
    <3>2. restorer' = [restorer EXCEPT ![r] = new]
      BY <1>4, <2>2 DEF BeginLoad
    <3> HIDE DEF new
    <3> QED
      BY <1>0, <1>1, <2>1, <3>1, <3>2 DEF BackupTypeOK
  <2>3. CASE database # "empty"
    BY <1>0, <1>1, <1>4, <2>3, RestorerMoves DEF BeginLoad, Ended
  <2> QED
    BY <2>2, <2>3
<1>5. CASE EndLoad(r)
  <2>1. r \notin late => restorer[r].loads.whole
    BY <1>5 DEF EndLoad, BackupInv, VerifiedIsWhole
  <2> QED
    BY <1>0, <1>1, <1>5, <2>1, RestorerMoves DEF EndLoad, Ended
<1>6. CASE FailRestore(r)
  BY <1>0, <1>1, <1>6, RestorerMoves DEF FailRestore, Ended
<1> QED
  BY <1>2, <1>3, <1>4, <1>5, <1>6

LEMMA DamageStep ==
    ASSUME BackupInv, Damage
    PROVE  BackupInv'
<1>1. output.whole /\ output # NoFile
  BY DEF Damage, NoFile
<1>2. /\ output' \in Dump /\ UNCHANGED <<manifest, creator, restorer>>
      /\ \A r \in Restorer \ late' :
            r \notin late /\ restorer[r].at \notin {"verified", "checked"}
  BY DEF Damage, BackupInv, BackupTypeOK, Dump
<1>3. BackupTypeOK' /\ VerifiedIsWhole'
  BY <1>2 DEF BackupInv, BackupTypeOK, VerifiedIsWhole
<1>4. HashedWasWhole' /\ LeftOverHasOwner'
  BY <1>1, <1>2
  DEF Damage, BackupInv, HashedWasWhole, NoneOrWhole, LeftOverHasOwner, LeftOver
<1> QED
  BY <1>3, <1>4 DEF BackupInv

\* What is verified or loaded is a whole dump, and what is left over has an owner, for
\* any number of backups and restores of one file at the same time.
THEOREM BackupsStaySound == BackupInit /\ [][BackupNext]_backupVars => []BackupsAreSound
<1>1. BackupInit => BackupInv
  <2> SUFFICES ASSUME BackupInit PROVE BackupInv
    OBVIOUS
  <2>1. NoFile \in Dump
    BY DEF NoFile, Dump
  <2>2. /\ output = NoFile /\ manifest = NoFile /\ late = {}
        /\ creator = [c \in Creator |-> [at |-> "idle", tmp |-> NoFile, seen |-> NoFile]]
        /\ restorer = [r \in Restorer |-> [at |-> "idle", loads |-> NoFile]]
    BY DEF BackupInit
  <2>3. /\ BackupTypeOK
        /\ \A c \in Creator : creator[c].at = "idle" /\ creator[c].seen = NoFile
        /\ \A r \in Restorer : restorer[r].at = "idle"
    BY <2>1, <2>2 DEF BackupTypeOK, CreatorState, RestorerState
  <2> QED
    BY <2>2, <2>3
    DEF BackupInv, HashedWasWhole, VerifiedIsWhole, LeftOverHasOwner, LeftOver, NoneOrWhole
<1>2. BackupInv /\ [BackupNext]_backupVars => BackupInv'
  <2> SUFFICES ASSUME BackupInv, [BackupNext]_backupVars PROVE BackupInv'
    OBVIOUS
  <2>1. CASE UNCHANGED backupVars
    BY <2>1 DEF backupVars, BackupInv, BackupTypeOK, HashedWasWhole, VerifiedIsWhole,
                LeftOverHasOwner, LeftOver, NoneOrWhole
  <2> QED
    BY <2>1, CreatorStep, FileStep, RestorerStep, DamageStep DEF BackupNext
<1>3. BackupInv => BackupsAreSound
  BY DEF BackupInv, BackupsAreSound, VerifiedIsWhole, RestoredWasWhole
<1> QED
  BY <1>1, <1>2, <1>3, PTL

-----------------------------------------------------------------------------
(* Fault lab.                                                               *)
(* One caller is inside, with a key that was not used yet, and what was     *)
(* answered is in effect or in doubt.                                       *)

CallState == [at: {"idle", "waiting", "calling", "answered"}, key: Key \union {"none"},
              request: Mutation \union {NoMutation}]

LabTypeOK ==
    /\ active \subseteq Scenario /\ inEffect \subseteq Scenario /\ doubt \subseteq Scenario
    /\ replays \in [Key -> Mutation \union {NoMutation}]
    /\ calls \in [User -> CallState] /\ worked \in [Key -> {0, 1}]
    /\ givenUp \subseteq Mutation
    /\ \A c \in User : calls[c].at # "idle" => calls[c].key \in Key
                                               /\ calls[c].request \in Mutation

\* One caller is inside, with a key that was not used yet.
OneIsInside ==
    /\ \A c, d \in User : Inside(c) /\ Inside(d) => c = d
    /\ \A c \in User : Inside(c) => replays[calls[c].key] = NoMutation

WorkIsReplayed == \A k \in Key : worked[k] = 1 => replays[k] # NoMutation

\* What was answered is in effect, or in doubt.
AnswerIsTrue ==
    \A c \in User :
        LET s == calls[c].request.scenario
        IN  calls[c].at = "answered" /\ s \notin doubt
            => (calls[c].request.inject <=> s \in inEffect)

\* Before the process serves nobody calls, and no fault that is cleared, or ends with
\* the process, is in effect.
StartIsClear ==
    ~started => /\ active = {} /\ \A c \in User : calls[c].at = "idle"
                /\ \A s \in Scenario \ doubt :
                      s \in cleared \/ s \notin Remote => s \notin inEffect

LateIsRemote == \A request \in givenUp : request.scenario \in Remote

LabInv ==
    /\ LabTypeOK /\ OneIsInside /\ WorkIsReplayed /\ AnswerIsTrue /\ StartIsClear
    /\ LateIsRemote /\ ActiveIsInEffect

LEMMA NobodyIsState == Nobody \in CallState /\ Nobody.at = "idle"
BY DEF Nobody, CallState

\* A caller that is not inside, and comes to no answer.
LEMMA CallerMoves ==
    ASSUME LabInv, NEW c \in User, ~Inside(c), NEW new \in CallState,
           calls' = [calls EXCEPT ![c] = new],
           UNCHANGED <<active, replays, inEffect, givenUp, cleared, started, doubt, worked>>,
           started, new.at # "answered",
           new.at # "idle" => new.key \in Key /\ new.request \in Mutation,
           new.at = "calling" => /\ replays[new.key] = NoMutation
                                 /\ \A d \in User : ~Inside(d)
    PROVE  LabInv'
<1>1. /\ calls' \in [User -> CallState] /\ calls'[c] = new
      /\ \A d \in User \ {c} : calls'[d] = calls[d]
  BY DEF LabInv, LabTypeOK
<1>2. LabTypeOK' /\ WorkIsReplayed' /\ StartIsClear' /\ LateIsRemote'
  BY <1>1 DEF LabInv, LabTypeOK, WorkIsReplayed, StartIsClear, LateIsRemote
<1>3. OneIsInside'
  BY <1>1 DEF LabInv, OneIsInside, Inside
<1>4. AnswerIsTrue'
  BY <1>1 DEF LabInv, AnswerIsTrue
<1>5. ActiveIsInEffect'
  BY <1>1 DEF LabInv, ActiveIsInEffect, Inside
<1> QED
  BY <1>2, <1>3, <1>4, <1>5 DEF LabInv

LEMMA AskStep ==
    ASSUME LabInv, NEW c \in User, NEW k \in Key, NEW request \in Mutation,
           Ask(c, k, request)
    PROVE  LabInv'
<1> DEFINE new == [at |-> "waiting", key |-> k, request |-> request]
<1>1. new \in CallState /\ new.at = "waiting" /\ new.key = k /\ new.request = request
  BY DEF CallState
<1>2. calls' = [calls EXCEPT ![c] = new] /\ ~Inside(c)
  BY DEF Ask, Inside
<1> HIDE DEF new
<1> QED
  BY <1>1, <1>2, CallerMoves DEF Ask

LEMMA EnterStep ==
    ASSUME LabInv, NEW c \in User, Enter(c)
    PROVE  LabInv'
<1>0. /\ calls[c] \in CallState /\ calls[c].at = "waiting" /\ ~Inside(c) /\ started
      /\ calls[c].key \in Key /\ calls[c].request \in Mutation
  BY DEF LabInv, LabTypeOK, Enter, Inside, StartIsClear
<1>1. CASE replays[calls[c].key] = NoMutation
  <2> DEFINE new == [calls[c] EXCEPT !.at = "calling"]
  <2>1. /\ new \in CallState /\ new.at = "calling" /\ new.key = calls[c].key
        /\ new.request = calls[c].request
    BY <1>0 DEF CallState
  <2>2. calls' = [calls EXCEPT ![c] = new]
    BY <1>1 DEF Enter
  <2> HIDE DEF new
  <2> QED
    BY <1>0, <1>1, <2>1, <2>2, CallerMoves DEF Enter, MayEnter
<1>2. CASE replays[calls[c].key] # NoMutation
  <2>1. calls' = [calls EXCEPT ![c] = Nobody]
    BY <1>2 DEF Enter
  <2> QED
    BY <1>0, <2>1, NobodyIsState, CallerMoves DEF Enter
<1> QED
  BY <1>1, <1>2

LEMMA SwitchedHas ==
    ASSUME NEW set, NEW s, NEW on \in BOOLEAN
    PROVE  /\ s \in Switched(set, s, on) <=> on
           /\ \A t : t # s => (t \in Switched(set, s, on) <=> t \in set)
BY DEF Switched

LEMMA TakeEffectStep ==
    ASSUME LabInv, NEW c \in User, TakeEffect(c)
    PROVE  LabInv'
<1> DEFINE s == calls[c].request.scenario  on == calls[c].request.inject
<1>0. /\ calls[c] \in CallState /\ calls[c].at = "calling" /\ Inside(c) /\ started
      /\ calls[c].key \in Key /\ calls[c].request \in Mutation
      /\ s \in Scenario /\ on \in BOOLEAN
  BY DEF LabInv, LabTypeOK, TakeEffect, Inside, StartIsClear, Mutation
<1> DEFINE new == [calls[c] EXCEPT !.at = "answered"]
<1>1. /\ new \in CallState /\ new.at = "answered" /\ new.key = calls[c].key
      /\ new.request = calls[c].request
  BY <1>0 DEF CallState
<1>2. calls' = [calls EXCEPT ![c] = new]
  BY DEF TakeEffect
<1> HIDE DEF new
<1>3. /\ calls' \in [User -> CallState] /\ calls'[c] = new
      /\ \A d \in User \ {c} : calls'[d] = calls[d] /\ calls[d].at # "answered"
                               /\ ~Inside(d)
  BY <1>0, <1>2, <1>1 DEF LabInv, LabTypeOK, OneIsInside, Inside
<1>4. /\ inEffect' = Switched(inEffect, s, on) /\ doubt' = doubt \ {s}
      /\ UNCHANGED <<active, replays, givenUp, cleared, started, worked>>
  BY DEF TakeEffect
<1> HIDE DEF s, on
<1>5. (s \in inEffect' <=> on) /\ \A t \in Scenario \ {s} : t \in inEffect' <=> t \in inEffect
  BY <1>0, <1>4, SwitchedHas
<1>6. LabTypeOK'
  BY <1>0, <1>1, <1>3, <1>4 DEF LabInv, LabTypeOK, Switched
<1>7. OneIsInside' /\ WorkIsReplayed' /\ LateIsRemote' /\ StartIsClear'
  BY <1>0, <1>1, <1>3, <1>4
  DEF LabInv, OneIsInside, WorkIsReplayed, LateIsRemote, StartIsClear, Inside
<1>8. AnswerIsTrue'
  BY <1>1, <1>3, <1>5 DEF AnswerIsTrue, s, on
<1>9. Inside(c)' /\ calls'[c].request.scenario = s
  BY <1>1, <1>3 DEF Inside, s
<1>10. ASSUME NEW t \in Scenario, t \notin doubt',
              \A d \in User : ~(Inside(d) /\ calls[d].request.scenario = t)'
       PROVE  t \in active' <=> t \in inEffect'
  <2>1. t # s
    BY <1>9, <1>10
  <2>2. \A d \in User : ~(Inside(d) /\ calls[d].request.scenario = t)
    BY <1>3, <2>1 DEF s
  <2> QED
    BY <1>0, <1>4, <1>5, <1>10, <2>1, <2>2 DEF LabInv, ActiveIsInEffect
<1>11. ActiveIsInEffect'
  BY <1>10 DEF ActiveIsInEffect
<1> QED
  BY <1>6, <1>7, <1>8, <1>11 DEF LabInv

LEMMA AnswerStep ==
    ASSUME LabInv, NEW c \in User, Finish(c)
    PROVE  LabInv'
<1> DEFINE s == calls[c].request.scenario  on == calls[c].request.inject
           k == calls[c].key
<1>0. /\ calls[c] \in CallState /\ calls[c].at = "answered" /\ Inside(c) /\ started
      /\ k \in Key /\ calls[c].request \in Mutation
      /\ s \in Scenario /\ on \in BOOLEAN
  BY DEF LabInv, LabTypeOK, Finish, Inside, StartIsClear, Mutation
<1>1. calls[c].request # NoMutation
  BY <1>0, LabConstants DEF NoMutation, Scenario, Local
<1>2. /\ calls' \in [User -> CallState] /\ calls'[c] = Nobody /\ ~Inside(c)'
      /\ \A d \in User \ {c} : calls'[d] = calls[d] /\ ~Inside(d)
  BY <1>0, NobodyIsState DEF LabInv, LabTypeOK, OneIsInside, Inside, Finish
<1>3. /\ active' = Switched(active, s, on)
      /\ replays' = [replays EXCEPT ![k] = calls[c].request]
      /\ worked' = [worked EXCEPT ![k] = IF @ = 2 THEN 2 ELSE @ + 1]
      /\ UNCHANGED <<inEffect, givenUp, cleared, started, doubt>>
  BY DEF Finish
<1>4. /\ replays' \in [Key -> Mutation \union {NoMutation}] /\ replays'[k] # NoMutation
      /\ \A l \in Key \ {k} : replays'[l] = replays[l]
  BY <1>0, <1>1, <1>3 DEF LabInv, LabTypeOK
<1>5. worked[k] = 0
  BY <1>0 DEF LabInv, LabTypeOK, OneIsInside, WorkIsReplayed
<1>6. /\ worked' \in [Key -> {0, 1}] /\ \A l \in Key \ {k} : worked'[l] = worked[l]
  BY <1>0, <1>3, <1>5 DEF LabInv, LabTypeOK
<1>7. /\ active' \subseteq Scenario /\ (s \in active' <=> on)
      /\ \A t \in Scenario \ {s} : t \in active' <=> t \in active
  <2> HIDE DEF s, on
  <2> QED
    BY <1>0, <1>3, SwitchedHas DEF LabInv, LabTypeOK, Switched
<1>8. LabTypeOK'
  BY <1>2, <1>3, <1>4, <1>6, <1>7, NobodyIsState DEF LabInv, LabTypeOK
<1>9. OneIsInside' /\ WorkIsReplayed' /\ LateIsRemote' /\ StartIsClear'
  BY <1>0, <1>2, <1>3, <1>4, <1>6
  DEF LabInv, OneIsInside, WorkIsReplayed, LateIsRemote, StartIsClear, Inside
<1>10. AnswerIsTrue'
  BY <1>2, <1>3, NobodyIsState DEF LabInv, AnswerIsTrue
<1>11. s \notin doubt => (on <=> s \in inEffect)
  BY <1>0 DEF LabInv, AnswerIsTrue
<1> HIDE DEF s, on, k
<1>12. ASSUME NEW t \in Scenario, t \notin doubt
       PROVE  t \in active' <=> t \in inEffect
  <2>1. CASE t = s
    BY <1>7, <1>11, <1>12, <2>1
  <2>2. CASE t # s
    <3>1. \A d \in User : ~(Inside(d) /\ calls[d].request.scenario = t)
      BY <1>2, <2>2 DEF s
    <3> QED
      BY <1>0, <1>7, <1>12, <2>2, <3>1 DEF LabInv, ActiveIsInEffect
  <2> QED
    BY <2>1, <2>2
<1>13. ActiveIsInEffect'
  BY <1>3, <1>12 DEF ActiveIsInEffect
<1> QED
  BY <1>8, <1>9, <1>10, <1>13 DEF LabInv

LEMMA CallFailsStep ==
    ASSUME LabInv, NEW c \in User, CallFails(c)
    PROVE  LabInv'
<1> DEFINE s == calls[c].request.scenario
<1>0. /\ Inside(c) /\ started /\ calls[c].request \in Mutation /\ s \in Scenario
  BY DEF LabInv, LabTypeOK, CallFails, Inside, StartIsClear, Mutation
<1>1. /\ calls' \in [User -> CallState] /\ calls'[c] = Nobody /\ ~Inside(c)'
      /\ \A d \in User \ {c} : calls'[d] = calls[d] /\ ~Inside(d)
  BY <1>0, NobodyIsState DEF LabInv, LabTypeOK, OneIsInside, Inside, CallFails
<1>2. /\ doubt' = doubt \union {s} /\ UNCHANGED <<active, replays, inEffect, cleared>>
      /\ UNCHANGED <<started, worked>>
      /\ givenUp' \subseteq Mutation /\ LateIsRemote'
  BY <1>0 DEF CallFails, LabInv, LabTypeOK, LateIsRemote
<1>3. LabTypeOK'
  BY <1>0, <1>1, <1>2, NobodyIsState DEF LabInv, LabTypeOK
<1>4. OneIsInside' /\ WorkIsReplayed' /\ StartIsClear'
  BY <1>0, <1>1, <1>2 DEF LabInv, OneIsInside, WorkIsReplayed, StartIsClear, Inside
<1>5. AnswerIsTrue'
  BY <1>1, <1>2, NobodyIsState DEF LabInv, AnswerIsTrue
<1>6. ActiveIsInEffect'
  <2> SUFFICES ASSUME NEW t \in Scenario, t \notin doubt' PROVE t \in active <=> t \in inEffect
    BY <1>2 DEF ActiveIsInEffect
  <2>1. \A d \in User : ~(Inside(d) /\ calls[d].request.scenario = t)
    BY <1>1, <1>2
  <2> QED
    BY <1>0, <1>2, <2>1 DEF LabInv, ActiveIsInEffect
<1> QED
  BY <1>2, <1>3, <1>4, <1>5, <1>6 DEF LabInv

LEMMA LabStep ==
    ASSUME LabInv, [LabNext]_labVars
    PROVE  LabInv'
<1> USE DEF LabInv, LabTypeOK, OneIsInside, WorkIsReplayed, AnswerIsTrue, StartIsClear,
            LateIsRemote, ActiveIsInEffect, Inside
<1>1. ASSUME NEW s \in Remote, ClearFault(s) PROVE LabInv'
  BY <1>1 DEF ClearFault, Scenario
<1>2. ASSUME NEW s \in Remote, ClearFails(s) PROVE LabInv'
  <2>1. inEffect' \subseteq inEffect
    BY <1>2 DEF ClearFails
  <2> QED
    BY <1>2, <2>1 DEF ClearFails
<1>3. CASE StartServing
  BY <1>3 DEF StartServing, ToClear
<1>4. CASE LateEffect
  <2>1. PICK request \in givenUp :
          /\ inEffect' = Switched(inEffect, request.scenario, request.inject)
          /\ givenUp' = givenUp \ {request}
          /\ doubt' = doubt \cup {request.scenario}
          /\ UNCHANGED <<active, replays, calls, cleared, started, worked>>
    BY <1>4 DEF LateEffect
  <2> DEFINE s == request.scenario
  <2>2. s \in Scenario /\ s \in Remote /\ request.inject \in BOOLEAN
    BY <2>1 DEF Mutation
  <2>3. inEffect' \subseteq Scenario
        /\ \A t \in Scenario \ doubt' : t \in inEffect' <=> t \in inEffect
    BY <2>1, <2>2, SwitchedHas DEF Switched
  <2>4. LabTypeOK' /\ OneIsInside' /\ WorkIsReplayed' /\ LateIsRemote' /\ StartIsClear'
    BY <2>1, <2>2, <2>3
  <2>5. AnswerIsTrue'
    BY <2>1, <2>3 DEF Mutation
  <2>6. ActiveIsInEffect'
    BY <2>1, <2>3
  <2> QED
    BY <2>4, <2>5, <2>6
<1>5. CASE Stop
  <2>1. /\ calls' \in [User -> CallState] /\ \A c \in User : calls'[c] = Nobody
        /\ replays' \in [Key -> Mutation \union {NoMutation}]
        /\ worked' \in [Key -> {0, 1}] /\ \A k \in Key : worked'[k] = 0
    BY <1>5, NobodyIsState DEF Stop
  <2> QED
    BY <1>5, <2>1, NobodyIsState DEF Stop, Scenario
<1>6. CASE UNCHANGED labVars
  BY <1>6 DEF labVars
<1> QED
  BY <1>1, <1>2, <1>3, <1>4, <1>5, <1>6, AskStep, EnterStep, TakeEffectStep, AnswerStep,
     CallFailsStep DEF LabNext

\* Under any sequence of calls, retries, failures and restarts, a key is worked once and
\* the lab knows of every fault in effect that is not in doubt.
THEOREM FaultsStayKnown == LabInit /\ [][LabNext]_labVars => []FaultsAreKnown
<1>1. LabInit => LabInv
  <2> SUFFICES ASSUME LabInit PROVE LabInv
    OBVIOUS
  <2>1. /\ calls \in [User -> CallState] /\ \A c \in User : calls[c] = Nobody
        /\ replays \in [Key -> Mutation \union {NoMutation}]
        /\ worked \in [Key -> {0, 1}] /\ \A k \in Key : worked[k] = 0
    BY NobodyIsState DEF LabInit
  <2> QED
    BY <2>1, NobodyIsState
    DEF LabInit, LabInv, LabTypeOK, OneIsInside, WorkIsReplayed, AnswerIsTrue, StartIsClear,
        LateIsRemote, ActiveIsInEffect, Inside, Scenario
<1>2. LabInv => FaultsAreKnown
  BY DEF LabInv, LabTypeOK, FaultsAreKnown, OneWorkPerKey
<1> QED
  BY <1>1, <1>2, LabStep, PTL
=============================================================================
