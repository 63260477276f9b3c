-------------------------------- MODULE Access --------------------------------
(***************************************************************************)
(* Principals and browser sessions.  A request is one transaction, but it  *)
(* reads the credential it comes with before it takes any lock, so between *)
(* that and its commit other requests change what it has read.  The cookie *)
(* of a refresh is such a read: the row is read again FOR UPDATE, but the  *)
(* session keeps the attributes it has loaded.                             *)
(*                                                                         *)
(* Rotation and deactivation lock the row of the principal, and            *)
(* deactivation the row of the setup before it; both revoke the sessions   *)
(* that they find open.                                                    *)
(***************************************************************************)
EXTENDS Naturals, FiniteSets, Sequences

CONSTANTS
    Principal,    \* principals that can be created
    TokenTTL,     \* principal_token_ttl_seconds
    SessionTTL,   \* browser_session_ttl_seconds
    AbsoluteTTL,  \* browser_session_absolute_ttl_seconds
    MaxTime,      \* bound: time
    MaxSessions,  \* bound: sessions that are created
    MaxFlight,    \* bound: requests at a time
    MaxEpoch      \* bound: tokens of one principal

ASSUME AccessConstants ==
    /\ TokenTTL \in Nat /\ SessionTTL \in Nat /\ AbsoluteTTL \in Nat
    /\ MaxTime \in Nat /\ MaxSessions \in Nat /\ MaxFlight \in Nat
    /\ MaxEpoch \in Nat \ {0}

VARIABLES
    now,         \* time
    setup,       \* completed_at of the initial Admin setup is set
    principals,  \* api_principals
    sessions,    \* browser_sessions, in the order they were created
    flight       \* requests between their authentication and their commit

accessVars == <<now, setup, principals, sessions, flight>>

PrincipalRow == [state: {"none", "active", "inactive"}, admin: BOOLEAN,
                 epoch: 0..MaxEpoch, expires: Nat, bootstrapped: BOOLEAN]

NewPrincipal(admin, bootstrapped) ==
    [state |-> "active", admin |-> admin, epoch |-> 1, expires |-> now + TokenTTL,
     bootstrapped |-> bootstrapped]

\* overlapped marks a request, and the session it makes, that was under way when
\* what it had read was revoked.
Request == [kind: {"bootstrap"}, n: Nat]
     \union [kind: {"login"}, who: Principal, epoch: 1..MaxEpoch, overlapped: BOOLEAN]
     \union [kind: {"refresh"}, of: 1..MaxSessions, overlapped: BOOLEAN, n: Nat]
     \union [kind: {"rotate", "deactivate"}, who: Principal, seen: SUBSET (1..MaxSessions),
             live: BOOLEAN]

SessionRow == [owner: Principal, epoch: 1..MaxEpoch, login: Nat, born: Nat,
               expires: Nat, absolute: Nat, open: BOOLEAN, overlapped: BOOLEAN]

AccessInit ==
    /\ now = 0 /\ setup = FALSE /\ sessions = <<>> /\ flight = {}
    /\ principals = [p \in Principal |->
           [state |-> "none", admin |-> FALSE, epoch |-> 0, expires |-> 0,
            bootstrapped |-> FALSE]]

-----------------------------------------------------------------------------
(* What the tables say *)

TokenIsLive(p) == principals[p].state = "active" /\ principals[p].expires > now

LiveAdmin(p) == TokenIsLive(p) /\ principals[p].admin

SessionIsLive(s) ==
    sessions[s].open /\ sessions[s].expires > now /\ sessions[s].absolute > now

OpenSessions(p) == {s \in DOMAIN sessions : sessions[s].owner = p /\ sessions[s].open}

PrincipalLocked(p) ==
    \E r \in flight : r.kind \in {"rotate", "deactivate"} /\ r.who = p

RefreshesOf(s, r) == r.kind = "refresh" /\ r.of = s

SetupLocked == \E r \in flight : r.kind = "deactivate"

CanStart == Cardinality(flight) < MaxFlight

Smaller(a, b) == IF a < b THEN a ELSE b

\* _new_browser_session; absolute is what remains of the login it continues.
NewSession(owner, epoch, login, born, absolute, overlapped) ==
    [owner |-> owner, epoch |-> epoch, login |-> login, born |-> born,
     expires |-> Smaller(now + SessionTTL, absolute),
     absolute |-> absolute, open |-> TRUE, overlapped |-> overlapped]

-----------------------------------------------------------------------------
(* Principals *)

\* The bootstrap token is accepted until the setup is complete.
StartBootstrap ==
    /\ CanStart /\ ~setup
    /\ flight' = flight \union {[kind |-> "bootstrap", n |-> Cardinality(flight)]}
    /\ UNCHANGED <<now, setup, principals, sessions>>

\* The setup is read again under its lock.
BootstrapOpen == ~setup

\* create_principal with the bootstrap token.
FinishBootstrap(r) ==
    /\ r \in flight /\ r.kind = "bootstrap" /\ ~SetupLocked
    /\ flight' = flight \ {r}
    /\ \/ /\ BootstrapOpen
          /\ \E p \in Principal :
                /\ principals[p].state = "none"
                /\ principals' = [principals EXCEPT ![p] = NewPrincipal(TRUE, TRUE)]
          /\ setup' = TRUE
       \/ ~BootstrapOpen /\ UNCHANGED <<setup, principals>>
    /\ UNCHANGED <<now, sessions>>

\* create_principal by an Admin.
CreatePrincipal(p, admin) ==
    /\ principals[p].state = "none"
    /\ \E a \in Principal : LiveAdmin(a)
    /\ principals' = [principals EXCEPT ![p] = NewPrincipal(admin, FALSE)]
    /\ UNCHANGED <<now, setup, sessions, flight>>

\* The Admin who asks was authenticated before the request waited for its locks,
\* and may have been deactivated since.
SomeoneAskedFor(p) == \E a \in Principal \ {p} : principals[a].state # "none"

\* Requests that authenticated with the credentials that are being revoked.
Affected(p, r) ==
    \/ r.kind = "login" /\ r.who = p
    \/ r.kind = "refresh" /\ sessions[r.of].owner = p

MarkOverlapped(p) ==
    {IF Affected(p, r) THEN [r EXCEPT !.overlapped = TRUE] ELSE r : r \in flight}

\* Mutant of RevokedByRotation: the sessions outlive the token.
NothingRevoked(p) == {}

\* revoke_for_principal, before the changes are committed.
RevokedByRotation(p) == OpenSessions(p)

\* rotate_principal_token, to its commit.
StartRotate(p) ==
    /\ CanStart /\ principals[p].state = "active" /\ ~PrincipalLocked(p)
    /\ principals[p].epoch < MaxEpoch
    /\ flight' = MarkOverlapped(p)
           \union {[kind |-> "rotate", who |-> p, seen |-> RevokedByRotation(p),
                    live |-> TRUE]}
    /\ UNCHANGED <<now, setup, principals, sessions>>

\* Mutant of DeactivationLock: Admins are counted without the lock of the setup.
OwnRowOnly(p) == ~PrincipalLocked(p)

DeactivationLock(p) == ~PrincipalLocked(p) /\ ~SetupLocked

\* deactivate, to its commit; the last live Admin is refused.
StartDeactivate(p) ==
    /\ CanStart /\ principals[p].state # "none" /\ setup
    /\ DeactivationLock(p) /\ SomeoneAskedFor(p)
    /\ LiveAdmin(p) => \E a \in Principal \ {p} : LiveAdmin(a)
    /\ flight' = MarkOverlapped(p)
           \union {[kind |-> "deactivate", who |-> p, seen |-> OpenSessions(p),
                    live |-> LiveAdmin(p)]}
    /\ UNCHANGED <<now, setup, principals, sessions>>

Revoked(seen) ==
    [s \in DOMAIN sessions |->
        [sessions[s] EXCEPT !.open = @ /\ s \notin seen]]

CommitRotate(r) ==
    /\ r \in flight /\ r.kind = "rotate"
    /\ principals' = [principals EXCEPT ![r.who].epoch = @ + 1,
                                        ![r.who].expires = now + TokenTTL]
    /\ sessions' = Revoked(r.seen)
    /\ flight' = flight \ {r}
    /\ UNCHANGED <<now, setup>>

CommitDeactivate(r) ==
    /\ r \in flight /\ r.kind = "deactivate"
    /\ principals' = [principals EXCEPT ![r.who].state = "inactive"]
    /\ sessions' = Revoked(r.seen)
    /\ flight' = flight \ {r}
    /\ UNCHANGED <<now, setup>>

-----------------------------------------------------------------------------
(* Browser sessions *)

\* create_browser_session authenticates the access token.
StartLogin(p) ==
    /\ CanStart /\ TokenIsLive(p)
    /\ flight' = flight \union {[kind |-> "login", who |-> p,
                                 epoch |-> principals[p].epoch,
                                 overlapped |-> PrincipalLocked(p)]}
    /\ UNCHANGED <<now, setup, principals, sessions>>

FinishLogin(r) ==
    /\ r \in flight /\ r.kind = "login" /\ Len(sessions) < MaxSessions
    /\ sessions' = Append(sessions,
           NewSession(r.who, r.epoch, Len(sessions) + 1, now, now + AbsoluteTTL,
                      r.overlapped))
    /\ flight' = flight \ {r}
    /\ UNCHANGED <<now, setup, principals>>

\* authenticate_browser_session in the middleware; the row stays loaded.
StartRefresh(s) ==
    LET p == sessions[s].owner
        others == {r \in flight : RefreshesOf(s, r)}
    IN  /\ CanStart /\ SessionIsLive(s) /\ principals[p].state = "active"
        /\ flight' = flight \union {[kind |-> "refresh", of |-> s,
                                     n |-> Cardinality(others),
                                     overlapped |-> PrincipalLocked(p)]}
        /\ UNCHANGED <<now, setup, principals, sessions>>

Continued(s, overlapped) ==
    NewSession(sessions[s].owner, sessions[s].epoch, sessions[s].login,
               sessions[s].born, sessions[s].absolute,
               overlapped \/ sessions[s].overlapped)

Replaced(s, overlapped) ==
    Append([sessions EXCEPT ![s].open = FALSE], Continued(s, overlapped))

\* refresh_browser_session; only the expiry is looked at again, for the copy of
\* the row says that it is open.
FinishRefresh(r) ==
    /\ r \in flight /\ r.kind = "refresh"
    /\ \/ /\ sessions[r.of].expires > now /\ sessions[r.of].absolute > now
          /\ Len(sessions) < MaxSessions
          /\ sessions' = Replaced(r.of, r.overlapped)
          /\ flight' = {IF RefreshesOf(r.of, q) THEN [q EXCEPT !.overlapped = TRUE] ELSE q :
                           q \in flight \ {r}}
       \/ /\ sessions[r.of].expires <= now
          /\ flight' = flight \ {r} /\ UNCHANGED sessions
    /\ UNCHANGED <<now, setup, principals>>

\* A refresh by a request with a bearer token reads the row under its lock.
RefreshWithBearer(s) ==
    LET p == sessions[s].owner
    IN  /\ SessionIsLive(s) /\ Len(sessions) < MaxSessions
        /\ \E q \in Principal : TokenIsLive(q)
        /\ sessions' = Replaced(s, PrincipalLocked(p))
        /\ flight' = {IF RefreshesOf(s, r) THEN [r EXCEPT !.overlapped = TRUE] ELSE r :
                         r \in flight}
        /\ UNCHANGED <<now, setup, principals>>

\* revoke_browser_session
Logout(s) ==
    /\ SessionIsLive(s)
    /\ sessions' = [sessions EXCEPT ![s].open = FALSE]
    /\ flight' = {IF RefreshesOf(s, r) THEN [r EXCEPT !.overlapped = TRUE] ELSE r :
                     r \in flight}
    /\ UNCHANGED <<now, setup, principals>>

\* Time passes.
AccessTick ==
    /\ now < MaxTime
    /\ now' = now + 1
    /\ UNCHANGED <<setup, principals, sessions, flight>>

AccessNext ==
    \/ StartBootstrap
    \/ \E p \in Principal :
          \/ \E admin \in BOOLEAN : CreatePrincipal(p, admin)
          \/ StartRotate(p) \/ StartDeactivate(p) \/ StartLogin(p)
    \/ \E r \in flight :
          \/ FinishBootstrap(r) \/ CommitRotate(r) \/ CommitDeactivate(r)
          \/ FinishLogin(r) \/ FinishRefresh(r)
    \/ \E s \in DOMAIN sessions :
          StartRefresh(s) \/ RefreshWithBearer(s) \/ Logout(s)
    \/ AccessTick

AccessSpec == AccessInit /\ [][AccessNext]_accessVars

-----------------------------------------------------------------------------
(* Correctness *)

\* Every variable keeps its type, and a session never outlives the absolute limit
\* of the login it continues, however often it is refreshed.
SessionsBounded ==
    /\ setup \in BOOLEAN /\ principals \in [Principal -> PrincipalRow]
    /\ \A s \in DOMAIN sessions :
          /\ sessions[s] \in SessionRow
          /\ sessions[s].expires <= sessions[s].absolute
          /\ sessions[s].absolute <= sessions[s].born + AbsoluteTTL

\* The bootstrap token makes one Admin, however many requests it was accepted for.
OneInitialAdmin ==
    Cardinality({p \in Principal : principals[p].bootstrapped}) <= 1

\* Deactivating an Admin who could act leaves another one, also when Admins
\* deactivate one another at the same time.
AdminRemains == [][
    \A r \in flight :
        CommitDeactivate(r) /\ r.live
        => \E a \in Principal \ {r.who} :
              principals'[a].state = "active" /\ principals'[a].admin]_accessVars

\* A session that outlives the token it was opened with, or its principal, was
\* made by a request that was under way when they were revoked.
SurvivorOverlapped ==
    \A s \in DOMAIN sessions :
        LET p == principals[sessions[s].owner]
        IN  sessions[s].open /\ (p.state = "inactive" \/ p.epoch # sessions[s].epoch)
            => sessions[s].overlapped

\* A login has one open session, the one that was refreshed last, but for two
\* refreshes at the same time.
OneSessionPerLogin ==
    \A s, t \in DOMAIN sessions :
        /\ sessions[s].open /\ ~sessions[s].overlapped
        /\ sessions[t].open /\ ~sessions[t].overlapped
        /\ sessions[s].login = sessions[t].login
        => s = t

\* Whatever requests overlap, a session ends with its login, and with its principal.
SessionsEnd == SessionsBounded /\ SurvivorOverlapped /\ OneSessionPerLogin

\* There is one first Admin, and always one who can act.
AdminsInControl == []OneInitialAdmin /\ AdminRemains
=============================================================================
