--------------------------- MODULE ConsoleSession ---------------------------
(***************************************************************************)
(* The console's login sessions: crates/of-web/src/console.rs over         *)
(* crates/of-core/src/console_sessions.rs, the requests that use them      *)
(* (session.rs, routes/auth.rs), and the platform's token endpoint as      *)
(* oauth.rs uses it and crates/of-testkit stands in for it.                *)
(*                                                                         *)
(* A login is a family of token pairs at the platform and one row here.    *)
(* The platform rotates the refresh token on every use and revokes the     *)
(* family when a consumed one is presented.  A visit is one HTTP request,  *)
(* served by one replica; the part of it that refreshes is a task of its   *)
(* own, which a browser that goes away does not stop.                      *)
(*                                                                         *)
(* Left out: cookies and sealing as bytes, PKCE, tombstones and member     *)
(* lookups after the token is known (PlatformEvents), last_used_at.        *)
(***************************************************************************)
EXTENDS Integers, FiniteSets

CONSTANTS
  Visitor,    \* concurrent visits
  Login,
  ServerKey,  \* encryption keys a replica may be deployed with
  MaxPair     \* bound: token pairs per login

ASSUME ConsoleAssumption == ServerKey # {} /\ MaxPair \in Nat \ {0}

VARIABLES
  family,       \* the platform's record of each login
  stored,       \* console_sessions
  visit,        \* each visitor's request
  replica_key,  \* the key of the replica that serves the visitor
  abandoned,    \* refreshes the platform may still see after their task ended
  lost,         \* history: logins of which a rotation was cut short
  reported      \* logins that a lifecycle event of their member or org is about

consoleVars == <<family, stored, visit, replica_key, abandoned, lost, reported>>

\* "started": the browser holds the sealed flow of a login under way.
Family == [state: {"none", "started", "live", "revoked", "reused"},
           live: 0..MaxPair]    \* the pair whose refresh token is not consumed

Row == [pair: 1..MaxPair, key: ServerKey, stale: BOOLEAN, expired: BOOLEAN]
NoRow == [pair |-> 0]

NoVisit == [step |-> "idle"]
Visit == [step: {"exchanged", "found", "queued", "locked", "posted", "rotated", "refused",
                 "unavailable", "dropping", "introspect", "signing_out"},
          kind: {"callback", "request", "logout"},
          login: Login,
          row: Row,          \* the row as the visit last read it
          pair: 0..MaxPair,  \* the pair the platform has answered with
          holds: BOOLEAN]    \* the row is locked by its transaction

ConsoleInit ==
  /\ family = [l \in Login |-> [state |-> "none", live |-> 0]]
  /\ stored = [l \in Login |-> NoRow]
  /\ visit = [v \in Visitor |-> NoVisit]
  /\ \E k \in ServerKey : replica_key = [v \in Visitor |-> k]
  /\ abandoned = {}
  /\ lost = {}
  /\ reported = {}

Exists(l) == stored[l] # NoRow /\ ~stored[l].expired

Unlocked(l) ==
  \A v \in Visitor : visit[v] # NoVisit => ~(visit[v].login = l /\ visit[v].holds)

Step(v, step) == visit' = [visit EXCEPT ![v].step = step]
End(v) == visit' = [visit EXCEPT ![v] = NoVisit]

-----------------------------------------------------------------------------
(* Signing in. *)

\* GET /auth/login: the flow rides in a sealed cookie until it expires.
StartLogin(l) ==
  /\ family[l].state = "none"
  /\ family' = [family EXCEPT ![l].state = "started"]
  /\ UNCHANGED <<stored, visit, replica_key, abandoned, lost, reported>>

FlowExpires(l) ==
  /\ family[l].state = "started"
  /\ family' = [family EXCEPT ![l].state = "none"]
  /\ UNCHANGED <<stored, visit, replica_key, abandoned, lost, reported>>

\* GET /auth/callback redeems the code, which works once.
ExchangeCode(v, l) ==
  /\ visit[v] = NoVisit
  /\ family[l].state = "started"
  /\ family' = [family EXCEPT ![l] = [state |-> "live", live |-> 1]]
  /\ visit' = [visit EXCEPT ![v] =
       [step |-> "exchanged", kind |-> "callback", login |-> l, pair |-> 1, holds |-> FALSE,
        row |-> [pair |-> 1, key |-> replica_key[v], stale |-> FALSE, expired |-> FALSE]]]
  /\ UNCHANGED <<stored, replica_key, abandoned, lost, reported>>

\* The platform vouches for the token, and the session is stored; or one of the
\* two fails, and nothing keeps the pair.
CreateSession(v) ==
  /\ visit[v].step = "exchanged"
  /\ \/ stored' = [stored EXCEPT ![visit[v].login] = visit[v].row]
     \/ UNCHANGED stored
  /\ End(v)
  /\ UNCHANGED <<family, replica_key, abandoned, lost, reported>>

-----------------------------------------------------------------------------
(* A request finds its session and opens or refreshes its token. *)

Find(v, l, kind) ==
  /\ visit[v] = NoVisit
  /\ Exists(l)
  /\ visit' = [visit EXCEPT ![v] =
       [step |-> "found", kind |-> kind, login |-> l, row |-> stored[l],
        pair |-> 0, holds |-> FALSE]]
  /\ UNCHANGED <<family, stored, replica_key, abandoned, lost, reported>>

NeedsRefresh(v) == visit[v].row.stale

CanOpen(v) == visit[v].row.key = replica_key[v]

\* Slip: the lock is let go of only by a commit further on.
OpenAccessKeepingLock(v) ==
  Step(v, IF CanOpen(v) THEN "introspect" ELSE "dropping")

\* open_access, which lets go of the row lock unless it has to drop the session.
OpenAccess(v) ==
  visit' = [visit EXCEPT ![v].step = IF CanOpen(v) THEN "introspect" ELSE "dropping",
                         ![v].holds = @ /\ ~CanOpen(v)]

UseFound(v) ==
  /\ visit[v].step = "found"
  /\ IF visit[v].kind = "request" /\ ~NeedsRefresh(v)
     THEN OpenAccess(v)
     ELSE Step(v, "queued")
  /\ UNCHANGED <<family, stored, replica_key, abandoned, lost, reported>>

\* Slip: the lock is taken, but the row is the one found before it.
AsFound(v) == visit[v].row

Reread(v) == stored[visit[v].login]

\* console_sessions::lock.
LockSession(v) ==
  /\ visit[v].step = "queued"
  /\ Unlocked(visit[v].login)
  /\ IF Exists(visit[v].login)
     THEN visit' = [visit EXCEPT ![v].step = "locked", ![v].row = Reread(v), ![v].holds = TRUE]
     ELSE End(v)
  /\ UNCHANGED <<family, stored, replica_key, abandoned, lost, reported>>

\* The single-flight recheck, and the refresh if it is still called for.
Refresh(v) ==
  /\ visit[v].step = "locked" /\ visit[v].kind = "request"
  /\ IF ~NeedsRefresh(v) THEN OpenAccess(v)
     ELSE Step(v, IF CanOpen(v) THEN "posted" ELSE "refused")
  /\ UNCHANGED <<family, stored, replica_key, abandoned, lost, reported>>

-----------------------------------------------------------------------------
(* The platform. *)

\* Presenting a consumed token revokes the family.
Presented(l, pair) ==
  family' = [family EXCEPT ![l] =
    IF @.state # "live" THEN @
    ELSE IF @.live = pair THEN [@ EXCEPT !.live = pair + 1]
    ELSE [@ EXCEPT !.state = "reused"]]

\* The token endpoint answers.
AnswerRefresh(v) ==
  LET l == visit[v].login
      pair == visit[v].row.pair
      rotated == family[l].state = "live" /\ family[l].live = pair IN
  /\ visit[v].step = "posted"
  /\ Presented(l, pair)
  /\ visit' = [visit EXCEPT ![v].step = IF rotated THEN "rotated" ELSE "refused",
                            ![v].pair = IF rotated THEN pair + 1 ELSE 0]
  /\ UNCHANGED <<stored, replica_key, abandoned, lost, reported>>

\* No usable answer: the platform is down, or the request is still on its way
\* to it when the client gives up.
NoAnswer(v) ==
  /\ visit[v].step = "posted"
  /\ Step(v, "unavailable")
  /\ \/ UNCHANGED <<abandoned, lost>>
     \/ /\ abandoned' = abandoned \cup {<<visit[v].login, visit[v].row.pair>>}
        /\ lost' = lost \cup {visit[v].login}
  /\ UNCHANGED <<family, stored, replica_key, reported>>

LateRefresh(l, pair) ==
  /\ <<l, pair>> \in abandoned
  /\ abandoned' = abandoned \ {<<l, pair>>}
  /\ Presented(l, pair)
  /\ UNCHANGED <<stored, visit, replica_key, lost, reported>>

\* An administrator ends the login, or its member leaves.
PlatformRevokes(l) ==
  /\ family[l].state = "live"
  /\ family' = [family EXCEPT ![l].state = "revoked"]
  /\ UNCHANGED <<stored, visit, replica_key, abandoned, lost, reported>>

-----------------------------------------------------------------------------
(* How a refresh ends. *)

\* rotate and commit; a pair whose commit fails is lost.
StoreRotated(v) ==
  LET l == visit[v].login IN
  /\ visit[v].step = "rotated"
  /\ \/ /\ stored' = [stored EXCEPT ![l] =
             [pair |-> visit[v].pair, key |-> replica_key[v], stale |-> FALSE, expired |-> FALSE]]
        /\ visit' = [visit EXCEPT ![v].step = "introspect", ![v].holds = FALSE,
                                  ![v].row = stored'[l]]
        /\ UNCHANGED lost
     \/ /\ End(v)
        /\ lost' = lost \cup {l}
        /\ UNCHANGED stored
  /\ UNCHANGED <<family, replica_key, abandoned, reported>>

\* Slip: an outage is taken for a refusal.
Failed(v) == visit[v].step \in {"refused", "unavailable"}

InvalidGrant(v) == visit[v].step = "refused"

\* invalid_grant, or a refresh token that cannot be opened: the session is over.
DeleteLocked(v) ==
  /\ visit[v] # NoVisit
  /\ InvalidGrant(v)
  /\ stored' = [stored EXCEPT ![visit[v].login] = NoRow]
  /\ End(v)
  /\ UNCHANGED <<family, replica_key, abandoned, lost, reported>>

\* An outage: rollback and 503.
KeepSession(v) ==
  /\ visit[v].step = "unavailable"
  /\ End(v)
  /\ UNCHANGED <<family, stored, replica_key, abandoned, lost, reported>>

\* The request goes on with its token, unless the platform no longer honours it.
Introspect(v) ==
  /\ visit[v].step = "introspect"
  /\ IF family[visit[v].login].state = "live" THEN End(v) ELSE Step(v, "dropping")
  /\ UNCHANGED <<family, stored, replica_key, abandoned, lost, reported>>

\* console_sessions::delete, a transaction of its own: it waits for the row's
\* lock, whoever holds it.
DropSession(v) ==
  LET l == visit[v].login IN
  /\ visit[v].step = "dropping"
  /\ stored[l] = NoRow \/ Unlocked(l)
  /\ stored' = [stored EXCEPT ![l] = NoRow]
  /\ End(v)
  /\ UNCHANGED <<family, replica_key, abandoned, lost, reported>>

-----------------------------------------------------------------------------
(* Signing out, and everything else. *)

\* logout revokes the refresh token, if the platform can be reached.
RevokeToken(v) ==
  LET l == visit[v].login IN
  /\ visit[v].step = "locked" /\ visit[v].kind = "logout"
  /\ \/ CanOpen(v) /\ family' = [family EXCEPT ![l].state = IF @ = "live" THEN "revoked" ELSE @]
     \/ UNCHANGED family
  /\ Step(v, "signing_out")
  /\ UNCHANGED <<stored, replica_key, abandoned, lost, reported>>

DeleteOnLogout(v) ==
  /\ visit[v].step = "signing_out"
  /\ stored' = [stored EXCEPT ![visit[v].login] = NoRow]
  /\ End(v)
  /\ UNCHANGED <<family, replica_key, abandoned, lost, reported>>

\* Slip: whatever a request does ends when its browser goes away.
AnyStep(v) == TRUE

\* Everything but the detached refresh task and the wait for it.
DroppedWithRequest(v) ==
  \/ visit[v].kind # "request"
  \/ ~visit[v].holds /\ visit[v].step # "queued"

\* The future of the handler is dropped; an open transaction rolls back.
Disconnect(v) ==
  /\ visit[v] # NoVisit
  /\ DroppedWithRequest(v)
  /\ End(v)
  /\ UNCHANGED <<family, stored, replica_key, abandoned, lost, reported>>

\* The replica dies.
Killed(v) ==
  LET l == visit[v].login IN
  /\ visit[v] # NoVisit
  /\ End(v)
  /\ lost' = IF visit[v].step \in {"posted", "rotated"} THEN lost \cup {l} ELSE lost
  /\ abandoned' = IF visit[v].step = "posted" THEN abandoned \cup {<<l, visit[v].row.pair>>}
                  ELSE abandoned
  /\ UNCHANGED <<family, stored, replica_key, reported>>

\* The visitor's next request meets a replica deployed with another key.
Redeploy(v, k) ==
  /\ visit[v] = NoVisit
  /\ replica_key[v] # k
  /\ replica_key' = [replica_key EXCEPT ![v] = k]
  /\ UNCHANGED <<family, stored, visit, abandoned, lost, reported>>

\* The access token comes within REFRESH_SKEW_SECS of its expiry.
AccessAges(l) ==
  /\ Exists(l) /\ ~stored[l].stale
  /\ stored[l].pair < MaxPair
  /\ Unlocked(l)
  /\ stored' = [stored EXCEPT ![l].stale = TRUE]
  /\ UNCHANGED <<family, visit, replica_key, abandoned, lost, reported>>

\* REFRESH_TTL_DAYS without a refresh.
SessionExpires(l) ==
  /\ Exists(l)
  /\ Unlocked(l)
  /\ stored' = [stored EXCEPT ![l].expired = TRUE]
  /\ UNCHANGED <<family, visit, replica_key, abandoned, lost, reported>>

PurgeExpired(l) ==
  /\ stored[l] # NoRow /\ stored[l].expired
  /\ stored' = [stored EXCEPT ![l] = NoRow]
  /\ UNCHANGED <<family, visit, replica_key, abandoned, lost, reported>>

\* The platform tells of a member removed or an org deleted.  The event may be
\* older than the login: of a member who has since come back.
Report(l) ==
  /\ l \notin reported
  /\ reported' = reported \cup {l}
  /\ UNCHANGED <<family, stored, visit, replica_key, abandoned, lost>>

\* member_removed (delete_for_user) and org_deleted, on every delivery.
CleanUpSessions(l) ==
  /\ l \in reported
  /\ stored[l] # NoRow
  /\ Unlocked(l)
  /\ stored' = [stored EXCEPT ![l] = NoRow]
  /\ UNCHANGED <<family, visit, replica_key, abandoned, lost, reported>>

\* What a visit does when nothing disturbs it.
VisitStep(v) ==
  \/ CreateSession(v) \/ UseFound(v) \/ LockSession(v) \/ Refresh(v) \/ AnswerRefresh(v)
  \/ NoAnswer(v) \/ StoreRotated(v) \/ DeleteLocked(v) \/ KeepSession(v) \/ Introspect(v)
  \/ DropSession(v) \/ RevokeToken(v) \/ DeleteOnLogout(v)

ConsoleNext ==
  \/ \E l \in Login : \/ StartLogin(l) \/ FlowExpires(l) \/ PlatformRevokes(l)
                      \/ AccessAges(l) \/ SessionExpires(l) \/ PurgeExpired(l)
                      \/ Report(l) \/ CleanUpSessions(l)
  \/ \E v \in Visitor, l \in Login : ExchangeCode(v, l)
  \/ \E v \in Visitor, l \in Login, kind \in {"request", "logout"} : Find(v, l, kind)
  \/ \E l \in Login, pair \in 1..MaxPair : LateRefresh(l, pair)
  \/ \E v \in Visitor, k \in ServerKey : Redeploy(v, k)
  \/ \E v \in Visitor : VisitStep(v) \/ Disconnect(v) \/ Killed(v)

\* A visit goes on as long as its replica lives, and the database queues those
\* who wait for a row.
ConsoleFairness == \A v \in Visitor :
  /\ WF_consoleVars(VisitStep(v))
  /\ SF_consoleVars(LockSession(v) \/ DropSession(v))

ConsoleSpec == ConsoleInit /\ [][ConsoleNext]_consoleVars /\ ConsoleFairness

-----------------------------------------------------------------------------
(* Properties. *)

\* Refreshing does not sign anybody out: the platform sees a consumed token of a
\* login only after a rotation of it was cut short by a dead replica, a lost
\* answer or a failed commit, however requests, replicas and logouts overlap.
ReusedOnlyAfterLoss == \A l \in Login : family[l].state = "reused" => l \in lost

\* A logout revokes the token that is live, never one that a refresh has spent.
LogoutRevokesLive ==
  \A v \in Visitor :
    visit[v] # NoVisit /\ visit[v].kind = "logout" /\ visit[v].step = "locked" =>
      LET l == visit[v].login IN
      family[l].state # "live" \/ l \in lost \/ visit[v].row.pair = family[l].live

\* An outage never ends a session: a row goes only when its login is dead at the
\* platform, it has expired, its user signs out, its tokens were sealed with a
\* key that the replica does not have, or an event about its member or org is
\* delivered, be it once more to a member who has come back.
EndedForCause ==
  [][\A l \in Login :
       stored[l] # NoRow /\ stored'[l] = NoRow =>
         \/ family[l].state # "live"
         \/ stored[l].expired
         \/ l \in reported
         \/ \E v \in Visitor :
              /\ visit[v] # NoVisit /\ visit[v].login = l
              /\ visit[v].step = "signing_out" \/ ~CanOpen(v)]_consoleVars

\* Its own delete waits for the lock that the visit itself holds.
WaitsForItself(v) == visit[v].step = "dropping" /\ visit[v].holds

\* Every visit is answered, except where one finds, behind the lock, a session
\* just refreshed by a replica with another key: no other visit may come to
\* delete, on a second connection, the row that it has locked.
VisitsEnd ==
  \A v \in Visitor :
    (visit[v] # NoVisit) ~>
      \/ visit[v] = NoVisit
      \/ \E w \in Visitor : visit[w] # NoVisit /\ WaitsForItself(w) /\ ~CanOpen(w)

ConsoleTypeOK ==
  /\ family \in [Login -> Family]
  /\ stored \in [Login -> Row \cup {NoRow}]
  /\ visit \in [Visitor -> Visit \cup {NoVisit}]
  /\ replica_key \in [Visitor -> ServerKey]
  /\ abandoned \subseteq Login \X (1..MaxPair)
  /\ lost \subseteq Login
  /\ reported \subseteq Login

=============================================================================
