---------------------------- MODULE RepoRegistry ----------------------------
(***************************************************************************)
(* The repos of one organization, the team each belongs to, and the        *)
(* remotes that resolve to them (crates/of-core/src/repos.rs and teams.rs, *)
(* the tools of of-mcp, the console's routes/repos.rs).                    *)
(*                                                                         *)
(* A member who is not an admin sees the repos of the organization and of  *)
(* the teams the platform listed before the transaction began.  A call of  *)
(* such a member that writes resolves the repos it names, then locks each  *)
(* row and looks again; an admin moves repos between teams and takes no    *)
(* lock before the UPDATE.  READ COMMITTED: a statement sees what is       *)
(* committed when it starts, and waits for the row locks and the           *)
(* uncommitted remotes of others.                                          *)
(***************************************************************************)
EXTENDS Integers, FiniteSets

CONSTANTS
  Repo,     \* repos, by slug
  Team,     \* teams of the organization
  Remote,   \* normalized remotes
  Call,     \* requests to the tools and the console
  NoTeam,   \* team_id NULL: the organization's
  NoRepo    \* no row

ASSUME NoneAssumption == NoTeam \notin Team /\ NoRepo \notin Repo

VARIABLES
  registered, \* rows of repos
  team,       \* team_id of each repo
  remotes,    \* rows of repo_remotes: the repo of each remote
  calls       \* the transaction of each request

registryVars == <<registered, team, remotes, calls>>

\* TeamScope::allows, for a caller who is on the teams of scope.
Allows(scope, t) == t = NoTeam \/ t \in scope

\* A member's write to what hangs off the repos it names, a member's update of a
\* repo, an admin's update of one, a registration.
Kind == {"write", "update", "move", "register"}

\* scope: the teams of a restricted caller.  named: the repos of the call.
\* held: those whose row it has locked.  asked: remotes to attach.  mine: those
\* it found to be its repo's, or inserted.  team: what an admin assigns.
RepoCall == [step: {"idle", "resolved", "attaching"}, kind: Kind, scope: SUBSET Team,
             named: SUBSET Repo, held: SUBSET Repo, asked: SUBSET Remote,
             mine: SUBSET Remote, team: Team \cup {NoTeam}]

NoCall == [step |-> "idle", kind |-> "write", scope |-> {}, named |-> {}, held |-> {},
           asked |-> {}, mine |-> {}, team |-> NoTeam]

RegistryInit ==
  /\ registered = {}
  /\ team = [r \in Repo |-> NoTeam]
  /\ remotes = [m \in Remote |-> NoRepo]
  /\ calls = [c \in Call |-> NoCall]

Restricted(c) == calls[c].kind \in {"write", "update"}

-----------------------------------------------------------------------------
(* Locks. *)

\* Slip: every holder takes the lock that many may have.
SharedForAll(kind) == "shared"

\* Hold: FOR SHARE, or FOR NO KEY UPDATE for a call that updates the repo.
HoldMode(kind) == IF kind = "write" THEN "shared" ELSE "update"

\* An UPDATE takes the stronger lock whatever was held before.
Mode(c) == IF calls[c].step = "attaching" THEN "update" ELSE HoldMode(calls[c].kind)

\* The calls that keep c from a lock of this mode on the row of r.
Blockers(c, r, mode) ==
  {d \in Call \ {c} : r \in calls[d].held /\ (mode = "update" \/ Mode(d) = "update")}

\* The row a call locks next, if there is one: to hold it, or to update it.
Locking(c, r) ==
  /\ calls[c].step = "resolved"
  /\ r \in calls[c].named
  /\ IF Restricted(c) /\ calls[c].named # calls[c].held
     THEN r \notin calls[c].held ELSE calls[c].kind # "write"

LockMode(c) ==
  IF Restricted(c) /\ calls[c].named # calls[c].held THEN HoldMode(calls[c].kind) ELSE "update"

-----------------------------------------------------------------------------
(* Calls. *)

\* resolve_repo_visible.  The job of a dependency names its repo.
ResolveRepo(c, kind, scope, named, asked, to) ==
  /\ calls[c].step = "idle"
  /\ named # {} /\ named \subseteq registered
  /\ kind \in {"write", "update"} => \A r \in named : Allows(scope, team[r])
  /\ calls' = [calls EXCEPT ![c] = [NoCall EXCEPT !.step = "resolved", !.kind = kind,
       !.scope = scope, !.named = named, !.asked = asked, !.team = to]]
  /\ UNCHANGED <<registered, team, remotes>>

\* Slip: the row is locked, and believed to be where it was.
AsResolved(c, r) == TRUE

\* What the locked row says.
StillAllowed(c, r) == Allows(calls[c].scope, team[r])

\* hold_repo_visible: a repo that was moved out of sight is as if unregistered.
HoldRepo(c, r) ==
  /\ Restricted(c)
  /\ Locking(c, r) /\ r \notin calls[c].held
  /\ Blockers(c, r, LockMode(c)) = {}
  /\ calls' = IF StillAllowed(c, r)
              THEN [calls EXCEPT ![c].held = @ \cup {r}]
              ELSE [calls EXCEPT ![c] = NoCall]
  /\ UNCHANGED <<registered, team, remotes>>

\* Jobs, leases and messages are written under the held rows.
CommitWrite(c) ==
  /\ calls[c].step = "resolved"
  /\ calls[c].kind = "write"
  /\ calls[c].held = calls[c].named
  /\ calls' = [calls EXCEPT ![c] = NoCall]
  /\ UNCHANGED <<registered, team, remotes>>

\* update_repo's UPDATE.  A member's goes by the row it holds.
UpdateRow(c, r) ==
  /\ calls[c].kind # "write"
  /\ Locking(c, r) /\ (Restricted(c) => r \in calls[c].held)
  /\ Blockers(c, r, "update") = {}
  /\ calls' = [calls EXCEPT ![c].step = "attaching", ![c].held = {r}]
  /\ UNCHANGED <<registered, team, remotes>>

\* The row of a new repo, which nobody else sees.  A second registration of the
\* slug waits for the first, and is refused if that commits.
RegisterRepo(c, r, asked, to) ==
  /\ calls[c].step = "idle"
  /\ r \notin registered
  /\ \A d \in Call : calls[d].kind = "register" => r \notin calls[d].named
  /\ calls' = [calls EXCEPT ![c] = [NoCall EXCEPT !.step = "attaching", !.kind = "register",
       !.named = {r}, !.asked = asked, !.team = to]]
  /\ UNCHANGED <<registered, team, remotes>>

\* Slip: the INSERT looks only at what is committed.
NobodyElse(c, m) == {}

\* Calls that have inserted the remote and have not ended.
Inserting(c, m) == {d \in Call \ {c} : m \in calls[d].mine /\ remotes[m] = NoRepo}

\* attach_remote: a remote that is another repo's fails the call.
AttachRemote(c, m) ==
  /\ calls[c].step = "attaching"
  /\ m \in calls[c].asked \ calls[c].mine
  /\ Inserting(c, m) = {}
  /\ calls' = IF remotes[m] = NoRepo \/ remotes[m] \in calls[c].named
              THEN [calls EXCEPT ![c].mine = @ \cup {m}]
              ELSE [calls EXCEPT ![c] = NoCall]
  /\ UNCHANGED <<registered, team, remotes>>

CommitRepo(c) ==
  \E r \in calls[c].named :
    /\ calls[c].step = "attaching"
    /\ calls[c].mine = calls[c].asked
    /\ registered' = registered \cup {r}
    /\ team' = IF Restricted(c) THEN team ELSE [team EXCEPT ![r] = calls[c].team]
    /\ remotes' = [m \in Remote |-> IF m \in calls[c].mine THEN r ELSE remotes[m]]
    /\ calls' = [calls EXCEPT ![c] = NoCall]

\* An error of anything else the call does, a lost connection, or a deadlock
\* the database breaks.
RollBack(c) ==
  /\ calls[c].step # "idle"
  /\ calls' = [calls EXCEPT ![c] = NoCall]
  /\ UNCHANGED <<registered, team, remotes>>

RegistryNext ==
  \E c \in Call :
    \/ \E scope \in SUBSET Team, named \in SUBSET Repo : ResolveRepo(c, "write", scope, named, {}, NoTeam)
    \/ \E scope \in SUBSET Team, r \in Repo, asked \in SUBSET Remote :
         ResolveRepo(c, "update", scope, {r}, asked, NoTeam)
    \/ \E r \in Repo, asked \in SUBSET Remote, to \in Team \cup {NoTeam} :
         ResolveRepo(c, "move", {}, {r}, asked, to) \/ RegisterRepo(c, r, asked, to)
    \/ \E r \in Repo : HoldRepo(c, r) \/ UpdateRow(c, r)
    \/ \E m \in Remote : AttachRemote(c, m)
    \/ CommitWrite(c)
    \/ CommitRepo(c)
    \/ RollBack(c)

RegistrySpec == RegistryInit /\ [][RegistryNext]_registryVars

-----------------------------------------------------------------------------
(* Properties. *)

RegistryTypeOK ==
  /\ registered \subseteq Repo
  /\ team \in [Repo -> Team \cup {NoTeam}]
  /\ remotes \in [Remote -> Repo \cup {NoRepo}]
  /\ calls \in [Call -> RepoCall]

\* A restricted caller sees every repo it holds until its transaction ends,
\* however admins move repos between teams meanwhile: what it writes there is
\* written where its scope allows (the doc of hold_repo_visible).
HeldInSight ==
  \A c \in Call : Restricted(c) => \A r \in calls[c].held : Allows(calls[c].scope, team[r])

\* A call that has attached a remote, or found it attached, can commit: no other
\* repo gets it first, though two calls attach the same remote at once.
AttachedStaysFree ==
  \A c \in Call : \A m \in calls[c].mine :
    remotes[m] \in {NoRepo} \cup calls[c].named

\* c waits for d to end before it can lock a repo's row.
WaitsFor(c, d) == \E r \in Repo : Locking(c, r) /\ d \in Blockers(c, r, LockMode(c))

\* No calls wait for each other in a circle on the rows of repos, though one
\* holds several rows, and another updates the row it holds (the comment in
\* hold_repo_visible).
RowsNeverDeadlock ==
  \A W \in (SUBSET Call) \ {{}} : ~ \A c \in W : \E d \in W : WaitsFor(c, d)

=============================================================================
