------------------------ MODULE TrackerCredentials ------------------------
(***************************************************************************)
(* Connections of organizations to JIRA sites, and the rotating tokens     *)
(* they hold (crates/of-core/src/trackers.rs, of-web/src/routes/           *)
(* trackers.rs, the write-back of of-mcp/src/tools/jobs.rs).               *)
(*                                                                         *)
(* Nobody holds a transaction open while talking to the tracker: an admin  *)
(* redeems a code and then stores what it gave, a write-back reads a       *)
(* connection, refreshes its token, posts, and then stores the token that  *)
(* replaced it.  Each such transaction locks its organization's connection *)
(* row and the index row of the site, so it is one step here.  Every       *)
(* organization has one repo.                                              *)
(***************************************************************************)
EXTENDS Integers

CONSTANTS
  Org, Site,
  Admin,          \* requests of admins
  Syncer,         \* calls that write back
  MaxConnectionId,\* bound: connection rows ever inserted
  MaxToken        \* bound: refresh tokens ever issued

ASSUME CredentialAssumption ==
  /\ Org # {} /\ Site # {}
  /\ MaxConnectionId \in Nat /\ MaxToken \in Nat

VARIABLES
  connections,  \* tracker_connections, by organization
  index,        \* tracker_connection_index
  bindings,     \* connection_id of the repo's binding
  live,         \* refresh tokens the tracker accepts
  issued,       \* how many it has issued
  inserted,     \* how many connection rows were inserted
  admin,        \* what each request has in hand
  syncer,       \* what each write-back has in hand
  lost          \* history: tokens whose replacement was never stored

credentialVars ==
  <<connections, index, bindings, live, issued, inserted, admin, syncer, lost>>

NoConnection == [id |-> 0, site |-> CHOOSE s \in Site : TRUE, token |-> 0]
Connection == [id: 0..MaxConnectionId, site: Site, token: 0..MaxToken]

\* A binding row's connection_id, NULL if it was bound before the tracker was
\* connected or its connection is gone.
NoBinding == -1
Null == 0

IdleAdmin == [step |-> "idle", org |-> CHOOSE o \in Org : TRUE, held |-> NoConnection]
IdleSyncer == [step |-> "idle", org |-> CHOOSE o \in Org : TRUE, bound |-> Null,
               read |-> NoConnection, next |-> 0]

CredentialInit ==
  /\ connections = [o \in Org |-> NoConnection]
  /\ index = {}
  /\ bindings = [o \in Org |-> NoBinding]
  /\ live = {}
  /\ issued = 0
  /\ inserted = 0
  /\ admin = [a \in Admin |-> IdleAdmin]
  /\ syncer = [w \in Syncer |-> IdleSyncer]
  /\ lost = {}

Connected(o) == connections[o].id # 0

\* Slip: a connection that moves to another site keeps the row of the old one.
KeptWithMove(o, id, site) ==
  {row \in index : row.site # site} \cup {[site |-> site, org |-> o, id |-> id]}

\* upsert_connection_index: a site has one row.
IndexWith(o, id, site) ==
  {row \in index : row.id # id} \cup {[site |-> site, org |-> o, id |-> id]}

\* The row of the site is free, or names this very connection.
MayIndex(o, id, site) == \A row \in index : row.site = site => row.org = o /\ row.id = id

\* upsert_connection: an organization that is connected keeps its row and id.
\* An index row that belongs to another organization rolls it all back.
Upsert(o, site, token) ==
  LET id == IF Connected(o) THEN connections[o].id ELSE inserted + 1 IN
  IF MayIndex(o, id, site)
  THEN /\ id <= MaxConnectionId
       /\ connections' = [connections EXCEPT ![o] = [id |-> id, site |-> site, token |-> token]]
       /\ index' = IndexWith(o, id, site)
       /\ inserted' = IF Connected(o) THEN inserted ELSE id
  ELSE UNCHANGED <<connections, index, inserted>>

-----------------------------------------------------------------------------
(* Admins. *)

\* The code is redeemed for a site and a new token, before the transaction.
RedeemCode(a, o, site) ==
  /\ admin[a].step = "idle"
  /\ issued < MaxToken
  /\ issued' = issued + 1
  /\ live' = live \cup {issued + 1}
  /\ admin' = [admin EXCEPT ![a] = [step |-> "redeemed", org |-> o,
                 held |-> [id |-> 0, site |-> site, token |-> issued + 1]]]
  /\ UNCHANGED <<connections, index, bindings, inserted, syncer, lost>>

ConnectTracker(a) ==
  /\ admin[a].step = "redeemed"
  /\ Upsert(admin[a].org, admin[a].held.site, admin[a].held.token)
  /\ admin' = [admin EXCEPT ![a] = IdleAdmin]
  /\ UNCHANGED <<bindings, live, issued, syncer, lost>>

\* The index row is deleted with its connection; ON DELETE SET NULL leaves the
\* bindings inert.  The tracker is not told: the token stays live.
DisconnectTracker(o) ==
  /\ Connected(o)
  /\ connections' = [connections EXCEPT ![o] = NoConnection]
  /\ index' = {row \in index : row.org # o}
  /\ bindings' = [bindings EXCEPT ![o] = IF @ = connections[o].id THEN Null ELSE @]
  /\ UNCHANGED <<live, issued, inserted, admin, syncer, lost>>

\* bind_repo looks its connection up, and then names it in the row.
LookUp(a, o) ==
  /\ admin[a].step = "idle"
  /\ admin' = [admin EXCEPT ![a] = [step |-> "binding", org |-> o, held |-> [NoConnection EXCEPT !.id = connections[o].id]]]
  /\ UNCHANGED <<connections, index, bindings, live, issued, inserted, syncer, lost>>

\* Slip: what was looked up is taken to be there still.
AsLookedUp(o, id) == TRUE

\* require_connection_in_org, and the foreign key it cannot replace.
StillConnected(o, id) == id = Null \/ id = connections[o].id

BindRepo(a) ==
  LET o == admin[a].org IN
  /\ admin[a].step = "binding"
  /\ bindings' = IF StillConnected(o, admin[a].held.id)
                 THEN [bindings EXCEPT ![o] = admin[a].held.id] ELSE bindings
  /\ admin' = [admin EXCEPT ![a] = IdleAdmin]
  /\ UNCHANGED <<connections, index, live, issued, inserted, syncer, lost>>

UnbindRepo(o) ==
  /\ bindings[o] # NoBinding
  /\ bindings' = [bindings EXCEPT ![o] = NoBinding]
  /\ UNCHANGED <<connections, index, live, issued, inserted, admin, syncer, lost>>

-----------------------------------------------------------------------------
(* Write-backs. *)

\* resolve_tracker_binding: the binding first, and then the connection.
ReadBinding(w, o) ==
  /\ syncer[w].step = "idle"
  /\ bindings[o] \notin {NoBinding, Null}
  /\ syncer' = [syncer EXCEPT ![w].step = "bound", ![w].org = o, ![w].bound = bindings[o]]
  /\ UNCHANGED <<connections, index, bindings, live, issued, inserted, admin, lost>>

\* BindingLookup::Broken, if the connection went in between, ends the call.
ReadConnection(w) ==
  LET read == connections[syncer[w].org] IN
  /\ syncer[w].step = "bound"
  /\ syncer' = [syncer EXCEPT ![w] =
       IF read.id = syncer[w].bound THEN [@ EXCEPT !.step = "read", !.bound = Null, !.read = read] ELSE IdleSyncer]
  /\ UNCHANGED <<connections, index, bindings, live, issued, inserted, admin, lost>>

\* The tracker takes a live token, and may put another in its place.
RefreshToken(w) ==
  /\ syncer[w].step = "read"
  /\ syncer[w].read.token \in live
  /\ \/ /\ syncer' = [syncer EXCEPT ![w].step = "posted", ![w].next = syncer[w].read.token]
        /\ UNCHANGED <<live, issued>>
     \/ /\ issued < MaxToken
        /\ issued' = issued + 1
        /\ live' = (live \ {syncer[w].read.token}) \cup {issued + 1}
        /\ syncer' = [syncer EXCEPT ![w].step = "posted", ![w].next = issued + 1]
  /\ UNCHANGED <<connections, index, bindings, inserted, admin, lost>>

Rotated(w) == syncer[w].step = "posted" /\ syncer[w].next # syncer[w].read.token

\* Slip: the token is stored only with a revision, which the tracker left out.
RevisionOnly(w) == UNCHANGED <<connections, index, inserted>>

\* Over whatever the connection is by now; one that has gone is inserted again.
StoreRotated(w) ==
  IF Rotated(w)
  THEN Upsert(syncer[w].org, syncer[w].read.site, syncer[w].next)
  ELSE UNCHANGED <<connections, index, inserted>>

\* The site has gone to another organization.
Taken(o, site) == ~MayIndex(o, connections[o].id, site)

\* If it is taken, the transaction is rolled back.
FinishSync(w) ==
  /\ syncer[w].step = "posted"
  /\ StoreRotated(w)
  /\ lost' = IF Rotated(w) /\ Taken(syncer[w].org, syncer[w].read.site)
             THEN lost \cup {syncer[w].read.token} ELSE lost
  /\ syncer' = [syncer EXCEPT ![w] = IdleSyncer]
  /\ UNCHANGED <<bindings, live, issued, admin>>

\* A dead token, a call the tracker fails, a cancelled request, or a replica
\* that dies: a token that was rotated by then is not stored.
FailSync(w) ==
  /\ syncer[w].step # "idle"
  /\ syncer' = [syncer EXCEPT ![w] = IdleSyncer]
  /\ lost' = IF Rotated(w) THEN lost \cup {syncer[w].read.token} ELSE lost
  /\ UNCHANGED <<connections, index, bindings, live, issued, inserted, admin>>

FailAdmin(a) ==
  /\ admin[a].step # "idle"
  /\ admin' = [admin EXCEPT ![a] = IdleAdmin]
  /\ UNCHANGED <<connections, index, bindings, live, issued, inserted, syncer, lost>>

CredentialNext ==
  \/ \E a \in Admin, o \in Org, s \in Site : RedeemCode(a, o, s)
  \/ \E a \in Admin, o \in Org : LookUp(a, o)
  \/ \E a \in Admin : ConnectTracker(a) \/ BindRepo(a) \/ FailAdmin(a)
  \/ \E o \in Org : DisconnectTracker(o) \/ UnbindRepo(o)
  \/ \E w \in Syncer, o \in Org : ReadBinding(w, o)
  \/ \E w \in Syncer : ReadConnection(w) \/ RefreshToken(w) \/ FinishSync(w) \/ FailSync(w)

CredentialSpec == CredentialInit /\ [][CredentialNext]_credentialVars

-----------------------------------------------------------------------------

\* The index names every connection by its own site and no other: a webhook of
\* a site finds the organization that is connected to it now, and a site no
\* organization is connected to can be claimed by the next.
IndexNamesOwner ==
  index = {[site |-> connections[o].site, org |-> o, id |-> connections[o].id] :
             o \in {p \in Org : Connected(p)}}

\* The comment in resolve_tracker_binding: a binding that names a connection
\* names the one its organization has now, though binding and disconnecting
\* race.
BoundToCurrent ==
  \A o \in Org : bindings[o] \notin {NoBinding, Null} => bindings[o] = connections[o].id

\* The token an organization has stored is live; if it is not, a write-back
\* that will store its replacement is on its way, or one failed on that way.
\* Connecting, disconnecting and other write-backs may overlap with it.
TokenAlive ==
  \A o \in Org : Connected(o) =>
    \/ connections[o].token \in live
    \/ \E w \in Syncer : Rotated(w) /\ syncer[w].org = o /\ syncer[w].read.token = connections[o].token
    \/ connections[o].token \in lost

=============================================================================
