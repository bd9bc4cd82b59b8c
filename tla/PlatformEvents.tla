--------------------------- MODULE PlatformEvents ---------------------------
(***************************************************************************)
(* The platform's lifecycle webhooks against the requests they overtake:   *)
(* crates/of-core/src/platform_events.rs, received by                      *)
(* crates/of-web/src/routes/platform.rs, and the two places a request      *)
(* meets them, authentication (crates/of-mcp/src/auth.rs,                  *)
(* crates/of-web/src/session.rs) and begin_live.                           *)
(*                                                                         *)
(* One org and one of its members.  Deliveries are at-least-once and       *)
(* unordered, several at a time on several replicas.  A tombstone is       *)
(* committed by itself, before its clean-up begins.                        *)
(*                                                                         *)
(* Assumed: from its authentication a request reaches the end of its       *)
(* transaction, and from its tombstone a clean-up reaches its commit,      *)
(* within REMOVED_MEMBER_TTL_SECS, which is also longer than the platform  *)
(* client's cache.                                                         *)
(***************************************************************************)
EXTENDS Integers, FiniteSets

CONSTANTS
  Request,   \* requests that can be in progress at once
  Handler,   \* deliveries that can be in progress at once
  Event,
  KindOf     \* the type of an event

EventKind == {"org.deleted", "team.deleted", "member.removed"}

ASSUME EventAssumption ==
  /\ KindOf \in [Event -> EventKind]
  /\ "request" \notin Event  \* it names the audit rows of requests

VARIABLES
  at_platform,  \* what the platform knows: is the org there, is the member in it
  vouched,      \* the cached introspection says the member's token is active
  sent,         \* events the platform has started to deliver
  deleted_org,  \* a row of deleted_orgs
  removed,      \* a row of removed_members younger than its lifetime
  request,      \* each request's progress
  handler,      \* each delivery's progress
  markers,      \* platform_events
  held,         \* rows the member holds: leases, claims, cursors, sessions
  rows,         \* other rows of the org
  audit,        \* how often each event, or a request, was audited
  released,     \* history: cleaned up after the member left and since then not back
  purged,       \* history: the org's clean-up has committed
  forgotten     \* history: events whose marker was swept

eventVars == <<at_platform, vouched, sent, deleted_org, removed, request, handler, markers,
               held, rows, audit, released, purged, forgotten>>

platform_side == <<at_platform, vouched, sent>>
tombstones == <<deleted_org, removed>>
data == <<held, rows, audit>>
history == <<released, purged, forgotten>>

NoHandler == [step |-> "idle"]
Handling == [step: {"received", "tombstoned", "excluded", "marked"},
             event: Event,
             first: BOOLEAN]   \* it inserted the marker

EventInit ==
  /\ at_platform = [org |-> TRUE, member |-> TRUE]
  /\ vouched = TRUE
  /\ sent = {}
  /\ deleted_org = FALSE
  /\ removed = FALSE
  /\ request = [r \in Request |-> "idle"]
  /\ handler = [h \in Handler |-> NoHandler]
  /\ markers = {}
  /\ held = FALSE
  /\ rows = FALSE
  /\ audit = [e \in Event \cup {"request"} |-> 0]
  /\ released = FALSE
  /\ purged = FALSE
  /\ forgotten = {}

InTransaction == {r \in Request : request[r] \in {"live", "background"}}

Excluding == {h \in Handler : handler[h] # NoHandler
                              /\ handler[h].step \in {"excluded", "marked"}
                              /\ KindOf[handler[h].event] # "team.deleted"}

\* revoked_on, for a member and for nobody.
Revoked == deleted_org \/ removed

-----------------------------------------------------------------------------
(* The platform. *)

\* The platform deletes the org, a team of it or the membership, and tells.
Happens(e) ==
  /\ e \notin sent
  /\ at_platform.org
  /\ KindOf[e] = "member.removed" => at_platform.member
  /\ at_platform' = [org |-> KindOf[e] # "org.deleted",
                     member |-> at_platform.member /\ KindOf[e] = "team.deleted"]
  /\ sent' = sent \cup {e}
  /\ UNCHANGED <<vouched, tombstones, request, handler, markers, data, history>>

Return ==
  /\ at_platform.org /\ ~at_platform.member
  /\ at_platform' = [at_platform EXCEPT !.member = TRUE]
  /\ vouched' = TRUE
  /\ released' = FALSE
  /\ UNCHANGED <<sent, tombstones, request, handler, markers, data, purged, forgotten>>

\* A minute after the platform's last positive answer.
CacheExpires ==
  /\ vouched /\ ~at_platform.member
  /\ vouched' = FALSE
  /\ UNCHANGED <<at_platform, sent, tombstones, request, handler, markers, data, history>>

-----------------------------------------------------------------------------
(* Requests. *)

\* Introspection, then the tombstones.
Authenticate(r) ==
  /\ request[r] = "idle"
  /\ vouched
  /\ ~Revoked
  /\ request' = [request EXCEPT ![r] = "authenticated"]
  /\ UNCHANGED <<platform_side, tombstones, handler, markers, data, history>>

\* Slip: authentication has looked at the tombstones, and nobody does again.
NotRechecked(who) == TRUE

StillLive(who) == ~deleted_org /\ (who = "member" => ~removed)

\* begin_live takes the lock, shared, and looks at the tombstones under it.
BeginLive(r) ==
  /\ request[r] = "authenticated"
  /\ Excluding = {}
  /\ request' = [request EXCEPT ![r] = IF StillLive("member") THEN "live" ELSE "idle"]
  /\ UNCHANGED <<platform_side, tombstones, handler, markers, data, history>>

\* A tracker's delivery or a write-back: on nobody's behalf.
BeginBackground(r) ==
  /\ request[r] = "idle"
  /\ Excluding = {}
  /\ StillLive("nobody")
  /\ request' = [request EXCEPT ![r] = "background"]
  /\ UNCHANGED <<platform_side, tombstones, handler, markers, data, history>>

CommitRequest(r) ==
  /\ r \in InTransaction
  /\ held' = (held \/ request[r] = "live")
  /\ rows' = TRUE
  /\ audit' = [audit EXCEPT !["request"] = 1]
  /\ request' = [request EXCEPT ![r] = "idle"]
  /\ UNCHANGED <<platform_side, tombstones, handler, markers, history>>

AbortRequest(r) ==
  /\ request[r] # "idle"
  /\ request' = [request EXCEPT ![r] = "idle"]
  /\ UNCHANGED <<platform_side, tombstones, handler, markers, data, history>>

-----------------------------------------------------------------------------
(* Deliveries. *)

\* The signature is good.  An event is delivered until it is acknowledged, and
\* again when the acknowledgement is lost.
Receive(h, e) ==
  /\ handler[h] = NoHandler
  /\ e \in sent
  /\ handler' = [handler EXCEPT ![h] = [step |-> "received", event |-> e, first |-> FALSE]]
  /\ UNCHANGED <<platform_side, tombstones, request, markers, data, history>>

AtStep(h, step) == handler[h] # NoHandler /\ handler[h].step = step
KindAt(h) == KindOf[handler[h].event]
Advance(h, step) == handler' = [handler EXCEPT ![h].step = step]

Tombstone(h) ==
  /\ AtStep(h, "received")
  /\ deleted_org' = (deleted_org \/ KindAt(h) = "org.deleted")
  /\ removed' = (removed \/ KindAt(h) = "member.removed")
  /\ Advance(h, "tombstoned")
  /\ UNCHANGED <<platform_side, request, markers, data, history>>

\* Slip: the clean-up does not wait for transactions that are open.
NoWait(h) == TRUE

\* The lifecycle lock; team.deleted does without it.
MayClean(h) == KindAt(h) = "team.deleted" \/ (InTransaction = {} /\ Excluding = {})

\* exclude_requests; org.deleted goes on to delete the audit trail, which
\* commits by itself.
ExcludeRequests(h) ==
  /\ AtStep(h, "tombstoned")
  /\ MayClean(h)
  /\ audit' = IF KindAt(h) = "org.deleted" THEN [a \in DOMAIN audit |-> 0] ELSE audit
  /\ Advance(h, "excluded")
  /\ UNCHANGED <<platform_side, tombstones, request, markers, held, rows, history>>

\* Slip: the marker is looked up first and inserted at the end.
LookedUp(h) == TRUE

\* The insert of the marker waits for a delivery of the event that has inserted
\* it and not committed.
MarkerFree(h) ==
  \A other \in Handler : AtStep(other, "marked") => handler[other].event # handler[h].event

FirstDelivery(h) ==
  /\ AtStep(h, "excluded")
  /\ MarkerFree(h)
  /\ handler' = [handler EXCEPT ![h].step = "marked",
                                ![h].first = handler[h].event \notin markers]
  /\ UNCHANGED <<platform_side, tombstones, request, markers, data, history>>

\* The clean-up is done on every delivery, its audit entry on the first.
CommitCleanUp(h) ==
  LET e == handler[h].event
      kind == KindOf[e] IN
  /\ AtStep(h, "marked")
  /\ markers' = markers \cup {e}
  /\ held' = (held /\ kind = "team.deleted")
  /\ rows' = (rows /\ kind # "org.deleted")
  /\ audit' = IF handler[h].first /\ kind # "org.deleted" /\ audit[e] < 2
              THEN [audit EXCEPT ![e] = @ + 1] ELSE audit
  /\ released' = (released \/ (kind = "member.removed" /\ ~at_platform.member))
  /\ purged' = (purged \/ kind = "org.deleted")
  /\ handler' = [handler EXCEPT ![h] = NoHandler]
  /\ UNCHANGED <<platform_side, tombstones, request, forgotten>>

\* A database error or a dying replica: what has not committed is undone.
FailDelivery(h) ==
  /\ handler[h] # NoHandler
  /\ handler' = [handler EXCEPT ![h] = NoHandler]
  /\ UNCHANGED <<platform_side, tombstones, request, markers, data, history>>

\* The tombstone outlives the cache, and the requests and clean-ups it was for.
RemovalAges ==
  /\ removed
  /\ vouched => at_platform.member
  /\ \A r \in Request : request[r] = "idle"
  /\ \A h \in Handler : handler[h] = NoHandler
  /\ removed' = FALSE
  /\ UNCHANGED <<platform_side, deleted_org, request, handler, markers, data, history>>

\* sweep forgets old markers.
Sweep ==
  /\ markers # {}
  /\ markers' = {}
  /\ forgotten' = forgotten \cup markers
  /\ UNCHANGED <<platform_side, tombstones, request, handler, data, released, purged>>

EventNext ==
  \/ \E e \in Event : Happens(e)
  \/ Return \/ CacheExpires \/ RemovalAges \/ Sweep
  \/ \E r \in Request : \/ Authenticate(r) \/ BeginLive(r) \/ BeginBackground(r)
                        \/ CommitRequest(r) \/ AbortRequest(r)
  \/ \E h \in Handler, e \in Event : Receive(h, e)
  \/ \E h \in Handler : \/ Tombstone(h) \/ ExcludeRequests(h) \/ FirstDelivery(h)
                        \/ CommitCleanUp(h) \/ FailDelivery(h)

EventSpec == EventInit /\ [][EventNext]_eventVars

-----------------------------------------------------------------------------
(* Properties. *)

\* Once a removal has been cleaned up, the member who is gone holds nothing,
\* whatever request of theirs was on its way and whatever token is still cached.
RemovedHoldsNothing == released => ~held

\* Once a deleted org has been purged, no request or write-back brings a row of it
\* back.
PurgedStaysEmpty == purged => ~held /\ ~rows /\ audit["request"] = 0

\* An event leaves one audit entry, though several deliveries of it overlap.
AuditedOnce == \A e \in Event : audit[e] > 1 => e \in forgotten

\* "Only the dedupe marker survives" the clean-up of a deleted org.
OnlyMarkersSurvive == purged => \A a \in DOMAIN audit : audit[a] = 0

EventTypeOK ==
  /\ at_platform \in [org: BOOLEAN, member: BOOLEAN]
  /\ vouched \in BOOLEAN /\ deleted_org \in BOOLEAN /\ removed \in BOOLEAN
  /\ held \in BOOLEAN /\ rows \in BOOLEAN /\ released \in BOOLEAN /\ purged \in BOOLEAN
  /\ sent \subseteq Event /\ markers \subseteq sent /\ forgotten \subseteq sent
  /\ request \in [Request -> {"idle", "authenticated", "live", "background"}]
  /\ handler \in [Handler -> Handling \cup {NoHandler}]
  /\ audit \in [Event \cup {"request"} -> 0..2]

=============================================================================
