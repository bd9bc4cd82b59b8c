---------------------------- MODULE UsageOutbox ----------------------------
(***************************************************************************)
(* The usage outbox and its shippers (crates/of-billing/src/outbox.rs).    *)
(*                                                                         *)
(* A metered call commits a row of usage_outbox.  Every replica of the     *)
(* server runs a shipper that claims due rows, posts them to the platform, *)
(* deletes what the platform has answered for, and moves what it refused   *)
(* for good to usage_outbox_rejected.                                      *)
(*                                                                         *)
(* next_attempt_at is both the retry backoff and the lease of a claim.     *)
(* Which of the two, and how long, decides nothing: a row is due or not,   *)
(* and time makes any row due, whatever its claimer is doing.              *)
(*                                                                         *)
(* The platform is external, modelled from what the shipper handles: it    *)
(* dedupes on event_id, may lose its meter declarations, may be down, may  *)
(* process a post whose reply is lost or whose sender has given up, may    *)
(* answer for part of a batch, and refuses events of orgs it has deleted.  *)
(*                                                                         *)
(* Left out: rows of free calls' tool names, last_error, logging, the size *)
(* of a delay, rewrite_retired_meters (shipping maps a retired meter       *)
(* anyway).                                                                *)
(***************************************************************************)
EXTENDS Integers, FiniteSets

CONSTANTS
  Replica,        \* processes that run a shipper
  Org,
  Event,          \* ids of usage_outbox rows: numbers, in the order of insertion
  OrgOf,          \* the org an event belongs to
  MeterOf,        \* the meter key a row was enqueued under
  Batch,          \* ShipperConfig.batch
  MaxDisruptions  \* bound: crashes, shutdowns and lost declarations together

Meter == {"none", "current", "retired"}

ASSUME ReplicaAssumption == IsFiniteSet(Replica)
ASSUME EventAssumption == Event \subseteq Nat /\ IsFiniteSet(Event)
ASSUME OrgOfAssumption == OrgOf \in [Event -> Org]
ASSUME MeterOfAssumption == MeterOf \in [Event -> Meter]
ASSUME BatchAssumption == Batch \in Nat \ {0}
ASSUME MaxDisruptionsAssumption == MaxDisruptions \in Nat

VARIABLES
  recorded,     \* history: events whose row was ever committed
  outbox,       \* usage_outbox
  due,          \* rows with next_attempt_at <= now()
  dead,         \* how many rows of usage_outbox_rejected each event has
  purged,       \* orgs whose org.deleted was applied here
  shipper,      \* each replica's shipper task
  counted,      \* platform: events it has counted
  declared,     \* platform: meter keys it knows
  gone,         \* platform: orgs it has deleted
  late,         \* network: events of posts whose sender has given up
  disruptions

platform == <<counted, declared, gone>>
vars == <<recorded, outbox, due, dead, purged, shipper, counted, declared, gone, late, disruptions>>

\* The steps of one pass: a post is awaited ("posted"), its receipt accounts for
\* the batch ("answered"), refused rows have been copied in an open transaction
\* ("copied"), or the pass is to be retried ("failed").
Shipper == [step: {"off", "declaring", "ready", "posted", "answered", "copied", "failed"},
            stopping: BOOLEAN,      \* this pass is the last one
            batch: SUBSET Event,
            held: SUBSET Event,     \* refused as unknown_meter
            refused: SUBSET Event,  \* refused for good
            copies: SUBSET Event]   \* dead letters of the open transaction

Off == [step |-> "off", stopping |-> FALSE,
        batch |-> {}, held |-> {}, refused |-> {}, copies |-> {}]

-----------------------------------------------------------------------------
(* The tables. *)

\* enqueue, in the transaction of the call it meters.  A transaction of a purged
\* org does not begin (begin_live).
Record(e) ==
  /\ e \notin recorded
  /\ OrgOf[e] \notin purged
  /\ recorded' = recorded \cup {e}
  /\ outbox' = outbox \cup {e}
  /\ due' = due \cup {e}
  /\ UNCHANGED <<dead, purged, shipper, platform, late, disruptions>>

\* A backoff or a claim's lease runs out.
ComeDue(e) ==
  /\ e \in outbox \ due
  /\ due' = due \cup {e}
  /\ UNCHANGED <<recorded, outbox, dead, purged, shipper, platform, late, disruptions>>

\* org.deleted arrives: the org's unshipped usage is deleted.
Purge(o) ==
  /\ o \in gone
  /\ purged' = purged \cup {o}
  /\ outbox' = {e \in outbox : OrgOf[e] # o}
  /\ due' = {e \in due : OrgOf[e] # o}
  /\ UNCHANGED <<recorded, dead, shipper, platform, late, disruptions>>

-----------------------------------------------------------------------------
(* The shipper. *)

Start(r) ==
  /\ shipper[r].step = "off"
  /\ shipper' = [shipper EXCEPT ![r].step = "declaring"]
  /\ UNCHANGED <<recorded, outbox, due, dead, purged, platform, late, disruptions>>

\* declare_meters, once the platform accepts; an attempt it does not accept is
\* repeated.
Declare(r) ==
  /\ shipper[r].step = "declaring"
  /\ shipper' = [shipper EXCEPT ![r].step = "ready"]
  /\ declared' = declared \cup {"current"}
  /\ UNCHANGED <<recorded, outbox, due, dead, purged, counted, gone, late, disruptions>>

\* The oldest due rows, a batch at most.
Oldest == {e \in due : Cardinality({d \in due : d < e}) < Batch}

\* The claim UPDATE, and the post it is followed by.
Claim(r) ==
  /\ shipper[r].step = "ready"
  /\ due # {}
  /\ shipper' = [shipper EXCEPT ![r].step = "posted", ![r].batch = Oldest]
  /\ due' = due \ Oldest
  /\ UNCHANGED <<recorded, outbox, dead, purged, platform, late, disruptions>>

\* Slip: a retired meter is shipped as it was enqueued.
MeterAsEnqueued(key) == key

CurrentMeter(key) == IF key = "retired" THEN "current" ELSE key

\* Why the platform refuses an event now; "none" when it does not.
Reason(e) ==
  LET key == CurrentMeter(MeterOf[e]) IN
  IF key # "none" /\ key \notin declared THEN "unknown_meter"
  ELSE IF OrgOf[e] \in gone THEN "no_such_org"
  ELSE "none"

\* Slip: every refusal is final.
NeverUnknownMeter(reason) == FALSE

IsUnknownMeter(reason) == reason = "unknown_meter"

\* Slip: the receipt is taken to answer for the whole batch.
AddsUpAlways(answered, batch) == TRUE

\* accepted + duplicates + rejected = the batch's length.
AddsUp(answered, batch) == Cardinality(answered) = Cardinality(batch)

\* The platform processes the events P of r's post.  Nothing comes of a reply
\* that is lost, or that does not account for the whole batch, except that the
\* rest of an unanswered post may still be on its way.
Ingest(r, P, replied) ==
  /\ shipper[r].step = "posted"
  /\ P \subseteq shipper[r].batch
  /\ counted' = counted \cup {e \in P : Reason(e) = "none"}
  /\ IF replied /\ AddsUp(P, shipper[r].batch)
     THEN shipper' = [shipper EXCEPT ![r] =
            [step |-> "answered", stopping |-> @.stopping, batch |-> @.batch,
             held |-> {e \in P : IsUnknownMeter(Reason(e))},
             refused |-> {e \in P : Reason(e) # "none" /\ ~IsUnknownMeter(Reason(e))},
             copies |-> {}]]
     ELSE shipper' = [shipper EXCEPT ![r].step = "failed"]
  /\ late' = IF replied THEN late ELSE late \cup (shipper[r].batch \ P)
  /\ UNCHANGED <<recorded, outbox, due, dead, purged, declared, gone, disruptions>>

\* Where a pass leaves the loop: the last one ends the task, and one with events
\* refused as unknown_meter declares the meters again.
AfterPass(s, redeclare) ==
  IF s.stopping THEN Off ELSE [Off EXCEPT !.step = IF redeclare THEN "declaring" ELSE "ready"]

\* reschedule: back off, or, when even that cannot be written, leave the rows
\* to the claim's lease.
Reschedule(r) ==
  /\ shipper[r].step = "failed"
  /\ due' \in {due, due \ shipper[r].batch}
  /\ shipper' = [shipper EXCEPT ![r] = AfterPass(@, FALSE)]
  /\ UNCHANGED <<recorded, outbox, dead, purged, platform, late, disruptions>>

\* The settling transaction begins: INSERT INTO usage_outbox_rejected ... SELECT
\* FROM usage_outbox copies what is in the outbox now.
CopyRefused(r) ==
  /\ shipper[r].step = "answered"
  /\ shipper' = [shipper EXCEPT ![r].step = "copied",
                                ![r].copies = shipper[r].refused \cap outbox]
  /\ UNCHANGED <<recorded, outbox, due, dead, purged, platform, late, disruptions>>

\* Slip: the whole batch is deleted.
SettleAll(r) ==
  /\ shipper[r].step = "copied"
  /\ dead' = [e \in Event |-> dead[e] + (IF e \in shipper[r].copies THEN 1 ELSE 0)]
  /\ outbox' = outbox \ shipper[r].batch
  /\ due' = due \ shipper[r].batch
  /\ shipper' = [shipper EXCEPT ![r] = AfterPass(@, shipper[r].held # {})]
  /\ UNCHANGED <<recorded, purged, platform, late, disruptions>>

\* Slip: what was refused stays in the outbox.
SettleKeepingRefused(r) ==
  /\ shipper[r].step = "copied"
  /\ dead' = [e \in Event |-> dead[e] + (IF e \in shipper[r].copies THEN 1 ELSE 0)]
  /\ outbox' = outbox \ (shipper[r].batch \ (shipper[r].held \cup shipper[r].refused))
  /\ due' = due \ shipper[r].batch
  /\ shipper' = [shipper EXCEPT ![r] = AfterPass(@, shipper[r].held # {})]
  /\ UNCHANGED <<recorded, purged, platform, late, disruptions>>

\* ... and ends: the batch is deleted, except that what was refused as
\* unknown_meter stays and backs off.
Settle(r) ==
  /\ shipper[r].step = "copied"
  /\ dead' = [e \in Event |-> dead[e] + (IF e \in shipper[r].copies THEN 1 ELSE 0)]
  /\ outbox' = outbox \ (shipper[r].batch \ shipper[r].held)
  /\ due' = due \ shipper[r].batch
  /\ shipper' = [shipper EXCEPT ![r] = AfterPass(@, shipper[r].held # {})]
  /\ UNCHANGED <<recorded, purged, platform, late, disruptions>>

\* The database refuses the transaction: it rolls back, and the rows are due
\* again when their lease runs out.
RollBack(r) ==
  /\ shipper[r].step \in {"answered", "copied"}
  /\ shipper' = [shipper EXCEPT ![r] = AfterPass(@, FALSE)]
  /\ UNCHANGED <<recorded, outbox, due, dead, purged, platform, late, disruptions>>

\* Shutdown between two passes makes the next one the last.
Shutdown(r) ==
  /\ disruptions < MaxDisruptions
  /\ shipper[r].step = "ready"
  /\ ~shipper[r].stopping
  /\ shipper' = [shipper EXCEPT ![r].stopping = TRUE]
  /\ disruptions' = disruptions + 1
  /\ UNCHANGED <<recorded, outbox, due, dead, purged, platform, late>>

\* The last pass finds nothing due.
FlushNothing(r) ==
  /\ shipper[r].step = "ready"
  /\ shipper[r].stopping
  /\ due = {}
  /\ shipper' = [shipper EXCEPT ![r] = Off]
  /\ UNCHANGED <<recorded, outbox, due, dead, purged, platform, late, disruptions>>

\* A crash, or a shutdown while declaring, which makes no last pass.  A post
\* may still be on its way.
Stop(r) ==
  /\ disruptions < MaxDisruptions
  /\ shipper[r].step # "off"
  /\ late' = IF shipper[r].step = "posted" THEN late \cup shipper[r].batch ELSE late
  /\ shipper' = [shipper EXCEPT ![r] = Off]
  /\ disruptions' = disruptions + 1
  /\ UNCHANGED <<recorded, outbox, due, dead, purged, platform>>

-----------------------------------------------------------------------------
(* The platform, on its own. *)

\* A post arrives after its sender has given up.
ArriveLate(e) ==
  /\ e \in late
  /\ late' = late \ {e}
  /\ counted' = IF Reason(e) = "none" THEN counted \cup {e} ELSE counted
  /\ UNCHANGED <<recorded, outbox, due, dead, purged, shipper, declared, gone, disruptions>>

LoseDeclarations ==
  /\ disruptions < MaxDisruptions
  /\ declared # {}
  /\ declared' = {}
  /\ disruptions' = disruptions + 1
  /\ UNCHANGED <<recorded, outbox, due, dead, purged, shipper, counted, gone, late>>

DeleteOrg(o) ==
  /\ o \notin gone
  /\ gone' = gone \cup {o}
  /\ UNCHANGED <<recorded, outbox, due, dead, purged, shipper, counted, declared, late, disruptions>>

-----------------------------------------------------------------------------

Init ==
  /\ recorded = {}
  /\ outbox = {}
  /\ due = {}
  /\ dead = [e \in Event |-> 0]
  /\ purged = {}
  /\ shipper = [r \in Replica |-> Off]
  /\ counted = {}
  /\ declared = {}
  /\ gone = {}
  /\ late = {}
  /\ disruptions = 0

Post(r) == \E P \in SUBSET shipper[r].batch, replied \in BOOLEAN : Ingest(r, P, replied)

ShipperStep(r) ==
  \/ Start(r) \/ Declare(r) \/ Claim(r) \/ Post(r) \/ Reschedule(r)
  \/ CopyRefused(r) \/ Settle(r) \/ RollBack(r)
  \/ Shutdown(r) \/ FlushNothing(r) \/ Stop(r)

Next ==
  \/ \E r \in Replica : ShipperStep(r)
  \/ \E e \in Event : Record(e) \/ ComeDue(e) \/ ArriveLate(e)
  \/ \E o \in Org : Purge(o) \/ DeleteOrg(o)
  \/ LoseDeclarations

Spec == Init /\ [][Next]_vars

\* The platform is not down forever: a declaration that is repeated is at last
\* accepted, and posts that go on being made are at last answered.  Nor is the
\* database.  The shipper's task runs, and a process that stops is started
\* again by its supervisor.  Nothing makes a call, a crash or a deletion happen.
Fairness ==
  /\ \A r \in Replica :
       /\ WF_vars(Start(r))
       /\ SF_vars(Declare(r))
       /\ SF_vars(Claim(r))
       /\ SF_vars(Ingest(r, shipper[r].batch, TRUE))
       /\ WF_vars(Reschedule(r))
       /\ SF_vars(CopyRefused(r))
       /\ SF_vars(Settle(r))
       /\ WF_vars(FlushNothing(r))
  /\ \A e \in Event : WF_vars(ComeDue(e))

FairSpec == Spec /\ Fairness

-----------------------------------------------------------------------------
(* Properties. *)

TypeOK ==
  /\ recorded \subseteq Event
  /\ outbox \subseteq Event
  /\ due \subseteq outbox
  /\ dead \in [Event -> Nat]
  /\ purged \subseteq Org
  /\ shipper \in [Replica -> Shipper]
  /\ counted \subseteq Event
  /\ declared \subseteq Meter
  /\ gone \subseteq Org
  /\ late \subseteq Event
  /\ disruptions \in Nat

\* The shipper's only job is to never lose a row: a recorded event is still
\* queued, or counted by the platform, or kept as a dead letter, or was deleted
\* with its whole org, whatever two replicas, lost replies, receipts that do not
\* add up and crashes do in between.
NothingLost ==
  \A e \in recorded :
    e \in outbox \/ e \in counted \/ dead[e] > 0 \/ OrgOf[e] \in purged

\* "An unknown_meter refusal is never final": only an event of a deleted org
\* becomes a dead letter, however often the platform loses the declaration.
OnlyFinalRefusalsDie ==
  \A e \in Event : dead[e] > 0 => OrgOf[e] \in gone

\* The copy takes no lock, so two replicas that both got a refusal for one row
\* both keep it.  That is all: a row that one of them has settled is not copied
\* again, so no replica keeps an event twice, whatever rolls back or is retried.
OneLetterPerReplica == \A e \in Event : dead[e] <= Cardinality(Replica)

\* platform_events.rs of org.deleted: "Every row this database holds for the org
\* is deleted".  Once the purge is applied no usage of the org is left, queued or
\* as a dead letter.
PurgeLeavesNothing ==
  \A e \in Event : OrgOf[e] \in purged => e \notin outbox /\ dead[e] = 0

\* While the platform is down rows accumulate; when it returns they drain.
Drains == \A e \in Event : e \in outbox ~> e \notin outbox

\* What the platform is owed: nothing is dropped unanswered, and what was
\* written off as a dead letter is not billed afterwards.
Ledger == INSTANCE UsageLedger WITH
  owed <- outbox,
  writtenOff <- {e \in Event : dead[e] > 0},
  closed <- purged

KeepsLedger == Ledger!Spec

=============================================================================
