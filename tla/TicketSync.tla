----------------------------- MODULE TicketSync -----------------------------
(***************************************************************************)
(* One ticket of a tracker, and the jobs of one repo linked to it.         *)
(*                                                                         *)
(* Webhooks about the ticket create, edit and close jobs                   *)
(* (crates/of-web/src/routes/webhooks.rs, deciding as                      *)
(* crates/of-trackers/src/sync.rs does), and what agents do to the jobs is *)
(* written back to the ticket after they have committed                    *)
(* (crates/of-mcp/src/tools/jobs.rs).  A delivery reads the job without a  *)
(* lock, decides, and then writes under the job's row lock; the last write *)
(* and the commit are one step here.  The tracker sends every event        *)
(* several times, in any order, or never.  Jobs are not deleted.           *)
(***************************************************************************)
EXTENDS Integers, Sequences

CONSTANTS
  Delivery,     \* webhook requests
  Agent,        \* agents that work on the jobs
  MaxRevision,  \* bound: revisions of the ticket
  MaxTicketJob, \* bound: jobs
  MaxCompletion \* bound: completions after which no job is queued again

ASSUME TicketAssumption ==
  /\ MaxRevision \in Nat \ {0}
  /\ MaxTicketJob \in Nat
  /\ MaxCompletion \in Nat

VARIABLES
  tracker,      \* which tracker the repo is bound to
  ticket,       \* the ticket, in the tracker
  sent,         \* events about it that sync.rs may act on
  jobs,         \* rows of jobs, oldest first
  delivery,     \* what each webhook request is doing
  agent,        \* what each agent is writing back
  completions   \* completion rows, as the usage outbox gets them

ticketVars == <<tracker, ticket, sent, jobs, delivery, agent, completions>>

\* How a ticket stands: open, or closed in a way that completes or fails a job.
Outcome == {"open", "completed", "failed"}

\* allowed: billable work is not blocked, or the platform did not answer.
Standing == {"unasked", "allowed", "blocked"}
Live == {"pending", "claimed"}

\* worked: attempts > 0.  revision: remote_revision, 0 for NULL.
TicketJob == [status: Live \cup {"completed", "failed", "cancelled"}, worked: BOOLEAN,
              linked: BOOLEAN, revision: 0..MaxRevision]

\* revision: 0 in an event that has no updated_at, or one that is not RFC 3339.
TicketEvent == [revision: 0..MaxRevision, closes: Outcome]

NoTicketJob == [status |-> "cancelled", worked |-> FALSE, linked |-> FALSE, revision |-> 0]
HandQueued == [NoTicketJob EXCEPT !.status = "pending"]

\* GitHub says how a ticket was closed in the event that closes it; a JIRA rule
\* sends the ticket as it stands, whatever happened.
Snapshot(t, closing) ==
  [revision |-> t.revision, closes |-> IF tracker = "jira" \/ closing THEN t.closes ELSE "open"]

Undated(e) == [e EXCEPT !.revision = 0]

\* doing: what the request has decided, or "asking" while it waits for the
\* platform.  worked, stored: what it read of the job.
NoDelivery == [doing |-> "idle", event |-> [revision |-> 1, closes |-> "open"], job |-> 0,
               worked |-> FALSE, stored |-> 0, standing |-> "unasked"]
Delivering == [doing: {"idle", "create", "update", "completed", "failed", "asking"},
               event: TicketEvent, job: Nat, worked: BOOLEAN, stored: 0..MaxRevision,
               standing: Standing]

\* plan: the status the job was found in or left in.
Plan == {"claimed", "completed", "failed", "cancelled"}
NoWriteBack == [step |-> "idle", job |-> 0, plan |-> "claimed", revision |-> 0]
WritingBack == [step: {"idle", "posting", "moving", "reading", "storing"}, job: Nat,
                plan: Plan, revision: 0..MaxRevision]

\* A row of usage about a completed job, and why it is billed or not.
Completion == [job: Nat, worked: BOOLEAN, standing: Standing, billed: BOOLEAN]

TicketInit ==
  /\ tracker \in {"github", "jira"}
  /\ ticket = [revision |-> 1, closes |-> "open"]
  /\ sent \in {{Snapshot(ticket, FALSE)}, {Undated(Snapshot(ticket, FALSE))}}
  /\ jobs \in {<<>>, <<HandQueued>>}
  /\ delivery = [d \in Delivery |-> NoDelivery]
  /\ agent = [a \in Agent |-> NoWriteBack]
  /\ completions = <<>>

-----------------------------------------------------------------------------
(* The tracker.  An event of a ticket without the trigger label is dropped   *)
(* whatever else it says: it is not in sent.                                 *)

\* Somebody writes to the ticket.
Write(closes) ==
  /\ ticket.revision < MaxRevision
  /\ ticket' = [revision |-> ticket.revision + 1, closes |-> closes]

Announce(e) == sent' \in {sent \cup {e}, sent \cup {Undated(e)}}

EditTicket ==
  /\ Write(ticket.closes)
  /\ UNCHANGED sent \/ Announce(Snapshot(ticket', FALSE))
  /\ UNCHANGED <<tracker, jobs, delivery, agent, completions>>

CloseTicket(to) ==
  /\ ticket.closes = "open"
  /\ Write(to)
  /\ Announce(Snapshot(ticket', TRUE))
  /\ UNCHANGED <<tracker, jobs, delivery, agent, completions>>

\* GitHub's event about it is not heard.
ReopenTicket ==
  /\ ticket.closes # "open"
  /\ Write("open")
  /\ IF tracker = "jira" THEN Announce(Snapshot(ticket', FALSE)) ELSE UNCHANGED sent
  /\ UNCHANGED <<tracker, jobs, delivery, agent, completions>>

-----------------------------------------------------------------------------
(* Webhooks.  A request that cannot be verified, or finds no connection or   *)
(* binding, leaves no trace: TrackerCredentials is about those.              *)

LinkedJobs == {j \in DOMAIN jobs : jobs[j].linked}

\* j is the newest job of the ticket, whatever its status, or 0 if it has none.
Existing(j) ==
  IF LinkedJobs = {} THEN j = 0 ELSE j \in LinkedJobs /\ \A k \in LinkedJobs : k <= j

Row(j) == IF j = 0 THEN NoTicketJob ELSE jobs[j]

\* Slip: only an event of the very revision stored is taken for an echo.
SameRevision(stored, incoming) == stored # 0 /\ incoming = stored

\* is_stale_or_echoed, which cannot tell unless both revisions can be read.
IsStale(stored, incoming) == stored # 0 /\ incoming # 0 /\ incoming <= stored

\* inbound_decision, for the job read as row.
Decision(e, j, row) ==
  CASE j = 0 /\ e.closes = "open" -> "create"
    [] j # 0 /\ ~IsStale(row.revision, e.revision) /\ row.status \in Live ->
         IF e.closes = "open" THEN "update" ELSE e.closes
    [] OTHER -> "drop"

\* The request reads the job without a lock, and decides.
Decide(d, e, standing) ==
  \E j \in {0} \cup DOMAIN jobs :
    /\ Existing(j)
    /\ Decision(e, j, Row(j)) # "drop"
    /\ delivery' = [delivery EXCEPT ![d] =
         [doing |-> Decision(e, j, Row(j)), event |-> e, job |-> j,
          worked |-> Row(j).worked, stored |-> Row(j).revision, standing |-> standing]]

Forget(d) == delivery' = [delivery EXCEPT ![d] = NoDelivery]

\* An event that is dropped leaves no trace.
Receive(d, e) ==
  /\ delivery[d].doing = "idle"
  /\ e \in sent
  /\ Decide(d, e, "unasked")
  /\ UNCHANGED <<tracker, ticket, sent, jobs, agent, completions>>

\* Slip: the index holds only for jobs nobody has claimed.
PendingJobs == {j \in LinkedJobs : jobs[j].status = "pending"}

\* The jobs of jobs_org_repo_tracker_ticket_open_idx.
OpenJobs == {j \in LinkedJobs : jobs[j].status \in Live}

\* The loser of a race for the index answers with the winner's job.
CreateFromTicket(d) ==
  /\ delivery[d].doing = "create"
  /\ Forget(d)
  /\ IF OpenJobs # {}
     THEN UNCHANGED jobs
     ELSE /\ Len(jobs) < MaxTicketJob
          /\ jobs' = Append(jobs, [status |-> "pending", worked |-> FALSE, linked |-> TRUE,
                                   revision |-> delivery[d].event.revision])
  /\ UNCHANGED <<tracker, ticket, sent, agent, completions>>

\* The event's revision, or the one stored if it has none.
Stamp(d, stored) == IF delivery[d].event.revision = 0 THEN stored ELSE delivery[d].event.revision

\* The ticket's text and revision, under no condition but the job's id.
UpdateFromTicket(d) ==
  /\ delivery[d].doing = "update"
  /\ jobs' = [jobs EXCEPT ![delivery[d].job].revision = Stamp(d, @)]
  /\ Forget(d)
  /\ UNCHANGED <<tracker, ticket, sent, agent, completions>>

\* Slip: the status is taken as it was read before the lock.
AnyStatus(status) == TRUE

Closable(status) == status \in Live

\* A completion is billed if an agent ever claimed the job and the org's
\* billable work is not blocked.
TicketCompletion(j, worked, standing) ==
  [job |-> j, worked |-> worked, standing |-> standing, billed |-> worked /\ standing # "blocked"]

\* Slip: only the job read before the lock is asked whether an agent worked.
NoRecheck(d, row) == FALSE

\* The job as it was locked has been worked on, and no standing was asked for.
NeedsStanding(d, row) == row.worked /\ delivery[d].standing = "unasked"

\* Nothing is written before the org's standing is known: it is asked for as
\* soon as a worked job is read, or once one is locked.
AskStanding(d) ==
  LET row == jobs[delivery[d].job] IN
  /\ delivery[d].doing = "completed"
  /\ \/ delivery[d].worked /\ delivery[d].standing = "unasked"
     \/ Closable(row.status) /\ NeedsStanding(d, row)
  /\ delivery' = [delivery EXCEPT ![d] = [NoDelivery EXCEPT !.doing = "asking", !.event = delivery[d].event]]
  /\ UNCHANGED <<tracker, ticket, sent, jobs, agent, completions>>

CloseFromTicket(d, to) ==
  LET j == delivery[d].job IN
  /\ delivery[d].doing = to
  /\ Closable(jobs[j].status)
  /\ to = "completed" => /\ ~(delivery[d].worked /\ delivery[d].standing = "unasked")
                         /\ ~NeedsStanding(d, jobs[j])
  /\ jobs' = [jobs EXCEPT ![j].status = to, ![j].revision = Stamp(d, @)]
  /\ completions' = IF to = "completed"
       THEN Append(completions, TicketCompletion(j, jobs[j].worked, delivery[d].standing))
       ELSE completions
  /\ Forget(d)
  /\ UNCHANGED <<tracker, ticket, sent, agent>>

\* A second transaction reads everything again; whatever is dropped this time,
\* or finds its connection replaced or re-keyed, is abandoned.
Reopen(d, standing) ==
  /\ delivery[d].doing = "asking"
  /\ Decide(d, delivery[d].event, standing)
  /\ UNCHANGED <<tracker, ticket, sent, jobs, agent, completions>>

\* The job is no longer open, the request is cancelled, or its replica dies:
\* nothing of it is kept, and the tracker may deliver the event again.
AbandonDelivery(d) ==
  /\ delivery[d].doing # "idle"
  /\ Forget(d)
  /\ UNCHANGED <<tracker, ticket, sent, jobs, agent, completions>>

-----------------------------------------------------------------------------
(* Agents, and what is written back. *)

\* After the commit, for a job with a ticket.
WriteBack(a, j, plan) ==
  agent' = IF jobs[j].linked
           THEN [agent EXCEPT ![a] = [step |-> "posting", job |-> j, plan |-> plan, revision |-> 0]]
           ELSE agent

ClaimTicketJob(a, j) ==
  /\ agent[a].step = "idle"
  /\ jobs[j].status = "pending"
  /\ jobs' = [jobs EXCEPT ![j].status = "claimed", ![j].worked = TRUE]
  /\ WriteBack(a, j, "claimed")
  /\ UNCHANGED <<tracker, ticket, sent, delivery, completions>>

\* The standing is asked for before the transaction; a blocked org is refused.
CompleteTicketJob(a, j, standing) ==
  /\ agent[a].step = "idle"
  /\ jobs[j].status = "claimed"
  /\ standing # "blocked"
  /\ jobs' = [jobs EXCEPT ![j].status = "completed"]
  /\ completions' = Append(completions, TicketCompletion(j, TRUE, standing))
  /\ WriteBack(a, j, "completed")
  /\ UNCHANGED <<tracker, ticket, sent, delivery>>

EndTicketJob(a, j, to) ==
  /\ agent[a].step = "idle"
  /\ jobs[j].status = "claimed" \/ (jobs[j].status = "pending" /\ to = "cancelled")
  /\ jobs' = [jobs EXCEPT ![j].status = to]
  /\ WriteBack(a, j, to)
  /\ UNCHANGED <<tracker, ticket, sent, delivery, completions>>

\* Nothing is written back, and the index may refuse it.
RependTicketJob(j) ==
  /\ jobs[j].status # "pending"
  /\ Len(completions) < MaxCompletion
  /\ jobs[j].linked => OpenJobs \subseteq {j}
  /\ jobs' = [jobs EXCEPT ![j].status = "pending"]
  /\ UNCHANGED <<tracker, ticket, sent, delivery, agent, completions>>

\* link_ticket, of a job without a ticket, with another, or with this one.
LinkTicket(j) ==
  /\ jobs[j].status \in Live => OpenJobs \subseteq {j}
  /\ jobs' = [jobs EXCEPT ![j].linked = TRUE, ![j].revision = 0]
  /\ UNCHANGED <<tracker, ticket, sent, delivery, agent, completions>>

\* From here on the job is another ticket's, whatever a delivery or a write-back
\* for this one is about to do to it.
LinkElsewhere(j) ==
  /\ jobs[j].linked
  /\ jobs' = [jobs EXCEPT ![j].linked = FALSE, ![j].revision = 0]
  /\ UNCHANGED <<tracker, ticket, sent, delivery, agent, completions>>

\* The status the job had when it was read decides what is posted.
SyncTicket(a, j) ==
  /\ agent[a].step = "idle"
  /\ jobs[j].linked
  /\ jobs[j].status # "pending"
  /\ WriteBack(a, j, jobs[j].status)
  /\ UNCHANGED <<tracker, ticket, sent, jobs, delivery, completions>>

\* outbound_decision: how the ticket is to stand, if its status is to change.
Target(plan) ==
  CASE plan = "completed" -> {"completed"}
    [] tracker = "jira" /\ plan \in {"claimed", "failed"} -> {"open"}
    [] OTHER -> {}

\* The binding is found, and a comment posted.  The event about a comment
\* is ignored, but the comment is a change to the ticket.
PostComment(a) ==
  /\ agent[a].step = "posting"
  /\ Write(ticket.closes)
  /\ agent' = [agent EXCEPT ![a].step = IF Target(agent[a].plan) = {} THEN "reading" ELSE "moving"]
  /\ UNCHANGED <<tracker, sent, jobs, delivery, completions>>

\* GitHub answers with the new revision; JIRA has to be asked.  A JIRA workflow
\* may have no such transition.
MoveTicket(a, to) ==
  /\ agent[a].step = "moving"
  /\ to \in Target(agent[a].plan)
  /\ Write(to)
  /\ Announce(Snapshot(ticket', TRUE))
  /\ agent' = [agent EXCEPT ![a].step = IF tracker = "github" THEN "storing" ELSE "reading",
                            ![a].revision = IF tracker = "github" THEN ticket'.revision ELSE 0]
  /\ UNCHANGED <<tracker, jobs, delivery, completions>>

NoTransition(a) ==
  /\ agent[a].step = "moving"
  /\ tracker = "jira"
  /\ agent' = [agent EXCEPT ![a].step = "reading"]
  /\ UNCHANGED <<tracker, ticket, sent, jobs, delivery, completions>>

ReadRevision(a) ==
  /\ agent[a].step = "reading"
  /\ agent' = [agent EXCEPT ![a].step = "storing", ![a].revision = ticket.revision]
  /\ UNCHANGED <<tracker, ticket, sent, jobs, delivery, completions>>

\* set_remote_revision: whatever the job is by now.
StoreRevision(a) ==
  /\ agent[a].step = "storing"
  /\ jobs' = [jobs EXCEPT ![agent[a].job].revision = agent[a].revision]
  /\ agent' = [agent EXCEPT ![a] = NoWriteBack]
  /\ UNCHANGED <<tracker, ticket, sent, delivery, completions>>

\* A write-back that fails, or gets no revision that can be read, leaves the job
\* as it is.
GiveUp(a) ==
  /\ agent[a].step # "idle"
  /\ agent' = [agent EXCEPT ![a] = NoWriteBack]
  /\ UNCHANGED <<tracker, ticket, sent, jobs, delivery, completions>>

TicketNext ==
  \/ EditTicket \/ ReopenTicket
  \/ \E to \in {"completed", "failed"} : CloseTicket(to)
  \/ \E d \in Delivery :
       \/ \E e \in sent : Receive(d, e)
       \/ CreateFromTicket(d) \/ UpdateFromTicket(d) \/ AskStanding(d) \/ AbandonDelivery(d)
       \/ \E to \in {"completed", "failed"} : CloseFromTicket(d, to)
       \/ \E standing \in Standing \ {"unasked"} : Reopen(d, standing)
  \/ \E a \in Agent, j \in DOMAIN jobs :
       \/ ClaimTicketJob(a, j) \/ SyncTicket(a, j)
       \/ \E standing \in Standing \ {"unasked"} : CompleteTicketJob(a, j, standing)
       \/ \E to \in {"failed", "cancelled"} : EndTicketJob(a, j, to)
  \/ \E j \in DOMAIN jobs : RependTicketJob(j) \/ LinkTicket(j) \/ LinkElsewhere(j)
  \/ \E a \in Agent :
       \/ PostComment(a) \/ NoTransition(a) \/ ReadRevision(a) \/ StoreRevision(a) \/ GiveUp(a)
       \/ \E to \in Outcome : MoveTicket(a, to)

TicketSpec == TicketInit /\ [][TicketNext]_ticketVars

-----------------------------------------------------------------------------

TicketTypeOK ==
  /\ tracker \in {"github", "jira"}
  /\ ticket \in TicketEvent
  /\ sent \subseteq TicketEvent
  /\ jobs \in Seq(TicketJob)
  /\ delivery \in [Delivery -> Delivering]
  /\ agent \in [Agent -> WritingBack]
  /\ completions \in Seq(Completion)

\* A ticket has one open job at a time, whoever creates, links or queues again,
\* and whatever the deliveries and the tools saw before they wrote.
OneOpenJob ==
  \A i, j \in DOMAIN jobs :
    /\ jobs[i].linked /\ jobs[i].status \in Live
    /\ jobs[j].linked /\ jobs[j].status \in Live
    => i = j

\* A completion is billed if an agent worked on the job and the org was not
\* blocked, and for a job an agent worked on that standing was asked for,
\* though a claim may land between a delivery's read and its close.
BilledAsJudged ==
  \A i \in DOMAIN completions : LET c == completions[i] IN
    /\ c.worked => c.standing # "unasked"
    /\ c.billed <=> c.worked /\ c.standing # "blocked"

\* Completion rows are written one for one: in the step that takes an open job
\* to completed, and in no other (the module doc of
\* crates/of-billing/src/completion.rs), although agents and deliveries close
\* the same job from what they read earlier.
OneRowPerCompletion ==
  [][LET done == {j \in DOMAIN jobs : jobs[j].status \in Live /\ jobs'[j].status = "completed"} IN
     \/ done = {} /\ completions' = completions
     \/ \E j \in done : /\ done = {j}
                        /\ Len(completions') = Len(completions) + 1
                        /\ completions'[Len(completions')].job = j]_ticketVars

\* Deliveries arrive in any order and more than once: a delivery leaves the job
\* with a later revision than it had, or, if the event has none that can be read,
\* with the one it had, unless something else wrote the job between the
\* delivery's read and its write.
OlderNeverWins ==
  [][\A d \in Delivery : LET j == delivery[d].job IN
     (/\ j # 0
      /\ delivery[d].stored = jobs[j].revision
      /\ delivery'[d].doing = "idle"
      /\ jobs' # jobs)
     => IF delivery[d].event.revision = 0
        THEN jobs'[j].revision = jobs[j].revision
        ELSE jobs'[j].revision > jobs[j].revision]_ticketVars

=============================================================================
