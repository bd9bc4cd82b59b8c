# Otto Factory in TLA+

Otto Factory is a job queue and coordination service for software agents: a
Rust server over PostgreSQL that agents reach as MCP tools and people through a
console. This directory holds TLA+ models of its core logic, the TLC
configurations that check them, and theorems about them that TLAPS proves.

`PROJECT.json` lists the runs, the source lines behind every definition, the
hazards of the code, and the theorems.

## 1. The system

All state that matters is in PostgreSQL. Several replicas of the server run
against it at once (and any of them can be suspended, stopped or crash), so the
concurrency is between transactions, and between a transaction and what its
caller does before and after it.

| Component | State | Operations | What makes it correct |
|---|---|---|---|
| Job queue (`of-core/src/jobs.rs`) | `jobs`, `job_dependencies`, `org_counters` | add, edit dependencies, delete, claim (which reaps lapsed claims), activate, renew, complete, fail, request cancel, cancel, re-pend, close from a ticket | one holder at a time; a late call never lands on somebody else's claim; nothing is left over from an earlier claim; counters equal counts; dependencies have no cycle |
| Usage outbox (`of-billing/src/outbox.rs`) | `usage_outbox`, `usage_outbox_rejected`, one shipper task per replica | enqueue, claim a batch, post, settle, back off, declare meters | no usage is lost or thrown away; the queue drains |
| Billing policy (`of-billing/src/meter.rs`, `completion.rs`) | a cache of standings and a memory of failed lookups, per replica | look up the standing, judge a call, record it | a call is judged by a recent standing or let through after a recent failure; a completion is recorded once, billed as it was judged |
| Repo leases (`leases.rs`) | `repo_leases` | acquire, renew, release, list, expire | one live lease per resource; who is told they hold one does |
| Messages (`messages.rs`, `idempotency.rs`) | `messages`, `message_cursors` | send, read, acknowledge, count the unread | every message is unread until acknowledged; a retry sends once |
| Platform lifecycle (`platform_events.rs`) | markers, tombstones | org deleted, team deleted, member removed, sweep | nothing of a deleted org or a removed member comes back; an event is audited once |
| Tracker sync (`of-trackers/src/sync.rs`, `of-web/src/routes/webhooks.rs`, `of-mcp/src/tools/jobs.rs`) | ticket links, remote revisions | create, edit, close a job from a ticket, link one to it; write back | the newest revision wins; one open job per ticket |
| Tracker connections (`of-core/src/trackers.rs`, `of-web/src/routes/trackers.rs`) | `tracker_connections`, the index of sites, bindings | connect, disconnect, bind a repo, refresh a token, record a failure | a webhook finds the owner of its site; the stored token is one the tracker accepts |
| Repos, remotes, team scope (`repos.rs`, `teams.rs`) | `repos`, `repo_remotes` | register, resolve, hold, update, move to a team, attach remotes | a member writes only to what they may see when they write; an attached remote keeps its repo |
| Console sessions (`console_sessions.rs`, `of-web/src/console.rs`) | `console_sessions` | log in, refresh, log out, expire | no spent token is presented; an outage signs nobody out; a visit is answered |
| Change watcher (`watch.rs`) | broadcast channels | notify, dispatch, subscribe, time out | a change is read in the end by whoever keeps watching |
| MCP tools, console API, authentication | none of their own | call the above | scopes and teams are respected |

How they interact. An agent's MCP call and a person's console call each open
one transaction of one org and call the queue, leases and messages inside it.
A metered call, and every completion, adds a row to the usage outbox in that
same transaction. Every replica's shipper empties the outbox to the platform.
Tracker webhooks close and edit jobs; the platform's webhooks remove members and
delete orgs. Console visits and write-backs talk to the platform's token
endpoint and to a tracker *between* transactions. Nothing else is shared:
replicas meet only in the database, at the platform and at the tracker.

What is hard here:

- an agent's claim expires while it works, and other processes of the *same*
  account compete with it: holding the account's name proves nothing;
- replies are lost after the commit, so an agent may not know what it holds;
- `now()` is the start of a transaction that may then have waited for a lock;
- READ COMMITTED: a check inside one transaction does not see another one's
  rows;
- a shipper's claim runs out while its post is under way, so two replicas hold
  answers for the same row that were given at different times;
- caches of counts, revisions and standings that have to stay exact through
  undoing operations;
- sequences hand out ids before the transactions that use them commit;
- a decision is taken on what a statement read without a lock, or on what a
  remote party said before the transaction began;
- refresh tokens are spent on use, by several requests on several replicas, and
  the answer that carries the new one may be lost;
- webhooks arrive several times, in any order, or never.

## 2. The modules

| Module | Models | Run by |
|---|---|---|
| `DependencyGraph` | reachability: the recursive query of `set_dependencies` round by round, and what it decides | (used by `JobQueue`, `DependencyEdit`) |
| `JobQueue` | the whole queue of one org, one action per committed transaction | `MCJobQueue`, `MCLateCancel` |
| `ClaimTurns` | abstract: numbered turns on jobs | `JobQueue!TakesTurns` |
| `DependencyEdit` | `set_dependencies` statement by statement, concurrent sessions | `MCTransactions`, `MCDependencyEdit` |
| `UsageOutbox` | outbox, shippers of several replicas, and the platform they talk to | `MCUsageOutbox` |
| `UsageLedger` | abstract: what is owed to the platform | `UsageOutbox!KeepsLedger` |
| `RepoLeases` | leases, statement by statement, with row locks and lagging clocks | `MCCoordination` |
| `LeasePromises` | abstract: an exclusive promise with an end | `RepoLeases!KeepsPromises` |
| `MessageCursors` | message channels, idempotency keys, cursors | `MCCoordination`, `MCUnread` |
| `PlatformEvents` | lifecycle webhooks against the requests they overtake | `MCCoordination` |
| `TrackerCredentials` | connections, the index of sites, rotating tokens | `MCCoordination` |
| `ChangeWatch` | notification, listener, channel, and the agent's loop | `MCWaiting` |
| `ConsoleSession` | login sessions and the platform's token families | `MCWaiting` |
| `TicketSync` | one ticket, its jobs, webhooks and write-backs | `MCTransactions` |
| `OrgStanding` | what a replica knows of an org's standing | `MCTransactions` |
| `RepoRegistry` | repos, remotes, team scope, statement by statement | `MCTransactions` |
| `MC*` | small instances; `MCLateCancel` adds a history variable | the `.cfg` files |
| `*Proofs` | theorems about the module, or the two or three related ones, that section 4 names | |

`MCCoordination`, `MCWaiting` and `MCTransactions` each hold several components
that share no state. A variable `part` picks one of them in the initial state
and the others stay where they began, so the numbers of states add up and do
not multiply. Constants are shared between the parts where a name has no meaning
of its own (two sessions, two deliveries, two callers), which keeps the group of
permutations small.

Each component module ends with its properties. Operators whose comment begins
"Slip" are plausible mistakes (a forgotten reset, a dropped guard). Nothing in a
specification uses them; putting one in the place of the definition it stands
next to breaks the property that `PROJECT.json` pairs it with.

### JobQueue

`row` is `jobs` reduced to the columns a guard reads; "absent" is no row.
`held[w]` is what a process was last told (`attempts`, the claim's generation),
which it may send back as `expectedAttempts` or not. `last_claimer` is history.

Why one action per transaction is right: every operation takes the lock of the
job's row before it reads what it decides on, so two of them on one job are
serial. `claim_jobs` locks all the rows it was asked for, in order; its last
look at anything else is the query for blocked dependencies, and that is the
point it takes effect at. The locks it holds also stop an insert of an edge
that starts or ends at those jobs (the foreign key needs KEY SHARE).
`set_dependencies` locks no job row, which is why it has a module of its own.
In `JobQueue` it is atomic, which is what it is until a session commits behind
another's check (`EditsActAtOnce`, section 4). Nothing that the runs check of
`JobQueue` relies on acyclicity; the theorems `DependenciesStayAcyclic` and
`QueueNeverJams` do, and hold with that proviso.

`TxnNow` is the clock a transaction may read: it began up to `MaxLag` before it
got its lock. So a claim can be judged by an old clock and can even start
lapsed, as in the code.

`AddJob` is both `add_job` and the insert of `create_from_ticket`;
`LoseInsertRace` is the number burned when that insert loses to a concurrent
one. `MemberRemoved` and `CloseFromTicket` can happen at any time: whether a
delivery is a duplicate or a revision is stale is decided elsewhere.

### DependencyEdit

Each session's transaction has its own inserted and deleted edges; a statement
sees committed edges and its own. A session waits only for another one that has
touched the very same edge. `fresh` records whose check has seen everything
committed since.

### UsageOutbox

`due` stands for `next_attempt_at <= now()`. A backoff or a lease may run out
at any moment, whatever its claimer is doing: a replica is a process that can be
suspended for longer than the 120 s lease, so no property may rest on the lease.
A pass goes from "ready" through "posted" (claimed, awaiting the reply),
"answered" (a receipt that adds up) and "copied" (dead letters inserted, not
committed) back to "ready", or to "failed" and then `Reschedule`.

The platform is external. It is modelled from what the shipper has to handle and
from the mock in `of-testkit`: it dedupes on the event id, may know no meters,
refuses events of deleted orgs (a counted one, too), processes any part of a
post, and its reply may be lost or not add up; a post may arrive after its
sender gave up (`late`).

### RepoLeases

A process is an agent of an account, and several processes have one account.
`acquire_lease` is a transaction of steps: `Reap` deletes the rows that have
expired, `Look` selects a live row FOR UPDATE and may have to wait for its lock,
`LockGranted` judges the row as it is *now* against a clock that was read when
the transaction began, `InsertLease` meets the unique index, `CommitLease`.
`UpdateOwn` is the one statement of renew and of release; it ignores
`expires_at`, as the code does, so a renewal revives a lapsed lease that nobody
has reaped. What a transaction writes takes effect at its commit, since nobody
reads a locked row before that. A transaction's clock lags by at most one tick,
which assumes that it is shorter than the shortest lease, a minute.

`ReleaseMember` and `PurgeLeases` are what `member_removed` and `org_deleted` do
to the leases; both exclude the requests of the org, so no call is under way.

`promise` is what callers have been told. `LeasePromises` says what that is
worth: a promise is given only when no other account has one that has not
ended; only its owner may shorten or extend it, and only its owner or a clean-up
may end it.

### MessageCursors

`DrawId` takes a number from the sequence; the row becomes visible at the
commit, or never. A keyed call first looks for an earlier one (`Replay`); two
that find none meet at the unique index and the loser answers with what the
winner wrote (`LoseKeyRace`). `Inbox` shows at most a limit of messages, newest
first or unread only. `AckMessages` moves the cursor to the id of any message of
the channel, shown or not, never backwards. `DropCursors` is what
`member_removed` does. `shown`, `passed_over` and `answered` are history:
`passed_over` has what an inbox left out below something it showed, and what
was at or below an id that was acknowledged without having been shown.

### PlatformEvents

One org and one member of it. `Happens` and `Return` are facts at the platform,
`CacheExpires` is the end of a cached introspection that still vouches for a
token. A request authenticates and then opens its transaction with `BeginLive`,
which takes the lifecycle lock in shared mode and looks at the tombstones again;
background work (`BeginBackground`) authenticates nobody. A delivery goes from
`Receive` through `Tombstone` (a commit of its own), `ExcludeRequests` (which
waits for the transactions under way), `FirstDelivery` (the insert of the
marker, which decides whether it is a repeat) to `CommitCleanUp`. `Sweep`
forgets markers, `RemovalAges` tombstones. Assumed: a request, and the clean-up
after a tombstone, end within `REMOVED_MEMBER_TTL_SECS`, which is longer than
the client's cache.

### TrackerCredentials

No transaction is open while the tracker is being talked to. So `RedeemCode` and
`ConnectTracker`, and `ReadBinding`, `ReadConnection`, `RefreshToken` and
`FinishSync` or `FailSync`, are steps of one caller between which everybody else
may act; each writes the connection and the index of sites in one transaction.
A refresh may or may not rotate the token. `lost` is history: tokens whose
replacement was never stored.

### ChangeWatch

Changes commit; the listener hands each to a broadcast channel of `Capacity`
(`Dispatch`), loses some while it reconnects (`Gap`) or is stopped
(`ShutdownWatcher`). An agent reads the queue, calls, subscribes, waits, is
woken, skips its own message or times out, and reads again.

### ConsoleSession

A login is a family of token pairs at the platform (external: presenting a spent
token revokes the family, as the test kit's mock does) and a row. A visit finds
the row, queues for its lock, looks at it again, posts the refresh token, and
stores what it got; or it finds an unreadable token, or a dead session, and
drops it in a transaction of its own; or it signs out under the row's lock. The
refresh is a detached task: `Disconnect` does not stop it, `Killed` does.
`LateRefresh` is a post that
reaches the platform after its task has ended, `Redeploy` a replica that comes
back with another key. `Report` is the platform's word that the member was
removed or the org deleted; `CleanUpSessions` is what every delivery of it does,
also after the member has come back and signed in (`reported` is not reset).

### TicketSync

One ticket and the jobs of a repo linked to it. A delivery reads the job without
a lock and decides (`Decide`), may ask the platform for the standing
(`AskStanding`) or reopen in a second pass (`Reopen`), and then writes under the
job's lock what it decided earlier. A write-back posts a comment, moves the
ticket, reads the revision and stores it, each a step of its own. `RependTicketJob`
and `LinkTicket` are what a person may do meanwhile. The tracker is GitHub or
JIRA, chosen in the initial state: a JIRA event always says how the ticket
stands, a GitHub event only when it closes the ticket; GitHub answers the write
that closes a ticket with the new revision, while JIRA has to be asked for it
and may have no such transition. An event may come without a revision that can
be parsed (`Undated`, revision 0): it is applied, and the stored revision is
kept (`Stamp`). A person may link the job to this ticket, again or from another
one (`LinkTicket`), or take it away to another (`LinkElsewhere`); both forget the
revision.

### RepoRegistry

A call resolves a repo, holds its row (FOR SHARE to use it, FOR NO KEY UPDATE to
change it) and looks at it *again*, since it may have waited (`HoldRepo`);
`UpdateRow`, `RegisterRepo` and `AttachRemote` meet row locks and the unique
index; `CommitRepo` and `RollBack` end it. An admin's update takes no lock
before its UPDATE.

### OrgStanding

A clock, the standing at the platform, the client's cache, and `failOpen`, the
memory that a lookup failed a moment ago, during which calls are let through
without asking. Lookups of several callers overlap and end in any order, so an
old failure may be remembered after a newer answer. `lastSeen` and
`lastFailure` are history.

## 3. Runs

| Run | Instance | Distinct states | Question |
|---|---|---|---|
| `claims` | 1 job; 2 processes of Alice, 1 of Bob; lifetimes 1 and 2; clock to 4; lag 2; 3 claims | 67,995 | are claims exclusive, and does the generation tell processes of one account apart? |
| `queue` | 2 jobs, 2 processes, clock to 1, lag 1, 2 claims each | 254,486 | are counters exact, does the queue take turns? |
| `usage_outbox` | 2 replicas, 2 events of 2 orgs (one under a retired meter), batch 2, 1 disruption | 1,443,567 | is usage ever lost or thrown away, how often is a refusal recorded? |
| `usage_drain` | 1 replica, 2 metered events, batch 1, 2 disruptions | 75,947 | does the outbox drain? |
| `coordination` | leases: 3 processes of 2 accounts, 1 resource, 2 rows, clock to 3. Messages: 2 senders, 2 channels, 1 key, 2 messages, limit 1. Events: one of each kind, 2 deliveries, 1 request. Credentials: 2 orgs, 2 sites, 1 admin, 2 write-backs, 3 tokens, 2 rows | 1,758,285 | does a lease mean what its holder was told, does a key name one call, does a reader who acknowledges what was shown miss anything, does a removal last, does a webhook find its owner, and is the stored token alive? |
| `waiting` | watch: 2 agents, capacity 1, 2 changes. Console: 2 visits, 1 login, 2 keys, 2 token pairs | 186,336 | is every change read and every visit answered, and who is signed out? |
| `transactions` | edits: 2 sessions, 3 jobs, 2 edges a call. Ticket: 2 deliveries, 1 agent, 3 revisions, 2 jobs. Standing: 2 callers, cache of 3 ticks, leave of 2, timeout 1, clock to 7. Registry: 2 calls, 2 repos, 2 remotes, 1 team | 2,154,856 | what do checks guarantee that are made on what an earlier statement, or somebody else, said? |
| `late_cancel`, `completion_rows`, `dependency_race`, `purge`, `unread` | small | stop at a violation | see section 6 |

Why these bounds are enough for the cases to happen:

- One job carries the whole claim protocol, which treats jobs alike. Three
  processes are a stale holder, its sibling of the same account, and a
  stranger. Three claims let a generation be taken over twice. A lag of 2
  against a lifetime of 1 lets a claim begin lapsed.
- Two jobs are a batch, and a dependency. Together with the clock, lag and
  third process of `claims` the states explode, which is why these are two runs;
  each action happens in both.
- A loop through a third job is the smallest one that neither session's edit
  contains alone.
- Two replicas with a batch of two can hold the same rows with different
  answers; two orgs keep one alive while the other is deleted. One disruption
  is a crash, a shutdown or a loss of the declarations at any point; a lapsed
  lease, a lost reply, a database error and a deletion are not limited. Two
  replicas that copy the same refusal are two dead letters of one event.
- `usage_drain` has one replica because liveness with two takes too long;
  helpers only remove rows sooner, and the safety run has two.
- Two processes of one account and one of another are all that a lease tells
  apart; two rows let one be reaped while its successor is inserted; three ticks
  let a lease lapse, be reaped and be taken again.
- Two messages, of which the second may commit first, are the shortest overtaking.
- One event of each kind and two handlers make a repeat overlap its original and
  two kinds overlap each other; whether a request is refused, waits or is
  cleaned up needs only one.
- Two orgs and two sites are a site that changes hands; three tokens are two
  rotations, by two write-backs or by a write-back and a reconnect.
- A channel of one overflows at the second change.
- Two visits are a refresh that one waits for; a third would wait behind
  the second. Two keys are a rolling deployment that changes the key.
- Three revisions are two edits, either of which a delivery can miss or see
  late; two jobs are a closed one and its successor. A job that was queued by
  hand, to be linked, is there from the start with a GitHub ticket only. Events
  without a revision are bounded to the last edit of a JIRA ticket (`Dated`), and
  linking again or elsewhere to the first job of a GitHub ticket, while it is
  claimed and two edits are about to reach it (`Relinked`): what these do to a
  revision does not depend on the tracker or on the job's number, and the
  theorems have no such bounds.
- Seven ticks are longer than a cached answer, a failure and the leave it gives,
  one after the other.

Symmetry is used in `coordination` and `transactions`, which have no liveness
property, and permutes only values that nothing orders or names. Deadlock is
checked in every run except `transactions`, whose clock and revisions run out.
Type predicates that no `.cfg` lists (`MessageTypeOK` and the like) say what the
variables range over; those of the modules with proofs are proved.

### Fairness

- `UsageOutbox!FairSpec`, for `Drains`. The comment in `outbox.rs` says that
  rows accumulate while the platform is unavailable and drain when it returns.
  So: the platform and the database are not down forever (strong fairness of
  `Declare`, of `Claim`, of a complete, answered `Ingest`, of `CopyRefused` and
  of `Settle`, each of which is repeated after a failure), the shipper's task
  runs (weak fairness of `Reschedule`, `FlushNothing`), a stopped process is
  started again (`Start`; `fly.toml` keeps one machine running), and time passes
  (`ComeDue`). Nothing makes a call, a crash, a shutdown, a lost declaration or
  a deletion happen, and those that interrupt are bounded: a platform that
  forgot its meters before every post would keep a row forever.
- `ChangeWatch!WatchFairness`, for `EveryChangeIsRead`. Time passes and an agent
  goes on with its loop. Nothing is assumed of the listener: the property is that
  notification is an optimisation.
- `ConsoleSession!ConsoleFairness`, for `VisitsEnd`. A visit goes on while its
  replica lives; strong fairness for the two steps that wait for a row's lock,
  because PostgreSQL queues those who wait. The platform need not answer: a
  post has a timeout.

## 4. Proofs

| Module | Theorems | Argument |
|---|---|---|
| `JobQueueProofs` | `TypeCorrect`, `ClaimColumnsCorrect`, `RequestsCorrect`, `GenerationFence`, `GenerationsNameOne`, `FencedCallsCorrect`, `LiveClaimsAreSafe`, `ClaimsStartUnflagged`, `TotalsCorrect`, `CompletionsAreBilled`, `DependenciesStayAcyclic`, `NobodyWaitsForTheGone`, `QueueNeverJams`, `Refinement` (`JobQueue` implements `ClaimTurns`) | see below |
| `DependencyGraphProofs` | `QueryDecides`, `QueryEnds` | see below |
| `TransactionProofs` | of `DependencyEdit`: `SerialEditsSafe`, `EditsActAtOnce`; of `RepoRegistry`: `RegistryTypeCorrect`, `HoldersSee`, `AttachedIsKept`, `RowsAreSafe`; of `OrgStanding`: `StandingTypeCorrect`, `JudgedRecently` | see below |
| `UsageOutboxProofs` | `TypeCorrect`, `NothingIsLost`, `DeadLettersAreFinal`, `PurgedQueuesStayEmpty`, `LettersAreFew`, `WrittenOffIsNotBilled`, `KeepsTheLedger` (`UsageOutbox` implements `UsageLedger`) | see below |
| `CoordinationProofs` | of `RepoLeases`: `LeaseTypeCorrect`, `ListIsRight`, `RefusalsAreRight`, `KeepsThePromises` (it implements `LeasePromises`), `ResourcesAreNotShared`; of `MessageCursors`: `MessageTypeCorrect`, `KeysNameOne`, `ReadFirst`; of `ChangeWatch`: `WatchTypeCorrect`, `OthersWake` | see below |
| `TrackerProofs` | of `TrackerCredentials`: `CredentialTypeCorrect`, `IndexIsRight`, `BindingsAreCurrent`, `TokensStayAlive`; of `TicketSync`: `TicketTypeCorrect`, `OneJobIsOpen`, `BilledRight`, `CompletionsPair`, `RevisionsGrow` | see below |
| `PlatformProofs` | of `PlatformEvents`: `EventTypeCorrect`, `RemovalHolds`, `PurgeHolds`, `AuditsOnce`; of `ConsoleSession`: `ConsoleTypeCorrect`, `RefreshesAreSafe`, `LogoutsRevoke`, `EndsForCause`, `VisitsGetShorter`, `LocksAreLetGo` | see below |

All hold for every value of the constants that satisfies the named assumptions
of the modules (`UserOfAssumption`, `EventAssumption` and so on), and for every
value of the bounds.

**JobQueue.** The claim columns alone are not inductive: that a job has a live
claim says nothing about what its holders remember. The invariant adds
`RowsCoherent`, which relates the columns of every row to its status, and
`MemoryBounded`, which says that no process remembers a generation the job has
not reached. Together these give that a remembered generation equal to the
row's was given to the last claimer. `TotalsCorrect` is an argument about
cardinalities: a step adds one job to the set a counter counts, removes one, or
leaves it alone; `CompletionsAreBilled` needs only that each completion that is
counted comes with its row. `GenerationsNameOne` is the other side of
`MemoryBounded`: a claim counts on from a number nobody remembers yet.
`Refinement` has one lemma per action: which step of `ClaimTurns` it is, or that
nothing abstract changes.

**Dependencies.** `OnCycle` says with closed sets what the recursive query
computes with rounds. `QueryDecides` and `QueryEnds` show that they agree: each
round's result is within every set that covers the job, the last one's covers it
itself, and a round that adds something makes the result larger, which edges
allow only so often. The library's
induction theorems take an operator that the provers cannot instantiate, so the
induction over rounds is one over a set of numbers, from the well-foundedness of
`Nat` (`SetInduction`). `SerialEditsSafe` rests on `OneJobCheck`: if all new
edges start at one job, asking about that job is enough. `EditsActAtOnce` says
that until a session commits behind another's check, every commit of
`DependencyEdit` is a
`SetDependencies` as `JobQueue` has it, so that what `JobQueueProofs` shows of
the atomic action is true of the statements as well; beyond it, `dependency_race`
is what happens. In `JobQueue` a new job closes no cycle because nothing depends
on it yet, which takes `NobodyWaitsForTheGone`. `QueueNeverJams` follows: in a
finite set of jobs without a cycle, here those that have not ended, one waits
for none of the others (`SomeoneWaitsForNobody`), so that all it waits for, if
anything, has failed or was cancelled. It is not about edits that race, which
can commit a cycle (`dependency_race`).

**UsageOutbox.** `NothingLost` is not inductive: `Settle` deletes rows because
of an answer that was given earlier, about tables that have changed since.
`PassesSound` says what an answer is still worth: an event of the batch that is
not held was counted or refused for good, and a refused event that was not
copied has left the outbox. It is stable because counting and deleting an org
are final and no event enters the outbox twice. `KeepsTheLedger` then maps
`Ingest` and `ArriveLate` to `Count`, `Settle` to `Settle`, `Purge` to `Close`,
`Record` to `Record`, and everything else to a stutter; its crux is that an
event that is counted was still owed (`CountsWhatIsOwed`). Two theorems say what
a dead letter means where nothing makes it unique. `LettersAreFew` is not
inductive, since a copy that is made and not committed counts too
(`LettersBounded`): no copy is begun once the first letter is kept, and every
commit uses one up. `WrittenOffIsNotBilled` follows from whose usage is owed: an
event with a letter has left the outbox, and what is counted is in it.
`PurgedQueuesStayEmpty` is what holds of the purge that `purge` refutes.

**RepoLeases.** That a resource has one live row says nothing about the
transactions under way, which write only when they commit. `TxsSound` says what
a transaction may rely on at each step (the row it has looked at is locked and
unchanged, what it will write is what it decided). `TxsApart` says that no two
lock one row and that whoever is about to insert is alone on the resource, which
is the unique index at work. `RowsSound` relates the rows to the promises in
both directions: a live row is a promise of its owner, and a promise that has
not ended has a row. Of an insert there remains that no other row is live, of
the refinement that each commit is the promise it makes. The clock's lag matters
in one place: a row that the transaction's older clock reaps or finds expired is
expired. `ResourcesAreNotShared` is then an invariant of the small specification,
carried over the refinement: two accounts are never promised one resource at a
time.

**MessageCursors.** A cursor stands at a message that was shown or that was
acknowledged unseen (`Reached`), so the invariant speaks of what lies below one
(`ShownInOrder`): whatever had committed by then was shown or is remembered as
passed over, and an id that was drawn and not yet committed is remembered too.
`CursorsShown` ties the cursors to that. `ReadFirst` is therefore worth most to a
member who acknowledges only what an inbox without newest-first has shown: what
such a member misses had not committed when they read.
`KeysApart` is the unique index: a key is one message's, or one open call's,
so whoever misses the lookup and loses the race finds the one message there is.

**ChangeWatch.** What is left in a receiver's queue was counted when it came
(`OthersKnown`), so a call that wakes for its head wakes for somebody else.

**RepoRegistry.** `HoldersSee` needs more than that a call has looked at the
row: that nobody has moved it since. So the invariant says which locks a call
that holds a repo has (`CallShape`), that an exclusive lock excludes every other
(`Exclusive`), and that one call inserts a slug, or a remote, at a time
(`OneRegistrar`, `OneInserter`).

**OrgStanding.** What a caller was told was true when the platform said so, some
time ago. The invariant dates each piece of knowledge against `lastSeen` and
`lastFailure`: the cache (`CacheIsRecent`), a reply under way
(`RepliesAreRecent`, `LookupsEnd`) and the leave to let calls through
(`LeaveIsRecent`), and adds the delays up.

**TrackerCredentials.** `TokenAlive` speaks of the connection that is stored;
whether it stays alive depends on every token in somebody's hands. `TokensOwned`
says that a token belongs to one connection, that what a write-back has read is
that connection's or outlived, and that a code that was redeemed, or a token that
replaced another, is in one pair of hands. `IdsAreOwn`, `LooksForOne` and
`BoundToCurrent` do the same for connection ids, which a reconnect keeps and a
disconnect retires.

**TicketSync.** Every step does one of four things to the jobs: nothing
(`Quiet`), a new version of one row that opens no job (`Written`), the end of an
open job with its completion row (`Closed`), or a job where none is open
(`Added`). Each of the first three properties follows from that classification
alone. `DeliveriesRead` says what a delivery between its read and its write
knows: the job is there, and the revision read is older than its event's where
both can be read. An event without a revision stamps the job with the one it has.

**PlatformEvents.** A request that is live has passed the tombstone check under
the lifecycle lock, and a clean-up starts when no such request is left
(`CleansAlone`). The tombstone it wrote first still stands (`TombstoneStands`),
so no request passes the check while it works. After it, the tombstone may age:
by then no token vouches for the member any more, and the platform vouches for
nobody it has removed (`ReleasedIsShut`). `MarksOnce` and `FirstIsFirst` make the
marker's row lock decide which of two deliveries of an event audits it.

**ConsoleSession.** The pair that is live at the platform is the one in the row,
or a visit that has the row locked has it in hand (`RowIsLive`,
`RotatedIsLive`). That a refresh presents the live one follows because who is
past the lock holds it alone and sees the row as it is (`LocksShown`,
`LocksApart`), so the row read before the lock does not matter. `Cause` keeps,
from the answer to the delete, why a visit is about to end the session: a login
that is dead stays dead, and a visit's replica keeps its key. The clean-ups add a
cause of their own, the platform's report. `VisitsEnd` itself
is a matter of fairness, but the two facts it rests on are not: a visit only
moves forward (`VisitsGetShorter`, by the rank `Left`), and whoever it waits for
does not wait in turn, unless it waits for itself (`LocksAreLetGo`, for any
number of visits, where the run has two).

Not proved: the three liveness properties (`Drains`, `EveryChangeIsRead`,
`VisitsEnd`), since liveness under fairness is beyond this prover; the
violations, which are TLC's.

## 5. Not modelled

- Text (titles, results, notes, labels, formatting), HTTP and JSON, metrics and
  logs, generated console code, the server's assembly and configuration.
- Row-level security and token scopes, which are conditions on a single
  statement or request. Authentication keeps no state; what a token that
  outlives its membership may do is in `PlatformEvents`.
- `rewrite_retired_meters` is left out of `UsageOutbox`: the shipper maps retired
  meters itself.
- Requests to the trackers and their parsing; only their effects and order are
  in `TicketSync` and `TrackerCredentials`. Signature checks of webhooks.
- The console's poller and its static worker, which the server does not rely on.
- Cookies, PKCE, and sealing as bytes: a token is sealed with a key or not.
- Pure text functions (`normalize_remote`, slugs, label checks): their outcome is
  all that the models tell apart.
- Waits for row locks are steps in `RepoLeases`, `ConsoleSession`,
  `RepoRegistry` and `DependencyEdit`. `JobQueue`, `TicketSync` and
  `TrackerCredentials` take a transaction's locks at once, so the lock-order
  deadlocks that PostgreSQL resolves by aborting one party are not visible there.
- The components meet through the database row by row, and a module models what
  others do to its rows as actions that can happen at any time. A member's
  removal is in `JobQueue` (claims), `RepoLeases`, `MessageCursors` (cursors)
  and `ConsoleSession`; in `TicketSync` `RependTicketJob` covers what it does to
  a claimed job. An org's purge is in `PlatformEvents`, `UsageOutbox`,
  `RepoLeases` and `ConsoleSession`. The other modules leave it out: requests
  under way end before it, and none begins after it, since `begin_live` refuses
  them (`PurgedStaysEmpty`); the same makes what follows `PurgeLeases` the story
  of another org. No run composes two components' full state: the product is
  beyond TLC.
- A failing `claim_jobs` drops its whole transaction. `JobQueue` has that
  transaction as one action, so that a batch is claimed whole or not at all is
  built in there, and not a result.

## 6. Where the code and its words disagree

Each of these is shown by a run.

- `late_cancel`: `cancel_job` is documented to work on a lapsed claim only if
  the request came before it lapsed. The code asks only whether there is a
  request.
- `dependency_race`: the trait's doc says a check after the inserts cannot race
  a concurrent edit. Two transactions that each see only their own edge commit
  a cycle, and every job on it is blocked for good. `SerialEditsStayAcyclic`,
  checked by `transactions` and proved, says what does hold, and
  `EditsActAtOnce` that the race is the only way in which an edit's statements
  differ from an edit in one step.
- `completion_rows`: `jobs_completed_total` is documented to equal the number
  of completion rows. Re-pending or deleting a completed job lowers one of them.
  It never exceeds them (`CompletionsAreBilled`).
- `purge`: org.deleted is documented to delete every row of the org. Its list of
  tables leaves out `usage_outbox_rejected`, so the org's dead letters stay. Its
  queue does stay empty (`PurgedQueuesStayEmpty`).
- `unread`: an acknowledgement is documented to refuse an id that would suppress
  messages not yet written. It suppresses one whose id was drawn earlier and
  that commits later: one sender commits id 2, a reader acknowledges it, and
  another sender commits id 1.

These were met while modelling. They are behaviours that the models allow, and
no run is spent on them.

- Platform events: team.deleted and member.removed write their audit rows into
  an org that has been purged, so more than the marker survives. The module's
  doc (`platform_events.rs` 9) says "a redelivery finds the row and does
  nothing": it finds the row and runs the whole clean-up again, leaving out the
  audit. That is wanted for requests that raced the first delivery
  (`tests/platform_events.rs` has such a case), but an event that is delivered
  again after the member came back releases their new claims and leases, drops
  their cursors and signs them out. Hence `reported` in `ConsoleSession` is a
  cause of its own in `EndedForCause`.
- Leases: of two callers who insert for one free resource, the loser meets the
  unique index and gets a database error, where `LeaseHeld` names the holder of
  one who is a moment later.
- Console: a visit that finds, behind the row's lock, tokens just refreshed by a
  replica with another key deletes the session on a second connection, while it
  holds the lock on the first (`open_access` before `tx.commit` in `refresh`),
  and waits for itself. `VisitsEnd` excludes this case and no other: a visit that
  can open its tokens, or that has let go of the lock, is answered.
- Tickets: the design (`docs/specs/2026-09-03-df-trackers-design.md` 470-478)
  takes JIRA's `fields.updated` to be RFC 3339. Its offset is usually written
  without a colon (`+0000`), which `parse_from_rfc3339` refuses; such events
  count as undated and pass the guard against echoes and late arrivals.
- Tickets: a delivery that read before another one wrote can move the revision
  back; a person's edit between a write-back's comment and its reading of the
  revision is taken for an echo; edits within one second of each other are
  dropped; `get_job_by_ticket` returns the newest job, which may be closed while
  an older one is open; a re-pend can meet the unique index.
- Credentials: a write-back that fails after the tracker rotated its token
  loses the new one; two write-backs that refresh one token make the second
  fail; the upsert after a write-back brings a disconnected connection back, or
  overwrites what a reconnect has just stored; every connect stores no
  `webhook_secret` and no code sets one, so inbound JIRA webhooks cannot be
  verified; `BindingLookup::Broken` can be reached by a disconnect between two
  reads, which the comment in `of-mcp/src/tools/jobs.rs` (about line 400) rules out.
- Lock order: a disconnect against an upsert, two orgs that swap sites, and two
  calls that attach the same remotes in different orders can deadlock, and
  PostgreSQL aborts one of them.
- `add_job` with a key bills both callers of a race, which `server.rs` 155-195
  documents.
- Comments of `outbox.rs` that an older design left behind: line 70 calls
  `unknown_meter` "final" and line 614 says that an event of an undeclared meter
  would be dead-lettered, while `ship_batch` (and the comments at lines 228 and
  258) keeps it queued; `OnlyFinalRefusalsDie` is what holds.

## 7. What remains

- `LockOrder`: the row locks of `add_job`, `complete_job`, `claim_jobs`,
  `delete_job` and the tracker upserts as one wait-for graph.
- `SERIALIZABLE`, or a lock on the job that is edited, in `set_dependencies`: a
  variant of `DependencyEdit` that shows the cycle gone.
- The safety halves of `Drains` and `EveryChangeIsRead`, as `VisitsGetShorter`
  and `LocksAreLetGo` are those of `VisitsEnd`: a rank for a row's way out of the
  outbox, and for an agent's way back to its next read.
- Safety of `ClaimTurns` carried over `Refinement`, as `ResourcesAreNotShared`
  is over `KeepsThePromises`.
