------------------------------ MODULE JobQueue ------------------------------
(***************************************************************************)
(* The job queue of one organization (crates/of-core/src/jobs.rs), with    *)
(* the two callers that change a job without an agent: an inbound ticket   *)
(* close (of-web routes/webhooks.rs) and the platform's member.removed     *)
(* delivery (of-core platform_events.rs).                                  *)
(*                                                                         *)
(* One action is one committed database transaction.  Every transaction    *)
(* below takes the row lock of the job it changes (SELECT ... FOR UPDATE,  *)
(* or the DELETE itself) before it reads the state it decides on, so two   *)
(* of them on one job run one after the other.  A transaction that is      *)
(* refused rolls back and is a stuttering step.  SetDependencies is the    *)
(* exception: it locks no job row; module DependencyEdit models its        *)
(* statements one by one.                                                  *)
(*                                                                         *)
(* now() is the start of the transaction, which may have waited for a row  *)
(* lock since: an action reads the clock as some member of TxnNow.         *)
(*                                                                         *)
(* Left out: titles, results, notes, labels, timestamps no guard reads,    *)
(* the usage row of a free tool call, team visibility, tickets.            *)
(***************************************************************************)
EXTENDS Integers, FiniteSets, DependencyGraph

CONSTANTS
  Worker,          \* agent processes
  User,            \* accounts: claims are held by an account, not by a process
  UserOf,          \* the account a process runs under
  Null,            \* SQL NULL
  Ttl,             \* claim lifetimes a caller can ask for, after clamping
  Replies,         \* whether claim_jobs' reply arrives: BOOLEAN, or {TRUE} when none is lost
  MaxJobs,         \* bound: job numbers handed out
  MaxAttempts,     \* bound: claims of one job
  MaxTime,         \* bound: the clock
  MaxLag,          \* bound: how long a transaction waits for its first row lock
  MaxCompletions   \* bound: completion rows written

JobId == 1..MaxJobs

ASSUME UserOfAssumption == UserOf \in [Worker -> User]
ASSUME NullAssumption == Null \notin User /\ Null \notin Worker /\ Null \notin Int
ASSUME TtlAssumption == Ttl \subseteq Nat \ {0}
ASSUME RepliesAssumption == Replies \subseteq BOOLEAN
ASSUME BoundsAssumption ==
  /\ MaxJobs \in Nat
  /\ MaxAttempts \in Nat
  /\ MaxTime \in Nat
  /\ MaxLag \in Nat
  /\ MaxCompletions \in Nat

Claimed == {"in-progress", "active"}
Terminal == {"completed", "failed", "cancelled"}
Counted == {"completed", "failed"}
Status == {"pending"} \cup Claimed \cup Terminal

\* The columns of a jobs row that some guard reads; "absent" is no row.
Row == [status: Status \cup {"absent"},
        attempts: Nat,
        claimed_by: User \cup {Null},
        claim_expires_at: Nat \cup {Null},
        cancel_requested_at: Nat \cup {Null}]

NoRow == [status |-> "absent", attempts |-> 0, claimed_by |-> Null,
          claim_expires_at |-> Null, cancel_requested_at |-> Null]

NewRow == [NoRow EXCEPT !.status = "pending"]

VARIABLES
  row,             \* jobs
  deps,            \* job_dependencies: <<job_id, depends_on>>
  next_job_seq,    \* org_counters.next_job_seq
  terminal_total,  \* org_counters.jobs_completed_total and jobs_failed_total
  completion_rows, \* usage_outbox rows written by record_job_completed
  now,             \* the database clock
  held,            \* the attempts value each process was last given, 0 for none
  last_claimer     \* history: the process whose claim_jobs took the job last

vars == <<row, deps, next_job_seq, terminal_total, completion_rows, now, held, last_claimer>>

-----------------------------------------------------------------------------
(* What the statements of several operations have in common. *)

TxnNow == {t \in 0..now : now - t <= MaxLag}

Exists(j) == row[j].status # "absent"

Expired(r, at) == r.claim_expires_at # Null /\ r.claim_expires_at <= at

\* Plausible slips, to show that a property notices: a reset that forgets the
\* expiry, one that forgets the request to cancel, one that restarts the count.
ReleasedKeepingExpiry(r) ==
  [r EXCEPT !.status = "pending", !.claimed_by = Null, !.cancel_requested_at = Null]
ReleasedKeepingRequest(r) ==
  [r EXCEPT !.status = "pending", !.claimed_by = Null, !.claim_expires_at = Null]
ReleasedRestartingCount(r) ==
  [r EXCEPT !.status = "pending", !.attempts = 0, !.claimed_by = Null,
            !.claim_expires_at = Null, !.cancel_requested_at = Null]

\* The UPDATE of a reap, of member_removed and of repend_job: back to pending,
\* with the claim and any request to cancel it forgotten.  attempts stays.
Released(r) == [r EXCEPT !.status = "pending", !.claimed_by = Null,
                         !.claim_expires_at = Null, !.cancel_requested_at = Null]

Reapable(r, at) == r.status \in Claimed /\ Expired(r, at)

Blocked(j) == \E d \in JobId : <<j, d>> \in deps /\ row[d].status # "completed"

\* The counters after a job moves into (delta 1) or out of (delta -1) status s.
BumpTerminalCounter(s, delta) ==
  IF s \in Counted THEN [terminal_total EXCEPT ![s] = @ + delta] ELSE terminal_total

\* Slip: the account is compared, the generation is not.
ClaimHeldByAccount(j, caller, expected, honorPendingCancel, at) ==
  /\ row[j].status \in Claimed
  /\ row[j].claimed_by = caller
  /\ Expired(row[j], at) => honorPendingCancel /\ row[j].cancel_requested_at # Null

\* The fence of complete_job, fail_job, renew_claim and cancel_job, for a
\* caller that sends the generation `expected` (Null: none sent).
EnsureClaimHeld(j, caller, expected, honorPendingCancel, at) ==
  /\ row[j].status \in Claimed
  /\ row[j].claimed_by = caller
  /\ Expired(row[j], at) => honorPendingCancel /\ row[j].cancel_requested_at # Null
  /\ expected # Null => row[j].attempts = expected

\* What a process can send as expected_attempts: nothing, or what it was given.
Generations(w, j) == {Null} \cup ({held[w][j]} \ {0})

\* The edges after adding `add` to and removing `remove` from j's dependencies.
EditedDeps(j, add, remove) ==
  (deps \cup {<<j, d>> : d \in add}) \ {<<j, d>> : d \in remove}

-----------------------------------------------------------------------------
(* Creating, editing and deleting jobs. *)

\* add_job, and the insert of create_from_ticket (dependsOn = {}).
AddJob(dependsOn) ==
  /\ next_job_seq \in JobId
  /\ \A d \in dependsOn : Exists(d)
  /\ row' = [row EXCEPT ![next_job_seq] = NewRow]
  /\ deps' = deps \cup {<<next_job_seq, d>> : d \in dependsOn}
  /\ next_job_seq' = next_job_seq + 1
  /\ UNCHANGED <<terminal_total, completion_rows, now, held, last_claimer>>

\* The insert loses to a concurrent one of the same ticket or idempotency key:
\* back to the savepoint, and the winner's job is the answer.  The number is spent.
LoseInsertRace ==
  /\ next_job_seq \in JobId
  /\ \E j \in JobId : Exists(j)
  /\ next_job_seq' = next_job_seq + 1
  /\ UNCHANGED <<row, deps, terminal_total, completion_rows, now, held, last_claimer>>

SetDependencies(j, add, remove) ==
  /\ Exists(j)
  /\ add \cup remove # {}
  /\ j \notin add
  /\ \A d \in add : Exists(d)
  /\ ~OnCycle(j, EditedDeps(j, add, remove))
  /\ deps' = EditedDeps(j, add, remove)
  /\ UNCHANGED <<row, next_job_seq, terminal_total, completion_rows, now, held, last_claimer>>

DeleteJob(j) ==
  /\ Exists(j)
  /\ row' = [row EXCEPT ![j] = NoRow]
  /\ deps' = {e \in deps : e[1] # j /\ e[2] # j}
  /\ terminal_total' = BumpTerminalCounter(row[j].status, -1)
  /\ UNCHANGED <<next_job_seq, completion_rows, now, held, last_claimer>>

-----------------------------------------------------------------------------
(* The claim protocol: what an agent process does. *)

\* Slips: a claim takes whatever has not ended; one free job of a batch is enough.
ClaimAdmitsUnended(S, at) ==
  \A j \in S : Exists(j) /\ row[j].status \notin Terminal /\ ~Blocked(j)
ClaimAdmitsAnyOf(S, at) ==
  \E j \in S : (row[j].status = "pending" \/ Reapable(row[j], at)) /\ ~Blocked(j)

\* What claim_jobs checks once it holds the locks of every requested row.
ClaimAdmits(S, at) ==
  \A j \in S :
    /\ row[j].status = "pending" \/ Reapable(row[j], at)
    /\ ~Blocked(j)

\* Slips: the expiry is computed backwards; the reap is skipped.
ClaimedRowBackwards(r, user, ttl, at) ==
  [Released(r) EXCEPT !.status = "in-progress", !.attempts = @ + 1,
                      !.claimed_by = user, !.claim_expires_at = at - ttl]
ClaimedRowUnreaped(r, user, ttl, at) ==
  [r EXCEPT !.status = "in-progress", !.attempts = @ + 1,
            !.claimed_by = user, !.claim_expires_at = at + ttl]

\* One requested row after the reap and the claim of claim_jobs.
ClaimedRow(r, user, ttl, at) ==
  LET reaped == IF Reapable(r, at) THEN Released(r) ELSE r
  IN  [reaped EXCEPT !.status = "in-progress", !.attempts = @ + 1,
                     !.claimed_by = user, !.claim_expires_at = at + ttl]

\* The reply may be lost after the commit: the process is then left with the
\* generation it knew before.
ClaimJobs(w, S, ttl, at, replied) ==
  /\ S # {}
  /\ ClaimAdmits(S, at)
  /\ \A j \in S : row[j].attempts < MaxAttempts
  /\ row' = [j \in JobId |->
               IF j \in S THEN ClaimedRow(row[j], UserOf[w], ttl, at) ELSE row[j]]
  /\ held' = [held EXCEPT ![w] = [j \in JobId |->
               IF replied /\ j \in S THEN row[j].attempts + 1 ELSE @[j]]]
  /\ last_claimer' = [j \in JobId |-> IF j \in S THEN w ELSE last_claimer[j]]
  /\ UNCHANGED <<deps, next_job_seq, terminal_total, completion_rows, now>>

\* complete_job and fail_job.  Completing writes the completion row in the
\* same transaction.
Finalize(w, j, to, expected, at) ==
  /\ EnsureClaimHeld(j, UserOf[w], expected, FALSE, at)
  /\ to = "completed" => completion_rows < MaxCompletions
  /\ row' = [row EXCEPT ![j].status = to, ![j].claim_expires_at = Null]
  /\ terminal_total' = BumpTerminalCounter(to, 1)
  /\ completion_rows' = completion_rows + (IF to = "completed" THEN 1 ELSE 0)
  /\ UNCHANGED <<deps, next_job_seq, now, held, last_claimer>>

\* No holder, expiry or generation check: any caller.
ActivateJob(j) ==
  /\ row[j].status = "in-progress"
  /\ row' = [row EXCEPT ![j].status = "active"]
  /\ UNCHANGED <<deps, next_job_seq, terminal_total, completion_rows, now, held, last_claimer>>

RenewClaim(w, j, ttl, expected, at) ==
  /\ EnsureClaimHeld(j, UserOf[w], expected, FALSE, at)
  /\ row' = [row EXCEPT ![j].claim_expires_at = at + ttl]
  /\ UNCHANGED <<deps, next_job_seq, terminal_total, completion_rows, now, held, last_claimer>>

CancelJob(w, j, expected, at) ==
  /\ EnsureClaimHeld(j, UserOf[w], expected, TRUE, at)
  /\ row[j].cancel_requested_at # Null
  /\ row' = [row EXCEPT ![j].status = "cancelled", ![j].claim_expires_at = Null]
  /\ UNCHANGED <<deps, next_job_seq, terminal_total, completion_rows, now, held, last_claimer>>

-----------------------------------------------------------------------------
(* What anyone else does to a job, and time. *)

\* A pending job has no holder to wait for and is cancelled at once.
RequestCancel(j, at) ==
  /\ row[j].status \in {"pending"} \cup Claimed
  /\ row' = [row EXCEPT
       ![j].status = IF row[j].status = "pending" THEN "cancelled" ELSE @,
       ![j].cancel_requested_at = at]
  /\ UNCHANGED <<deps, next_job_seq, terminal_total, completion_rows, now, held, last_claimer>>

\* The linked ticket was closed in the tracker.
CloseFromTicket(j, to) ==
  /\ row[j].status \in {"pending"} \cup Claimed
  /\ to = "completed" => completion_rows < MaxCompletions
  /\ row' = [row EXCEPT ![j].status = to, ![j].claim_expires_at = Null]
  /\ terminal_total' = BumpTerminalCounter(to, 1)
  /\ completion_rows' = completion_rows + (IF to = "completed" THEN 1 ELSE 0)
  /\ UNCHANGED <<deps, next_job_seq, now, held, last_claimer>>

\* Slip: re-pending a finished job leaves it counted.
RependUncounted(j) ==
  /\ Exists(j)
  /\ row[j].status # "pending"
  /\ row' = [row EXCEPT ![j] = Released(@)]
  /\ UNCHANGED <<terminal_total, deps, next_job_seq, completion_rows, now, held, last_claimer>>

\* From any other status, a live claim included.
RependJob(j) ==
  /\ Exists(j)
  /\ row[j].status # "pending"
  /\ row' = [row EXCEPT ![j] = Released(@)]
  /\ terminal_total' = BumpTerminalCounter(row[j].status, -1)
  /\ UNCHANGED <<deps, next_job_seq, completion_rows, now, held, last_claimer>>

\* A redelivered event releases again whatever the account claimed since.
MemberRemoved(u) ==
  /\ row' = [j \in JobId |->
               IF row[j].claimed_by = u /\ row[j].status \in Claimed
               THEN Released(row[j]) ELSE row[j]]
  /\ UNCHANGED <<deps, next_job_seq, terminal_total, completion_rows, now, held, last_claimer>>

Tick ==
  /\ now < MaxTime
  /\ now' = now + 1
  /\ UNCHANGED <<row, deps, next_job_seq, terminal_total, completion_rows, held, last_claimer>>

-----------------------------------------------------------------------------

Init ==
  /\ row = [j \in JobId |-> NoRow]
  /\ deps = {}
  /\ next_job_seq = 1
  /\ terminal_total = [s \in Counted |-> 0]
  /\ completion_rows = 0
  /\ now = 0
  /\ held = [w \in Worker |-> [j \in JobId |-> 0]]
  /\ last_claimer = [j \in JobId |-> Null]

WorkerStep(w) ==
  \/ \E S \in SUBSET JobId, ttl \in Ttl, at \in TxnNow, replied \in Replies :
       ClaimJobs(w, S, ttl, at, replied)
  \/ \E j \in JobId : \E expected \in Generations(w, j), at \in TxnNow :
       \/ \E to \in Counted : Finalize(w, j, to, expected, at)
       \/ \E ttl \in Ttl : RenewClaim(w, j, ttl, expected, at)
       \/ CancelJob(w, j, expected, at)

Next ==
  \/ \E w \in Worker : WorkerStep(w)
  \/ \E D \in SUBSET JobId : AddJob(D)
  \/ LoseInsertRace
  \/ \E j \in JobId :
       \/ \E add, remove \in SUBSET JobId : SetDependencies(j, add, remove)
       \/ DeleteJob(j)
       \/ ActivateJob(j)
       \/ \E at \in TxnNow : RequestCancel(j, at)
       \/ \E to \in Counted : CloseFromTicket(j, to)
       \/ RependJob(j)
  \/ \E u \in User : MemberRemoved(u)
  \/ Tick

Spec == Init /\ [][Next]_vars

-----------------------------------------------------------------------------
(* Properties. *)

\* w's call on its claim of j, with the generation it was last given.
FencedCall(w, j) ==
  \E at \in TxnNow :
    \/ \E to \in Counted : Finalize(w, j, to, held[w][j], at)
    \/ \E ttl \in Ttl : RenewClaim(w, j, ttl, held[w][j], at)
    \/ CancelJob(w, j, held[w][j], at)

TypeOK ==
  /\ row \in [JobId -> Row]
  /\ deps \subseteq JobId \X JobId
  /\ next_job_seq \in 1..(MaxJobs + 1)
  /\ terminal_total \in [Counted -> Int]
  /\ completion_rows \in Nat
  /\ now \in Nat
  /\ held \in [Worker -> [JobId -> Nat]]
  /\ last_claimer \in [JobId -> Worker \cup {Null}]

\* The columns of a claim agree with the status.  A claimed job has an expiry,
\* a holder and a generation: without an expiry neither ready() nor a reap would
\* ever give a dead agent's job back, and without a holder nobody could finish
\* it.  No other job has an expiry.
ClaimColumnsAgree ==
  \A j \in JobId :
    /\ row[j].status \in Claimed <=> row[j].claim_expires_at # Null
    /\ row[j].status \in Claimed => row[j].claimed_by # Null /\ row[j].attempts > 0

\* "Asked to stop, and did" stays apart from an ordinary end: a cancelled job
\* has a request on file, and a pending one has none left over from an earlier
\* claim that the next holder would take for its own.
RequestsMatchStatus ==
  \A j \in JobId :
    /\ row[j].status = "cancelled" => row[j].cancel_requested_at # Null
    /\ row[j].status = "pending" =>
         row[j].claimed_by = Null /\ row[j].cancel_requested_at = Null

\* org_wide_stats reads completed and failed from org_counters instead of
\* counting rows; the cache is exact through every finish, close, re-pend and
\* delete.
CountersExact ==
  \A s \in Counted : terminal_total[s] = Cardinality({j \in JobId : row[j].status = s})

\* The generation fence tells processes of one account apart: when the
\* attempts value a process was last given is still the job's, nobody has
\* claimed the job since, not even the same account.
GenerationIdentifiesClaimer ==
  \A w \in Worker, j \in JobId :
    held[w][j] # 0 /\ held[w][j] = row[j].attempts => last_claimer[j] = w

\* A process that sends the generation it was given never ends or renews a claim
\* that somebody else has taken since, however late its call arrives and even if
\* they run under one account.
FencedCallsHitOwnClaim ==
  [][\A w \in Worker, j \in JobId :
       held[w][j] # 0 /\ FencedCall(w, j) => last_claimer[j] = w]_vars

\* A claim that has not run out is never taken over: no step starts a new
\* generation on it.
LiveClaimNotTaken ==
  [][\A j \in JobId :
       row[j].status \in Claimed /\ ~Expired(row[j], now) /\ row'[j].status # "absent"
         => row'[j].attempts = row[j].attempts]_vars

\* A new holder never inherits a request that was made to an earlier one.
ClaimStartsUnflagged ==
  [][\A j \in JobId :
       row'[j].attempts > row[j].attempts => row'[j].cancel_requested_at = Null]_vars

\* The queue implements the turn-taking it promises.
Turns == INSTANCE ClaimTurns WITH
  Job <- JobId,
  turn <- [j \in JobId |-> row[j].attempts],
  holder <- [j \in JobId |->
               IF row[j].status \in Claimed THEN row[j].claimed_by ELSE Null],
  lapsed <- {j \in JobId : Reapable(row[j], now)},
  settled <- {j \in JobId : row[j].status \in Terminal}

TakesTurns == Turns!Spec

\* of-billing completion.rs: "org_counters.jobs_completed_total always equals
\* the number of completion rows".
CompletedTotalIsCompletionRows == terminal_total["completed"] = completion_rows

=============================================================================
