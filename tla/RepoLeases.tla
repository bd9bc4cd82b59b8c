----------------------------- MODULE RepoLeases -----------------------------
(***************************************************************************)
(* Repo leases: crates/of-core/src/leases.rs behind the lease tools of     *)
(* crates/of-mcp/src/tools/coord.rs.                                       *)
(*                                                                         *)
(* A lease belongs to an account; a process is one agent of an account.    *)
(* acquire_lease is three statements of one READ COMMITTED transaction     *)
(* (reap what has expired, look for a live row, insert), so each is an     *)
(* action here, and so is the commit.  Rows a transaction has written or   *)
(* looked at FOR UPDATE stay locked until it ends; what it writes takes    *)
(* effect at its commit, because nobody reads a locked row before that.    *)
(* now() is the time at which the transaction began.                       *)
(*                                                                         *)
(* Assumed: a transaction is shorter than the shortest lease (a minute).   *)
(*                                                                         *)
(* Left out: scopes, metering, labels, the job a lease names, and which    *)
(* repos a caller may see (RepoRegistry).  A resource here is one          *)
(* (repo, resource) pair.                                                  *)
(***************************************************************************)
EXTENDS Integers, FiniteSets

CONSTANTS
  Process,
  Account,
  AccountOf,     \* the account a process calls with
  Resource,
  LeaseId,       \* bound: ids of the rows that can be inserted
  Ttl,           \* lifetimes after clamping to 60 s .. 4 h
  LeaseTime      \* bound: the last instant

ASSUME AccountOfAssumption == AccountOf \in [Process -> Account]
ASSUME TtlAssumption == Ttl \subseteq Nat \ {0, 1}
ASSUME LeaseTimeAssumption == LeaseTime \in Nat
ASSUME ResourceAssumption == Resource # {} /\ Ttl # {}

VARIABLES
  leaseClock,
  lease,       \* repo_leases
  leaseTx,     \* each process's open transaction
  held_up,     \* processes whose last call was answered "lease_held"
  promise      \* history: until when an account was last told it holds a
               \* resource; 0 when it released it or was removed

leaseVars == <<leaseClock, lease, leaseTx, held_up, promise>>

\* A row that was never inserted is nobody's.
LeaseRow == [resource: Resource, holder: Account, expires: Nat, released: BOOLEAN]
            \cup {[released |-> TRUE]}

\* The steps of a call: it has begun, it has reaped, it waits for the lock of
\* the row it found, it is to insert, or it has written and is to commit.
LeaseTx == [step: {"idle", "begun", "reaped", "waiting", "insert", "written"},
            call: {"acquire", "renew", "release"},
            now: Nat, resource: Resource, ttl: Ttl,
            row: LeaseId \cup {0},     \* the row it names, waits for or writes
            reaped: SUBSET LeaseId]

Idle == [step |-> "idle", call |-> "acquire", now |-> 0,
         resource |-> CHOOSE r \in Resource : TRUE, ttl |-> CHOOSE t \in Ttl : TRUE,
         row |-> 0, reaped |-> {}]

LeaseInit ==
  /\ leaseClock = 0
  /\ lease = [i \in LeaseId |-> [released |-> TRUE]]
  /\ leaseTx = [p \in Process |-> Idle]
  /\ held_up = {}
  /\ promise = [holding \in Account \X Resource |-> 0]

-----------------------------------------------------------------------------
(* The table, as a statement of p's transaction sees it. *)

Inserted(i) == "holder" \in DOMAIN lease[i]

\* A new row's id is its own, also before its commit.
Unused(i) ==
  /\ ~Inserted(i)
  /\ \A q \in Process : leaseTx[q].step = "written" => leaseTx[q].row # i

\* Rows of r that the unique index repo_leases_live_key covers.
Unreleased(r) == {i \in LeaseId : ~lease[i].released /\ lease[i].resource = r}

LockedByOther(p, i) ==
  \E q \in Process \ {p} :
    /\ leaseTx[q].step # "idle"
    /\ \/ i \in leaseTx[q].reaped
       \/ leaseTx[q].step = "written" /\ i = leaseTx[q].row

\* Slip: a lease that ends this instant is not reaped.
ExpiredBefore(i, now) == lease[i].expires < now

Expired(i, now) == lease[i].expires <= now

\* Slip: a row that was released in the meantime is renewed all the same.
OwnRow(p, i) ==
  /\ Inserted(i)
  /\ lease[i].holder = AccountOf[p]

\* The WHERE clause of renew_lease and release_lease.
OwnLive(p, i) ==
  /\ ~lease[i].released
  /\ lease[i].holder = AccountOf[p]

-----------------------------------------------------------------------------
(* The calls. *)

\* A transaction that is open has begun at the present instant or the last one.
LeaseTick ==
  /\ leaseClock < LeaseTime
  /\ \A p \in Process : leaseTx[p].step # "idle" => leaseTx[p].now = leaseClock
  /\ leaseClock' = leaseClock + 1
  /\ UNCHANGED <<lease, leaseTx, held_up, promise>>

BeginCall(p, call, r, i, ttl) ==
  /\ leaseTx[p].step = "idle"
  /\ leaseTx' = [leaseTx EXCEPT ![p] =
       [step |-> "begun", call |-> call, now |-> leaseClock,
        resource |-> r, ttl |-> ttl, row |-> i, reaped |-> {}]]
  /\ held_up' = held_up \ {p}
  /\ UNCHANGED <<leaseClock, lease, promise>>

AcquireLease(p, r, ttl) == BeginCall(p, "acquire", r, 0, ttl)

\* An id is one the process was given, or has read in list_leases.
RenewLease(p, i, ttl) ==
  /\ Inserted(i)
  /\ BeginCall(p, "renew", lease[i].resource, i, ttl)

ReleaseLease(p, i) ==
  /\ Inserted(i)
  /\ BeginCall(p, "release", lease[i].resource, i, CHOOSE t \in Ttl : TRUE)

\* The call fails: its transaction is rolled back.
Refuse(p, error) ==
  /\ leaseTx' = [leaseTx EXCEPT ![p] = Idle]
  /\ held_up' = IF error = "lease_held" THEN held_up \cup {p} ELSE held_up
  /\ UNCHANGED <<leaseClock, lease, promise>>

Proceed(p, tx) ==
  /\ leaseTx' = [leaseTx EXCEPT ![p] = tx]
  /\ UNCHANGED <<leaseClock, lease, held_up, promise>>

\* acquire's first statement marks expired rows released.  It waits for a row
\* it wants that another transaction has written.
Reap(p) ==
  LET tx == leaseTx[p]
      expired == {i \in Unreleased(tx.resource) : Expired(i, tx.now)} IN
  /\ tx.step = "begun" /\ tx.call = "acquire"
  /\ \A i \in expired : ~LockedByOther(p, i)
  /\ Proceed(p, [tx EXCEPT !.step = "reaped", !.reaped = expired])

\* The row found is the caller's, and is renewed, or somebody else's.
Judge(p, i) ==
  IF lease[i].holder = AccountOf[p]
  THEN Proceed(p, [leaseTx[p] EXCEPT !.step = "written", !.row = i])
  ELSE Refuse(p, "lease_held")

\* acquire's second statement: SELECT ... FOR UPDATE.
Look(p) ==
  LET tx == leaseTx[p]
      live == Unreleased(tx.resource) \ tx.reaped IN
  /\ tx.step = "reaped"
  /\ \/ live = {} /\ Proceed(p, [tx EXCEPT !.step = "insert"])
     \/ \E i \in live :
          IF LockedByOther(p, i)
          THEN Proceed(p, [tx EXCEPT !.step = "waiting", !.row = i])
          ELSE Judge(p, i)

\* The lock is free.  The row is judged as it is now; a row inserted since is
\* not in the statement's snapshot.
LockGranted(p) ==
  LET tx == leaseTx[p] IN
  /\ tx.step = "waiting"
  /\ ~LockedByOther(p, tx.row)
  /\ IF lease[tx.row].released
     THEN Proceed(p, [tx EXCEPT !.step = "insert", !.row = 0])
     ELSE Judge(p, tx.row)

\* acquire's third statement.  The index lets it wait for a transaction that may
\* still free or take the resource, and refuse a second live row with a
\* database error.
InsertLease(p) ==
  LET tx == leaseTx[p]
      taken == Unreleased(tx.resource) \ tx.reaped IN
  /\ tx.step = "insert"
  /\ \A q \in Process \ {p} :
       leaseTx[q].resource = tx.resource =>
         leaseTx[q].step # "written" /\ leaseTx[q].reaped = {}
  /\ IF taken # {}
     THEN Refuse(p, "database_error")
     ELSE \E i \in LeaseId :
            /\ Unused(i)
            /\ \A j \in LeaseId : Unused(j) => i <= j
            /\ Proceed(p, [tx EXCEPT !.step = "written", !.row = i])

\* The one statement of renew_lease and of release_lease.  Neither looks at
\* expires_at.
UpdateOwn(p) ==
  LET tx == leaseTx[p] IN
  /\ tx.step = "begun" /\ tx.call # "acquire"
  /\ ~LockedByOther(p, tx.row)
  /\ IF OwnLive(p, tx.row)
     THEN Proceed(p, [tx EXCEPT !.step = "written"])
     ELSE Refuse(p, "lease_not_held")

CommitLease(p) ==
  LET tx == leaseTx[p]
      until == IF tx.call = "release" THEN 0 ELSE tx.now + tx.ttl
      written == [resource |-> tx.resource, holder |-> AccountOf[p],
                  expires |-> IF until = 0 THEN lease[tx.row].expires ELSE until,
                  released |-> tx.call = "release"] IN
  /\ tx.step = "written"
  /\ lease' = [i \in LeaseId |->
                 CASE i = tx.row -> written
                   [] i \in tx.reaped -> [lease[i] EXCEPT !.released = TRUE]
                   [] OTHER -> lease[i]]
  /\ promise' = [promise EXCEPT ![<<AccountOf[p], tx.resource>>] = until]
  /\ leaseTx' = [leaseTx EXCEPT ![p] = Idle]
  /\ UNCHANGED <<leaseClock, held_up>>

\* A connection or a replica dies with the transaction open.
AbortLease(p) ==
  /\ leaseTx[p].step # "idle"
  /\ Refuse(p, "connection_lost")

\* exclude_requests: no request's transaction is open.
RequestsExcluded == \A p \in Process : leaseTx[p].step = "idle"

\* member_removed, which releases whatever the member holds, expired or not.  The
\* account may be a member again later.
ReleaseMember(a) ==
  /\ RequestsExcluded
  /\ lease' = [i \in LeaseId |-> IF ~lease[i].released /\ lease[i].holder = a
                                 THEN [lease[i] EXCEPT !.released = TRUE] ELSE lease[i]]
  /\ promise' = [holding \in Account \X Resource |->
                   IF holding[1] = a THEN 0 ELSE promise[holding]]
  /\ UNCHANGED <<leaseClock, leaseTx, held_up>>

\* org_deleted.  What follows here is another organization's story: in a deleted
\* one nothing begins (PlatformEvents).
PurgeLeases ==
  /\ RequestsExcluded
  /\ lease' = [i \in LeaseId |-> [released |-> TRUE]]
  /\ promise' = [holding \in Account \X Resource |-> 0]
  /\ UNCHANGED <<leaseClock, leaseTx, held_up>>

LeaseNext ==
  \/ LeaseTick
  \/ PurgeLeases
  \/ \E a \in Account : ReleaseMember(a)
  \/ \E p \in Process, r \in Resource, ttl \in Ttl : AcquireLease(p, r, ttl)
  \/ \E p \in Process, i \in LeaseId, ttl \in Ttl : RenewLease(p, i, ttl)
  \/ \E p \in Process, i \in LeaseId : ReleaseLease(p, i)
  \/ \E p \in Process : Reap(p) \/ Look(p) \/ LockGranted(p) \/ InsertLease(p)
                        \/ UpdateOwn(p) \/ CommitLease(p) \/ AbortLease(p)

LeaseSpec == LeaseInit /\ [][LeaseNext]_leaseVars

-----------------------------------------------------------------------------
(* Properties. *)

\* list_leases at this instant.
ListLeases == {i \in LeaseId : ~lease[i].released /\ lease[i].expires > leaseClock}

\* The promises are kept: an account is given a resource only when every other
\* account's lease of it has expired or was given up, however reaping, renewing,
\* waiting for locks and clocks that lag behind fall together.
Promises == INSTANCE LeasePromises
KeepsPromises == Promises!PromiseSpec

\* A crashed agent does not wedge a resource: acquire names a holder only while
\* that holder's lease has not expired by the caller's clock.
RefusedOnlyWhileHeld ==
  [][\A p \in held_up' \ held_up :
         \E b \in Account \ {AccountOf[p]} :
           promise[<<b, leaseTx[p].resource>>] > leaseTx[p].now]_leaseVars

\* "Who is in this repo right now?": list_leases names exactly the accounts that
\* hold a promise, whether or not anything has been reaped or renewed since.
ListedIsPromised ==
  {<<lease[i].holder, lease[i].resource>> : i \in ListLeases}
    = {holding \in Account \X Resource : promise[holding] > leaseClock}

LeaseTypeOK ==
  /\ leaseClock \in Nat
  /\ lease \in [LeaseId -> LeaseRow]
  /\ leaseTx \in [Process -> LeaseTx]
  /\ held_up \subseteq Process
  /\ promise \in [Account \X Resource -> Nat]

=============================================================================
