--------------------------- MODULE JobQueueProofs ---------------------------
(***************************************************************************)
(* Invariants of JobQueue, and that it implements ClaimTurns, for every    *)
(* set of processes, accounts and jobs and every bound.                    *)
(***************************************************************************)
EXTENDS JobQueue, DependencyGraphProofs, FiniteSetTheorems, TLAPS

-----------------------------------------------------------------------------
(* What the shared statements return. *)

\* A transaction's clock reading is a time.
LEMMA TxnNowIsTime ==
  ASSUME now \in Nat, NEW at \in TxnNow
  PROVE  at \in Nat
  BY DEF TxnNow

\* Forgetting a claim leaves a well-formed row of the same generation.
LEMMA ReleasedRow ==
  ASSUME NEW r \in Row
  PROVE  /\ Released(r) \in Row
         /\ Released(r).status = "pending"
         /\ Released(r).attempts = r.attempts
         /\ Released(r).claimed_by = Null
         /\ Released(r).claim_expires_at = Null
         /\ Released(r).cancel_requested_at = Null
  BY DEF Released, Row, Status

\* Claiming a row leaves a well-formed row of the next generation, held by the
\* account until the time asked for.
LEMMA ClaimedRowRow ==
  ASSUME NEW r \in Row, NEW user \in User, NEW ttl \in Ttl, NEW at \in Nat
  PROVE  /\ ClaimedRow(r, user, ttl, at) \in Row
         /\ ClaimedRow(r, user, ttl, at).status = "in-progress"
         /\ ClaimedRow(r, user, ttl, at).attempts = r.attempts + 1
         /\ ClaimedRow(r, user, ttl, at).claimed_by = user
         /\ ClaimedRow(r, user, ttl, at).claim_expires_at = at + ttl
         /\ ClaimedRow(r, user, ttl, at).cancel_requested_at =
              IF Reapable(r, at) THEN Null ELSE r.cancel_requested_at
  <1> DEFINE reaped == IF Reapable(r, at) THEN Released(r) ELSE r
  <1>1. /\ reaped \in Row
        /\ reaped.attempts = r.attempts
        /\ reaped.cancel_requested_at =
             IF Reapable(r, at) THEN Null ELSE r.cancel_requested_at
    BY ReleasedRow
  <1>2. ClaimedRow(r, user, ttl, at) =
          [reaped EXCEPT !.status = "in-progress", !.attempts = @ + 1,
                         !.claimed_by = user, !.claim_expires_at = at + ttl]
    BY DEF ClaimedRow
  <1> HIDE DEF reaped
  <1>3. ClaimedRow(r, user, ttl, at) =
          [status |-> "in-progress", attempts |-> reaped.attempts + 1,
           claimed_by |-> user, claim_expires_at |-> at + ttl,
           cancel_requested_at |-> reaped.cancel_requested_at]
    BY <1>1, <1>2 DEF Row
  <1>4. at + ttl \in Nat
    BY TtlAssumption
  <1>5. ClaimedRow(r, user, ttl, at) \in Row
    BY <1>1, <1>3, <1>4 DEF Row, Status, Claimed
  <1>6. QED
    BY <1>1, <1>3, <1>5

\* So does ending the job in a terminal status.
LEMMA EndedRow ==
  ASSUME NEW r \in Row, NEW to \in Terminal
  PROVE  /\ [r EXCEPT !.status = to, !.claim_expires_at = Null] \in Row
         /\ [r EXCEPT !.status = to, !.claim_expires_at = Null] =
              [status |-> to, attempts |-> r.attempts, claimed_by |-> r.claimed_by,
               claim_expires_at |-> Null, cancel_requested_at |-> r.cancel_requested_at]
  <1> DEFINE ended == [r EXCEPT !.status = to, !.claim_expires_at = Null]
  <1>1. ended = [r EXCEPT !.status = to, !.claim_expires_at = Null]
    OBVIOUS
  <1> HIDE DEF ended
  <1>2. ended = [status |-> to, attempts |-> r.attempts, claimed_by |-> r.claimed_by,
                 claim_expires_at |-> Null, cancel_requested_at |-> r.cancel_requested_at]
    BY <1>1 DEF Row
  <1>3. ended \in Row
    BY <1>2 DEF Row, Status
  <1>4. QED
    BY <1>2, <1>3 DEF ended

\* So does recording a request to cancel it.
LEMMA RequestedRow ==
  ASSUME NEW r \in Row, NEW at \in Nat
  PROVE  LET q == [r EXCEPT !.status = IF r.status = "pending" THEN "cancelled" ELSE @,
                            !.cancel_requested_at = at]
         IN  /\ q \in Row
             /\ q = [status |-> IF r.status = "pending" THEN "cancelled" ELSE r.status,
                     attempts |-> r.attempts, claimed_by |-> r.claimed_by,
                     claim_expires_at |-> r.claim_expires_at, cancel_requested_at |-> at]
  <1> DEFINE asked == [r EXCEPT !.status = IF r.status = "pending" THEN "cancelled" ELSE @,
                                !.cancel_requested_at = at]
  <1>1. asked = [r EXCEPT !.status = IF r.status = "pending" THEN "cancelled" ELSE @,
                          !.cancel_requested_at = at]
    OBVIOUS
  <1> HIDE DEF asked
  <1>2. asked = [status |-> IF r.status = "pending" THEN "cancelled" ELSE r.status,
                 attempts |-> r.attempts, claimed_by |-> r.claimed_by,
                 claim_expires_at |-> r.claim_expires_at, cancel_requested_at |-> at]
    BY <1>1 DEF Row
  <1>3. asked \in Row
    BY <1>2 DEF Row, Status, Terminal
  <1>4. QED
    BY <1>2, <1>3 DEF asked

\* Bumping keeps the counters integers.
LEMMA BumpType ==
  ASSUME terminal_total \in [Counted -> Int], NEW s, NEW delta \in Int
  PROVE  BumpTerminalCounter(s, delta) \in [Counted -> Int]
  BY DEF BumpTerminalCounter

-----------------------------------------------------------------------------
(* Type correctness. *)

\* The initial state is well formed.
LEMMA InitTypeOK == Init => TypeOK
  <1> SUFFICES ASSUME Init PROVE TypeOK
    OBVIOUS
  <1>1. NoRow \in Row
    BY DEF NoRow, Row
  <1>2. /\ row \in [JobId -> Row]
        /\ held \in [Worker -> [JobId -> Nat]]
        /\ last_claimer \in [JobId -> Worker \cup {Null}]
    BY <1>1 DEF Init
  <1>3. /\ deps \subseteq JobId \X JobId
        /\ next_job_seq \in 1..(MaxJobs + 1)
        /\ terminal_total \in [Counted -> Int]
        /\ completion_rows \in Nat
        /\ now \in Nat
    BY BoundsAssumption DEF Init
  <1>4. QED
    BY <1>2, <1>3 DEF TypeOK

\* Every transaction keeps the state well formed.
LEMMA NextTypeOK == TypeOK /\ [Next]_vars => TypeOK'
  <1> SUFFICES ASSUME TypeOK, [Next]_vars PROVE TypeOK'
    OBVIOUS
  <1>1. ASSUME NEW w \in Worker, NEW S \in SUBSET JobId, NEW ttl \in Ttl,
               NEW at \in TxnNow, NEW replied \in Replies,
               ClaimJobs(w, S, ttl, at, replied)
        PROVE  TypeOK'
    <2>1. at \in Nat /\ UserOf[w] \in User
      BY TxnNowIsTime, UserOfAssumption DEF TypeOK
    <2>2. \A j \in JobId : ClaimedRow(row[j], UserOf[w], ttl, at) \in Row
      BY <2>1, ClaimedRowRow DEF TypeOK
    <2>3. row' \in [JobId -> Row]
      BY <1>1, <2>2 DEF ClaimJobs, TypeOK
    <2>4. \A j \in JobId : row[j].attempts \in Nat
      BY DEF TypeOK, Row
    <2>5. held' \in [Worker -> [JobId -> Nat]]
      BY <1>1, <2>4 DEF ClaimJobs, TypeOK
    <2>6. last_claimer' \in [JobId -> Worker \cup {Null}]
      BY <1>1 DEF ClaimJobs, TypeOK
    <2>7. QED
      BY <1>1, <2>3, <2>5, <2>6 DEF ClaimJobs, TypeOK
  <1>2. ASSUME NEW w \in Worker, NEW j \in JobId, NEW to \in Counted,
               NEW expected \in Generations(w, j), NEW at \in TxnNow,
               Finalize(w, j, to, expected, at)
        PROVE  TypeOK'
    <2>1. [row[j] EXCEPT !.status = to, !.claim_expires_at = Null] \in Row
      BY EndedRow DEF TypeOK, Terminal, Counted
    <2>2. row' \in [JobId -> Row]
      BY <1>2, <2>1 DEF Finalize, TypeOK
    <2>3. terminal_total' \in [Counted -> Int]
      BY <1>2, BumpType DEF Finalize, TypeOK
    <2>4. QED
      BY <1>2, <2>2, <2>3 DEF Finalize, TypeOK
  <1>3. ASSUME NEW w \in Worker, NEW j \in JobId, NEW ttl \in Ttl,
               NEW expected \in Generations(w, j), NEW at \in TxnNow,
               RenewClaim(w, j, ttl, expected, at)
        PROVE  TypeOK'
    <2>1. at + ttl \in Nat
      BY TxnNowIsTime, TtlAssumption DEF TypeOK
    <2>2. [row[j] EXCEPT !.claim_expires_at = at + ttl] \in Row
      BY <2>1 DEF TypeOK, Row
    <2>3. row' \in [JobId -> Row]
      BY <1>3, <2>2 DEF RenewClaim, TypeOK
    <2>4. QED
      BY <1>3, <2>3 DEF RenewClaim, TypeOK
  <1>4. ASSUME NEW w \in Worker, NEW j \in JobId,
               NEW expected \in Generations(w, j), NEW at \in TxnNow,
               CancelJob(w, j, expected, at)
        PROVE  TypeOK'
    <2>1. [row[j] EXCEPT !.status = "cancelled", !.claim_expires_at = Null] \in Row
      BY EndedRow DEF TypeOK, Terminal
    <2>2. row' \in [JobId -> Row]
      BY <1>4, <2>1 DEF CancelJob, TypeOK
    <2>3. QED
      BY <1>4, <2>2 DEF CancelJob, TypeOK
  <1>5. ASSUME NEW D \in SUBSET JobId, AddJob(D)
        PROVE  TypeOK'
    <2>1. NewRow \in Row
      BY DEF NewRow, NoRow, Row, Status
    <2>2. row' \in [JobId -> Row]
      BY <1>5, <2>1 DEF AddJob, TypeOK
    <2>3. deps' \subseteq JobId \X JobId
      BY <1>5 DEF AddJob, TypeOK
    <2>4. next_job_seq' \in 1..(MaxJobs + 1)
      BY <1>5, BoundsAssumption DEF AddJob, TypeOK, JobId
    <2>5. QED
      BY <1>5, <2>2, <2>3, <2>4 DEF AddJob, TypeOK
  <1>6. ASSUME NEW j \in JobId, NEW add \in SUBSET JobId, NEW remove \in SUBSET JobId,
               SetDependencies(j, add, remove)
        PROVE  TypeOK'
    <2>1. EditedDeps(j, add, remove) \subseteq JobId \X JobId
      BY DEF EditedDeps, TypeOK
    <2>2. QED
      BY <1>6, <2>1 DEF SetDependencies, TypeOK
  <1>7. ASSUME NEW j \in JobId, DeleteJob(j)
        PROVE  TypeOK'
    <2>1. NoRow \in Row
      BY DEF NoRow, Row
    <2>2. row' \in [JobId -> Row]
      BY <1>7, <2>1 DEF DeleteJob, TypeOK
    <2>3. terminal_total' \in [Counted -> Int]
      BY <1>7, BumpType DEF DeleteJob, TypeOK
    <2>4. QED
      BY <1>7, <2>2, <2>3 DEF DeleteJob, TypeOK
  <1>8. ASSUME NEW j \in JobId, ActivateJob(j)
        PROVE  TypeOK'
    <2>1. [row[j] EXCEPT !.status = "active"] \in Row
      BY DEF TypeOK, Row, Status, Claimed
    <2>2. row' \in [JobId -> Row]
      BY <1>8, <2>1 DEF ActivateJob, TypeOK
    <2>3. QED
      BY <1>8, <2>2 DEF ActivateJob, TypeOK
  <1>9. ASSUME NEW j \in JobId, NEW at \in TxnNow, RequestCancel(j, at)
        PROVE  TypeOK'
    <2>1. at \in Nat
      BY TxnNowIsTime DEF TypeOK
    <2>2. [row[j] EXCEPT !.status = IF row[j].status = "pending" THEN "cancelled" ELSE @,
                         !.cancel_requested_at = at] \in Row
      BY <2>1, RequestedRow DEF TypeOK
    <2>3. row' \in [JobId -> Row]
      BY <1>9, <2>2 DEF RequestCancel, TypeOK
    <2>4. QED
      BY <1>9, <2>3 DEF RequestCancel, TypeOK
  <1>10. ASSUME NEW j \in JobId, NEW to \in Counted, CloseFromTicket(j, to)
         PROVE  TypeOK'
    <2>1. [row[j] EXCEPT !.status = to, !.claim_expires_at = Null] \in Row
      BY EndedRow DEF TypeOK, Terminal, Counted
    <2>2. row' \in [JobId -> Row]
      BY <1>10, <2>1 DEF CloseFromTicket, TypeOK
    <2>3. terminal_total' \in [Counted -> Int]
      BY <1>10, BumpType DEF CloseFromTicket, TypeOK
    <2>4. QED
      BY <1>10, <2>2, <2>3 DEF CloseFromTicket, TypeOK
  <1>11. ASSUME NEW j \in JobId, RependJob(j)
         PROVE  TypeOK'
    <2>1. row' \in [JobId -> Row]
      BY <1>11, ReleasedRow DEF RependJob, TypeOK
    <2>2. terminal_total' \in [Counted -> Int]
      BY <1>11, BumpType DEF RependJob, TypeOK
    <2>3. QED
      BY <1>11, <2>1, <2>2 DEF RependJob, TypeOK
  <1>12. ASSUME NEW u \in User, MemberRemoved(u)
         PROVE  TypeOK'
    <2>1. row' \in [JobId -> Row]
      BY <1>12, ReleasedRow DEF MemberRemoved, TypeOK
    <2>2. QED
      BY <1>12, <2>1 DEF MemberRemoved, TypeOK
  <1>13. CASE Tick
    BY <1>13 DEF Tick, TypeOK
  <1>14. CASE LoseInsertRace
    BY <1>14, BoundsAssumption DEF LoseInsertRace, TypeOK, JobId
  <1>15. CASE UNCHANGED vars
    BY <1>15 DEF vars, TypeOK
  <1>16. QED
    BY <1>1, <1>2, <1>3, <1>4, <1>5, <1>6, <1>7, <1>8, <1>9, <1>10, <1>11, <1>12,
       <1>13, <1>14, <1>15 DEF Next, WorkerStep

\* Every reachable state is well formed: in particular no operation can leave a
\* row with a status, a holder or an expiry outside its column's values.
THEOREM TypeCorrect == Spec => []TypeOK
  <1>1. Init => TypeOK
    BY InitTypeOK
  <1>2. TypeOK /\ [Next]_vars => TypeOK'
    BY NextTypeOK
  <1>3. QED
    BY <1>1, <1>2, PTL DEF Spec

-----------------------------------------------------------------------------
(* The columns of a row agree with its status.  The property is about one  *)
(* row at a time and is inductive, given the type invariant: what an       *)
(* action writes is decided from the row it locked.                        *)

\* ClaimColumnsAgree and RequestsMatchStatus for one row.
Coherent(r) ==
  /\ r.status \in Claimed <=> r.claim_expires_at # Null
  /\ r.status \in Claimed => r.claimed_by # Null /\ r.attempts > 0
  /\ r.status = "cancelled" => r.cancel_requested_at # Null
  /\ r.status = "pending" => r.claimed_by = Null /\ r.cancel_requested_at = Null

RowsCoherent == \A j \in JobId : Coherent(row[j])

\* Rewriting one row coherently keeps all of them coherent.
LEMMA OneRowCoherent ==
  ASSUME TypeOK, RowsCoherent, NEW j \in JobId, NEW r,
         row' = [row EXCEPT ![j] = r], Coherent(r)
  PROVE  RowsCoherent'
  BY DEF TypeOK, RowsCoherent, Coherent

\* A released row is coherent whatever it was.
LEMMA ReleasedCoherent ==
  ASSUME NEW r \in Row
  PROVE  Coherent(Released(r))
  BY ReleasedRow DEF Coherent, Claimed

\* Ending a job is coherent, as cancelled only with a request on file.
LEMMA EndedCoherent ==
  ASSUME NEW r \in Row, NEW to \in Terminal,
         to = "cancelled" => r.cancel_requested_at # Null
  PROVE  Coherent([r EXCEPT !.status = to, !.claim_expires_at = Null])
  <1> DEFINE ended == [r EXCEPT !.status = to, !.claim_expires_at = Null]
  <1>1. ended = [status |-> to, attempts |-> r.attempts, claimed_by |-> r.claimed_by,
                 claim_expires_at |-> Null, cancel_requested_at |-> r.cancel_requested_at]
    BY EndedRow
  <1> HIDE DEF ended
  <1>2. Coherent(ended)
    BY <1>1 DEF Coherent, Claimed, Terminal
  <1>3. QED
    BY <1>2 DEF ended

LEMMA InitRowsCoherent == Init => RowsCoherent
  BY DEF Init, NoRow, RowsCoherent, Coherent, Claimed

\* Every transaction keeps the rows coherent.
LEMMA NextRowsCoherent == TypeOK /\ RowsCoherent /\ [Next]_vars => RowsCoherent'
  <1> SUFFICES ASSUME TypeOK, RowsCoherent, [Next]_vars PROVE RowsCoherent'
    OBVIOUS
  <1>1. ASSUME NEW w \in Worker, NEW S \in SUBSET JobId, NEW ttl \in Ttl,
               NEW at \in TxnNow, NEW replied \in Replies,
               ClaimJobs(w, S, ttl, at, replied)
        PROVE  RowsCoherent'
    <2> SUFFICES ASSUME NEW j \in JobId PROVE Coherent(row'[j])
      BY DEF RowsCoherent, Coherent
    <2>1. /\ at \in Nat
          /\ UserOf[w] \in User
          /\ row[j] \in Row
      BY TxnNowIsTime, UserOfAssumption DEF TypeOK
    <2>2. CASE j \in S
      <3>1. row'[j] = ClaimedRow(row[j], UserOf[w], ttl, at)
        BY <1>1, <2>2 DEF ClaimJobs
      <3>2. UserOf[w] # Null /\ at + ttl # Null /\ row[j].attempts + 1 > 0
        BY <2>1, NullAssumption, TtlAssumption DEF Row
      <3>3. QED
        BY <2>1, <3>1, <3>2, ClaimedRowRow DEF Coherent, Claimed
    <2>3. CASE j \notin S
      BY <1>1, <2>3 DEF ClaimJobs, RowsCoherent
    <2>4. QED
      BY <2>2, <2>3
  <1>2. ASSUME NEW w \in Worker, NEW j \in JobId, NEW to \in Counted,
               NEW expected \in Generations(w, j), NEW at \in TxnNow,
               Finalize(w, j, to, expected, at)
        PROVE  RowsCoherent'
    <2>1. Coherent([row[j] EXCEPT !.status = to, !.claim_expires_at = Null])
      BY EndedCoherent DEF TypeOK, Terminal, Counted
    <2>2. QED
      BY <1>2, <2>1, OneRowCoherent DEF Finalize, TypeOK
  <1>3. ASSUME NEW w \in Worker, NEW j \in JobId, NEW ttl \in Ttl,
               NEW expected \in Generations(w, j), NEW at \in TxnNow,
               RenewClaim(w, j, ttl, expected, at)
        PROVE  RowsCoherent'
    <2>1. at + ttl # Null
      BY TxnNowIsTime, TtlAssumption, NullAssumption DEF TypeOK
    <2>2. row[j].status \in Claimed
      BY <1>3 DEF RenewClaim, EnsureClaimHeld
    <2>3. Coherent([row[j] EXCEPT !.claim_expires_at = at + ttl])
      BY <2>1, <2>2 DEF RowsCoherent, Coherent, TypeOK, Row, Claimed
    <2>4. QED
      BY <1>3, <2>3, OneRowCoherent DEF RenewClaim
  <1>4. ASSUME NEW w \in Worker, NEW j \in JobId,
               NEW expected \in Generations(w, j), NEW at \in TxnNow,
               CancelJob(w, j, expected, at)
        PROVE  RowsCoherent'
    <2>1. Coherent([row[j] EXCEPT !.status = "cancelled", !.claim_expires_at = Null])
      BY <1>4, EndedCoherent DEF CancelJob, TypeOK, Terminal
    <2>2. QED
      BY <1>4, <2>1, OneRowCoherent DEF CancelJob, TypeOK
  <1>5. ASSUME NEW D \in SUBSET JobId, AddJob(D)
        PROVE  RowsCoherent'
    <2>1. Coherent(NewRow)
      BY DEF NewRow, NoRow, Coherent, Claimed
    <2>2. QED
      BY <1>5, <2>1, OneRowCoherent DEF AddJob
  <1>6. ASSUME NEW j \in JobId, NEW add \in SUBSET JobId, NEW remove \in SUBSET JobId,
               SetDependencies(j, add, remove)
        PROVE  RowsCoherent'
    BY <1>6 DEF SetDependencies, RowsCoherent, Coherent
  <1>7. ASSUME NEW j \in JobId, DeleteJob(j)
        PROVE  RowsCoherent'
    <2>1. Coherent(NoRow)
      BY DEF NoRow, Coherent, Claimed
    <2>2. QED
      BY <1>7, <2>1, OneRowCoherent DEF DeleteJob
  <1>8. ASSUME NEW j \in JobId, ActivateJob(j)
        PROVE  RowsCoherent'
    <2>1. Coherent([row[j] EXCEPT !.status = "active"])
      BY <1>8 DEF ActivateJob, RowsCoherent, Coherent, TypeOK, Row, Claimed
    <2>2. QED
      BY <1>8, <2>1, OneRowCoherent DEF ActivateJob
  <1>9. ASSUME NEW j \in JobId, NEW at \in TxnNow, RequestCancel(j, at)
        PROVE  RowsCoherent'
    <2> DEFINE asked == [row[j] EXCEPT
                  !.status = IF row[j].status = "pending" THEN "cancelled" ELSE @,
                  !.cancel_requested_at = at]
    <2>1. at \in Nat /\ at # Null /\ row[j] \in Row /\ Coherent(row[j])
      BY TxnNowIsTime, NullAssumption DEF TypeOK, RowsCoherent
    <2>2. asked = [status |-> IF row[j].status = "pending" THEN "cancelled" ELSE row[j].status,
                   attempts |-> row[j].attempts, claimed_by |-> row[j].claimed_by,
                   claim_expires_at |-> row[j].claim_expires_at,
                   cancel_requested_at |-> at]
      BY <2>1, RequestedRow
    <2>3. row' = [row EXCEPT ![j] = asked]
      BY <1>9 DEF RequestCancel, TypeOK
    <2> HIDE DEF asked
    <2>4. Coherent(asked)
      BY <1>9, <2>1, <2>2 DEF RequestCancel, Coherent, Claimed
    <2>5. QED
      BY <2>3, <2>4, OneRowCoherent
  <1>10. ASSUME NEW j \in JobId, NEW to \in Counted, CloseFromTicket(j, to)
         PROVE  RowsCoherent'
    <2>1. Coherent([row[j] EXCEPT !.status = to, !.claim_expires_at = Null])
      BY EndedCoherent DEF TypeOK, Terminal, Counted
    <2>2. QED
      BY <1>10, <2>1, OneRowCoherent DEF CloseFromTicket, TypeOK
  <1>11. ASSUME NEW j \in JobId, RependJob(j)
         PROVE  RowsCoherent'
    <2>1. Coherent(Released(row[j]))
      BY ReleasedCoherent DEF TypeOK
    <2>2. QED
      BY <1>11, <2>1, OneRowCoherent DEF RependJob
  <1>12. ASSUME NEW u \in User, MemberRemoved(u)
         PROVE  RowsCoherent'
    <2> SUFFICES ASSUME NEW j \in JobId PROVE Coherent(row'[j])
      BY DEF RowsCoherent, Coherent
    <2>1. row'[j] = row[j] \/ row'[j] = Released(row[j])
      BY <1>12 DEF MemberRemoved
    <2>2. QED
      BY <2>1, ReleasedCoherent DEF TypeOK, RowsCoherent
  <1>13. CASE Tick
    BY <1>13 DEF Tick, RowsCoherent, Coherent
  <1>14. CASE LoseInsertRace
    BY <1>14 DEF LoseInsertRace, RowsCoherent, Coherent
  <1>15. CASE UNCHANGED vars
    BY <1>15 DEF vars, RowsCoherent, Coherent
  <1>16. QED
    BY <1>1, <1>2, <1>3, <1>4, <1>5, <1>6, <1>7, <1>8, <1>9, <1>10, <1>11, <1>12,
       <1>13, <1>14, <1>15 DEF Next, WorkerStep

\* A dead agent's job can always be told apart and taken back, and a holder can
\* always be named: claim_jobs, ensure_claim_held and ready() rely on it.
THEOREM ClaimColumnsCorrect == Spec => []ClaimColumnsAgree
  <1>1. Init => TypeOK /\ RowsCoherent
    BY InitTypeOK, InitRowsCoherent
  <1>2. (TypeOK /\ RowsCoherent) /\ [Next]_vars => (TypeOK /\ RowsCoherent)'
    BY NextTypeOK, NextRowsCoherent
  <1>3. TypeOK /\ RowsCoherent => ClaimColumnsAgree
    BY DEF RowsCoherent, Coherent, ClaimColumnsAgree
  <1>4. QED
    BY <1>1, <1>2, <1>3, PTL DEF Spec

\* cancel_requested_at never outlives the claim it was made to, and "cancelled"
\* always means that somebody asked.
THEOREM RequestsCorrect == Spec => []RequestsMatchStatus
  <1>1. Init => TypeOK /\ RowsCoherent
    BY InitTypeOK, InitRowsCoherent
  <1>2. (TypeOK /\ RowsCoherent) /\ [Next]_vars => (TypeOK /\ RowsCoherent)'
    BY NextTypeOK, NextRowsCoherent
  <1>3. TypeOK /\ RowsCoherent => RequestsMatchStatus
    BY DEF RowsCoherent, Coherent, RequestsMatchStatus
  <1>4. QED
    BY <1>1, <1>2, <1>3, PTL DEF Spec

-----------------------------------------------------------------------------
(* The generation fence.  GenerationIdentifiesClaimer is not inductive: it *)
(* does not say that a generation a process remembers was ever given out,  *)
(* so a claim might reach it again.  The strengthening bounds what is      *)
(* remembered by the row's own counter, and says that a job number nobody  *)
(* has allocated has neither a row nor a memory.                           *)

\* w remembers no more of job j than has happened to it, and what it remembers
\* as current is its own.
Remembers(w, j) ==
  /\ held[w][j] # 0 => j < next_job_seq
  /\ Exists(j) => held[w][j] <= row[j].attempts
  /\ held[w][j] # 0 /\ held[w][j] = row[j].attempts => last_claimer[j] = w

\* A row has an allocated number; a missing one counts no attempts.
Allocated(j) ==
  /\ Exists(j) => j < next_job_seq
  /\ ~Exists(j) => row[j].attempts = 0

MemoryBounded ==
  /\ \A j \in JobId : Allocated(j)
  /\ \A w \in Worker, j \in JobId : Remembers(w, j)

\* What a step that gives out no generation does to a row: it keeps the
\* counter of a row that exists, or removes the row.
Keeps(j) ==
  \/ row'[j] = NoRow
  \/ /\ row'[j].attempts = row[j].attempts
     /\ row'[j].status = "absent" <=> row[j].status = "absent"

Quiet ==
  /\ \A j \in JobId : Keeps(j)
  /\ next_job_seq' \in {next_job_seq, next_job_seq + 1}
  /\ UNCHANGED <<held, last_claimer>>

\* Such a step keeps the bound.
LEMMA QuietStep ==
  ASSUME TypeOK, MemoryBounded, Quiet
  PROVE  MemoryBounded'
  <1> USE DEF Quiet
  <1>0. /\ next_job_seq \in Int
        /\ next_job_seq' \in Int
        /\ next_job_seq <= next_job_seq'
        /\ JobId \subseteq Int
    BY BoundsAssumption DEF TypeOK, JobId
  <1>1. \A j \in JobId : Allocated(j)'
    BY <1>0 DEF MemoryBounded, Allocated, Exists, Keeps, NoRow
  <1>2. ASSUME NEW w \in Worker, NEW j \in JobId PROVE Remembers(w, j)'
    <2>1. CASE row'[j] = NoRow
      BY <1>0, <2>1 DEF MemoryBounded, Remembers, Exists, NoRow
    <2>2. CASE /\ row'[j].attempts = row[j].attempts
               /\ row'[j].status = "absent" <=> row[j].status = "absent"
      BY <1>0, <2>2 DEF MemoryBounded, Remembers, Exists
    <2>3. QED
      BY <2>1, <2>2 DEF Keeps
  <1>3. QED
    BY <1>1, <1>2 DEF MemoryBounded

LEMMA InitMemoryBounded == Init => MemoryBounded
  BY DEF Init, MemoryBounded, Allocated, Remembers, Exists, NoRow

\* Giving out a generation keeps the bound.
LEMMA ClaimMemoryBounded ==
  ASSUME TypeOK, MemoryBounded,
         NEW w \in Worker, NEW S \in SUBSET JobId, NEW ttl \in Ttl,
         NEW at \in TxnNow, NEW replied \in Replies,
         ClaimJobs(w, S, ttl, at, replied)
  PROVE  MemoryBounded'
  <1>1. at \in Nat /\ UserOf[w] \in User
    BY TxnNowIsTime, UserOfAssumption DEF TypeOK
  <1>2. ASSUME NEW j \in S
        PROVE  /\ Exists(j)
               /\ row'[j].status = "in-progress"
               /\ row'[j].attempts = row[j].attempts + 1
               /\ last_claimer'[j] = w
    <2>1. j \in JobId /\ row[j] \in Row
      BY DEF TypeOK
    <2>2. Exists(j)
      BY DEF ClaimJobs, ClaimAdmits, Reapable, Claimed, Exists
    <2>3. row'[j] = ClaimedRow(row[j], UserOf[w], ttl, at)
      BY <2>1 DEF ClaimJobs
    <2>4. QED
      BY <1>1, <2>1, <2>2, <2>3, ClaimedRowRow DEF ClaimJobs
  <1>3. ASSUME NEW j \in JobId, j \notin S
        PROVE  row'[j] = row[j] /\ last_claimer'[j] = last_claimer[j]
    BY <1>3 DEF ClaimJobs
  <1>4. next_job_seq' = next_job_seq
    BY DEF ClaimJobs
  <1>5. \A j \in JobId : row[j].attempts \in Nat
    BY DEF TypeOK, Row
  <1>6. ASSUME NEW j \in JobId PROVE Allocated(j)'
    BY <1>2, <1>3, <1>4 DEF MemoryBounded, Allocated, Exists
  <1>7. ASSUME NEW v \in Worker, NEW j \in JobId PROVE Remembers(v, j)'
    <2>1. Remembers(v, j) /\ Allocated(j)
      BY DEF MemoryBounded
    <2>2. held[v][j] \in Nat
      BY DEF TypeOK
    <2>3. held'[v][j] = IF v = w /\ replied /\ j \in S THEN row[j].attempts + 1 ELSE held[v][j]
      BY DEF ClaimJobs, TypeOK
    <2>4. CASE j \in S
      BY <1>2, <1>4, <1>5, <2>1, <2>2, <2>3, <2>4 DEF Remembers, Allocated, Exists
    <2>5. CASE j \notin S
      BY <1>3, <1>4, <2>1, <2>3, <2>5 DEF Remembers, Exists
    <2>6. QED
      BY <2>4, <2>5
  <1>8. QED
    BY <1>6, <1>7 DEF MemoryBounded

\* A new job gets a number that no process remembers.
LEMMA AddMemoryBounded ==
  ASSUME TypeOK, MemoryBounded, NEW D \in SUBSET JobId, AddJob(D)
  PROVE  MemoryBounded'
  <1>1. ASSUME NEW j \in JobId
        PROVE  row'[j] = IF j = next_job_seq THEN NewRow ELSE row[j]
    BY DEF AddJob, TypeOK
  <1>2. /\ next_job_seq \in Int
        /\ next_job_seq' = next_job_seq + 1
        /\ UNCHANGED <<held, last_claimer>>
        /\ JobId \subseteq Int
    BY BoundsAssumption DEF AddJob, TypeOK, JobId
  <1>3. NewRow.status = "pending" /\ NewRow.attempts = 0
    BY DEF NewRow, NoRow
  <1>4. ASSUME NEW j \in JobId PROVE Allocated(j)'
    BY <1>1, <1>2, <1>3 DEF MemoryBounded, Allocated, Exists
  <1>5. ASSUME NEW w \in Worker, NEW j \in JobId PROVE Remembers(w, j)'
    <2>1. Remembers(w, j) /\ held[w][j] \in Nat
      BY DEF MemoryBounded, TypeOK
    <2>2. CASE j = next_job_seq
      BY <1>1, <1>2, <1>3, <2>1, <2>2 DEF Remembers, Exists
    <2>3. CASE j # next_job_seq
      BY <1>1, <1>2, <2>1, <2>3 DEF Remembers, Exists
    <2>4. QED
      BY <2>2, <2>3
  <1>6. QED
    BY <1>4, <1>5 DEF MemoryBounded

\* Every step gives out a generation, creates a job, or keeps the counters.
LEMMA StepKinds ==
  ASSUME TypeOK, [Next]_vars
  PROVE  \/ \E w \in Worker, S \in SUBSET JobId, ttl \in Ttl, at \in TxnNow,
              replied \in Replies : ClaimJobs(w, S, ttl, at, replied)
         \/ \E D \in SUBSET JobId : AddJob(D)
         \/ Quiet
  <1> USE DEF Keeps, Quiet
  <1>0. \A j \in JobId : row[j] \in Row
    BY DEF TypeOK
  <1>1. ASSUME NEW w \in Worker, NEW j \in JobId, NEW to \in Counted,
               NEW expected \in Generations(w, j), NEW at \in TxnNow,
               Finalize(w, j, to, expected, at)
        PROVE  Quiet
    <2>1. \A k \in JobId : Keeps(k)
      BY <1>0, <1>1 DEF Finalize, EnsureClaimHeld, TypeOK, Row, Claimed, Counted
    <2>2. QED
      BY <1>1, <2>1 DEF Finalize
  <1>2. ASSUME NEW w \in Worker, NEW j \in JobId, NEW ttl \in Ttl,
               NEW expected \in Generations(w, j), NEW at \in TxnNow,
               RenewClaim(w, j, ttl, expected, at)
        PROVE  Quiet
    <2>1. \A k \in JobId : Keeps(k)
      BY <1>0, <1>2 DEF RenewClaim, TypeOK, Row
    <2>2. QED
      BY <1>2, <2>1 DEF RenewClaim
  <1>3. ASSUME NEW w \in Worker, NEW j \in JobId,
               NEW expected \in Generations(w, j), NEW at \in TxnNow,
               CancelJob(w, j, expected, at)
        PROVE  Quiet
    <2>1. \A k \in JobId : Keeps(k)
      BY <1>0, <1>3 DEF CancelJob, EnsureClaimHeld, TypeOK, Row, Claimed
    <2>2. QED
      BY <1>3, <2>1 DEF CancelJob
  <1>4. ASSUME NEW j \in JobId, NEW add \in SUBSET JobId, NEW remove \in SUBSET JobId,
               SetDependencies(j, add, remove)
        PROVE  Quiet
    BY <1>4 DEF SetDependencies
  <1>5. ASSUME NEW j \in JobId, DeleteJob(j)
        PROVE  Quiet
    <2>1. \A k \in JobId : Keeps(k)
      BY <1>5 DEF DeleteJob, TypeOK
    <2>2. QED
      BY <1>5, <2>1 DEF DeleteJob
  <1>6. ASSUME NEW j \in JobId, ActivateJob(j)
        PROVE  Quiet
    <2>1. \A k \in JobId : Keeps(k)
      BY <1>0, <1>6 DEF ActivateJob, TypeOK, Row
    <2>2. QED
      BY <1>6, <2>1 DEF ActivateJob
  <1>7. ASSUME NEW j \in JobId, NEW at \in TxnNow, RequestCancel(j, at)
        PROVE  Quiet
    <2>1. \A k \in JobId : Keeps(k)
      BY <1>0, <1>7 DEF RequestCancel, TypeOK, Row, Claimed
    <2>2. QED
      BY <1>7, <2>1 DEF RequestCancel
  <1>8. ASSUME NEW j \in JobId, NEW to \in Counted, CloseFromTicket(j, to)
         PROVE  Quiet
    <2>1. \A k \in JobId : Keeps(k)
      BY <1>0, <1>8 DEF CloseFromTicket, TypeOK, Row, Claimed, Counted
    <2>2. QED
      BY <1>8, <2>1 DEF CloseFromTicket
  <1>9. ASSUME NEW j \in JobId, RependJob(j)
         PROVE  Quiet
    <2>1. \A k \in JobId : Keeps(k)
      BY <1>0, <1>9, ReleasedRow DEF RependJob, TypeOK, Exists
    <2>2. QED
      BY <1>9, <2>1 DEF RependJob
  <1>10. ASSUME NEW u \in User, MemberRemoved(u)
         PROVE  Quiet
    <2>1. \A k \in JobId : Keeps(k)
      BY <1>0, <1>10, ReleasedRow DEF MemberRemoved, Claimed
    <2>2. QED
      BY <1>10, <2>1 DEF MemberRemoved
  <1>11. CASE Tick
    BY <1>11 DEF Tick
  <1>12. CASE LoseInsertRace
    BY <1>12 DEF LoseInsertRace, TypeOK
  <1>13. CASE UNCHANGED vars
    BY <1>13 DEF vars, TypeOK
  <1>14. QED
    BY <1>1, <1>2, <1>3, <1>4, <1>5, <1>6, <1>7, <1>8, <1>9, <1>10,
       <1>11, <1>12, <1>13 DEF Next, WorkerStep

\* So every step keeps the bound.
LEMMA NextMemoryBounded == TypeOK /\ MemoryBounded /\ [Next]_vars => MemoryBounded'
  BY StepKinds, ClaimMemoryBounded, AddMemoryBounded, QuietStep

\* expected_attempts is a sound fence: a process whose value still matches is
\* the process that made the current claim, whatever other processes of the same
\* account did in between and whatever replies were lost.
THEOREM GenerationFence == Spec => []GenerationIdentifiesClaimer
  <1>1. Init => TypeOK /\ MemoryBounded
    BY InitTypeOK, InitMemoryBounded
  <1>2. (TypeOK /\ MemoryBounded) /\ [Next]_vars => (TypeOK /\ MemoryBounded)'
    BY NextTypeOK, NextMemoryBounded
  <1>3. TypeOK /\ MemoryBounded => GenerationIdentifiesClaimer
    BY DEF MemoryBounded, Remembers, GenerationIdentifiesClaimer
  <1>4. QED
    BY <1>1, <1>2, <1>3, PTL DEF Spec

\* No two processes remember one generation of a job.
GivenOnce ==
  \A v, w \in Worker, j \in JobId : held[v][j] # 0 /\ held[v][j] = held[w][j] => v = w

\* A claim counts on from what every process remembers.
LEMMA ClaimGivesNew ==
  ASSUME TypeOK, MemoryBounded, GivenOnce,
         NEW w \in Worker, NEW S \in SUBSET JobId, NEW ttl \in Ttl,
         NEW at \in TxnNow, NEW replied \in Replies,
         ClaimJobs(w, S, ttl, at, replied)
  PROVE  GivenOnce'
  <1>1. ASSUME NEW v \in Worker, NEW j \in JobId
        PROVE  /\ held[v][j] \in Nat
               /\ row[j].attempts \in Nat
               /\ held'[v][j] = IF v = w /\ replied /\ j \in S THEN row[j].attempts + 1
                                ELSE held[v][j]
    BY DEF ClaimJobs, TypeOK, Row
  <1>2. ASSUME NEW v \in Worker, NEW j \in S
        PROVE  held[v][j] <= row[j].attempts
    <2>1. Exists(j)
      BY DEF ClaimJobs, ClaimAdmits, Reapable, Claimed, Exists
    <2>2. QED
      BY <2>1 DEF MemoryBounded, Remembers
  <1>3. ASSUME NEW v \in Worker, NEW u \in Worker, NEW j \in JobId,
               held'[v][j] # 0, held'[v][j] = held'[u][j]
        PROVE  v = u
    <2>1. CASE j \in S /\ replied
      BY <1>1, <1>2, <1>3, <2>1 DEF GivenOnce
    <2>2. CASE ~(j \in S /\ replied)
      BY <1>1, <1>3, <2>2 DEF GivenOnce
    <2>3. QED
      BY <2>1, <2>2
  <1>4. QED
    BY <1>3 DEF GivenOnce

\* An expected_attempts value names one process: whatever was deleted, released,
\* re-pended or lost in between, no other one is given the number it remembers.
THEOREM GenerationsNameOne == Spec => []GivenOnce
  <1>1. Init => TypeOK /\ MemoryBounded /\ GivenOnce
    BY InitTypeOK, InitMemoryBounded DEF Init, GivenOnce
  <1>2. TypeOK /\ MemoryBounded /\ GivenOnce /\ [Next]_vars => GivenOnce'
    <2> SUFFICES ASSUME TypeOK, MemoryBounded, GivenOnce, [Next]_vars PROVE GivenOnce'
      OBVIOUS
    <2>1. CASE held' = held
      BY <2>1 DEF GivenOnce
    <2>2. CASE \E w \in Worker, S \in SUBSET JobId, ttl \in Ttl, at \in TxnNow,
              replied \in Replies : ClaimJobs(w, S, ttl, at, replied)
      BY <2>2, ClaimGivesNew
    <2>3. QED
      BY <2>1, <2>2, StepKinds DEF AddJob, Quiet
  <1>3. TypeOK /\ MemoryBounded /\ [Next]_vars => (TypeOK /\ MemoryBounded)'
    BY NextTypeOK, NextMemoryBounded
  <1>4. QED
    BY <1>1, <1>2, <1>3, PTL DEF Spec

-----------------------------------------------------------------------------
(* What a step may never do to a claim. *)

\* The fence at work: a call that carries a generation lands on the caller's
\* own claim or nowhere, whoever else runs under its account.
THEOREM FencedCallsCorrect == Spec => FencedCallsHitOwnClaim
  <1>1. TypeOK /\ GenerationIdentifiesClaimer =>
          [\A w \in Worker, j \in JobId :
             held[w][j] # 0 /\ FencedCall(w, j) => last_claimer[j] = w]_vars
    <2> SUFFICES ASSUME TypeOK, GenerationIdentifiesClaimer, NEW w \in Worker, NEW j \in JobId,
                        held[w][j] # 0, FencedCall(w, j)
                 PROVE  last_claimer[j] = w
      OBVIOUS
    <2>1. held[w][j] # Null
      BY NullAssumption DEF TypeOK
    <2>2. held[w][j] = row[j].attempts
      BY <2>1 DEF FencedCall, Finalize, RenewClaim, CancelJob, EnsureClaimHeld
    <2>3. QED
      BY <2>2 DEF GenerationIdentifiesClaimer
  <1>2. QED
    BY <1>1, TypeCorrect, GenerationFence, PTL DEF FencedCallsHitOwnClaim

\* A claim that has not run out at the database's clock is not taken over, also
\* by a transaction that read an older clock before it got the row lock.
LEMMA LiveClaimStep ==
  ASSUME TypeOK, MemoryBounded, [Next]_vars, NEW j \in JobId,
         row[j].status \in Claimed, ~Expired(row[j], now), row'[j].status # "absent"
  PROVE  row'[j].attempts = row[j].attempts
  <1>1. ASSUME NEW w \in Worker, NEW S \in SUBSET JobId, NEW ttl \in Ttl,
               NEW at \in TxnNow, NEW replied \in Replies,
               ClaimJobs(w, S, ttl, at, replied)
        PROVE  row'[j] = row[j]
    <2>1. at \in Nat /\ at <= now
      BY DEF TypeOK, TxnNow
    <2>2. ~Expired(row[j], at)
      BY <2>1 DEF Expired, TypeOK, Row
    <2>3. j \notin S
      BY <1>1, <2>2 DEF ClaimJobs, ClaimAdmits, Reapable, Claimed
    <2>4. QED
      BY <1>1, <2>3 DEF ClaimJobs
  <1>2. ASSUME NEW D \in SUBSET JobId, AddJob(D)
        PROVE  row'[j] = row[j]
    <2>1. j # next_job_seq
      BY DEF MemoryBounded, Allocated, Exists, Claimed, JobId
    <2>2. QED
      BY <1>2, <2>1 DEF AddJob, TypeOK
  <1>3. CASE Quiet
    BY <1>3 DEF Quiet, Keeps, NoRow
  <1>4. QED
    BY <1>1, <1>2, <1>3, StepKinds

\* No agent loses a claim it still holds to another claim_jobs.
THEOREM LiveClaimsAreSafe == Spec => LiveClaimNotTaken
  <1>1. Init => TypeOK /\ MemoryBounded
    BY InitTypeOK, InitMemoryBounded
  <1>2. (TypeOK /\ MemoryBounded) /\ [Next]_vars => (TypeOK /\ MemoryBounded)'
    BY NextTypeOK, NextMemoryBounded
  <1>3. (TypeOK /\ MemoryBounded) /\ [Next]_vars =>
          [\A j \in JobId :
             row[j].status \in Claimed /\ ~Expired(row[j], now) /\ row'[j].status # "absent"
               => row'[j].attempts = row[j].attempts]_vars
    BY LiveClaimStep
  <1>4. QED
    BY <1>1, <1>2, <1>3, PTL DEF Spec, LiveClaimNotTaken

\* A new generation starts without a request to cancel it.
LEMMA UnflaggedStep ==
  ASSUME TypeOK, RowsCoherent, [Next]_vars, NEW j \in JobId,
         row'[j].attempts > row[j].attempts
  PROVE  row'[j].cancel_requested_at = Null
  <1>1. ASSUME NEW w \in Worker, NEW S \in SUBSET JobId, NEW ttl \in Ttl,
               NEW at \in TxnNow, NEW replied \in Replies,
               ClaimJobs(w, S, ttl, at, replied)
        PROVE  row'[j].cancel_requested_at = Null
    <2>1. at \in Nat /\ UserOf[w] \in User /\ row[j] \in Row
      BY TxnNowIsTime, UserOfAssumption DEF TypeOK
    <2>2. j \in S
      BY <1>1, <2>1 DEF ClaimJobs, Row
    <2>3. row'[j] = ClaimedRow(row[j], UserOf[w], ttl, at)
      BY <1>1, <2>2 DEF ClaimJobs
    <2>4. row[j].status = "pending" \/ Reapable(row[j], at)
      BY <1>1, <2>2 DEF ClaimJobs, ClaimAdmits
    <2>5. row'[j].cancel_requested_at =
            IF Reapable(row[j], at) THEN Null ELSE row[j].cancel_requested_at
      BY <2>1, <2>3, ClaimedRowRow
    <2>6. QED
      BY <2>4, <2>5 DEF RowsCoherent, Coherent
  <1>2. ASSUME NEW D \in SUBSET JobId, AddJob(D)
        PROVE  row'[j].cancel_requested_at = Null
    <2>1. row'[j] = NewRow
      BY <1>2 DEF AddJob, TypeOK, Row
    <2>2. QED
      BY <2>1 DEF NewRow, NoRow
  <1>3. CASE Quiet
    BY <1>3 DEF Quiet, Keeps, NoRow, TypeOK, Row
  <1>4. QED
    BY <1>1, <1>2, <1>3, StepKinds

\* A request to stop is never delivered to a holder it was not made to.
THEOREM ClaimsStartUnflagged == Spec => ClaimStartsUnflagged
  <1>1. Init => TypeOK /\ RowsCoherent
    BY InitTypeOK, InitRowsCoherent
  <1>2. (TypeOK /\ RowsCoherent) /\ [Next]_vars => (TypeOK /\ RowsCoherent)'
    BY NextTypeOK, NextRowsCoherent
  <1>3. (TypeOK /\ RowsCoherent) /\ [Next]_vars =>
          [\A j \in JobId :
             row'[j].attempts > row[j].attempts => row'[j].cancel_requested_at = Null]_vars
    BY UnflaggedStep
  <1>4. QED
    BY <1>1, <1>2, <1>3, PTL DEF Spec, ClaimStartsUnflagged

-----------------------------------------------------------------------------
(* The cached totals. *)

\* The jobs a total counts.
With(s) == {j \in JobId : row[j].status = s}

\* Counting is by finite sets.
LEMMA WithFinite ==
  ASSUME NEW s
  PROVE  IsFiniteSet(With(s))
  <1>1. IsFiniteSet(JobId)
    BY FS_Interval, BoundsAssumption DEF JobId
  <1>2. QED
    BY <1>1, FS_Subset DEF With

\* No job enters or leaves a counted status.
LEMMA TotalsKept ==
  ASSUME CountersExact, terminal_total' = terminal_total,
         \A j \in JobId, s \in Counted : row'[j].status = s <=> row[j].status = s
  PROVE  CountersExact'
  <1>1. ASSUME NEW s \in Counted
        PROVE  {j \in JobId : row'[j].status = s} = {j \in JobId : row[j].status = s}
    OBVIOUS
  <1>2. QED
    BY <1>1 DEF CountersExact

\* One job enters a counted status, and its total goes up.
LEMMA TotalsGain ==
  ASSUME TypeOK, CountersExact, NEW j \in JobId, NEW to \in Counted,
         row[j].status \notin Counted, row'[j].status = to,
         \A k \in JobId \ {j} : row'[k] = row[k],
         terminal_total' = BumpTerminalCounter(to, 1)
  PROVE  CountersExact'
  <1> SUFFICES ASSUME NEW s \in Counted
               PROVE  terminal_total'[s] = Cardinality({k \in JobId : row'[k].status = s})
    BY DEF CountersExact
  <1>1. terminal_total[s] = Cardinality(With(s)) /\ terminal_total[s] \in Int
    BY DEF CountersExact, With, TypeOK
  <1>2. CASE s = to
    <2>1. {k \in JobId : row'[k].status = s} = With(s) \cup {j}
      BY <1>2 DEF With
    <2>2. j \notin With(s)
      BY DEF With
    <2>3. Cardinality(With(s) \cup {j}) = Cardinality(With(s)) + 1
      BY <2>2, WithFinite, FS_AddElement
    <2>4. terminal_total'[s] = terminal_total[s] + 1
      BY <1>2 DEF BumpTerminalCounter, TypeOK
    <2>5. QED
      BY <1>1, <2>1, <2>3, <2>4
  <1>3. CASE s # to
    <2>1. {k \in JobId : row'[k].status = s} = With(s)
      BY <1>3 DEF With
    <2>2. terminal_total'[s] = terminal_total[s]
      BY <1>3 DEF BumpTerminalCounter, TypeOK
    <2>3. QED
      BY <1>1, <2>1, <2>2
  <1>4. QED
    BY <1>2, <1>3

\* One job leaves its status, and the total of that status goes down.
LEMMA TotalsLoss ==
  ASSUME TypeOK, CountersExact, NEW j \in JobId,
         row'[j].status \notin Counted,
         \A k \in JobId \ {j} : row'[k] = row[k],
         terminal_total' = BumpTerminalCounter(row[j].status, -1)
  PROVE  CountersExact'
  <1> SUFFICES ASSUME NEW s \in Counted
               PROVE  terminal_total'[s] = Cardinality({k \in JobId : row'[k].status = s})
    BY DEF CountersExact
  <1>1. terminal_total[s] = Cardinality(With(s)) /\ terminal_total[s] \in Int
    BY DEF CountersExact, With, TypeOK
  <1>2. CASE s = row[j].status
    <2>1. {k \in JobId : row'[k].status = s} = With(s) \ {j}
      BY <1>2 DEF With
    <2>2. j \in With(s)
      BY <1>2 DEF With
    <2>3. Cardinality(With(s) \ {j}) = Cardinality(With(s)) - 1
      BY <2>2, WithFinite, FS_RemoveElement
    <2>4. terminal_total'[s] = terminal_total[s] - 1
      BY <1>2 DEF BumpTerminalCounter, TypeOK
    <2>5. QED
      BY <1>1, <2>1, <2>3, <2>4
  <1>3. CASE s # row[j].status
    <2>1. {k \in JobId : row'[k].status = s} = With(s)
      BY <1>3 DEF With
    <2>2. terminal_total'[s] = terminal_total[s]
      BY <1>3 DEF BumpTerminalCounter, TypeOK
    <2>3. QED
      BY <1>1, <2>1, <2>2
  <1>4. QED
    BY <1>2, <1>3

\* Nothing is counted before there is a job.
LEMMA InitTotals == Init => CountersExact
  <1> SUFFICES ASSUME Init, NEW s \in Counted
               PROVE  terminal_total[s] = Cardinality(With(s))
    BY DEF CountersExact, With
  <1>1. With(s) = {}
    BY DEF Init, NoRow, With, Counted
  <1>2. QED
    BY <1>1, FS_EmptySet DEF Init

\* Every transaction keeps the totals exact.
LEMMA NextTotals ==
  TypeOK /\ MemoryBounded /\ CountersExact /\ [Next]_vars => CountersExact'
  <1> SUFFICES ASSUME TypeOK, MemoryBounded, CountersExact, [Next]_vars
               PROVE  CountersExact'
    OBVIOUS
  <1> USE DEF Counted
  <1>0. \A j \in JobId : row[j] \in Row
    BY DEF TypeOK
  <1>1. ASSUME NEW w \in Worker, NEW S \in SUBSET JobId, NEW ttl \in Ttl,
               NEW at \in TxnNow, NEW replied \in Replies,
               ClaimJobs(w, S, ttl, at, replied)
        PROVE  CountersExact'
    <2>1. at \in Nat /\ UserOf[w] \in User
      BY TxnNowIsTime, UserOfAssumption DEF TypeOK
    <2>2. \A j \in S : row[j].status \in {"pending"} \cup Claimed
      BY <1>1 DEF ClaimJobs, ClaimAdmits, Reapable
    <2>3. \A j \in S : row'[j] = ClaimedRow(row[j], UserOf[w], ttl, at)
      BY <1>1 DEF ClaimJobs
    <2>4. \A j \in S : row'[j].status = "in-progress"
      BY <1>0, <2>1, <2>3, ClaimedRowRow
    <2>5. \A j \in JobId \ S : row'[j] = row[j]
      BY <1>1 DEF ClaimJobs
    <2>6. terminal_total' = terminal_total
      BY <1>1 DEF ClaimJobs
    <2>7. QED
      BY <2>2, <2>4, <2>5, <2>6, TotalsKept DEF Claimed
  <1>2. ASSUME NEW w \in Worker, NEW j \in JobId, NEW to \in Counted,
               NEW expected \in Generations(w, j), NEW at \in TxnNow,
               Finalize(w, j, to, expected, at)
        PROVE  CountersExact'
    <2>1. row[j].status \notin Counted
      BY <1>2 DEF Finalize, EnsureClaimHeld, Claimed
    <2>2. row'[j].status = to /\ \A k \in JobId \ {j} : row'[k] = row[k]
      BY <1>0, <1>2 DEF Finalize, TypeOK, Row
    <2>3. QED
      BY <1>2, <2>1, <2>2, TotalsGain DEF Finalize
  <1>3. ASSUME NEW w \in Worker, NEW j \in JobId, NEW ttl \in Ttl,
               NEW expected \in Generations(w, j), NEW at \in TxnNow,
               RenewClaim(w, j, ttl, expected, at)
        PROVE  CountersExact'
    BY <1>0, <1>3, TotalsKept DEF RenewClaim, TypeOK, Row
  <1>4. ASSUME NEW w \in Worker, NEW j \in JobId,
               NEW expected \in Generations(w, j), NEW at \in TxnNow,
               CancelJob(w, j, expected, at)
        PROVE  CountersExact'
    <2>1. row[j].status \notin Counted
      BY <1>4 DEF CancelJob, EnsureClaimHeld, Claimed
    <2>2. row'[j].status = "cancelled" /\ \A k \in JobId \ {j} : row'[k] = row[k]
      BY <1>0, <1>4 DEF CancelJob, TypeOK, Row
    <2>3. QED
      BY <1>4, <2>1, <2>2, TotalsKept DEF CancelJob
  <1>5. ASSUME NEW D \in SUBSET JobId, AddJob(D)
        PROVE  CountersExact'
    <2>1. next_job_seq \in JobId /\ ~Exists(next_job_seq)
      BY <1>5 DEF AddJob, MemoryBounded, Allocated, JobId
    <2>2. \A k \in JobId : row'[k] = IF k = next_job_seq THEN NewRow ELSE row[k]
      BY <1>5 DEF AddJob, TypeOK
    <2>3. NewRow.status = "pending"
      BY DEF NewRow, NoRow
    <2>4. terminal_total' = terminal_total
      BY <1>5 DEF AddJob
    <2>5. QED
      BY <2>1, <2>2, <2>3, <2>4, TotalsKept DEF Exists
  <1>6. ASSUME NEW j \in JobId, NEW add \in SUBSET JobId, NEW remove \in SUBSET JobId,
               SetDependencies(j, add, remove)
        PROVE  CountersExact'
    BY <1>6, TotalsKept DEF SetDependencies
  <1>7. ASSUME NEW j \in JobId, DeleteJob(j)
        PROVE  CountersExact'
    <2>1. row'[j].status = "absent" /\ \A k \in JobId \ {j} : row'[k] = row[k]
      BY <1>7 DEF DeleteJob, NoRow, TypeOK
    <2>2. QED
      BY <1>7, <2>1, TotalsLoss DEF DeleteJob
  <1>8. ASSUME NEW j \in JobId, ActivateJob(j)
        PROVE  CountersExact'
    <2>1. row'[j].status = "active" /\ \A k \in JobId \ {j} : row'[k] = row[k]
      BY <1>0, <1>8 DEF ActivateJob, TypeOK, Row
    <2>2. QED
      BY <1>8, <2>1, TotalsKept DEF ActivateJob
  <1>9. ASSUME NEW j \in JobId, NEW at \in TxnNow, RequestCancel(j, at)
        PROVE  CountersExact'
    <2>1. /\ row[j].status \notin Counted
          /\ row'[j].status \notin Counted
          /\ \A k \in JobId \ {j} : row'[k] = row[k]
      BY <1>0, <1>9 DEF RequestCancel, TypeOK, Row, Claimed
    <2>2. QED
      BY <1>9, <2>1, TotalsKept DEF RequestCancel
  <1>10. ASSUME NEW j \in JobId, NEW to \in Counted, CloseFromTicket(j, to)
         PROVE  CountersExact'
    <2>1. row[j].status \notin Counted
      BY <1>10 DEF CloseFromTicket, Claimed
    <2>2. row'[j].status = to /\ \A k \in JobId \ {j} : row'[k] = row[k]
      BY <1>0, <1>10 DEF CloseFromTicket, TypeOK, Row
    <2>3. QED
      BY <1>10, <2>1, <2>2, TotalsGain DEF CloseFromTicket
  <1>11. ASSUME NEW j \in JobId, RependJob(j)
         PROVE  CountersExact'
    <2>1. row'[j].status = "pending" /\ \A k \in JobId \ {j} : row'[k] = row[k]
      BY <1>0, <1>11, ReleasedRow DEF RependJob, TypeOK
    <2>2. QED
      BY <1>11, <2>1, TotalsLoss DEF RependJob
  <1>12. ASSUME NEW u \in User, MemberRemoved(u)
         PROVE  CountersExact'
    <2>1. \A j \in JobId :
            \/ row'[j] = row[j]
            \/ row[j].status \in Claimed /\ row'[j] = Released(row[j])
      BY <1>12 DEF MemberRemoved
    <2>2. \A j \in JobId : Released(row[j]).status = "pending"
      BY <1>0, ReleasedRow
    <2>3. terminal_total' = terminal_total
      BY <1>12 DEF MemberRemoved
    <2>4. QED
      BY <2>1, <2>2, <2>3, TotalsKept DEF Claimed
  <1>13. CASE Tick
    BY <1>13, TotalsKept DEF Tick
  <1>14. CASE LoseInsertRace
    BY <1>14, TotalsKept DEF LoseInsertRace
  <1>15. CASE UNCHANGED vars
    BY <1>15, TotalsKept DEF vars
  <1>16. QED
    BY <1>1, <1>2, <1>3, <1>4, <1>5, <1>6, <1>7, <1>8, <1>9, <1>10, <1>11, <1>12,
       <1>13, <1>14, <1>15 DEF Next, WorkerStep

\* The console's totals are the numbers of completed and failed rows.
THEOREM TotalsCorrect == Spec => []CountersExact
  <1>1. Init => TypeOK /\ MemoryBounded /\ CountersExact
    BY InitTypeOK, InitMemoryBounded, InitTotals
  <1>2. (TypeOK /\ MemoryBounded /\ CountersExact) /\ [Next]_vars
          => (TypeOK /\ MemoryBounded /\ CountersExact)'
    BY NextTypeOK, NextMemoryBounded, NextTotals
  <1>3. QED
    BY <1>1, <1>2, PTL DEF Spec

\* What is true of the doc's "always equals": no completion is counted that has
\* no completion row.
CompletionsCovered == terminal_total["completed"] <= completion_rows

\* Ending a job counts it and writes its row in one transaction.
LEMMA EndStaysCovered ==
  ASSUME TypeOK, CompletionsCovered, NEW to \in Counted,
         terminal_total' = BumpTerminalCounter(to, 1),
         completion_rows' = completion_rows + (IF to = "completed" THEN 1 ELSE 0)
  PROVE  CompletionsCovered'
  <1>1. terminal_total["completed"] \in Int /\ completion_rows \in Nat
    BY DEF TypeOK, Counted
  <1>2. CASE to = "completed"
    BY <1>1, <1>2 DEF CompletionsCovered, BumpTerminalCounter, TypeOK, Counted
  <1>3. CASE to # "completed"
    BY <1>1, <1>3 DEF CompletionsCovered, BumpTerminalCounter, TypeOK, Counted
  <1>4. QED
    BY <1>2, <1>3

\* Reopening or deleting a job takes it out of the count and leaves the row.
LEMMA LossStaysCovered ==
  ASSUME TypeOK, CompletionsCovered, NEW s,
         terminal_total' = BumpTerminalCounter(s, -1), completion_rows' = completion_rows
  PROVE  CompletionsCovered'
  <1>1. terminal_total["completed"] \in Int /\ completion_rows \in Nat
    BY DEF TypeOK, Counted
  <1>2. CASE s = "completed"
    BY <1>1, <1>2 DEF CompletionsCovered, BumpTerminalCounter, TypeOK, Counted
  <1>3. CASE s # "completed"
    BY <1>1, <1>3 DEF CompletionsCovered, BumpTerminalCounter, TypeOK, Counted
  <1>4. QED
    BY <1>2, <1>3

\* The console never shows an organization more completed jobs than it has been
\* billed for; completion_rows shows that it may show fewer.
THEOREM CompletionsAreBilled == Spec => []CompletionsCovered
  <1>1. Init => CompletionsCovered
    BY DEF Init, CompletionsCovered, Counted
  <1>2. TypeOK /\ CompletionsCovered /\ [Next]_vars => CompletionsCovered'
    <2> SUFFICES ASSUME TypeOK, CompletionsCovered, [Next]_vars
                 PROVE  CompletionsCovered'
      OBVIOUS
    <2>1. CASE UNCHANGED <<terminal_total, completion_rows>>
      BY <2>1 DEF CompletionsCovered
    <2>2. ASSUME NEW w \in Worker, NEW j \in JobId, NEW to \in Counted,
                 NEW expected \in Generations(w, j), NEW at \in TxnNow,
                 Finalize(w, j, to, expected, at)
          PROVE  CompletionsCovered'
      BY <2>2, EndStaysCovered DEF Finalize
    <2>3. ASSUME NEW j \in JobId, NEW to \in Counted, CloseFromTicket(j, to)
          PROVE  CompletionsCovered'
      BY <2>3, EndStaysCovered DEF CloseFromTicket
    <2>4. ASSUME NEW j \in JobId, RependJob(j) \/ DeleteJob(j)
          PROVE  CompletionsCovered'
      BY <2>4, LossStaysCovered DEF RependJob, DeleteJob
    <2>5. ASSUME NEW w \in Worker, WorkerStep(w)
          PROVE  CompletionsCovered'
      BY <2>1, <2>2, <2>5 DEF WorkerStep, ClaimJobs, RenewClaim, CancelJob
    <2>6. CASE (\E D \in SUBSET JobId : AddJob(D)) \/ LoseInsertRace \/ Tick \/ UNCHANGED vars
      BY <2>1, <2>6 DEF AddJob, LoseInsertRace, Tick, vars
    <2>7. CASE \E j \in JobId : \/ \E add, remove \in SUBSET JobId : SetDependencies(j, add, remove)
                                \/ ActivateJob(j)
                                \/ \E at \in TxnNow : RequestCancel(j, at)
      BY <2>1, <2>7 DEF SetDependencies, ActivateJob, RequestCancel
    <2>8. CASE \E u \in User : MemberRemoved(u)
      BY <2>1, <2>8 DEF MemberRemoved
    <2>9. QED
      BY <2>3, <2>4, <2>5, <2>6, <2>7, <2>8 DEF Next
  <1>3. QED
    BY <1>1, <1>2, TypeCorrect, PTL DEF Spec

-----------------------------------------------------------------------------
(* Dependencies.  AddJob checks nothing: a new job closes no loop because    *)
(* nothing depends on it yet.  That needs the foreign keys: both ends of an  *)
(* edge are jobs that exist, and a new number is one that does not.          *)

EdgesExist == \A e \in deps : Exists(e[1]) /\ Exists(e[2])

DepsInv == TypeOK /\ MemoryBounded /\ EdgesExist /\ Acyclic(deps)

\* Fewer edges close no loop.
LEMMA FewerEdges ==
  ASSUME NEW before, NEW after, after \subseteq before, Acyclic(before)
  PROVE  Acyclic(after)
  <1> SUFFICES ASSUME NEW e \in after PROVE ~OnCycle(e[1], after)
    BY DEF Acyclic
  <1>1. ~OnCycle(e[1], before)
    BY DEF Acyclic
  <1>2. PICK S : Covers(S, e[1], before) /\ e[1] \notin S
    BY <1>1 DEF OnCycle
  <1>3. Covers(S, e[1], after)
    BY <1>2 DEF Covers
  <1>4. QED
    BY <1>2, <1>3, CoverRefutesCycle

LEMMA AddKeepsDeps ==
  ASSUME DepsInv, NEW D \in SUBSET JobId, AddJob(D)
  PROVE  EdgesExist' /\ Acyclic(deps')
  <1> DEFINE j == next_job_seq
  <1>1. j \in JobId /\ ~Exists(j)
    BY DEF DepsInv, AddJob, MemoryBounded, Allocated, JobId
  <1>2. \A k \in JobId : Exists(k) \/ k = j => Exists(k)'
    BY DEF DepsInv, TypeOK, AddJob, Exists, NewRow, NoRow
  <1>3. \A e \in deps : e[1] \in JobId /\ e[2] \in JobId
    BY DEF DepsInv, TypeOK
  <1>4. deps' = deps \cup {<<j, d>> : d \in D} /\ \A d \in D : Exists(d)
    BY DEF AddJob
  <1>5. \A e \in deps' : e \in deps \/ (e[1] = j /\ Exists(e[2]) /\ e[2] \in JobId)
    BY <1>4
  <1>6. EdgesExist'
    BY <1>1, <1>2, <1>3, <1>5 DEF DepsInv, EdgesExist
  <1>7. ~OnCycle(j, deps')
    <2> DEFINE S == {e[2] : e \in deps'}
    <2>1. j \notin S
      BY <1>1, <1>5 DEF DepsInv, EdgesExist
    <2>2. Covers(S, j, deps')
      BY DEF Covers
    <2>3. QED
      BY <2>1, <2>2, CoverRefutesCycle
  <1>8. \A e \in deps' \ deps : e[1] = j
    BY <1>5
  <1>9. Acyclic(deps')
    BY <1>7, <1>8, OneJobCheck DEF DepsInv
  <1>10. QED
    BY <1>6, <1>9

LEMMA EditKeepsDeps ==
  ASSUME DepsInv, NEW j \in JobId, NEW add \in SUBSET JobId, NEW remove \in SUBSET JobId,
         SetDependencies(j, add, remove)
  PROVE  EdgesExist' /\ Acyclic(deps')
  <1>1. /\ deps' = EditedDeps(j, add, remove)
        /\ ~OnCycle(j, deps')
        /\ Exists(j) /\ \A d \in add : Exists(d)
        /\ row' = row
    BY DEF SetDependencies
  <1>2. \A e \in deps' : e \in deps \/ (e[1] = j /\ e[2] \in add)
    BY <1>1 DEF EditedDeps
  <1>3. EdgesExist'
    BY <1>1, <1>2 DEF DepsInv, EdgesExist, Exists
  <1>4. \A e \in deps' \ deps : e[1] = j
    BY <1>2
  <1>5. QED
    BY <1>1, <1>3, <1>4, OneJobCheck DEF DepsInv

LEMMA DeleteKeepsDeps ==
  ASSUME DepsInv, NEW j \in JobId, DeleteJob(j)
  PROVE  EdgesExist' /\ Acyclic(deps')
  <1>1. deps' \subseteq deps /\ \A e \in deps' : e[1] # j /\ e[2] # j
    BY DEF DeleteJob
  <1>2. \A k \in JobId \ {j} : Exists(k)' <=> Exists(k)
    BY DEF DepsInv, TypeOK, DeleteJob, Exists
  <1>3. \A e \in deps : e[1] \in JobId /\ e[2] \in JobId
    BY DEF DepsInv, TypeOK
  <1>4. EdgesExist'
    BY <1>1, <1>2, <1>3 DEF DepsInv, EdgesExist
  <1>5. Acyclic(deps')
    BY <1>1, FewerEdges DEF DepsInv
  <1>6. QED
    BY <1>4, <1>5

\* Every other step leaves the edges alone and removes no job.
LEMMA OthersKeepDeps ==
  ASSUME DepsInv, deps' = deps, \A j \in JobId : Exists(j) => Exists(j)'
  PROVE  EdgesExist' /\ Acyclic(deps')
  <1>1. \A e \in deps : e[1] \in JobId /\ e[2] \in JobId
    BY DEF DepsInv, TypeOK
  <1>2. QED
    BY <1>1 DEF DepsInv, EdgesExist

LEMMA NextDeps == DepsInv /\ [Next]_vars => EdgesExist' /\ Acyclic(deps')
  <1> SUFFICES ASSUME DepsInv, [Next]_vars PROVE EdgesExist' /\ Acyclic(deps')
    OBVIOUS
  <1>0. \A j \in JobId : row[j] \in Row
    BY DEF DepsInv, TypeOK
  <1>1. ASSUME NEW w \in Worker, NEW S \in SUBSET JobId, NEW ttl \in Ttl,
               NEW at \in TxnNow, NEW replied \in Replies,
               ClaimJobs(w, S, ttl, at, replied)
        PROVE  EdgesExist' /\ Acyclic(deps')
    <2>1. at \in Nat /\ UserOf[w] \in User
      BY TxnNowIsTime, UserOfAssumption DEF DepsInv, TypeOK
    <2>2. \A j \in S : row'[j] = ClaimedRow(row[j], UserOf[w], ttl, at)
      BY <1>1 DEF ClaimJobs
    <2>3. \A j \in S : row'[j].status = "in-progress"
      BY <1>0, <2>1, <2>2, ClaimedRowRow
    <2>4. \A j \in JobId \ S : row'[j] = row[j]
      BY <1>1 DEF ClaimJobs
    <2>5. \A j \in JobId : Exists(j) => Exists(j)'
      BY <2>3, <2>4 DEF Exists
    <2>6. QED
      BY <1>1, <2>5, OthersKeepDeps DEF ClaimJobs
  <1>2. ASSUME NEW j \in JobId, NEW to \in Counted, deps' = deps,
               row' = [row EXCEPT ![j].status = to, ![j].claim_expires_at = Null]
        PROVE  EdgesExist' /\ Acyclic(deps')
    <2>1. \A k \in JobId : Exists(k) => Exists(k)'
      BY <1>0, <1>2 DEF Exists, DepsInv, TypeOK, Row, Counted
    <2>2. QED
      BY <1>2, <2>1, OthersKeepDeps
  <1>3. ASSUME NEW w \in Worker, NEW j \in JobId, NEW ttl \in Ttl,
               NEW expected \in Generations(w, j), NEW at \in TxnNow,
               RenewClaim(w, j, ttl, expected, at)
        PROVE  EdgesExist' /\ Acyclic(deps')
    BY <1>0, <1>3, OthersKeepDeps DEF RenewClaim, Exists, DepsInv, TypeOK, Row
  <1>4. ASSUME NEW w \in Worker, NEW j \in JobId,
               NEW expected \in Generations(w, j), NEW at \in TxnNow,
               CancelJob(w, j, expected, at)
        PROVE  EdgesExist' /\ Acyclic(deps')
    BY <1>0, <1>4, OthersKeepDeps DEF CancelJob, Exists, DepsInv, TypeOK, Row
  <1>5. ASSUME NEW j \in JobId, ActivateJob(j)
        PROVE  EdgesExist' /\ Acyclic(deps')
    BY <1>0, <1>5, OthersKeepDeps DEF ActivateJob, Exists, DepsInv, TypeOK, Row
  <1>6. ASSUME NEW j \in JobId, NEW at \in TxnNow, RequestCancel(j, at)
        PROVE  EdgesExist' /\ Acyclic(deps')
    <2>1. \A k \in JobId : Exists(k) => Exists(k)'
      BY <1>0, <1>6 DEF RequestCancel, Exists, DepsInv, TypeOK, Row
    <2>2. QED
      BY <1>6, <2>1, OthersKeepDeps DEF RequestCancel
  <1>7. ASSUME NEW j \in JobId, RependJob(j)
        PROVE  EdgesExist' /\ Acyclic(deps')
    <2>1. \A k \in JobId : Exists(k) => Exists(k)'
      BY <1>0, <1>7, ReleasedRow DEF RependJob, Exists, DepsInv, TypeOK
    <2>2. QED
      BY <1>7, <2>1, OthersKeepDeps DEF RependJob
  <1>8. ASSUME NEW u \in User, MemberRemoved(u)
        PROVE  EdgesExist' /\ Acyclic(deps')
    <2>1. \A k \in JobId : Exists(k) => Exists(k)'
      BY <1>0, <1>8, ReleasedRow DEF MemberRemoved, Exists
    <2>2. QED
      BY <1>8, <2>1, OthersKeepDeps DEF MemberRemoved
  <1>9. CASE deps' = deps /\ row' = row
    BY <1>9, OthersKeepDeps DEF Exists
  <1>10. ASSUME NEW w \in Worker, NEW j \in JobId, NEW to \in Counted,
                NEW expected \in Generations(w, j), NEW at \in TxnNow,
                Finalize(w, j, to, expected, at)
         PROVE  EdgesExist' /\ Acyclic(deps')
    BY <1>2, <1>10 DEF Finalize
  <1>11. ASSUME NEW w \in Worker, WorkerStep(w)
         PROVE  EdgesExist' /\ Acyclic(deps')
    BY <1>1, <1>3, <1>4, <1>10, <1>11 DEF WorkerStep
  <1>12. ASSUME NEW j \in JobId, NEW to \in Counted, CloseFromTicket(j, to)
         PROVE  EdgesExist' /\ Acyclic(deps')
    BY <1>2, <1>12 DEF CloseFromTicket
  <1>13. CASE LoseInsertRace \/ Tick \/ UNCHANGED vars
    BY <1>9, <1>13 DEF LoseInsertRace, Tick, vars
  <1>14. ASSUME NEW j \in JobId, NEW add \in SUBSET JobId, NEW remove \in SUBSET JobId,
                SetDependencies(j, add, remove)
         PROVE  EdgesExist' /\ Acyclic(deps')
    BY <1>14, EditKeepsDeps
  <1>15. ASSUME NEW D \in SUBSET JobId, AddJob(D)
         PROVE  EdgesExist' /\ Acyclic(deps')
    BY <1>15, AddKeepsDeps
  <1>16. ASSUME NEW j \in JobId, DeleteJob(j)
         PROVE  EdgesExist' /\ Acyclic(deps')
    BY <1>16, DeleteKeepsDeps
  <1>17. QED
    BY <1>5, <1>6, <1>7, <1>8, <1>11, <1>12, <1>13, <1>14, <1>15, <1>16 DEF Next

LEMMA DepsInvariant == Spec => []DepsInv
  <1>1. Init => DepsInv
    BY InitTypeOK, InitMemoryBounded DEF Init, DepsInv, EdgesExist, Acyclic
  <1>2. DepsInv /\ [Next]_vars => DepsInv'
    <2>1. DepsInv /\ [Next]_vars => (TypeOK /\ MemoryBounded)'
      BY NextTypeOK, NextMemoryBounded DEF DepsInv
    <2>2. QED
      BY <2>1, NextDeps DEF DepsInv, Acyclic
  <1>3. QED
    BY <1>1, <1>2, PTL DEF Spec

\* No sequence of adding, editing and deleting jobs makes a job wait for itself,
\* as long as edits do not overtake each other.
THEOREM DependenciesStayAcyclic == Spec => []Acyclic(deps)
  <1>1. DepsInv => Acyclic(deps)
    BY DEF DepsInv
  <1>2. QED
    BY <1>1, DepsInvariant, PTL

\* Deleting a job takes the edges on both its sides along, so nobody waits for a
\* job that is gone.
THEOREM NobodyWaitsForTheGone == Spec => []EdgesExist
  <1>1. DepsInv => EdgesExist
    BY DEF DepsInv
  <1>2. QED
    BY <1>1, DepsInvariant, PTL

\* The jobs that have not ended.
Unended == {j \in JobId : Exists(j) /\ row[j].status \notin Terminal}

\* Jobs that ended without being completed.
Broken == {j \in JobId : row[j].status \in Terminal \ {"completed"}}

\* What keeps a job Blocked.
WaitsFor(j) == {d \in JobId : <<j, d>> \in deps /\ row[d].status # "completed"}

\* Of the jobs that have not ended, one is kept from being claimed by none but
\* jobs that failed or were cancelled.
NeverJammed ==
  Unended # {} => \E j \in Unended : WaitsFor(j) \subseteq Broken

\* As long as edits do not overtake each other (here an edit checks and writes in
\* one step; DependencyEdit is about edits that do not), jobs that have not ended
\* never all wait for each other: one of them waits for nothing, or only for jobs
\* that failed or were cancelled, which somebody has to re-pend or drop.
THEOREM QueueNeverJams == Spec => []NeverJammed
  <1>1. DepsInv => NeverJammed
    <2> SUFFICES ASSUME DepsInv, Unended # {}
                 PROVE  \E j \in Unended : WaitsFor(j) \subseteq Broken
      BY DEF NeverJammed
    <2>1. IsFiniteSet(deps)
      <3>1. IsFiniteSet(JobId)
        BY FS_Interval, BoundsAssumption DEF JobId
      <3>2. IsFiniteSet(JobId \X JobId)
        BY <3>1, FS_Product
      <3>3. QED
        BY <3>2, FS_Subset DEF DepsInv, TypeOK
    <2>2. PICK j \in Unended : \A d \in Unended : <<j, d>> \notin deps
      BY <2>1, SomeoneWaitsForNobody DEF DepsInv
    <2>3. ASSUME NEW d \in JobId, <<j, d>> \in deps, row[d].status # "completed"
          PROVE  d \in Broken
      <3>1. PICK e \in deps : e = <<j, d>>
        BY <2>3
      <3>2. Exists(d)
        BY <3>1 DEF DepsInv, EdgesExist
      <3>3. row[d].status \in Terminal
        BY <2>2, <2>3, <3>2 DEF Unended
      <3>4. QED
        BY <2>3, <3>3 DEF Broken
    <2>4. QED
      BY <2>2, <2>3 DEF WaitsFor
  <1>2. QED
    BY <1>1, DepsInvariant, PTL

-----------------------------------------------------------------------------
(* JobQueue implements ClaimTurns: the initial state maps to the initial     *)
(* state, and every transaction maps to a step of ClaimTurns or leaves its   *)
(* variables alone.                                                          *)

\* The refinement mapping of JobQueue!Turns, by name.
TurnNow == [j \in JobId |-> row[j].attempts]
HolderNow == [j \in JobId |-> IF row[j].status \in Claimed THEN row[j].claimed_by ELSE Null]
LapsedNow == {j \in JobId : Reapable(row[j], now)}
SettledNow == {j \in JobId : row[j].status \in Terminal}

\* Row by row, a step that leaves all four values as they were stutters.
LEMMA Stutters ==
  ASSUME \A j \in JobId :
           /\ row'[j].attempts = row[j].attempts
           /\ (IF row'[j].status \in Claimed THEN row'[j].claimed_by ELSE Null)
                = (IF row[j].status \in Claimed THEN row[j].claimed_by ELSE Null)
           /\ Reapable(row'[j], now') <=> Reapable(row[j], now)
           /\ row'[j].status \in Terminal <=> row[j].status \in Terminal
  PROVE  UNCHANGED Turns!turnVars
  BY DEF Turns!turnVars

\* Changing a function at one point, written point by point.
LEMMA ExceptPointwise ==
  ASSUME NEW f, f = [k \in JobId |-> f[k]], NEW j \in JobId, NEW b
  PROVE  [f EXCEPT ![j] = b] = [k \in JobId |-> IF k = j THEN b ELSE f[k]]
  OBVIOUS

LEMMA InitTurns == Init => Turns!Init
  BY DEF Init, Turns!Init, NoRow, Claimed, Terminal, Reapable

\* claim_jobs begins a turn on every requested job.
LEMMA ClaimBegins ==
  ASSUME TypeOK, RowsCoherent,
         NEW w \in Worker, NEW S \in SUBSET JobId, NEW ttl \in Ttl,
         NEW at \in TxnNow, NEW replied \in Replies,
         ClaimJobs(w, S, ttl, at, replied)
  PROVE  Turns!Begin(S, UserOf[w])
  <1>1. /\ at \in Nat /\ at <= now
        /\ ttl \in Nat
        /\ UserOf[w] \in User
    BY TxnNowIsTime, TtlAssumption, UserOfAssumption DEF TypeOK, TxnNow
  <1>2. \A j \in S : row'[j] = ClaimedRow(row[j], UserOf[w], ttl, at)
    BY DEF ClaimJobs
  <1>3. ASSUME NEW j \in S
        PROVE  /\ row'[j].attempts = row[j].attempts + 1
               /\ row'[j].status = "in-progress"
               /\ row'[j].claimed_by = UserOf[w]
               /\ row'[j].claim_expires_at = at + ttl
    BY <1>1, <1>2, ClaimedRowRow DEF TypeOK
  <1>4. \A j \in JobId \ S : row'[j] = row[j]
    BY DEF ClaimJobs
  <1>5. now' = now /\ S # {}
    BY DEF ClaimJobs
  <1>6. ASSUME NEW j \in S PROVE Turns!Free(j)
    <2>1. row[j].status = "pending" \/ Reapable(row[j], at)
      BY DEF ClaimJobs, ClaimAdmits
    <2>2. Reapable(row[j], at) => Reapable(row[j], now)
      BY <1>1 DEF Reapable, Expired, TypeOK, Row
    <2>3. row[j].status \notin Terminal
      BY <2>1 DEF Reapable, Claimed, Terminal
    <2>4. QED
      BY <2>1, <2>2, <2>3 DEF Turns!Free, Claimed
  <1>7. TurnNow' = [j \in JobId |-> IF j \in S THEN TurnNow[j] + 1 ELSE TurnNow[j]]
    BY <1>3, <1>4 DEF TurnNow
  <1>8. HolderNow' = [j \in JobId |-> IF j \in S THEN UserOf[w] ELSE HolderNow[j]]
    BY <1>3, <1>4 DEF HolderNow, Claimed
  <1>9. LapsedNow' = (LapsedNow \ S) \cup (IF at + ttl <= now THEN S ELSE {})
    <2>1. ASSUME NEW j \in S
          PROVE  Reapable(row'[j], now') <=> at + ttl <= now
      <3>1. at + ttl # Null
        BY <1>1, NullAssumption
      <3>2. QED
        BY <1>3, <1>5, <3>1 DEF Reapable, Expired, Claimed
    <2>2. ASSUME NEW j \in JobId \ S
          PROVE  Reapable(row'[j], now') <=> Reapable(row[j], now)
      BY <1>4, <1>5
    <2>3. QED
      BY <2>1, <2>2 DEF LapsedNow
  <1>10. SettledNow' = SettledNow
    <2>1. ASSUME NEW j \in S
          PROVE  row'[j].status \notin Terminal /\ row[j].status \notin Terminal
      BY <1>3, <1>6 DEF Turns!Free, Terminal
    <2>2. QED
      BY <1>4, <2>1 DEF SettledNow
  <1>11. QED
    BY <1>5, <1>6, <1>7, <1>8, <1>9, <1>10
       DEF Turns!Begin, TurnNow, HolderNow, LapsedNow, SettledNow

\* What an action that ends or forgets the turn of one job does to the mapped
\* values, given the row it writes.
LEMMA OneRowEnds ==
  ASSUME TypeOK, NEW j \in JobId, NEW r,
         row' = [row EXCEPT ![j] = r], now' = now, r.status \notin Claimed
  PROVE  /\ TurnNow' = [TurnNow EXCEPT ![j] = r.attempts]
         /\ HolderNow' = [HolderNow EXCEPT ![j] = Null]
         /\ LapsedNow' = LapsedNow \ {j}
         /\ SettledNow' = IF r.status \in Terminal THEN SettledNow \cup {j} ELSE SettledNow \ {j}
  <1>1. /\ row'[j] = r
        /\ \A k \in JobId \ {j} : row'[k] = row[k]
    BY DEF TypeOK
  <1>2. ~Reapable(r, now)
    BY DEF Reapable
  <1>3. TurnNow' = [TurnNow EXCEPT ![j] = r.attempts]
    <2>1. TurnNow' = [k \in JobId |-> IF k = j THEN r.attempts ELSE TurnNow[k]]
      BY <1>1 DEF TurnNow
    <2>2. TurnNow = [k \in JobId |-> TurnNow[k]]
      BY DEF TurnNow
    <2>3. QED
      BY <2>1, <2>2, ExceptPointwise
  <1>4. HolderNow' = [HolderNow EXCEPT ![j] = Null]
    <2>1. HolderNow' = [k \in JobId |-> IF k = j THEN Null ELSE HolderNow[k]]
      BY <1>1 DEF HolderNow
    <2>2. HolderNow = [k \in JobId |-> HolderNow[k]]
      BY DEF HolderNow
    <2>3. QED
      BY <2>1, <2>2, ExceptPointwise
  <1>5. LapsedNow' = LapsedNow \ {j}
    BY <1>1, <1>2 DEF LapsedNow
  <1>6. SettledNow' = IF r.status \in Terminal THEN SettledNow \cup {j} ELSE SettledNow \ {j}
    BY <1>1 DEF SettledNow
  <1>7. QED
    BY <1>3, <1>4, <1>5, <1>6

\* Writing back the counter a row had.
LEMMA SameTurn ==
  ASSUME NEW j \in JobId
  PROVE  [TurnNow EXCEPT ![j] = row[j].attempts] = TurnNow
  <1>1. TurnNow = [k \in JobId |-> TurnNow[k]] /\ TurnNow[j] = row[j].attempts
    BY DEF TurnNow
  <1>2. QED
    BY <1>1, ExceptPointwise

\* A job that ends, claimed or not, is settled.
LEMMA EndSettles ==
  ASSUME TypeOK, NEW j \in JobId, NEW to \in Terminal,
         row[j].status \notin Terminal, now' = now,
         NEW r \in Row, r.status = to, r.attempts = row[j].attempts,
         row' = [row EXCEPT ![j] = r]
  PROVE  Turns!Settle(j)
  <1>1. to \notin Claimed
    BY DEF Claimed, Terminal
  <1>2. /\ TurnNow' = [TurnNow EXCEPT ![j] = r.attempts]
        /\ HolderNow' = [HolderNow EXCEPT ![j] = Null]
        /\ LapsedNow' = LapsedNow \ {j}
        /\ SettledNow' = SettledNow \cup {j}
    BY <1>1, OneRowEnds
  <1>3. TurnNow' = TurnNow
    BY <1>2, SameTurn
  <1>4. QED
    BY <1>2, <1>3 DEF Turns!Settle, TurnNow, HolderNow, LapsedNow, SettledNow

\* A claimed job that its holder ends is settled.
LEMMA HolderSettles ==
  ASSUME TypeOK, NEW j \in JobId, NEW to \in Terminal,
         row[j].status \in Claimed, now' = now,
         row' = [row EXCEPT ![j].status = to, ![j].claim_expires_at = Null]
  PROVE  Turns!Settle(j)
  <1> DEFINE ended == [row[j] EXCEPT !.status = to, !.claim_expires_at = Null]
  <1>1. ended \in Row
    BY EndedRow DEF TypeOK
  <1>2. ended = [status |-> to, attempts |-> row[j].attempts,
                 claimed_by |-> row[j].claimed_by, claim_expires_at |-> Null,
                 cancel_requested_at |-> row[j].cancel_requested_at]
    BY EndedRow DEF TypeOK
  <1>3. row' = [row EXCEPT ![j] = ended]
    BY DEF TypeOK
  <1>4. row[j].status \notin Terminal
    BY DEF Claimed, Terminal
  <1> HIDE DEF ended
  <1>5. ended.status = to /\ ended.attempts = row[j].attempts
    BY <1>2
  <1>6. QED
    BY <1>1, <1>3, <1>4, <1>5, EndSettles

\* Every transaction is a step of ClaimTurns or stutters.
LEMMA NextTurns ==
  TypeOK /\ RowsCoherent /\ MemoryBounded /\ [Next]_vars => [Turns!Next]_(Turns!turnVars)
  <1> SUFFICES ASSUME TypeOK, RowsCoherent, MemoryBounded, [Next]_vars
               PROVE  Turns!Next \/ UNCHANGED Turns!turnVars
    OBVIOUS
  <1>0. /\ \A j \in JobId : row[j] \in Row
        /\ \A w \in Worker : UserOf[w] \in User
    BY UserOfAssumption DEF TypeOK
  <1>1. ASSUME NEW w \in Worker, NEW S \in SUBSET JobId, NEW ttl \in Ttl,
               NEW at \in TxnNow, NEW replied \in Replies,
               ClaimJobs(w, S, ttl, at, replied)
        PROVE  Turns!Next
    BY <1>0, <1>1, ClaimBegins DEF Turns!Next
  <1>2. ASSUME NEW w \in Worker, NEW j \in JobId, NEW to \in Counted,
               NEW expected \in Generations(w, j), NEW at \in TxnNow,
               Finalize(w, j, to, expected, at)
        PROVE  Turns!Next
    <2>1. row[j].status \in Claimed /\ to \in Terminal
      BY <1>2 DEF Finalize, EnsureClaimHeld, Counted, Terminal
    <2>2. /\ row' = [row EXCEPT ![j].status = to, ![j].claim_expires_at = Null]
          /\ now' = now
      BY <1>2 DEF Finalize
    <2>3. Turns!Settle(j)
      BY <2>1, <2>2, HolderSettles
    <2>4. QED
      BY <1>0, <2>3 DEF Turns!Next
  <1>3. ASSUME NEW w \in Worker, NEW j \in JobId, NEW ttl \in Ttl,
               NEW expected \in Generations(w, j), NEW at \in TxnNow,
               RenewClaim(w, j, ttl, expected, at)
        PROVE  Turns!Next
    <2>1. \A k \in JobId : /\ row'[k].status = row[k].status
                           /\ row'[k].attempts = row[k].attempts
                           /\ row'[k].claimed_by = row[k].claimed_by
      BY <1>0, <1>3 DEF RenewClaim, TypeOK, Row
    <2>2. TurnNow' = TurnNow /\ HolderNow' = HolderNow /\ SettledNow' = SettledNow
      BY <2>1 DEF TurnNow, HolderNow, SettledNow
    <2>3. \A k \in LapsedNow' : HolderNow[k] # Null
      BY <2>1 DEF LapsedNow, HolderNow, Reapable, RowsCoherent, Coherent
    <2>4. Turns!Retime(LapsedNow')
      BY <2>2, <2>3 DEF Turns!Retime, TurnNow, HolderNow, LapsedNow, SettledNow
    <2>5. LapsedNow' \in SUBSET JobId
      BY DEF LapsedNow
    <2>6. QED
      BY <2>4, <2>5 DEF Turns!Next
  <1>4. ASSUME NEW w \in Worker, NEW j \in JobId,
               NEW expected \in Generations(w, j), NEW at \in TxnNow,
               CancelJob(w, j, expected, at)
        PROVE  Turns!Next
    <2>1. row[j].status \in Claimed /\ "cancelled" \in Terminal
      BY <1>4 DEF CancelJob, EnsureClaimHeld, Terminal
    <2>2. /\ row' = [row EXCEPT ![j].status = "cancelled", ![j].claim_expires_at = Null]
          /\ now' = now
      BY <1>4 DEF CancelJob
    <2>3. Turns!Settle(j)
      BY <2>1, <2>2, HolderSettles
    <2>4. QED
      BY <1>0, <2>3 DEF Turns!Next
  <1>5. ASSUME NEW D \in SUBSET JobId, AddJob(D)
        PROVE  UNCHANGED Turns!turnVars
    <2>1. next_job_seq \in JobId /\ ~Exists(next_job_seq) /\ row[next_job_seq].attempts = 0
      BY <1>5 DEF AddJob, MemoryBounded, Allocated, JobId
    <2>2. \A k \in JobId : row'[k] = IF k = next_job_seq THEN NewRow ELSE row[k]
      BY <1>5 DEF AddJob, TypeOK
    <2>3. NewRow.status = "pending" /\ NewRow.attempts = 0
      BY DEF NewRow, NoRow
    <2>4. now' = now
      BY <1>5 DEF AddJob
    <2>5. QED
      BY <2>1, <2>2, <2>3, <2>4, Stutters DEF Exists, Reapable, Claimed, Terminal
  <1>6. ASSUME NEW j \in JobId, NEW add \in SUBSET JobId, NEW remove \in SUBSET JobId,
               SetDependencies(j, add, remove)
        PROVE  UNCHANGED Turns!turnVars
    BY <1>6, Stutters DEF SetDependencies
  <1>7. ASSUME NEW j \in JobId, DeleteJob(j)
        PROVE  Turns!Next
    <2>1. row' = [row EXCEPT ![j] = NoRow] /\ now' = now
      BY <1>7 DEF DeleteJob
    <2>2. NoRow.status \notin Claimed \cup Terminal /\ NoRow.attempts = 0
      BY DEF NoRow, Claimed, Terminal
    <2>3. /\ TurnNow' = [TurnNow EXCEPT ![j] = 0]
          /\ HolderNow' = [HolderNow EXCEPT ![j] = Null]
          /\ LapsedNow' = LapsedNow \ {j}
          /\ SettledNow' = SettledNow \ {j}
      BY <2>1, <2>2, OneRowEnds
    <2>4. Turns!Forget(j)
      BY <2>3 DEF Turns!Forget, TurnNow, HolderNow, LapsedNow, SettledNow
    <2>5. QED
      BY <2>4 DEF Turns!Next
  <1>8. ASSUME NEW j \in JobId, ActivateJob(j)
        PROVE  UNCHANGED Turns!turnVars
    <2>1. /\ row[j].status = "in-progress"
          /\ row'[j].status = "active"
          /\ row'[j].attempts = row[j].attempts
          /\ row'[j].claimed_by = row[j].claimed_by
          /\ row'[j].claim_expires_at = row[j].claim_expires_at
      BY <1>0, <1>8 DEF ActivateJob, TypeOK, Row
    <2>2. \A k \in JobId \ {j} : row'[k] = row[k]
      BY <1>8 DEF ActivateJob, TypeOK
    <2>3. now' = now
      BY <1>8 DEF ActivateJob
    <2>4. QED
      BY <2>1, <2>2, <2>3, Stutters DEF Reapable, Expired, Claimed, Terminal
  <1>9. ASSUME NEW j \in JobId, NEW at \in TxnNow, RequestCancel(j, at)
        PROVE  Turns!Next \/ UNCHANGED Turns!turnVars
    <2> DEFINE asked == [row[j] EXCEPT
                  !.status = IF row[j].status = "pending" THEN "cancelled" ELSE @,
                  !.cancel_requested_at = at]
    <2>1. at \in Nat
      BY TxnNowIsTime DEF TypeOK
    <2>2. /\ asked \in Row
          /\ asked = [status |-> IF row[j].status = "pending" THEN "cancelled" ELSE row[j].status,
                      attempts |-> row[j].attempts, claimed_by |-> row[j].claimed_by,
                      claim_expires_at |-> row[j].claim_expires_at,
                      cancel_requested_at |-> at]
      BY <1>0, <2>1, RequestedRow
    <2>3. row' = [row EXCEPT ![j] = asked] /\ now' = now
      BY <1>9 DEF RequestCancel, TypeOK
    <2> HIDE DEF asked
    <2>4. CASE row[j].status = "pending"
      <3>1. asked.status \in Terminal /\ row[j].status \notin Terminal
        BY <2>2, <2>4 DEF Terminal
      <3>2. Turns!Settle(j)
        BY <2>2, <2>3, <3>1, EndSettles
      <3>3. QED
        BY <3>2 DEF Turns!Next
    <2>5. CASE row[j].status # "pending"
      <3>1. row'[j] = asked /\ \A k \in JobId \ {j} : row'[k] = row[k]
        BY <2>3 DEF TypeOK
      <3>2. UNCHANGED Turns!turnVars
        BY <2>2, <2>3, <2>5, <3>1, Stutters DEF Reapable, Expired
      <3>3. QED
        BY <3>2
    <2>6. QED
      BY <2>4, <2>5
  <1>10. ASSUME NEW j \in JobId, NEW to \in Counted, CloseFromTicket(j, to)
         PROVE  Turns!Next
    <2> DEFINE ended == [row[j] EXCEPT !.status = to, !.claim_expires_at = Null]
    <2>1. to \in Terminal /\ row[j].status \notin Terminal
      BY <1>10 DEF CloseFromTicket, Counted, Terminal, Claimed
    <2>2. /\ ended \in Row
          /\ ended = [status |-> to, attempts |-> row[j].attempts,
                      claimed_by |-> row[j].claimed_by, claim_expires_at |-> Null,
                      cancel_requested_at |-> row[j].cancel_requested_at]
      BY <1>0, <2>1, EndedRow
    <2>3. row' = [row EXCEPT ![j] = ended] /\ now' = now
      BY <1>10 DEF CloseFromTicket, TypeOK
    <2> HIDE DEF ended
    <2>4. Turns!Settle(j)
      BY <2>1, <2>2, <2>3, EndSettles
    <2>5. QED
      BY <2>4 DEF Turns!Next
  <1>11. ASSUME NEW j \in JobId, RependJob(j)
         PROVE  Turns!Next
    <2>1. row' = [row EXCEPT ![j] = Released(row[j])] /\ now' = now
      BY <1>11 DEF RependJob, TypeOK
    <2>2. /\ Released(row[j]).status \notin Claimed \cup Terminal
          /\ Released(row[j]).attempts = row[j].attempts
      BY <1>0, ReleasedRow DEF Claimed, Terminal
    <2>3. /\ TurnNow' = TurnNow
          /\ HolderNow' = [HolderNow EXCEPT ![j] = Null]
          /\ LapsedNow' = LapsedNow \ {j}
          /\ SettledNow' = SettledNow \ {j}
      <3>1. PICK r : r = Released(row[j])
        OBVIOUS
      <3>2. /\ row' = [row EXCEPT ![j] = r] /\ r.status \notin Claimed
            /\ r.status \notin Terminal /\ r.attempts = row[j].attempts
        BY <2>1, <2>2, <3>1
      <3>3. /\ TurnNow' = [TurnNow EXCEPT ![j] = r.attempts]
            /\ HolderNow' = [HolderNow EXCEPT ![j] = Null]
            /\ LapsedNow' = LapsedNow \ {j}
            /\ SettledNow' = IF r.status \in Terminal THEN SettledNow \cup {j} ELSE SettledNow \ {j}
        BY <2>1, <3>2, OneRowEnds
      <3>4. QED
        BY <3>2, <3>3, SameTurn
    <2>4. Turns!Release({j})
      BY <2>3 DEF Turns!Release, TurnNow, HolderNow, LapsedNow, SettledNow
    <2>5. QED
      BY <2>4 DEF Turns!Next
  <1>12. ASSUME NEW u \in User, MemberRemoved(u)
         PROVE  Turns!Next
    <2>0. PICK mine \in SUBSET JobId :
            mine = {j \in JobId : row[j].claimed_by = u /\ row[j].status \in Claimed}
      OBVIOUS
    <2>1. /\ \A j \in mine : row'[j] = Released(row[j])
          /\ \A j \in JobId \ mine : row'[j] = row[j]
          /\ now' = now
      BY <1>12, <2>0 DEF MemberRemoved
    <2>2. ASSUME NEW j \in mine
          PROVE  /\ Released(row[j]).status \notin Claimed \cup Terminal
                 /\ Released(row[j]).attempts = row[j].attempts
      BY <1>0, ReleasedRow DEF Claimed, Terminal
    <2>3. \A j \in mine : row[j].status \notin Terminal
      BY <2>0 DEF Claimed, Terminal
    <2>4. TurnNow' = TurnNow
      BY <2>1, <2>2 DEF TurnNow
    <2>5. HolderNow' = [j \in JobId |-> IF j \in mine THEN Null ELSE HolderNow[j]]
      BY <2>1, <2>2 DEF HolderNow
    <2>6. LapsedNow' = LapsedNow \ mine
      BY <2>1, <2>2 DEF LapsedNow, Reapable
    <2>7. SettledNow' = SettledNow \ mine
      BY <2>1, <2>2, <2>3 DEF SettledNow
    <2>8. Turns!Release(mine)
      BY <2>4, <2>5, <2>6, <2>7 DEF Turns!Release, TurnNow, HolderNow, LapsedNow, SettledNow
    <2>9. QED
      BY <2>8 DEF Turns!Next
  <1>13. ASSUME Tick PROVE Turns!Next
    <2>1. row' = row
      BY <1>13 DEF Tick
    <2>2. TurnNow' = TurnNow /\ HolderNow' = HolderNow /\ SettledNow' = SettledNow
      BY <2>1 DEF TurnNow, HolderNow, SettledNow
    <2>3. \A k \in LapsedNow' : HolderNow[k] # Null
      BY <2>1 DEF LapsedNow, HolderNow, Reapable, RowsCoherent, Coherent
    <2>4. Turns!Retime(LapsedNow')
      BY <2>2, <2>3 DEF Turns!Retime, TurnNow, HolderNow, LapsedNow, SettledNow
    <2>5. LapsedNow' \in SUBSET JobId
      BY DEF LapsedNow
    <2>6. QED
      BY <2>4, <2>5 DEF Turns!Next
  <1>14. CASE LoseInsertRace
    BY <1>14, Stutters DEF LoseInsertRace
  <1>15. CASE UNCHANGED vars
    BY <1>15, Stutters DEF vars
  <1>16. QED
    BY <1>1, <1>2, <1>3, <1>4, <1>5, <1>6, <1>7, <1>8, <1>9, <1>10, <1>11, <1>12,
       <1>13, <1>14, <1>15 DEF Next, WorkerStep

\* The queue of jobs.rs implements the turn-taking its trait docs promise.
THEOREM Refinement == Spec => TakesTurns
  <1>1. Init => TypeOK /\ RowsCoherent /\ MemoryBounded
    BY InitTypeOK, InitRowsCoherent, InitMemoryBounded
  <1>2. (TypeOK /\ RowsCoherent /\ MemoryBounded) /\ [Next]_vars
          => (TypeOK /\ RowsCoherent /\ MemoryBounded)'
    BY NextTypeOK, NextRowsCoherent, NextMemoryBounded
  <1>3. QED
    BY <1>1, <1>2, InitTurns, NextTurns, PTL DEF Spec, TakesTurns, Turns!Spec

=============================================================================
