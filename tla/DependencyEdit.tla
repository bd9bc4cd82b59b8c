--------------------------- MODULE DependencyEdit ---------------------------
(***************************************************************************)
(* set_dependencies (crates/of-core/src/jobs.rs), statement by statement.  *)
(*                                                                         *)
(* Sessions edit the dependencies of one organization's jobs, each in its  *)
(* own READ COMMITTED transaction.  Such a transaction locks no jobs row   *)
(* against another: an inserted edge takes only a KEY SHARE lock on the    *)
(* two jobs it names.  A statement sees what is committed when it starts,  *)
(* and its own transaction's changes; it waits only for a session that has *)
(* touched the very same edge and has not ended.                           *)
(*                                                                         *)
(* The jobs exist throughout: deleting one only removes edges.             *)
(***************************************************************************)
EXTENDS Integers, FiniteSets, DependencyGraph

CONSTANTS
  Session,   \* connections that edit dependencies
  Job,       \* the jobs of the organization
  MaxEdit    \* bound: edges one call names

ASSUME JobAssumption == Job # {}

VARIABLES
  deps,      \* committed rows of job_dependencies
  txn,       \* each session's transaction
  fresh,     \* history: sessions whose check saw everything committed since
  staleEdits \* history: whether a transaction ever committed a check gone stale

editVars == <<deps, txn, fresh, staleEdits>>

Edge == Job \X Job

\* todo: edges still to add and to remove; mine and gone: edges the transaction
\* has inserted and deleted.
Txn == [step: {"idle", "adding", "removing", "checked"}, job: Job,
        add: SUBSET Job, remove: SUBSET Job, mine: SUBSET Edge, gone: SUBSET Edge]

Visible(s) == (deps \cup txn[s].mine) \ txn[s].gone

\* Another transaction has inserted or deleted e and has not ended.
Contended(s, e) ==
  \E other \in Session \ {s} : e \in txn[other].mine \cup txn[other].gone

\* No transaction; its job field means nothing.
Idle == [step |-> "idle", job |-> CHOOSE j \in Job : TRUE,
         add |-> {}, remove |-> {}, mine |-> {}, gone |-> {}]

-----------------------------------------------------------------------------

\* A call with nothing to do, or a job depending on itself, is refused.
Begin(s, j, add, remove) ==
  /\ txn[s].step = "idle"
  /\ add \cup remove # {}
  /\ Cardinality(add) + Cardinality(remove) <= MaxEdit
  /\ j \notin add
  /\ txn' = [txn EXCEPT ![s] = [step |-> IF add = {} THEN "removing" ELSE "adding",
                                job |-> j, add |-> add, remove |-> remove,
                                mine |-> {}, gone |-> {}]]
  /\ UNCHANGED <<deps, fresh, staleEdits>>

\* INSERT ... ON CONFLICT DO NOTHING, one edge at a time.
Insert(s, d) ==
  LET e == <<txn[s].job, d>> IN
  /\ txn[s].step = "adding"
  /\ d \in txn[s].add
  /\ ~Contended(s, e)
  /\ txn' = [txn EXCEPT ![s].mine = IF e \in deps THEN @ ELSE @ \cup {e},
                        ![s].add = @ \ {d},
                        ![s].step = IF txn[s].add = {d} THEN "removing" ELSE @]
  /\ UNCHANGED <<deps, fresh, staleEdits>>

\* DELETE, which waits for another session's delete of the same edge and does
\* not see another session's insert.
Delete(s, d) ==
  LET e == <<txn[s].job, d>> IN
  /\ txn[s].step = "removing"
  /\ d \in txn[s].remove
  /\ \A other \in Session \ {s} : e \notin txn[other].gone
  /\ txn' = [txn EXCEPT ![s].gone = IF e \in Visible(s) THEN @ \cup {e} ELSE @,
                        ![s].remove = @ \ {d}]
  /\ UNCHANGED <<deps, fresh, staleEdits>>

\* Slip: the query runs before the inserts, or outside their transaction.
CheckCommitted(s) ==
  /\ txn[s].step = "removing"
  /\ txn[s].remove = {}
  /\ IF OnCycle(txn[s].job, deps)
     THEN txn' = [txn EXCEPT ![s] = Idle] /\ UNCHANGED fresh
     ELSE txn' = [txn EXCEPT ![s].step = "checked"] /\ fresh' = fresh \cup {s}
  /\ UNCHANGED <<deps, staleEdits>>

\* The recursive query.  A cycle is an error, and the transaction rolls back.
Check(s) ==
  /\ txn[s].step = "removing"
  /\ txn[s].remove = {}
  /\ IF OnCycle(txn[s].job, Visible(s))
     THEN txn' = [txn EXCEPT ![s] = Idle] /\ UNCHANGED fresh
     ELSE txn' = [txn EXCEPT ![s].step = "checked"] /\ fresh' = fresh \cup {s}
  /\ UNCHANGED <<deps, staleEdits>>

Commit(s) ==
  /\ txn[s].step = "checked"
  /\ deps' = Visible(s)
  /\ txn' = [txn EXCEPT ![s] = Idle]
  /\ fresh' = {}
  /\ staleEdits' = (staleEdits \/ s \notin fresh)

\* The connection is lost, the request is cancelled, or the database ends a
\* deadlock.
Abort(s) ==
  /\ txn[s].step # "idle"
  /\ txn' = [txn EXCEPT ![s] = Idle]
  /\ fresh' = fresh \ {s}
  /\ UNCHANGED <<deps, staleEdits>>

-----------------------------------------------------------------------------

Init ==
  /\ deps = {}
  /\ txn = [s \in Session |-> Idle]
  /\ fresh = {}
  /\ staleEdits = FALSE

Next ==
  \E s \in Session :
    \/ \E j \in Job : \E add, remove \in SUBSET Job : Begin(s, j, add, remove)
    \/ \E d \in Job : Insert(s, d) \/ Delete(s, d)
    \/ Check(s)
    \/ Commit(s)
    \/ Abort(s)

Spec == Init /\ [][Next]_editVars

-----------------------------------------------------------------------------
(* Properties. *)

TypeOK ==
  /\ deps \subseteq Edge
  /\ txn \in [Session -> Txn]
  /\ fresh \subseteq Session
  /\ staleEdits \in BOOLEAN

\* What the check does give: as long as no transaction committed after another
\* one had committed behind its check, the dependencies have no cycle.
SerialEditsStayAcyclic == staleEdits \/ Acyclic(deps)

\* The doc of set_dependencies: checking after the inserts "cannot" race a
\* concurrent edit that closes the loop from the other side.
ConcurrentEditsStayAcyclic == Acyclic(deps)

=============================================================================
