-------------------------- MODULE TransactionProofs --------------------------
(***************************************************************************)
(* What the transactions of one organization may rely on, for any number   *)
(* of sessions, repos and calls and any lifetimes of the caches.           *)
(*                                                                         *)
(* DependencyEdit: the check looks only at the edited job, and for a       *)
(* transaction no other one has committed behind, that is enough to keep   *)
(* the whole graph free of cycles.                                         *)
(*                                                                         *)
(* RepoRegistry: the inductive invariant says who may hold a row together  *)
(* (Exclusive), that a remote has one uncommitted owner (OneInserter), and *)
(* what a call names at each step (CallShape).                             *)
(*                                                                         *)
(* OrgStanding: what the client has cached was the standing at most one    *)
(* lookup before it was cached; what a reply on its way says was the       *)
(* standing after the lookup began; and leave to let calls through dates   *)
(* from the last failure.                                                  *)
(***************************************************************************)
EXTENDS DependencyEdit, RepoRegistry, OrgStanding, DependencyGraphProofs, TLAPS

-----------------------------------------------------------------------------
(* DependencyEdit.  Every transaction changes edges of the job it checks,   *)
(* and a check that is still fresh is true of what would be committed.      *)

EditInv ==
  /\ TypeOK
  /\ \A s \in Session : \A e \in txn[s].mine \cup txn[s].gone : e[1] = txn[s].job
  /\ \A s \in fresh \cap Session :
       txn[s].step = "checked" /\ ~OnCycle(txn[s].job, Visible(s))
  /\ SerialEditsStayAcyclic

LEMMA EditInitially == Init => EditInv
  <1> SUFFICES ASSUME Init PROVE EditInv
    OBVIOUS
  <1>1. Idle \in Txn /\ Idle.mine = {} /\ Idle.gone = {}
    BY JobAssumption DEF Idle, Txn
  <1>2. Acyclic({})
    BY DEF Acyclic
  <1>3. QED
    BY <1>1, <1>2 DEF Init, EditInv, TypeOK, SerialEditsStayAcyclic

\* A session that changes only its own transaction, and has no fresh check
\* afterwards, disturbs nobody else's.
LEMMA OwnStep ==
  ASSUME EditInv, NEW s \in Session, NEW t \in Txn, \A e \in t.mine \cup t.gone : e[1] = t.job,
         txn' = [txn EXCEPT ![s] = t], deps' = deps, staleEdits' = staleEdits,
         fresh' \subseteq fresh, s \notin fresh'
  PROVE  EditInv'
  <1>1. txn' \in [Session -> Txn]
    BY DEF EditInv, TypeOK
  <1>2. txn'[s] = t /\ \A other \in Session \ {s} : txn'[other] = txn[other]
    BY DEF EditInv, TypeOK
  <1>3. \A other \in Session \ {s} : Visible(other)' = Visible(other)
    BY <1>2 DEF Visible
  <1>4. \A r \in Session :
          \A e \in txn'[r].mine \cup txn'[r].gone : e[1] = txn'[r].job
    BY <1>2 DEF EditInv, TypeOK
  <1>5. \A r \in fresh' \cap Session :
          txn'[r].step = "checked" /\ ~OnCycle(txn'[r].job, Visible(r)')
    BY <1>2, <1>3 DEF EditInv, TypeOK
  <1>6. SerialEditsStayAcyclic'
    BY DEF EditInv, TypeOK, SerialEditsStayAcyclic
  <1>7. QED
    BY <1>1, <1>4, <1>5, <1>6 DEF EditInv, TypeOK

LEMMA EditStep == EditInv /\ [Next]_editVars => EditInv'
  <1> SUFFICES ASSUME EditInv, [Next]_editVars PROVE EditInv'
    OBVIOUS
  <1>0. Idle \in Txn /\ Idle.mine = {} /\ Idle.gone = {}
    BY JobAssumption DEF Idle, Txn
  <1>1. ASSUME NEW s \in Session, NEW j \in Job,
               NEW add \in SUBSET Job, NEW remove \in SUBSET Job, Begin(s, j, add, remove)
        PROVE  EditInv'
    <2> DEFINE t == [step |-> IF add = {} THEN "removing" ELSE "adding",
                     job |-> j, add |-> add, remove |-> remove, mine |-> {}, gone |-> {}]
    <2>1. t \in Txn /\ t.mine = {} /\ t.gone = {}
      BY DEF Txn
    <2>2. s \notin fresh
      BY <1>1 DEF Begin, EditInv, TypeOK
    <2>3. txn' = [txn EXCEPT ![s] = t] /\ UNCHANGED <<deps, fresh, staleEdits>>
      BY <1>1 DEF Begin
    <2> HIDE DEF t
    <2>4. QED
      BY <2>1, <2>2, <2>3, OwnStep
  <1>2. ASSUME NEW s \in Session, NEW d \in Job, Insert(s, d)
        PROVE  EditInv'
    <2> DEFINE e == <<txn[s].job, d>>
               t == [step |-> IF txn[s].add = {d} THEN "removing" ELSE txn[s].step,
                     job |-> txn[s].job, add |-> txn[s].add \ {d},
                     remove |-> txn[s].remove,
                     mine |-> IF e \in deps THEN txn[s].mine ELSE txn[s].mine \cup {e},
                     gone |-> txn[s].gone]
    <2>1. txn[s] \in Txn /\ e \in Edge
      BY DEF EditInv, TypeOK, Txn, Edge
    <2>2. t \in Txn /\ t.job = txn[s].job /\ t.mine \subseteq txn[s].mine \cup {e}
         /\ t.gone = txn[s].gone
      BY <2>1 DEF Txn
    <2>3. \A x \in t.mine \cup t.gone : x[1] = t.job
      BY <2>2 DEF EditInv, TypeOK
    <2>4. s \notin fresh
      BY <1>2 DEF Insert, EditInv, TypeOK
    <2>5. txn' = [txn EXCEPT ![s] = t] /\ UNCHANGED <<deps, fresh, staleEdits>>
      BY <1>2, <2>1 DEF Insert, EditInv, TypeOK, Txn
    <2> HIDE DEF t
    <2>6. QED
      BY <2>2, <2>3, <2>4, <2>5, OwnStep
  <1>3. ASSUME NEW s \in Session, NEW d \in Job, Delete(s, d)
        PROVE  EditInv'
    <2> DEFINE e == <<txn[s].job, d>>
               t == [step |-> txn[s].step, job |-> txn[s].job, add |-> txn[s].add,
                     remove |-> txn[s].remove \ {d}, mine |-> txn[s].mine,
                     gone |-> IF e \in Visible(s) THEN txn[s].gone \cup {e} ELSE txn[s].gone]
    <2>1. txn[s] \in Txn /\ e \in Edge
      BY DEF EditInv, TypeOK, Txn, Edge
    <2>2. t \in Txn /\ t.job = txn[s].job /\ t.mine = txn[s].mine
         /\ t.gone \subseteq txn[s].gone \cup {e}
      BY <2>1 DEF Txn
    <2>3. \A x \in t.mine \cup t.gone : x[1] = t.job
      BY <2>2 DEF EditInv, TypeOK
    <2>4. s \notin fresh
      BY <1>3 DEF Delete, EditInv, TypeOK
    <2>5. txn' = [txn EXCEPT ![s] = t] /\ UNCHANGED <<deps, fresh, staleEdits>>
      BY <1>3, <2>1 DEF Delete, EditInv, TypeOK, Txn
    <2> HIDE DEF t
    <2>6. QED
      BY <2>2, <2>3, <2>4, <2>5, OwnStep
  <1>4. ASSUME NEW s \in Session, Check(s)
        PROVE  EditInv'
    <2>1. s \notin fresh
      BY <1>4 DEF Check, EditInv, TypeOK
    <2>2. CASE OnCycle(txn[s].job, Visible(s))
      BY <1>0, <1>4, <2>1, <2>2, OwnStep DEF Check
    <2>3. CASE ~OnCycle(txn[s].job, Visible(s))
      <3>1. /\ txn' = [txn EXCEPT ![s].step = "checked"]
            /\ fresh' = fresh \cup {s}
            /\ UNCHANGED <<deps, staleEdits>>
        BY <1>4, <2>3 DEF Check
      <3>2. txn' \in [Session -> Txn]
        BY <3>1 DEF EditInv, TypeOK, Txn
      <3>3. \A r \in Session : /\ txn'[r].job = txn[r].job
                               /\ txn'[r].mine = txn[r].mine
                               /\ txn'[r].gone = txn[r].gone
                               /\ txn'[r].step = IF r = s THEN "checked" ELSE txn[r].step
        BY <3>1 DEF EditInv, TypeOK, Txn
      <3>4. \A r \in Session : Visible(r)' = Visible(r)
        BY <3>1, <3>3 DEF Visible
      <3>5. \A r \in fresh' \cap Session :
              txn'[r].step = "checked" /\ ~OnCycle(txn'[r].job, Visible(r)')
        BY <2>3, <3>1, <3>3, <3>4 DEF EditInv, TypeOK
      <3>6. QED
        BY <3>1, <3>2, <3>3, <3>5 DEF EditInv, TypeOK, SerialEditsStayAcyclic
    <2>4. QED
      BY <2>2, <2>3
  <1>5. ASSUME NEW s \in Session, Commit(s)
        PROVE  EditInv'
    <2>1. txn' = [txn EXCEPT ![s] = Idle] /\ fresh' = {} /\ deps' = Visible(s)
      BY <1>5 DEF Commit
    <2>2. txn' \in [Session -> Txn]
      BY <1>0, <2>1 DEF EditInv, TypeOK
    <2>3. \A r \in Session :
          \A e \in txn'[r].mine \cup txn'[r].gone : e[1] = txn'[r].job
      BY <1>0, <2>1 DEF EditInv, TypeOK
    <2>4. SerialEditsStayAcyclic'
      <3> SUFFICES ASSUME ~staleEdits' PROVE Acyclic(Visible(s))
        BY <2>1 DEF SerialEditsStayAcyclic
      <3>1. s \in fresh /\ ~staleEdits
        BY <1>5 DEF Commit
      <3>2. Acyclic(deps) /\ ~OnCycle(txn[s].job, Visible(s))
        BY <3>1 DEF EditInv, TypeOK, SerialEditsStayAcyclic
      <3>3. \A e \in Visible(s) \ deps : e[1] = txn[s].job
        BY DEF Visible, EditInv, TypeOK
      <3>4. QED
        BY <3>2, <3>3, OneJobCheck
    <2>5. deps' \subseteq Edge /\ staleEdits' \in BOOLEAN
      BY <1>5, <2>1 DEF Commit, Visible, EditInv, TypeOK, Txn
    <2>6. QED
      BY <2>1, <2>2, <2>3, <2>4, <2>5 DEF EditInv, TypeOK
  <1>6. ASSUME NEW s \in Session, Abort(s)
        PROVE  EditInv'
    BY <1>0, <1>6, OwnStep DEF Abort
  <1>7. CASE UNCHANGED editVars
    BY <1>7 DEF editVars, EditInv, TypeOK, Visible, SerialEditsStayAcyclic
  <1>8. QED
    BY <1>1, <1>2, <1>3, <1>4, <1>5, <1>6, <1>7 DEF Next

\* Edits that do not overtake each other's check leave the dependencies of any
\* number of jobs without a cycle, so no batch of jobs blocks itself for ever.
THEOREM SerialEditsSafe == Spec => []SerialEditsStayAcyclic
  <1>1. Init => EditInv
    BY EditInitially
  <1>2. EditInv /\ [Next]_editVars => EditInv'
    BY EditStep
  <1>3. EditInv => SerialEditsStayAcyclic
    BY DEF EditInv, TypeOK
  <1>4. QED
    BY <1>1, <1>2, <1>3, PTL DEF Spec

\* What SetDependencies of JobQueue does in one step, where the check looks at
\* the dependencies as they will be.
SerialEdit(j, add, remove) ==
  /\ j \notin add
  /\ deps' = (deps \cup {<<j, d>> : d \in add}) \ {<<j, d>> : d \in remove}
  /\ ~OnCycle(j, deps')

\* Until a transaction commits behind a stale check, every change of the
\* dependencies is an edit of one job made in one step.
EditsAreSerial ==
  [][deps' # deps /\ ~staleEdits' =>
       \E j \in Job : \E add, remove \in SUBSET Job : SerialEdit(j, add, remove)]_editVars

LEMMA FreshCommitIsSerial ==
  ASSUME EditInv, NEW s \in Session, Commit(s), ~staleEdits'
  PROVE  \E j \in Job : \E add, remove \in SUBSET Job : SerialEdit(j, add, remove)
  <1> DEFINE j == txn[s].job
             add == {d \in Job : <<j, d>> \in txn[s].mine \ txn[s].gone}
             remove == {d \in Job : <<j, d>> \in txn[s].gone}
  <1>1. s \in fresh /\ deps' = Visible(s)
    BY DEF Commit
  <1>2. ~OnCycle(j, deps')
    BY <1>1 DEF EditInv, TypeOK
  <1>3. txn[s] \in Txn
    BY DEF EditInv, TypeOK
  <1>4. j \in Job /\ txn[s].mine \subseteq Edge /\ txn[s].gone \subseteq Edge
    BY <1>3 DEF Txn
  <1>5. \A e \in txn[s].mine \cup txn[s].gone : e[1] = j /\ e[2] \in Job /\ e = <<j, e[2]>>
    BY <1>4 DEF EditInv, Edge
  <1>6. deps' = (deps \cup {<<j, d>> : d \in add}) \ {<<j, d>> : d \in remove}
    <2>1. {<<j, d>> : d \in remove} = txn[s].gone
      BY <1>5
    <2>2. {<<j, d>> : d \in add} = txn[s].mine \ txn[s].gone
      BY <1>5
    <2>3. QED
      BY <1>1, <2>1, <2>2 DEF Visible
  <1>7. j \notin add
    <2> SUFFICES ASSUME j \in add PROVE FALSE
      OBVIOUS
    <2>1. PICK e \in deps' : e = <<j, j>>
      BY <1>1 DEF Visible
    <2>2. \A S : Covers(S, j, deps') => j \in S
      BY <2>1 DEF Covers
    <2>3. QED
      BY <1>2, <2>2 DEF OnCycle
  <1>8. QED
    BY <1>2, <1>4, <1>6, <1>7 DEF SerialEdit

\* JobQueue takes set_dependencies for one step.  A transaction does just that
\* unless another one has committed behind its check, whatever others inserted
\* and deleted before it: the race is the only way in which the two differ.
THEOREM EditsActAtOnce == Spec => EditsAreSerial
  <1>1. EditInv /\ [Next]_editVars =>
          [deps' # deps /\ ~staleEdits' =>
             \E j \in Job : \E add, remove \in SUBSET Job : SerialEdit(j, add, remove)]_editVars
    <2> SUFFICES ASSUME EditInv, Next, deps' # deps, ~staleEdits'
                 PROVE  \E j \in Job : \E add, remove \in SUBSET Job : SerialEdit(j, add, remove)
      BY DEF editVars
    <2>1. PICK s \in Session : Commit(s)
      <3>1. ASSUME NEW s \in Session, NEW j \in Job, NEW add \in SUBSET Job,
                   NEW remove \in SUBSET Job, Begin(s, j, add, remove)
            PROVE  deps' = deps
        BY <3>1 DEF Begin
      <3>2. ASSUME NEW s \in Session, NEW d \in Job, Insert(s, d) \/ Delete(s, d)
            PROVE  deps' = deps
        BY <3>2 DEF Insert, Delete
      <3>3. ASSUME NEW s \in Session, Check(s) \/ Abort(s)
            PROVE  deps' = deps
        BY <3>3 DEF Check, Abort
      <3>4. QED
        BY <3>1, <3>2, <3>3 DEF Next
    <2>2. QED
      BY <2>1, FreshCommitIsSerial
  <1>2. Spec => []EditInv
    BY EditInitially, EditStep, PTL DEF Spec
  <1>3. QED
    BY <1>1, <1>2, PTL DEF Spec, EditsAreSerial

-----------------------------------------------------------------------------
(* RepoRegistry. *)

\* What a transaction names and holds, by its kind.
CallShape ==
  \A c \in Call :
    /\ calls[c].step = "idle" => calls[c] = NoCall
    /\ calls[c].held \subseteq calls[c].named
    /\ calls[c].kind # "register" => calls[c].named \subseteq registered
    /\ calls[c].kind # "write" => \E r \in Repo : calls[c].named = {r}
    /\ calls[c].step = "attaching" => calls[c].kind # "write"
    /\ calls[c].kind = "register" => /\ calls[c].step = "attaching"
                                     /\ calls[c].held = {}
                                     /\ calls[c].named \cap registered = {}
    /\ calls[c].kind = "move" =>
         calls[c].held = IF calls[c].step = "attaching" THEN calls[c].named ELSE {}

\* A new repo is registered by one call.
OneRegistrar ==
  \A c, d \in Call :
    calls[c].kind = "register" /\ calls[d].kind = "register" /\ c # d
      => calls[c].named \cap calls[d].named = {}

\* A row has many holders only if all of them share it.
Exclusive ==
  \A c, d \in Call :
    c # d /\ Mode(c) = "update" => calls[c].held \cap calls[d].held = {}

\* A remote that is nobody's is inserted by one call.
OneInserter ==
  \A c, d \in Call : \A m \in Remote :
    c # d /\ m \in calls[c].mine /\ m \in calls[d].mine => remotes[m] # NoRepo

RegistryInv ==
  /\ RegistryTypeOK
  /\ CallShape
  /\ OneRegistrar
  /\ Exclusive
  /\ OneInserter
  /\ HeldInSight
  /\ AttachedStaysFree

\* The types of a call, field by field.
LEMMA CallTyped ==
  ASSUME RegistryTypeOK, NEW c \in Call
  PROVE  /\ calls[c] \in RepoCall
         /\ calls[c].step \in {"idle", "resolved", "attaching"}
         /\ calls[c].kind \in Kind
         /\ calls[c].scope \subseteq Team
         /\ calls[c].named \subseteq Repo
         /\ calls[c].held \subseteq Repo
         /\ calls[c].asked \subseteq Remote
         /\ calls[c].mine \subseteq Remote
         /\ calls[c].team \in Team \cup {NoTeam}
BY DEF RegistryTypeOK, RepoCall

\* A call that has ended is a call.
LEMMA NoCallTyped == NoCall \in RepoCall
BY DEF NoCall, RepoCall, Kind

\* In the initial state there are no repos and no transactions.
LEMMA RegistryInitially == RegistryInit => RegistryInv
<1> SUFFICES ASSUME RegistryInit PROVE RegistryInv
  OBVIOUS
<1>1. RegistryTypeOK
  BY NoCallTyped DEF RegistryInit, RegistryTypeOK
<1>2. \A c \in Call : calls[c] = NoCall
  BY DEF RegistryInit
<1> QED
  BY <1>1, <1>2 DEF RegistryInv, CallShape, OneRegistrar, Exclusive, OneInserter,
    HeldInSight, AttachedStaysFree, NoCall, Restricted, Mode, HoldMode

-----------------------------------------------------------------------------
(* One action at a time.  Every action changes one call c. *)

\* A call that ends without a commit keeps the invariant.
LEMMA EndKeeps ==
  ASSUME RegistryInv, NEW c \in Call,
         calls' = [calls EXCEPT ![c] = NoCall],
         UNCHANGED <<registered, team, remotes>>
  PROVE  RegistryInv'
<1>1. RegistryTypeOK'
  BY NoCallTyped DEF RegistryInv, RegistryTypeOK
<1>2. calls'[c] = NoCall /\ \A d \in Call \ {c} : calls'[d] = calls[d]
  BY DEF RegistryInv, RegistryTypeOK
<1>3. NoCall.held = {} /\ NoCall.mine = {} /\ NoCall.named = {} /\ NoCall.kind = "write"
      /\ NoCall.step = "idle"
  BY DEF NoCall
<1> HIDE DEF NoCall
<1>4. CallShape'
  BY <1>2, <1>3 DEF RegistryInv, CallShape
<1>5. OneRegistrar'
  BY <1>2, <1>3 DEF RegistryInv, OneRegistrar
<1>6. Exclusive'
  BY <1>2, <1>3 DEF RegistryInv, Exclusive, Mode, HoldMode
<1>7. OneInserter'
  BY <1>2, <1>3 DEF RegistryInv, OneInserter
<1>8. HeldInSight'
  BY <1>2, <1>3 DEF RegistryInv, HeldInSight, Restricted
<1>9. AttachedStaysFree'
  BY <1>2, <1>3 DEF RegistryInv, AttachedStaysFree
<1> QED
  BY <1>1, <1>4, <1>5, <1>6, <1>7, <1>8, <1>9 DEF RegistryInv

\* A call that begins holds nothing, and what it names is registered or new.
LEMMA ResolveKeeps ==
  ASSUME RegistryInv, NEW c \in Call, NEW kind \in {"write", "update", "move"},
         NEW scope \in SUBSET Team, NEW named \in SUBSET Repo,
         NEW asked \in SUBSET Remote, NEW to \in Team \cup {NoTeam},
         kind # "write" => \E r \in Repo : named = {r},
         ResolveRepo(c, kind, scope, named, asked, to)
  PROVE  RegistryInv'
<1> DEFINE new == [NoCall EXCEPT !.step = "resolved", !.kind = kind,
                     !.scope = scope, !.named = named, !.asked = asked, !.team = to]
<1>1. new \in RepoCall
  BY DEF NoCall, RepoCall, Kind
<1>2. /\ new.held = {} /\ new.mine = {} /\ new.named = named /\ new.kind = kind
      /\ new.step = "resolved"
  BY DEF NoCall
<1>3. calls' = [calls EXCEPT ![c] = new] /\ named \subseteq registered
      /\ UNCHANGED <<registered, team, remotes>>
  BY DEF ResolveRepo
<1> HIDE DEF new
<1>4. RegistryTypeOK'
  BY <1>1, <1>3 DEF RegistryInv, RegistryTypeOK
<1>5. calls'[c] = new /\ \A d \in Call \ {c} : calls'[d] = calls[d]
  BY <1>3 DEF RegistryInv, RegistryTypeOK
<1>6. CallShape'
  <2> SUFFICES ASSUME NEW d \in Call PROVE CallShape!(d)'
    BY DEF CallShape
  <2>1. CASE d = c
    BY <1>2, <1>3, <1>5, <2>1
  <2>2. CASE d # c
    BY <1>3, <1>5, <2>2 DEF RegistryInv, CallShape
  <2> QED
    BY <2>1, <2>2
<1>7. OneRegistrar'
  BY <1>2, <1>5 DEF RegistryInv, OneRegistrar
<1>8. Exclusive'
  BY <1>2, <1>5 DEF RegistryInv, Exclusive, Mode
<1>9. OneInserter'
  BY <1>2, <1>3, <1>5 DEF RegistryInv, OneInserter
<1>10. HeldInSight'
  BY <1>2, <1>3, <1>5 DEF RegistryInv, HeldInSight, Restricted
<1>11. AttachedStaysFree'
  BY <1>2, <1>3, <1>5 DEF RegistryInv, AttachedStaysFree
<1> QED
  BY <1>4, <1>6, <1>7, <1>8, <1>9, <1>10, <1>11 DEF RegistryInv

\* A row is held together with others only if all share it, and in sight.
LEMMA HoldKeeps ==
  ASSUME RegistryInv, NEW c \in Call, NEW r \in Repo, HoldRepo(c, r)
  PROVE  RegistryInv'
<1>1. CASE ~StillAllowed(c, r)
  BY <1>1, EndKeeps DEF HoldRepo
<1>2. CASE StillAllowed(c, r)
  <2> DEFINE new == [calls[c] EXCEPT !.held = @ \cup {r}]
  <2>1. /\ calls[c] \in RepoCall /\ calls[c].held \subseteq Repo
    BY CallTyped DEF RegistryInv
  <2>2. /\ new \in RepoCall /\ new.held = calls[c].held \cup {r}
        /\ new.mine = calls[c].mine /\ new.named = calls[c].named
        /\ new.kind = calls[c].kind /\ new.step = calls[c].step
        /\ new.scope = calls[c].scope
    BY <2>1 DEF RepoCall
  <2>3. calls' = [calls EXCEPT ![c] = new] /\ UNCHANGED <<registered, team, remotes>>
    BY <1>2 DEF HoldRepo
  <2>4. /\ calls[c].step = "resolved" /\ r \in calls[c].named /\ r \notin calls[c].held
        /\ calls[c].kind \in {"write", "update"}
        /\ Blockers(c, r, LockMode(c)) = {}
    BY DEF HoldRepo, Locking, Restricted
  <2> HIDE DEF new
  <2>5. calls'[c] = new /\ \A d \in Call \ {c} : calls'[d] = calls[d]
    BY <2>3 DEF RegistryInv, RegistryTypeOK
  <2>6. RegistryTypeOK'
    BY <2>2, <2>3 DEF RegistryInv, RegistryTypeOK
  <2>7. CallShape'
    BY <2>2, <2>3, <2>4, <2>5 DEF RegistryInv, CallShape
  <2>8. OneRegistrar'
    BY <2>2, <2>5 DEF RegistryInv, OneRegistrar
  <2>9. Exclusive'
    <3>1. LockMode(c) = Mode(c)
      BY <2>4 DEF LockMode, Mode, Restricted
    <3>2. \A d \in Call \ {c} : r \in calls[d].held => Mode(c) # "update" /\ Mode(d) # "update"
      BY <2>4, <3>1 DEF Blockers
    <3>3. Mode(c)' = Mode(c) /\ \A d \in Call \ {c} : Mode(d)' = Mode(d)
      BY <2>2, <2>5 DEF Mode
    <3> QED
      BY <2>2, <2>5, <3>2, <3>3 DEF RegistryInv, Exclusive
  <2>10. OneInserter'
    BY <2>2, <2>3, <2>5 DEF RegistryInv, OneInserter
  <2>11. HeldInSight'
    BY <1>2, <2>2, <2>3, <2>5 DEF RegistryInv, HeldInSight, Restricted, StillAllowed
  <2>12. AttachedStaysFree'
    BY <2>2, <2>3, <2>5 DEF RegistryInv, AttachedStaysFree
  <2> QED
    BY <2>6, <2>7, <2>8, <2>9, <2>10, <2>11, <2>12 DEF RegistryInv
<1> QED
  BY <1>1, <1>2

\* The row that is updated is held by nobody else.
LEMMA UpdateKeeps ==
  ASSUME RegistryInv, NEW c \in Call, NEW r \in Repo, UpdateRow(c, r)
  PROVE  RegistryInv'
<1> DEFINE new == [calls[c] EXCEPT !.step = "attaching", !.held = {r}]
<1>1. calls[c] \in RepoCall /\ calls[c].kind \in Kind
  BY CallTyped DEF RegistryInv
<1>2. /\ new \in RepoCall /\ new.held = {r}
      /\ new.mine = calls[c].mine /\ new.named = calls[c].named
      /\ new.kind = calls[c].kind /\ new.step = "attaching"
      /\ new.scope = calls[c].scope
  BY <1>1 DEF RepoCall
<1>3. calls' = [calls EXCEPT ![c] = new] /\ UNCHANGED <<registered, team, remotes>>
  BY <1>1 DEF UpdateRow, RegistryInv, RegistryTypeOK
<1>4. /\ calls[c].step = "resolved" /\ r \in calls[c].named
      /\ calls[c].kind # "write"
      /\ Restricted(c) => r \in calls[c].held
      /\ Blockers(c, r, "update") = {}
  BY DEF UpdateRow, Locking
<1>5. calls[c].kind # "register" /\ calls[c].named = {r}
  BY <1>4 DEF RegistryInv, CallShape
<1> HIDE DEF new
<1>6. calls'[c] = new /\ \A d \in Call \ {c} : calls'[d] = calls[d]
  BY <1>3 DEF RegistryInv, RegistryTypeOK
<1>7. RegistryTypeOK'
  BY <1>2, <1>3 DEF RegistryInv, RegistryTypeOK
<1>8. CallShape'
  <2> SUFFICES ASSUME NEW d \in Call PROVE CallShape!(d)'
    BY DEF CallShape
  <2>1. CASE d = c
    <3>1. {r} \subseteq registered
      BY <1>5 DEF RegistryInv, CallShape
    <3>2. /\ calls'[d].step = "attaching" /\ calls'[d].held = {r} /\ calls'[d].named = {r}
          /\ calls'[d].kind \notin {"write", "register"} /\ registered' = registered
      BY <1>2, <1>3, <1>4, <1>5, <1>6, <2>1
    <3> QED
      BY <3>1, <3>2
  <2>2. CASE d # c
    BY <1>3, <1>6, <2>2 DEF RegistryInv, CallShape
  <2> QED
    BY <2>1, <2>2
<1>9. OneRegistrar'
  BY <1>2, <1>6 DEF RegistryInv, OneRegistrar
<1>10. Exclusive'
  <2>1. \A d \in Call \ {c} : r \notin calls[d].held
    BY <1>4 DEF Blockers
  <2>2. \A d \in Call \ {c} : Mode(d)' = Mode(d)
    BY <1>6 DEF Mode
  <2> QED
    BY <1>2, <1>6, <2>1, <2>2 DEF RegistryInv, Exclusive
<1>11. OneInserter'
  BY <1>2, <1>3, <1>6 DEF RegistryInv, OneInserter
<1>12. HeldInSight'
  BY <1>2, <1>3, <1>4, <1>6 DEF RegistryInv, HeldInSight, Restricted
<1>13. AttachedStaysFree'
  BY <1>2, <1>3, <1>6 DEF RegistryInv, AttachedStaysFree
<1> QED
  BY <1>7, <1>8, <1>9, <1>10, <1>11, <1>12, <1>13 DEF RegistryInv

\* A repo is registered by one call, and no other call has it in hand.
LEMMA RegisterKeeps ==
  ASSUME RegistryInv, NEW c \in Call, NEW r \in Repo,
         NEW asked \in SUBSET Remote, NEW to \in Team \cup {NoTeam},
         RegisterRepo(c, r, asked, to)
  PROVE  RegistryInv'
<1> DEFINE new == [NoCall EXCEPT !.step = "attaching", !.kind = "register",
                     !.named = {r}, !.asked = asked, !.team = to]
<1>1. new \in RepoCall
  BY DEF NoCall, RepoCall, Kind
<1>2. /\ new.held = {} /\ new.mine = {} /\ new.named = {r} /\ new.kind = "register"
      /\ new.step = "attaching"
  BY DEF NoCall
<1>3. /\ calls' = [calls EXCEPT ![c] = new] /\ UNCHANGED <<registered, team, remotes>>
      /\ r \notin registered
      /\ \A d \in Call : calls[d].kind = "register" => r \notin calls[d].named
  BY DEF RegisterRepo
<1> HIDE DEF new
<1>4. RegistryTypeOK'
  BY <1>1, <1>3 DEF RegistryInv, RegistryTypeOK
<1>5. calls'[c] = new /\ \A d \in Call \ {c} : calls'[d] = calls[d]
  BY <1>3 DEF RegistryInv, RegistryTypeOK
<1>6. CallShape'
  BY <1>2, <1>3, <1>5 DEF RegistryInv, CallShape
<1>7. OneRegistrar'
  BY <1>2, <1>3, <1>5 DEF RegistryInv, OneRegistrar
<1>8. Exclusive'
  BY <1>2, <1>5 DEF RegistryInv, Exclusive, Mode
<1>9. OneInserter'
  BY <1>2, <1>3, <1>5 DEF RegistryInv, OneInserter
<1>10. HeldInSight'
  BY <1>2, <1>3, <1>5 DEF RegistryInv, HeldInSight, Restricted
<1>11. AttachedStaysFree'
  BY <1>2, <1>3, <1>5 DEF RegistryInv, AttachedStaysFree
<1> QED
  BY <1>4, <1>6, <1>7, <1>8, <1>9, <1>10, <1>11 DEF RegistryInv

\* A remote is attached by one call at a time.
LEMMA AttachKeeps ==
  ASSUME RegistryInv, NEW c \in Call, NEW m \in Remote, AttachRemote(c, m)
  PROVE  RegistryInv'
<1>1. CASE ~(remotes[m] = NoRepo \/ remotes[m] \in calls[c].named)
  BY <1>1, EndKeeps DEF AttachRemote
<1>2. CASE remotes[m] = NoRepo \/ remotes[m] \in calls[c].named
  <2> DEFINE new == [calls[c] EXCEPT !.mine = @ \cup {m}]
  <2>1. calls[c] \in RepoCall
    BY CallTyped DEF RegistryInv
  <2>2. /\ new \in RepoCall /\ new.held = calls[c].held
        /\ new.mine = calls[c].mine \cup {m} /\ new.named = calls[c].named
        /\ new.kind = calls[c].kind /\ new.step = calls[c].step
        /\ new.scope = calls[c].scope
    BY <2>1 DEF RepoCall
  <2>3. calls' = [calls EXCEPT ![c] = new] /\ UNCHANGED <<registered, team, remotes>>
    BY <1>2 DEF AttachRemote
  <2>4. calls[c].step = "attaching" /\ Inserting(c, m) = {}
    BY DEF AttachRemote
  <2> HIDE DEF new
  <2>5. calls'[c] = new /\ \A d \in Call \ {c} : calls'[d] = calls[d]
    BY <2>3 DEF RegistryInv, RegistryTypeOK
  <2>6. RegistryTypeOK'
    BY <2>2, <2>3 DEF RegistryInv, RegistryTypeOK
  <2>7. CallShape'
    BY <2>2, <2>3, <2>4, <2>5 DEF RegistryInv, CallShape
  <2>8. OneRegistrar'
    BY <2>2, <2>5 DEF RegistryInv, OneRegistrar
  <2>9. Exclusive'
    BY <2>2, <2>5 DEF RegistryInv, Exclusive, Mode
  <2>10. OneInserter'
    <3>1. \A d \in Call \ {c} : m \in calls[d].mine => remotes[m] # NoRepo
      BY <2>4 DEF Inserting
    <3> QED
      BY <2>2, <2>3, <2>5, <3>1 DEF RegistryInv, OneInserter
  <2>11. HeldInSight'
    BY <2>2, <2>3, <2>5 DEF RegistryInv, HeldInSight, Restricted
  <2>12. AttachedStaysFree'
    BY <1>2, <2>2, <2>3, <2>5 DEF RegistryInv, AttachedStaysFree
  <2> QED
    BY <2>6, <2>7, <2>8, <2>9, <2>10, <2>11, <2>12 DEF RegistryInv
<1> QED
  BY <1>1, <1>2

\* A commit moves a repo nobody else holds, and gives remotes nobody else has.
LEMMA CommitKeeps ==
  ASSUME RegistryInv, NEW c \in Call, CommitRepo(c)
  PROVE  RegistryInv'
<1>1. PICK r \in calls[c].named :
        /\ calls[c].step = "attaching"
        /\ registered' = registered \cup {r}
        /\ team' = IF Restricted(c) THEN team ELSE [team EXCEPT ![r] = calls[c].team]
        /\ remotes' = [m \in Remote |-> IF m \in calls[c].mine THEN r ELSE remotes[m]]
        /\ calls' = [calls EXCEPT ![c] = NoCall]
  BY DEF CommitRepo
<1>2. /\ calls[c].kind \in {"update", "move", "register"}
      /\ calls[c].named = {r} /\ r \in Repo
      /\ calls[c].team \in Team \cup {NoTeam}
  BY <1>1, CallTyped DEF RegistryInv, CallShape, Kind
<1>3. calls'[c] = NoCall /\ \A d \in Call \ {c} : calls'[d] = calls[d]
  BY <1>1 DEF RegistryInv, RegistryTypeOK
<1>4. NoCall.held = {} /\ NoCall.mine = {} /\ NoCall.named = {} /\ NoCall.kind = "write"
      /\ NoCall.step = "idle"
  BY DEF NoCall
<1> HIDE DEF NoCall
<1>5. RegistryTypeOK'
  BY <1>1, <1>2, NoCallTyped DEF RegistryInv, RegistryTypeOK
<1>6. CallShape'
  <2>1. \A d \in Call \ {c} : calls[d].kind = "register" => r \notin calls[d].named
    BY <1>2 DEF RegistryInv, CallShape, OneRegistrar
  <2> QED
    BY <1>1, <1>3, <1>4, <2>1 DEF RegistryInv, CallShape
<1>7. OneRegistrar'
  BY <1>3, <1>4 DEF RegistryInv, OneRegistrar
<1>8. Exclusive'
  BY <1>3, <1>4 DEF RegistryInv, Exclusive, Mode, HoldMode
<1>9. OneInserter'
  <2> SUFFICES ASSUME NEW d \in Call, NEW e \in Call, NEW m \in Remote, d # e,
                      m \in calls'[d].mine, m \in calls'[e].mine
               PROVE  remotes'[m] # NoRepo
    BY DEF OneInserter
  <2>1. d # c /\ e # c /\ remotes[m] # NoRepo
    BY <1>3, <1>4 DEF RegistryInv, OneInserter
  <2> QED
    BY <1>1, <1>2, <2>1, NoneAssumption
<1>10. HeldInSight'
  <2>1. CASE Restricted(c)
    BY <1>1, <1>3, <1>4, <2>1 DEF RegistryInv, HeldInSight, Restricted
  <2>2. CASE ~Restricted(c)
    <3>1. \A d \in Call \ {c} : r \notin calls[d].held \/ ~Restricted(d)
      <4>1. CASE calls[c].kind = "move"
        <5>1. r \in calls[c].held /\ Mode(c) = "update"
          BY <1>1, <4>1 DEF RegistryInv, CallShape, Mode
        <5> QED
          BY <5>1 DEF RegistryInv, Exclusive
      <4>2. CASE calls[c].kind = "register"
        <5>1. r \notin registered
          BY <1>1, <4>2 DEF RegistryInv, CallShape
        <5> QED
          BY <5>1 DEF RegistryInv, CallShape, Restricted
      <4> QED
        BY <1>2, <2>2, <4>1, <4>2 DEF Restricted
    <3>2. \A s \in Repo \ {r} : team'[s] = team[s]
      BY <1>1 DEF RegistryInv, RegistryTypeOK
    <3>3. \A d \in Call : calls[d].held \subseteq Repo
      BY CallTyped DEF RegistryInv
    <3> QED
      BY <1>3, <1>4, <3>1, <3>2, <3>3 DEF RegistryInv, HeldInSight, Restricted
  <2> QED
    BY <2>1, <2>2
<1>11. AttachedStaysFree'
  <2> SUFFICES ASSUME NEW d \in Call, NEW m \in calls'[d].mine
               PROVE  remotes'[m] \in {NoRepo} \cup calls'[d].named
    BY DEF AttachedStaysFree
  <2>1. d # c /\ calls'[d] = calls[d] /\ m \in calls[d].mine /\ m \in Remote
    BY <1>3, <1>4, CallTyped DEF RegistryInv
  <2>2. remotes[m] \in {NoRepo} \cup calls[d].named
    BY <2>1 DEF RegistryInv, AttachedStaysFree
  <2>3. CASE m \in calls[c].mine
    <3>1. remotes[m] # NoRepo
      BY <2>1, <2>3 DEF RegistryInv, OneInserter
    <3>2. remotes[m] = r
      BY <1>2, <2>3, <3>1 DEF RegistryInv, AttachedStaysFree
    <3> QED
      BY <1>1, <2>1, <2>2, <2>3, <3>1, <3>2
  <2>4. CASE m \notin calls[c].mine
    BY <1>1, <2>1, <2>2, <2>4
  <2> QED
    BY <2>3, <2>4
<1> QED
  BY <1>5, <1>6, <1>7, <1>8, <1>9, <1>10, <1>11 DEF RegistryInv

\* Every step keeps the invariant.
LEMMA RegistryStep == RegistryInv /\ [RegistryNext]_registryVars => RegistryInv'
<1> SUFFICES ASSUME RegistryInv, [RegistryNext]_registryVars PROVE RegistryInv'
  OBVIOUS
<1>1. CASE UNCHANGED registryVars
  BY <1>1 DEF registryVars, RegistryInv, RegistryTypeOK, CallShape, OneRegistrar, Exclusive,
    OneInserter, HeldInSight, AttachedStaysFree, Restricted, Mode
<1>2. CASE RegistryNext
  <2>1. PICK c \in Call :
      \/ \E scope \in SUBSET Team, named \in SUBSET Repo : ResolveRepo(c, "write", scope, named, {}, NoTeam)
      \/ \E scope \in SUBSET Team, r \in Repo, asked \in SUBSET Remote :
           ResolveRepo(c, "update", scope, {r}, asked, NoTeam)
      \/ \E r \in Repo, asked \in SUBSET Remote, to \in Team \cup {NoTeam} :
           ResolveRepo(c, "move", {}, {r}, asked, to) \/ RegisterRepo(c, r, asked, to)
      \/ \E r \in Repo : HoldRepo(c, r) \/ UpdateRow(c, r)
      \/ \E m \in Remote : AttachRemote(c, m)
      \/ CommitWrite(c)
      \/ CommitRepo(c)
      \/ RollBack(c)
    BY <1>2 DEF RegistryNext
  <2>2. CASE \E scope \in SUBSET Team, named \in SUBSET Repo : ResolveRepo(c, "write", scope, named, {}, NoTeam)
    <3>1. PICK scope \in SUBSET Team, named \in SUBSET Repo : ResolveRepo(c, "write", scope, named, {}, NoTeam)
      BY <2>2
    <3>2. {} \in SUBSET Remote /\ NoTeam \in Team \cup {NoTeam}
      OBVIOUS
    <3> QED
      BY <3>1, <3>2, ResolveKeeps
  <2>3. CASE \E scope \in SUBSET Team, r \in Repo, asked \in SUBSET Remote :
               ResolveRepo(c, "update", scope, {r}, asked, NoTeam)
    <3>1. PICK scope \in SUBSET Team, r \in Repo, asked \in SUBSET Remote :
               ResolveRepo(c, "update", scope, {r}, asked, NoTeam)
      BY <2>3
    <3>2. {r} \in SUBSET Repo /\ NoTeam \in Team \cup {NoTeam}
      OBVIOUS
    <3> QED
      BY <3>1, <3>2, ResolveKeeps
  <2>4. CASE \E r \in Repo, asked \in SUBSET Remote, to \in Team \cup {NoTeam} :
               ResolveRepo(c, "move", {}, {r}, asked, to) \/ RegisterRepo(c, r, asked, to)
    <3>1. PICK r \in Repo, asked \in SUBSET Remote, to \in Team \cup {NoTeam} :
               ResolveRepo(c, "move", {}, {r}, asked, to) \/ RegisterRepo(c, r, asked, to)
      BY <2>4
    <3>2. {r} \in SUBSET Repo /\ {} \in SUBSET Team
      OBVIOUS
    <3>3. CASE ResolveRepo(c, "move", {}, {r}, asked, to)
      BY <3>2, <3>3, ResolveKeeps
    <3>4. CASE RegisterRepo(c, r, asked, to)
      BY <3>4, RegisterKeeps
    <3> QED
      BY <3>1, <3>3, <3>4
  <2>5. CASE \E r \in Repo : HoldRepo(c, r) \/ UpdateRow(c, r)
    BY <2>5, HoldKeeps, UpdateKeeps
  <2>6. CASE \E m \in Remote : AttachRemote(c, m)
    BY <2>6, AttachKeeps
  <2>7. CASE CommitWrite(c)
    BY <2>7, EndKeeps DEF CommitWrite
  <2>8. CASE CommitRepo(c)
    BY <2>8, CommitKeeps
  <2>9. CASE RollBack(c)
    BY <2>9, EndKeeps DEF RollBack
  <2> QED
    BY <2>1, <2>2, <2>3, <2>4, <2>5, <2>6, <2>7, <2>8, <2>9
<1> QED
  BY <1>1, <1>2 

\* The invariant holds throughout.
LEMMA RegistryInvariant == RegistrySpec => []RegistryInv
<1>1. RegistryInit => RegistryInv
  BY RegistryInitially
<1>2. RegistryInv /\ [RegistryNext]_registryVars => RegistryInv'
  BY RegistryStep
<1> QED
  BY <1>1, <1>2, PTL DEF RegistrySpec

-----------------------------------------------------------------------------
(* The theorems. *)

\* Repos, remotes and calls have their types.
THEOREM RegistryTypeCorrect == RegistrySpec => []RegistryTypeOK
<1>1. RegistryInv => RegistryTypeOK
  BY DEF RegistryInv
<1> QED
  BY <1>1, RegistryInvariant, PTL

\* A restricted caller sees every repo it holds, however many admins move repos
\* between however many teams.
THEOREM HoldersSee == RegistrySpec => []HeldInSight
<1>1. RegistryInv => HeldInSight
  BY DEF RegistryInv
<1> QED
  BY <1>1, RegistryInvariant, PTL

\* No other repo gets a remote that a call has attached.
THEOREM AttachedIsKept == RegistrySpec => []AttachedStaysFree
<1>1. RegistryInv => AttachedStaysFree
  BY DEF RegistryInv
<1> QED
  BY <1>1, RegistryInvariant, PTL

\* A call that is waited for and waits itself only shares what it holds, and
\* what waits for it is about to update a repo.
LEMMA OnlySharersWait ==
  ASSUME RegistryInv, NEW c \in Call, NEW d \in Call, NEW e \in Call,
         WaitsFor(c, d), WaitsFor(d, e)
  PROVE  calls[d].kind = "write" /\ calls[c].kind # "write"
<1>1. PICK r \in Repo : Locking(c, r) /\ d \in Blockers(c, r, LockMode(c))
  BY DEF WaitsFor
<1>2. PICK s \in Repo : Locking(d, s) /\ e \in Blockers(d, s, LockMode(d))
  BY DEF WaitsFor
<1>3. /\ r \in calls[d].held
      /\ LockMode(c) = "update" \/ Mode(d) = "update"
      /\ calls[d].step = "resolved" /\ s \in calls[d].named
      /\ e # d /\ s \in calls[e].held
  BY <1>1, <1>2 DEF Blockers, Locking
<1>4. calls[d].kind \in Kind
  BY CallTyped DEF RegistryInv
<1>5. calls[d].kind # "register" /\ calls[d].kind # "move"
  BY <1>1, <1>3 DEF RegistryInv, CallShape, Blockers
<1>6. calls[d].kind # "update"
  <2> SUFFICES ASSUME calls[d].kind = "update" PROVE FALSE
    OBVIOUS
  <2>1. s \in calls[d].held
    BY <1>1, <1>3 DEF RegistryInv, CallShape, Blockers
  <2>2. Mode(d) = "update"
    BY <1>3 DEF Mode, HoldMode
  <2> QED
    BY <1>3, <2>1, <2>2 DEF RegistryInv, Exclusive
<1>7. calls[d].kind = "write" /\ Mode(d) = "shared"
  BY <1>3, <1>4, <1>5, <1>6 DEF Kind, Mode, HoldMode
<1>8. LockMode(c) = "update"
  BY <1>1, <1>7 DEF Blockers
<1> QED
  BY <1>1, <1>7, <1>8 DEF LockMode, Locking, HoldMode

\* However many calls hold however many repos, none of them wait in a circle.
THEOREM RowsAreSafe == RegistrySpec => []RowsNeverDeadlock
<1>1. RegistryInv => RowsNeverDeadlock
  <2> SUFFICES ASSUME RegistryInv, NEW W \in (SUBSET Call) \ {{}},
                      \A c \in W : \E d \in W : WaitsFor(c, d)
               PROVE  FALSE
    BY DEF RowsNeverDeadlock
  <2>1. PICK c \in W : TRUE
    OBVIOUS
  <2>2. PICK d \in W : WaitsFor(c, d)
    OBVIOUS
  <2>3. PICK e \in W : WaitsFor(d, e)
    OBVIOUS
  <2>4. PICK f \in W : WaitsFor(e, f)
    OBVIOUS
  <2>5. calls[d].kind = "write"
    BY <2>2, <2>3, OnlySharersWait
  <2>6. calls[d].kind # "write"
    BY <2>3, <2>4, OnlySharersWait
  <2> QED
    BY <2>5, <2>6
<1> QED
  BY <1>1, RegistryInvariant, PTL

-----------------------------------------------------------------------------
(* OrgStanding. *)

\* Nothing was seen, and no lookup began or failed, in the future.
NotAhead ==
  /\ \A b \in BOOLEAN : lastSeen[b] <= now
  /\ \A c \in Caller : callers[c].since <= now
  /\ cache.at <= now

\* What the organization's standing is now was seen now.
SeenNow == lastSeen[blocked] = now

\* No lookup is older than its timeout.
LookupsEnd ==
  \A c \in Caller : callers[c].step = "looking" => now <= callers[c].since + LookupTimeout

\* A reply on its way says what was so after the lookup began.
RepliesAreRecent ==
  \A c \in Caller :
    callers[c].step = "looking" /\ callers[c].answered
      => callers[c].since <= lastSeen[callers[c].blocked]

CacheIsRecent == cache.at <= lastSeen[cache.blocked] + LookupTimeout

LeaveIsRecent == Never <= lastFailure /\ failOpen <= lastFailure + FailOpenFor

StandingInv ==
  /\ StandingTypeOK
  /\ NotAhead
  /\ SeenNow
  /\ LookupsEnd
  /\ RepliesAreRecent
  /\ CacheIsRecent
  /\ LeaveIsRecent

\* A call's record, field by field.
LEMMA CallerTyped ==
  ASSUME StandingTypeOK, NEW c \in Caller
  PROVE  /\ callers[c] \in [step: {"idle", "looking", "told"}, since: Int,
                            answered: BOOLEAN, blocked: BOOLEAN]
         /\ callers[c].step \in {"idle", "looking", "told"}
         /\ callers[c].since \in Int
         /\ callers[c].answered \in BOOLEAN
         /\ callers[c].blocked \in BOOLEAN
BY DEF StandingTypeOK

\* A call is told an answer, or none.
LEMMA ToldTyped ==
  ASSUME NEW answer \in {"none", "open", "blocked"}
  PROVE  /\ Told(answer) \in [step: {"idle", "looking", "told"}, since: Int,
                              answered: BOOLEAN, blocked: BOOLEAN]
         /\ Told(answer).step = "told"
         /\ Told(answer).since = Never
         /\ (Told(answer).answered <=> answer # "none")
         /\ (Told(answer).blocked <=> answer = "blocked")
<1>1. Never \in Int
  BY StandingAssumption DEF Never
<1>2. (answer # "none") \in BOOLEAN /\ (answer = "blocked") \in BOOLEAN
  OBVIOUS
<1> QED
  BY <1>1, <1>2 DEF Told

\* Never was before the clock began.
LEMMA NeverIsPast == Never \in Int /\ Never < 0
BY StandingAssumption DEF Never

\* In the initial state nothing is cached, remembered or under way.
LEMMA StandingInitially == StandingInit => StandingInv
<1> SUFFICES ASSUME StandingInit PROVE StandingInv
  OBVIOUS
<1>1. StandingTypeOK
  BY StandingAssumption, NeverIsPast
  DEF StandingInit, StandingTypeOK, NoCache, IdleCaller
<1>2. \A c \in Caller : callers[c].step = "idle" /\ callers[c].since = Never
  BY DEF StandingInit, IdleCaller
<1>3. \A b \in BOOLEAN : lastSeen[b] = (IF b = blocked THEN 0 ELSE Never)
  BY DEF StandingInit
<1>4. now = 0 /\ blocked \in BOOLEAN /\ cache.at = Never /\ cache.blocked = FALSE
      /\ failOpen = Never /\ lastFailure = Never
  BY DEF StandingInit, NoCache
<1>5. NotAhead
  BY <1>2, <1>3, <1>4, NeverIsPast DEF NotAhead
<1>6. SeenNow
  BY <1>3, <1>4 DEF SeenNow
<1>7. LookupsEnd /\ RepliesAreRecent
  BY <1>2 DEF LookupsEnd, RepliesAreRecent
<1>8. lastSeen[cache.blocked] \in {0, Never}
  BY <1>3, <1>4
<1>9. CacheIsRecent
  BY <1>4, <1>8, NeverIsPast, StandingAssumption DEF CacheIsRecent
<1>10. LeaveIsRecent
  BY <1>4, NeverIsPast, StandingAssumption DEF LeaveIsRecent
<1> QED
  BY <1>1, <1>5, <1>6, <1>7, <1>9, <1>10 DEF StandingInv

\* Every step keeps the invariant.
LEMMA StandingKept == StandingInv /\ [StandingNext]_standingVars => StandingInv'
<1> SUFFICES ASSUME StandingInv, [StandingNext]_standingVars PROVE StandingInv'
  OBVIOUS
<1> USE StandingAssumption
<1>0. /\ now \in Nat /\ now <= MaxNow /\ blocked \in BOOLEAN
      /\ cache.at \in Int /\ cache.blocked \in BOOLEAN
      /\ failOpen \in Int /\ lastFailure \in Int
      /\ \A b \in BOOLEAN : lastSeen[b] \in Int
  BY DEF StandingInv, StandingTypeOK
<1>1. CASE PassTime
  <2>1. StandingTypeOK'
    BY <1>0, <1>1 DEF PassTime, StandingInv, StandingTypeOK
  <2>2. \A b \in BOOLEAN : lastSeen'[b] = IF b = blocked THEN now + 1 ELSE lastSeen[b]
    BY <1>0, <1>1 DEF PassTime, StandingInv, StandingTypeOK
  <2>3. \A b \in BOOLEAN : lastSeen[b] <= lastSeen'[b]
    BY <2>2, <1>0 DEF StandingInv, NotAhead
  <2>4. NotAhead' /\ SeenNow'
    BY <1>0, <1>1, <2>2, CallerTyped DEF PassTime, StandingInv, NotAhead, SeenNow
  <2>5. LookupsEnd'
    BY <1>0, <1>1, CallerTyped DEF PassTime, StandingInv, LookupsEnd
  <2>6. RepliesAreRecent'
    <3> SUFFICES ASSUME NEW c \in Caller, callers[c].step = "looking", callers[c].answered
        PROVE callers[c].since <= lastSeen'[callers[c].blocked]
      BY <1>1 DEF PassTime, RepliesAreRecent
    <3>1. callers[c].blocked \in BOOLEAN /\ callers[c].since \in Int
      BY CallerTyped DEF StandingInv
    <3>2. callers[c].since <= lastSeen[callers[c].blocked]
      BY DEF StandingInv, RepliesAreRecent
    <3>3. lastSeen'[callers[c].blocked] \in Int
      BY <2>2, <3>1, <1>0
    <3> QED
      BY <3>1, <3>2, <3>3, <2>3, <1>0
  <2>7. CacheIsRecent' /\ LeaveIsRecent'
    BY <1>0, <1>1, <2>2, <2>3 DEF PassTime, StandingInv, CacheIsRecent, LeaveIsRecent
  <2> QED
    BY <2>1, <2>4, <2>5, <2>6, <2>7 DEF StandingInv
<1>2. CASE ChangeStanding
  <2>1. StandingTypeOK'
    BY <1>0, <1>2 DEF ChangeStanding, StandingInv, StandingTypeOK
  <2>2. \A b \in BOOLEAN : lastSeen'[b] = IF b = blocked' THEN now ELSE lastSeen[b]
    BY <1>0, <1>2 DEF ChangeStanding, StandingInv, StandingTypeOK
  <2>3. \A b \in BOOLEAN : lastSeen[b] <= lastSeen'[b]
    BY <2>2, <1>0 DEF StandingInv, NotAhead
  <2>4. NotAhead' /\ SeenNow' /\ blocked' \in BOOLEAN
    BY <1>0, <1>2, <2>2, CallerTyped DEF ChangeStanding, StandingInv, NotAhead, SeenNow
  <2>5. LookupsEnd'
    BY <1>2 DEF ChangeStanding, StandingInv, LookupsEnd
  <2>6. RepliesAreRecent'
    <3> SUFFICES ASSUME NEW c \in Caller, callers[c].step = "looking", callers[c].answered
        PROVE callers[c].since <= lastSeen'[callers[c].blocked]
      BY <1>2 DEF ChangeStanding, RepliesAreRecent
    <3>1. callers[c].blocked \in BOOLEAN /\ callers[c].since \in Int
      BY CallerTyped DEF StandingInv
    <3>2. callers[c].since <= lastSeen[callers[c].blocked]
      BY DEF StandingInv, RepliesAreRecent
    <3>3. lastSeen'[callers[c].blocked] \in Int
      BY <2>2, <3>1, <1>0
    <3> QED
      BY <3>1, <3>2, <3>3, <2>3, <1>0
  <2>7. CacheIsRecent' /\ LeaveIsRecent'
    BY <1>0, <1>2, <2>2, <2>3 DEF ChangeStanding, StandingInv, CacheIsRecent, LeaveIsRecent
  <2> QED
    BY <2>1, <2>4, <2>5, <2>6, <2>7 DEF StandingInv
<1>3. ASSUME NEW c \in Caller, ServeStatus(c) PROVE StandingInv'
  <2> DEFINE new == [callers[c] EXCEPT !.answered = TRUE, !.blocked = blocked]
  <2>1. /\ new \in [step: {"idle", "looking", "told"}, since: Int,
                    answered: BOOLEAN, blocked: BOOLEAN]
        /\ new.step = "looking" /\ new.since = callers[c].since /\ new.blocked = blocked
    BY <1>0, <1>3, CallerTyped DEF ServeStatus, StandingInv
  <2>2. callers' = [callers EXCEPT ![c] = new]
    BY <1>3, CallerTyped DEF ServeStatus, StandingInv, StandingTypeOK
  <2> HIDE DEF new
  <2>3. \A d \in Caller : callers'[d] = IF d = c THEN new ELSE callers[d]
    BY <2>2 DEF StandingInv, StandingTypeOK
  <2>4. UNCHANGED <<now, blocked, cache, failOpen, lastSeen, lastFailure>>
    BY <1>3 DEF ServeStatus
  <2>5. callers[c].step = "looking"
    BY <1>3 DEF ServeStatus
  <2> QED
    BY <1>0, <2>1, <2>2, <2>3, <2>4, <2>5, CallerTyped
    DEF StandingInv, StandingTypeOK, NotAhead, SeenNow, LookupsEnd, RepliesAreRecent,
        CacheIsRecent, LeaveIsRecent
<1>4. ASSUME NEW c \in Caller, NEW new,
             new \in [step: {"idle", "looking", "told"}, since: Int,
                      answered: BOOLEAN, blocked: BOOLEAN],
             callers' = [callers EXCEPT ![c] = new],
             new.since <= now,
             new.step = "looking" => new.since = now /\ ~new.answered,
             UNCHANGED <<now, blocked, lastSeen>>
      PROVE  callers' \in [Caller -> [step: {"idle", "looking", "told"}, since: Int,
                                      answered: BOOLEAN, blocked: BOOLEAN]]
             /\ (\A d \in Caller : callers'[d].since <= now)
             /\ SeenNow' /\ LookupsEnd' /\ RepliesAreRecent'
  <2>1. \A d \in Caller : callers'[d] = IF d = c THEN new ELSE callers[d]
    BY <1>4 DEF StandingInv, StandingTypeOK
  <2> QED
    BY <1>0, <1>4, <2>1, CallerTyped
    DEF StandingInv, StandingTypeOK, NotAhead, SeenNow, LookupsEnd, RepliesAreRecent
<1>5. ASSUME NEW c \in Caller, SkipLookup(c) \/ BeginLookup(c) \/ EndCaller(c) PROVE StandingInv'
  <2>1. PICK new \in {Told("none"), IdleCaller, [IdleCaller EXCEPT !.step = "looking", !.since = now]} :
          callers' = [callers EXCEPT ![c] = new]
    BY <1>5 DEF SkipLookup, BeginLookup, EndCaller
  <2>2. /\ new \in [step: {"idle", "looking", "told"}, since: Int,
                    answered: BOOLEAN, blocked: BOOLEAN]
        /\ new.since <= now
        /\ new.step = "looking" => new.since = now /\ ~new.answered
    <3>1. CASE new = Told("none")
      BY <1>0, <3>1, ToldTyped, NeverIsPast
    <3>2. CASE new = IdleCaller
      BY <1>0, <3>2, NeverIsPast DEF IdleCaller
    <3>3. CASE new = [IdleCaller EXCEPT !.step = "looking", !.since = now]
      <4>1. new = [step |-> "looking", since |-> now, answered |-> FALSE, blocked |-> FALSE]
        BY <3>3 DEF IdleCaller
      <4> QED
        BY <1>0, <4>1
    <3> QED
      BY <2>1, <3>1, <3>2, <3>3
  <2>3. UNCHANGED <<now, blocked, cache, failOpen, lastSeen, lastFailure>>
    BY <1>5 DEF SkipLookup, BeginLookup, EndCaller
  <2> QED
    BY <1>4, <2>1, <2>2, <2>3
    DEF StandingInv, StandingTypeOK, NotAhead, CacheIsRecent, LeaveIsRecent
<1>6. ASSUME NEW c \in Caller, NEW answer \in {"none", "open", "blocked"},
             callers' = [callers EXCEPT ![c] = Told(answer)],
             UNCHANGED <<now, blocked, lastSeen>>
      PROVE  callers' \in [Caller -> [step: {"idle", "looking", "told"}, since: Int,
                                      answered: BOOLEAN, blocked: BOOLEAN]]
             /\ (\A d \in Caller : callers'[d].since <= now)
             /\ SeenNow' /\ LookupsEnd' /\ RepliesAreRecent'
  <2> DEFINE new == Told(answer)
  <2>1. /\ new \in [step: {"idle", "looking", "told"}, since: Int,
                    answered: BOOLEAN, blocked: BOOLEAN]
        /\ new.since <= now /\ new.step # "looking"
    BY <1>0, ToldTyped, NeverIsPast
  <2>2. callers' = [callers EXCEPT ![c] = new]
    BY <1>6
  <2> HIDE DEF new
  <2> QED
    BY <1>4, <1>6, <2>1, <2>2
<1>7. ASSUME NEW c \in Caller, AnswerFromCache(c) PROVE StandingInv'
  <2>1. /\ callers' = [callers EXCEPT ![c] = Told(IF cache.blocked THEN "blocked" ELSE "open")]
        /\ failOpen' = Never
        /\ UNCHANGED <<now, blocked, cache, lastSeen, lastFailure>>
    BY <1>7 DEF AnswerFromCache
  <2>2. Never <= lastFailure + FailOpenFor
    BY <1>0, NeverIsPast DEF StandingInv, LeaveIsRecent
  <2>3. PICK answer \in {"open", "blocked"} : callers' = [callers EXCEPT ![c] = Told(answer)]
    BY <2>1
  <2> QED
    BY <1>0, <1>6, <2>1, <2>2, <2>3, NeverIsPast
    DEF StandingInv, StandingTypeOK, NotAhead, CacheIsRecent, LeaveIsRecent
<1>8. ASSUME NEW c \in Caller, AnswerFromPlatform(c) PROVE StandingInv'
  <2>1. /\ callers' = [callers EXCEPT ![c] = Told(IF callers[c].blocked THEN "blocked" ELSE "open")]
        /\ cache' = [blocked |-> callers[c].blocked, at |-> now]
        /\ failOpen' = Never
        /\ UNCHANGED <<now, blocked, lastSeen, lastFailure>>
        /\ callers[c].step = "looking" /\ callers[c].answered
    BY <1>8 DEF AnswerFromPlatform
  <2>2. Never <= lastFailure + FailOpenFor
    BY <1>0, NeverIsPast DEF StandingInv, LeaveIsRecent
  <2>3. PICK answer \in {"open", "blocked"} : callers' = [callers EXCEPT ![c] = Told(answer)]
    BY <2>1
  <2>4. /\ callers[c].since <= lastSeen[callers[c].blocked]
        /\ now <= callers[c].since + LookupTimeout
        /\ callers[c].since \in Int /\ callers[c].blocked \in BOOLEAN
    BY <2>1, CallerTyped DEF StandingInv, RepliesAreRecent, LookupsEnd
  <2>5. cache' \in [blocked: BOOLEAN, at: Int] /\ cache.at' <= now /\ CacheIsRecent'
    BY <1>0, <2>1, <2>4 DEF CacheIsRecent
  <2> QED
    BY <1>0, <1>6, <2>1, <2>2, <2>3, <2>5, NeverIsPast
    DEF StandingInv, StandingTypeOK, NotAhead, LeaveIsRecent
<1>9. ASSUME NEW c \in Caller, FailLookup(c) PROVE StandingInv'
  <2>1. /\ callers' = [callers EXCEPT ![c] = Told("none")]
        /\ failOpen' = now + FailOpenFor /\ lastFailure' = now
        /\ UNCHANGED <<now, blocked, cache, lastSeen>>
    BY <1>9 DEF FailLookup
  <2>2. /\ callers' \in [Caller -> [step: {"idle", "looking", "told"}, since: Int,
                                   answered: BOOLEAN, blocked: BOOLEAN]]
        /\ \A d \in Caller : callers'[d].since <= now
        /\ SeenNow' /\ LookupsEnd' /\ RepliesAreRecent'
    BY <1>6, <2>1
  <2>3. LeaveIsRecent' /\ failOpen' \in Int /\ lastFailure' \in Int
    BY <1>0, <2>1, NeverIsPast DEF LeaveIsRecent
  <2>4. StandingTypeOK' /\ NotAhead' /\ CacheIsRecent'
    BY <1>0, <2>1, <2>2, <2>3 DEF StandingInv, StandingTypeOK, NotAhead, CacheIsRecent
  <2> QED
    BY <2>2, <2>3, <2>4 DEF StandingInv
<1>10. CASE UNCHANGED standingVars
  BY <1>10 DEF standingVars, StandingInv, StandingTypeOK, NotAhead, SeenNow, LookupsEnd,
    RepliesAreRecent, CacheIsRecent, LeaveIsRecent
<1> QED
  BY <1>1, <1>2, <1>3, <1>5, <1>7, <1>8, <1>9, <1>10 DEF StandingNext

\* The invariant holds always: in particular every variable keeps its type, for
\* any calls and any lifetimes.
THEOREM StandingTypeCorrect == StandingSpec => []StandingTypeOK
<1>1. StandingInv => StandingTypeOK
  BY DEF StandingInv
<1> QED
  BY StandingInitially, StandingKept, <1>1, PTL DEF StandingSpec

-----------------------------------------------------------------------------

\* What a step that tells a call something tells it.
LEMMA ToldRecently ==
  ASSUME StandingInv, [StandingNext]_standingVars, NEW c \in Caller,
         callers[c].step # "told", callers'[c].step = "told"
  PROVE  IF callers'[c].answered
         THEN now - lastSeen[callers'[c].blocked] <= CacheTtl + LookupTimeout
         ELSE now - lastFailure' < FailOpenFor
<1> USE StandingAssumption
<1>0. /\ now \in Nat /\ cache.at \in Int /\ cache.blocked \in BOOLEAN
      /\ failOpen \in Int /\ lastFailure \in Int
      /\ \A b \in BOOLEAN : lastSeen[b] \in Int
  BY DEF StandingInv, StandingTypeOK
<1>1. callers' # callers
  OBVIOUS
<1>2. PICK d \in Caller :
        \/ ServeStatus(d) \/ SkipLookup(d) \/ BeginLookup(d) \/ AnswerFromCache(d)
        \/ AnswerFromPlatform(d) \/ FailLookup(d) \/ EndCaller(d)
  BY <1>1 DEF StandingNext, standingVars, PassTime, ChangeStanding
<1>3. \E new : callers' = [callers EXCEPT ![d] = new]
  <2>1. ASSUME ServeStatus(d) PROVE \E new : callers' = [callers EXCEPT ![d] = new]
    <3>1. callers' = [callers EXCEPT ![d] = [callers[d] EXCEPT !.answered = TRUE, !.blocked = blocked]]
      BY <2>1, CallerTyped DEF ServeStatus, StandingInv, StandingTypeOK
    <3> QED
      BY <3>1
  <2>2. CASE ~ServeStatus(d)
    BY <1>2, <2>2 DEF SkipLookup, BeginLookup, AnswerFromCache, AnswerFromPlatform, FailLookup, EndCaller
  <2> QED
    BY <2>1, <2>2
<1>4. c = d
  BY <1>3 DEF StandingInv, StandingTypeOK
<1>5. CASE SkipLookup(d)
  <2>1. callers'[c] = Told("none") /\ failOpen > now /\ lastFailure' = lastFailure
    BY <1>4, <1>5 DEF SkipLookup, Remembered, StandingInv, StandingTypeOK
  <2> QED
    BY <1>0, <2>1, ToldTyped DEF StandingInv, LeaveIsRecent
<1>6. CASE AnswerFromCache(d)
  <2>1. PICK answer \in {"open", "blocked"} :
          callers'[c] = Told(answer) /\ (cache.blocked <=> answer = "blocked")
    BY <1>0, <1>4, <1>6 DEF AnswerFromCache, StandingInv, StandingTypeOK
  <2>2. callers'[c].answered /\ callers'[c].blocked = cache.blocked
    BY <1>0, <2>1, ToldTyped
  <2>3. now < cache.at + CacheTtl
    BY <1>6 DEF AnswerFromCache, Fresh
  <2>4. cache.at <= lastSeen[cache.blocked] + LookupTimeout
    BY DEF StandingInv, CacheIsRecent
  <2> QED
    BY <1>0, <2>2, <2>3, <2>4
<1>7. CASE AnswerFromPlatform(d)
  <2>0. callers[c].blocked \in BOOLEAN /\ callers[c].since \in Int
    BY CallerTyped DEF StandingInv
  <2>1. PICK answer \in {"open", "blocked"} :
          callers'[c] = Told(answer) /\ (callers[c].blocked <=> answer = "blocked")
    BY <2>0, <1>4, <1>7 DEF AnswerFromPlatform, StandingInv, StandingTypeOK
  <2>2. callers'[c].answered /\ callers'[c].blocked = callers[c].blocked
    BY <2>0, <2>1, ToldTyped
  <2>3. callers[c].since <= lastSeen[callers[c].blocked] /\ now <= callers[c].since + LookupTimeout
    BY <1>4, <1>7 DEF AnswerFromPlatform, StandingInv, RepliesAreRecent, LookupsEnd
  <2> QED
    BY <1>0, <2>0, <2>2, <2>3
<1>8. CASE FailLookup(d)
  <2>1. callers'[c] = Told("none") /\ lastFailure' = now
    BY <1>4, <1>8 DEF FailLookup, StandingInv, StandingTypeOK
  <2> QED
    BY <1>0, <2>1, ToldTyped
<1>9. CASE ServeStatus(d) \/ BeginLookup(d) \/ EndCaller(d)
  <2>1. CASE ServeStatus(d)
    <3>1. callers'[c].step = callers[c].step
      BY <1>4, <2>1, CallerTyped DEF ServeStatus, StandingInv, StandingTypeOK
    <3> QED
      BY <3>1
  <2>2. CASE BeginLookup(d)
    <3>1. callers'[c] = [step |-> "looking", since |-> now, answered |-> FALSE, blocked |-> FALSE]
      BY <1>4, <2>2 DEF BeginLookup, IdleCaller, StandingInv, StandingTypeOK
    <3> QED
      BY <3>1
  <2>3. CASE EndCaller(d)
    BY <1>4, <2>3 DEF EndCaller, IdleCaller, StandingInv, StandingTypeOK
  <2> QED
    BY <1>9, <2>1, <2>2, <2>3
<1> QED
  BY <1>2, <1>5, <1>6, <1>7, <1>8, <1>9

\* A completion is judged by a standing no older than the cache and one lookup
\* allow, or let through while a failure is remembered (Meter::status_for).
THEOREM JudgedRecently == StandingSpec => JudgedByRecentStanding
<1>1. StandingInv /\ [StandingNext]_standingVars =>
        [\A c \in Caller :
           callers[c].step # "told" /\ callers'[c].step = "told" =>
             IF callers'[c].answered
             THEN now - lastSeen[callers'[c].blocked] <= CacheTtl + LookupTimeout
             ELSE now - lastFailure' < FailOpenFor]_standingVars
  BY ToldRecently
<1> QED
  BY <1>1, StandingInitially, StandingKept, PTL DEF StandingSpec, JudgedByRecentStanding

=============================================================================
