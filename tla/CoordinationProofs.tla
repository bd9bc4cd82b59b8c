-------------------------- MODULE CoordinationProofs -------------------------
(***************************************************************************)
(* The three modules behind the tools of coord.rs. Their proofs stand in   *)
(* one module and have nothing in common: RepoLeases, MessageCursors,      *)
(* ChangeWatch, in this order.                                             *)
(*                                                                         *)
(* RepoLeases keeps the promises of LeasePromises, for any processes,      *)
(* accounts, resources and lifetimes. A promise that has not expired is a  *)
(* row, and each resource has one row that is not released. What a         *)
(* transaction is about to write was decided by statements that ran        *)
(* earlier, so the argument is about what an open transaction may still    *)
(* rely on at its commit: the rows it holds locked, and, if it inserts,    *)
(* that it alone works on its resource.                                    *)
(*                                                                         *)
(* MessageCursors keeps one message per key, and passes no message over    *)
(* unread, for any members, channels, keys and senders. A cursor stands at *)
(* a message that was shown or acknowledged unseen, so the argument is     *)
(* about what lies below such a message: what was committed then was       *)
(* shown, or is remembered as passed over, and what was not had its id     *)
(* already, and is remembered too.                                         *)
(*                                                                         *)
(* ChangeWatch wakes an agent for others' changes alone, for any agents,   *)
(* accounts and capacities: what is left in a receiver's queue was counted *)
(* when it came.                                                           *)
(***************************************************************************)
EXTENDS RepoLeases, MessageCursors, ChangeWatch, FiniteSetTheorems, SequenceTheorems, TLAPS

Row == [resource: Resource, holder: Account, expires: Nat, released: BOOLEAN]

\* The rows a transaction keeps locked.
Holds(tx, i) == i \in tx.reaped \/ (tx.step = "written" /\ tx.row = i)

Names(tx) == tx.row \in LeaseId /\ Inserted(tx.row) /\ lease[tx.row].resource = tx.resource

Owns(p, tx) ==
  Names(tx) /\ ~lease[tx.row].released /\ lease[tx.row].holder = AccountOf[p]

Inserts(tx) ==
  /\ tx.row \in LeaseId /\ ~Inserted(tx.row) /\ tx.call = "acquire"
  /\ Unreleased(tx.resource) \subseteq tx.reaped

\* What a transaction that is at some step may rely on.
TxSound(p, tx) ==
  /\ tx.step # "idle" => tx.now <= leaseClock /\ leaseClock <= tx.now + 1
  /\ tx.step \in {"idle", "begun"} => tx.reaped = {}
  /\ tx.step \in {"reaped", "waiting", "insert"} => tx.call = "acquire"
  /\ tx.step = "begun" /\ tx.call # "acquire" => Names(tx)
  /\ tx.step = "waiting" => Names(tx) /\ tx.row \notin tx.reaped
  /\ \A i \in tx.reaped :
       ~lease[i].released /\ lease[i].resource = tx.resource /\ lease[i].expires <= tx.now
  /\ tx.step \in {"reaped", "waiting"} =>
       \A i \in Unreleased(tx.resource) \ tx.reaped : lease[i].expires > tx.now
  /\ tx.step = "written" => tx.row \notin tx.reaped /\ (Owns(p, tx) \/ Inserts(tx))

\* Two transactions lock no row twice, and who inserts is alone.
Apart(tx, other) ==
  /\ \A i \in LeaseId : ~(Holds(tx, i) /\ Holds(other, i))
  /\ tx.step = "written" /\ ~Inserted(tx.row) /\ other.resource = tx.resource =>
       other.step # "written" /\ other.reaped = {}

TxsSound == \A p \in Process, tx \in LeaseTx : tx = leaseTx[p] => TxSound(p, tx)

TxsApart ==
  \A p, q \in Process, tx, other \in LeaseTx :
    p # q /\ tx = leaseTx[p] /\ other = leaseTx[q] => Apart(tx, other)

OneLive ==
  \A i, j \in LeaseId :
    ~lease[i].released /\ ~lease[j].released /\ lease[i].resource = lease[j].resource => i = j

RowIsPromise ==
  \A i \in LeaseId : ~lease[i].released =>
    promise[<<lease[i].holder, lease[i].resource>>] = lease[i].expires

PromiseIsRow ==
  \A a \in Account, r \in Resource : promise[<<a, r>>] > leaseClock =>
    \E i \in LeaseId : ~lease[i].released /\ lease[i].holder = a /\ lease[i].resource = r

RowsSound == OneLive /\ RowIsPromise /\ PromiseIsRow

LeaseInv == LeaseTypeOK /\ TxsSound /\ TxsApart /\ RowsSound

LEMMA TxTyped ==
  ASSUME LeaseTypeOK, NEW p \in Process
  PROVE  leaseTx[p] \in LeaseTx
BY DEF LeaseTypeOK

LEMMA RowTyped ==
  ASSUME LeaseTypeOK
  PROVE  /\ \A i \in LeaseId : ~lease[i].released => Inserted(i)
         /\ \A i \in LeaseId : Inserted(i) => lease[i] \in Row
         /\ \A i \in LeaseId : lease[i].released \in BOOLEAN
         /\ \A i \in LeaseId : Inserted(i) =>
              lease[i].resource \in Resource /\ lease[i].holder \in Account /\ lease[i].expires \in Nat
<1> SUFFICES ASSUME NEW i \in LeaseId
             PROVE  /\ ~lease[i].released => Inserted(i)
                    /\ Inserted(i) => lease[i] \in Row
                    /\ lease[i].released \in BOOLEAN
                    /\ Inserted(i) =>
                         lease[i].resource \in Resource /\ lease[i].holder \in Account /\ lease[i].expires \in Nat
  OBVIOUS
<1>1. lease[i] \in Row \/ lease[i] = [released |-> TRUE]
  BY DEF LeaseTypeOK, LeaseRow, Row
<1>2. CASE lease[i] \in Row
  BY <1>2 DEF Row, Inserted
<1>3. CASE lease[i] = [released |-> TRUE]
  BY <1>3 DEF Inserted
<1> QED
  BY <1>1, <1>2, <1>3

LEMMA IdleTyped ==
  /\ Idle \in LeaseTx
  /\ Idle.step = "idle" /\ Idle.reaped = {}
BY ResourceAssumption DEF Idle, LeaseTx

LEMMA IdleSound == \A p \in Process : TxSound(p, Idle)
BY IdleTyped DEF TxSound

LEMMA IdleApart ==
  ASSUME NEW tx \in LeaseTx
  PROVE  Apart(Idle, tx) /\ Apart(tx, Idle)
BY IdleTyped DEF Apart, Holds

\* One transaction takes a step that writes nothing yet.
LEMMA TxStep ==
  ASSUME LeaseInv, NEW p \in Process, NEW new \in LeaseTx,
         leaseTx' = [leaseTx EXCEPT ![p] = new],
         UNCHANGED <<leaseClock, lease, promise>>, held_up' \subseteq Process,
         TxSound(p, new),
         \A q \in Process \ {p}, other \in LeaseTx :
           other = leaseTx[q] => Apart(new, other) /\ Apart(other, new)
  PROVE  LeaseInv'
<1>1. /\ leaseTx' \in [Process -> LeaseTx]
      /\ leaseTx'[p] = new
      /\ \A q \in Process \ {p} : leaseTx'[q] = leaseTx[q]
  BY DEF LeaseInv, LeaseTypeOK
<1>2. LeaseTypeOK'
  BY <1>1 DEF LeaseInv, LeaseTypeOK
<1>3. \A q \in Process, tx \in LeaseTx : TxSound(q, tx) => TxSound(q, tx)'
  BY DEF TxSound, Names, Owns, Inserts, Inserted, Unreleased
<1>4. \A tx, other \in LeaseTx : Apart(tx, other) => Apart(tx, other)'
  BY DEF Apart, Holds, Inserted
<1>5. TxsSound'
  BY <1>1, <1>3 DEF LeaseInv, TxsSound
<1>6. TxsApart'
  <2> SUFFICES ASSUME NEW q \in Process, NEW v \in Process,
                      NEW tx \in LeaseTx, NEW other \in LeaseTx,
                      q # v, tx = leaseTx'[q], other = leaseTx'[v]
               PROVE  Apart(tx, other)'
    BY DEF TxsApart
  <2>1. Apart(tx, other)
    BY <1>1 DEF LeaseInv, TxsApart
  <2> QED
    BY <1>4, <2>1
<1>7. RowsSound'
  BY DEF LeaseInv, RowsSound, OneLive, RowIsPromise, PromiseIsRow
<1> QED
  BY <1>2, <1>5, <1>6, <1>7 DEF LeaseInv

\* What the invariant says of one transaction and of another.
LEMMA OfTx ==
  ASSUME LeaseInv, NEW p \in Process
  PROVE  /\ leaseTx[p] \in LeaseTx
         /\ TxSound(p, leaseTx[p])
         /\ \A q \in Process \ {p}, other \in LeaseTx : other = leaseTx[q] =>
              Apart(leaseTx[p], other) /\ Apart(other, leaseTx[p]) /\ TxSound(q, other)
<1>1. LeaseTypeOK /\ TxsSound /\ TxsApart
  BY DEF LeaseInv
<1>2. PICK tx \in LeaseTx : tx = leaseTx[p]
  BY <1>1, TxTyped
<1>3. TxSound(p, tx)
  BY <1>1, <1>2 DEF TxsSound
<1>4. \A q \in Process \ {p}, other \in LeaseTx : other = leaseTx[q] =>
        Apart(tx, other) /\ Apart(other, tx) /\ TxSound(q, other)
  BY <1>1, <1>2 DEF TxsSound, TxsApart
<1> QED
  BY <1>2, <1>3, <1>4

\* A row no other transaction has locked.
LEMMA NotHeld ==
  ASSUME LeaseInv, NEW p \in Process, NEW i \in LeaseId, ~LockedByOther(p, i)
  PROVE  \A q \in Process \ {p}, other \in LeaseTx : other = leaseTx[q] => ~Holds(other, i)
<1> SUFFICES ASSUME NEW q \in Process \ {p}, NEW other \in LeaseTx, other = leaseTx[q],
                    Holds(other, i)
             PROVE  FALSE
  OBVIOUS
<1>1. TxSound(q, other)
  BY DEF LeaseInv, TxsSound
<1>2. other.step # "idle"
  BY <1>1 DEF TxSound, Holds
<1> QED
  BY <1>2 DEF LockedByOther, Holds

\* Whoever inserts has reaped every row of its resource.
LEMMA InserterReaped ==
  ASSUME LeaseInv, NEW q \in Process, NEW other \in LeaseTx, other = leaseTx[q],
         other.step = "written", ~Inserted(other.row), NEW i \in Unreleased(other.resource)
  PROVE  Holds(other, i)
<1>1. TxSound(q, other)
  BY DEF LeaseInv, TxsSound
<1> QED
  BY <1>1 DEF TxSound, Owns, Names, Inserts, Holds

LEMMA RefuseKeeps ==
  ASSUME LeaseInv, NEW p \in Process, NEW error, Refuse(p, error)
  PROVE  LeaseInv'
<1>1. /\ leaseTx' = [leaseTx EXCEPT ![p] = Idle]
      /\ UNCHANGED <<leaseClock, lease, promise>>
      /\ held_up' \subseteq Process
  BY DEF Refuse, LeaseInv, LeaseTypeOK
<1> QED
  BY <1>1, IdleTyped, IdleSound, IdleApart, TxStep

LEMMA TickKeeps ==
  ASSUME LeaseInv, LeaseTick
  PROVE  LeaseInv'
<1>1. /\ \A p \in Process : leaseTx[p].step # "idle" => leaseTx[p].now = leaseClock
      /\ leaseClock' = leaseClock + 1
      /\ UNCHANGED <<lease, leaseTx, held_up, promise>>
  BY DEF LeaseTick
<1>2. LeaseTypeOK /\ TxsSound /\ TxsApart /\ RowsSound /\ leaseClock \in Nat
  BY DEF LeaseInv, LeaseTypeOK
<1>3. LeaseTypeOK'
  BY <1>1, <1>2 DEF LeaseTypeOK
<1>4. TxsSound'
  <2> SUFFICES ASSUME NEW p \in Process, NEW tx \in LeaseTx, tx = leaseTx[p]
               PROVE  TxSound(p, tx)'
    BY <1>1 DEF TxsSound
  <2>1. TxSound(p, tx)
    BY <1>2 DEF TxsSound
  <2>2. tx.step # "idle" => tx.now <= leaseClock' /\ leaseClock' <= tx.now + 1
    BY <1>1, <1>2
  <2> QED
    BY <1>1, <2>1, <2>2 DEF TxSound, Names, Owns, Inserts, Inserted, Unreleased
<1>5. TxsApart'
  <2>1. \A tx, other \in LeaseTx : Apart(tx, other) => Apart(tx, other)'
    BY <1>1 DEF Apart, Holds, Inserted
  <2> QED
    BY <1>1, <1>2, <2>1 DEF TxsApart
<1>6. RowsSound'
  <2>1. \A a \in Account, r \in Resource : promise[<<a, r>>] \in Nat
    BY <1>2 DEF LeaseTypeOK
  <2>2. \A a \in Account, r \in Resource :
          promise[<<a, r>>] > leaseClock + 1 => promise[<<a, r>>] > leaseClock
    BY <1>2, <2>1
  <2>3. PromiseIsRow'
    BY <1>1, <1>2, <2>2 DEF RowsSound, PromiseIsRow
  <2> QED
    BY <1>1, <1>2, <2>3 DEF RowsSound, OneLive, RowIsPromise
<1> QED
  BY <1>3, <1>4, <1>5, <1>6 DEF LeaseInv

\* A call begins; an id it names is that of a row that was inserted.
LEMMA BeginKeeps ==
  ASSUME LeaseInv, NEW p \in Process, NEW call \in {"acquire", "renew", "release"},
         NEW r \in Resource, NEW i \in LeaseId \cup {0}, NEW ttl \in Ttl,
         call # "acquire" => i \in LeaseId /\ Inserted(i) /\ lease[i].resource = r,
         BeginCall(p, call, r, i, ttl)
  PROVE  LeaseInv'
<1> DEFINE new == [step |-> "begun", call |-> call, now |-> leaseClock,
                   resource |-> r, ttl |-> ttl, row |-> i, reaped |-> {}]
<1>1. leaseClock \in Nat
  BY DEF LeaseInv, LeaseTypeOK
<1>2. /\ new \in LeaseTx
      /\ new.step = "begun" /\ new.call = call /\ new.now = leaseClock
      /\ new.resource = r /\ new.row = i /\ new.reaped = {}
  BY <1>1 DEF LeaseTx
<1>3. /\ leaseTx' = [leaseTx EXCEPT ![p] = new]
      /\ UNCHANGED <<leaseClock, lease, promise>>
      /\ held_up' \subseteq Process
  BY DEF BeginCall, LeaseInv, LeaseTypeOK
<1> HIDE DEF new
<1>4. TxSound(p, new)
  BY <1>1, <1>2 DEF TxSound, Names
<1>5. \A q \in Process \ {p}, other \in LeaseTx :
        other = leaseTx[q] => Apart(new, other) /\ Apart(other, new)
  BY <1>2 DEF Apart, Holds
<1>6. PICK const \in LeaseTx : const = new
  BY <1>2
<1> QED
  BY <1>2, <1>3, <1>4, <1>5, <1>6, TxStep

LEMMA ReapKeeps ==
  ASSUME LeaseInv, NEW p \in Process, Reap(p)
  PROVE  LeaseInv'
<1>1. PICK tx \in LeaseTx : tx = leaseTx[p]
  BY TxTyped DEF LeaseInv
<1>2. PICK expired \in SUBSET LeaseId :
        expired = {i \in Unreleased(tx.resource) : Expired(i, tx.now)}
  BY DEF Unreleased
<1> DEFINE new == [tx EXCEPT !.step = "reaped", !.reaped = expired]
<1>3. /\ tx.step = "begun" /\ tx.call = "acquire"
      /\ \A i \in expired : ~LockedByOther(p, i)
      /\ leaseTx' = [leaseTx EXCEPT ![p] = new]
      /\ UNCHANGED <<leaseClock, lease, held_up, promise>>
  BY <1>1, <1>2 DEF Reap, Proceed
<1>4. /\ new \in LeaseTx
      /\ new.step = "reaped" /\ new.now = tx.now /\ new.resource = tx.resource
      /\ new.reaped = expired /\ new.call = tx.call
  BY DEF LeaseTx
<1> HIDE DEF new
<1>5. TxSound(p, tx)
  BY <1>1, OfTx
<1>6. tx.now \in Nat
  BY DEF LeaseTx
<1>7. \A i \in Unreleased(tx.resource) : i \in LeaseId /\ ~lease[i].released /\ lease[i].resource = tx.resource
  BY DEF Unreleased
<1>8. \A i \in Unreleased(tx.resource) : lease[i].expires \in Nat
  BY <1>7, RowTyped DEF LeaseInv
<1>9. TxSound(p, new)
  <2>1. \A i \in expired :
          ~lease[i].released /\ lease[i].resource = tx.resource /\ lease[i].expires <= tx.now
    BY <1>2, <1>7 DEF Expired
  <2>2. \A i \in Unreleased(tx.resource) \ expired : lease[i].expires > tx.now
    BY <1>2, <1>6, <1>8 DEF Expired
  <2> QED
    BY <1>3, <1>4, <1>5, <2>1, <2>2 DEF TxSound
<1>10. ASSUME NEW q \in Process \ {p}, NEW other \in LeaseTx, other = leaseTx[q]
       PROVE  Apart(new, other) /\ Apart(other, new)
  <2>1. \A i \in expired : ~Holds(other, i)
    BY <1>3, <1>10, NotHeld
  <2>2. ASSUME other.step = "written", ~Inserted(other.row), other.resource = new.resource
        PROVE  expired = {}
    <3>1. \A i \in Unreleased(other.resource) : Holds(other, i)
      BY <1>10, <2>2, InserterReaped
    <3> QED
      BY <1>2, <1>4, <2>1, <2>2, <3>1
  <2> QED
    BY <1>4, <2>1, <2>2 DEF Apart, Holds
<1>11. held_up' \subseteq Process
  BY <1>3 DEF LeaseInv, LeaseTypeOK
<1> QED
  BY <1>3, <1>4, <1>9, <1>10, <1>11, TxStep

\* A call is to write a row of its own that nobody else has locked.
LEMMA WriteKeeps ==
  ASSUME LeaseInv, NEW p \in Process, NEW tx \in LeaseTx, tx = leaseTx[p], tx.step # "idle",
         NEW i \in LeaseId, NEW new \in LeaseTx,
         new = [tx EXCEPT !.step = "written", !.row = i],
         ~LockedByOther(p, i), ~lease[i].released, i \notin tx.reaped,
         lease[i].resource = tx.resource, lease[i].holder = AccountOf[p],
         leaseTx' = [leaseTx EXCEPT ![p] = new],
         UNCHANGED <<leaseClock, lease, held_up, promise>>
  PROVE  LeaseInv'
<1>1. /\ new.step = "written" /\ new.now = tx.now /\ new.resource = tx.resource
      /\ new.reaped = tx.reaped /\ new.row = i
  BY DEF LeaseTx
<1>2. TxSound(p, tx)
  BY OfTx
<1>3. Inserted(i)
  BY RowTyped DEF LeaseInv
<1>4. TxSound(p, new)
  BY <1>1, <1>2, <1>3 DEF TxSound, Owns, Names
<1>5. ASSUME NEW q \in Process \ {p}, NEW other \in LeaseTx, other = leaseTx[q]
      PROVE  Apart(new, other) /\ Apart(other, new)
  <2>1. Apart(tx, other) /\ Apart(other, tx)
    BY <1>5, OfTx
  <2>2. ~Holds(other, i)
    BY <1>5, NotHeld
  <2>3. i \in Unreleased(tx.resource)
    BY DEF Unreleased
  <2>4. ~(other.step = "written" /\ ~Inserted(other.row) /\ new.resource = other.resource)
    BY <1>1, <1>5, <2>2, <2>3, InserterReaped
  <2>5. \A j \in LeaseId : ~(Holds(new, j) /\ Holds(other, j))
    BY <1>1, <2>1, <2>2 DEF Apart, Holds
  <2> QED
    BY <1>1, <1>3, <2>4, <2>5 DEF Apart
<1>6. held_up' \subseteq Process
  BY DEF LeaseInv, LeaseTypeOK
<1> QED
  BY <1>4, <1>5, <1>6, TxStep

LEMMA WrittenTyped ==
  ASSUME NEW tx \in LeaseTx, NEW i \in LeaseId
  PROVE  [tx EXCEPT !.step = "written", !.row = i] \in LeaseTx
BY DEF LeaseTx

LEMMA JudgeKeeps ==
  ASSUME LeaseInv, NEW p \in Process, leaseTx[p].step # "idle", NEW i \in LeaseId,
         ~lease[i].released, lease[i].resource = leaseTx[p].resource,
         i \notin leaseTx[p].reaped, ~LockedByOther(p, i), Judge(p, i)
  PROVE  LeaseInv'
<1>1. PICK tx \in LeaseTx : tx = leaseTx[p]
  BY TxTyped DEF LeaseInv
<1>2. CASE lease[i].holder # AccountOf[p]
  BY <1>2, RefuseKeeps DEF Judge
<1>3. CASE lease[i].holder = AccountOf[p]
  <2>1. PICK new \in LeaseTx : new = [tx EXCEPT !.step = "written", !.row = i]
    BY WrittenTyped
  <2>2. /\ leaseTx' = [leaseTx EXCEPT ![p] = new]
        /\ UNCHANGED <<leaseClock, lease, held_up, promise>>
    BY <1>1, <1>3, <2>1 DEF Judge, Proceed
  <2> QED
    BY <1>1, <1>3, <2>1, <2>2, WriteKeeps
<1> QED
  BY <1>2, <1>3

LEMMA UpdateKeeps ==
  ASSUME LeaseInv, NEW p \in Process, UpdateOwn(p)
  PROVE  LeaseInv'
<1>1. PICK tx \in LeaseTx : tx = leaseTx[p]
  BY TxTyped DEF LeaseInv
<1>2. /\ tx.step = "begun" /\ tx.call # "acquire"
      /\ ~LockedByOther(p, tx.row)
  BY <1>1 DEF UpdateOwn
<1>3. CASE ~OwnLive(p, tx.row)
  BY <1>1, <1>3, RefuseKeeps DEF UpdateOwn
<1>4. CASE OwnLive(p, tx.row)
  <2>1. TxSound(p, tx)
    BY <1>1, OfTx
  <2>2. tx.row \in LeaseId /\ lease[tx.row].resource = tx.resource /\ tx.row \notin tx.reaped
    BY <1>2, <2>1 DEF TxSound, Names
  <2>3. ~lease[tx.row].released /\ lease[tx.row].holder = AccountOf[p]
    BY <1>4 DEF OwnLive
  <2>4. PICK i \in LeaseId : i = tx.row
    BY <2>2
  <2>5. [tx EXCEPT !.step = "written"] = [tx EXCEPT !.step = "written", !.row = i]
    BY <2>4 DEF LeaseTx
  <2>6. PICK new \in LeaseTx : new = [tx EXCEPT !.step = "written", !.row = i]
    BY WrittenTyped
  <2>7. /\ leaseTx' = [leaseTx EXCEPT ![p] = new]
        /\ UNCHANGED <<leaseClock, lease, held_up, promise>>
    BY <1>1, <1>4, <2>5, <2>6 DEF UpdateOwn, Proceed
  <2> QED
    BY <1>1, <1>2, <2>2, <2>3, <2>4, <2>6, <2>7, WriteKeeps
<1> QED
  BY <1>3, <1>4

\* A call that has reaped goes on to insert.
LEMMA ToInsertKeeps ==
  ASSUME LeaseInv, NEW p \in Process, NEW tx \in LeaseTx, tx = leaseTx[p],
         tx.step \in {"reaped", "waiting"}, NEW row \in LeaseId \cup {0},
         leaseTx' = [leaseTx EXCEPT ![p] = [tx EXCEPT !.step = "insert", !.row = row]],
         UNCHANGED <<leaseClock, lease, held_up, promise>>
  PROVE  LeaseInv'
<1> DEFINE new == [tx EXCEPT !.step = "insert", !.row = row]
<1>1. /\ new \in LeaseTx
      /\ new.step = "insert" /\ new.now = tx.now /\ new.resource = tx.resource
      /\ new.reaped = tx.reaped /\ new.call = tx.call
  BY DEF LeaseTx
<1>2. leaseTx' = [leaseTx EXCEPT ![p] = new]
  OBVIOUS
<1> HIDE DEF new
<1>3. TxSound(p, tx)
  BY OfTx
<1>4. TxSound(p, new)
  BY <1>1, <1>3 DEF TxSound
<1>5. ASSUME NEW q \in Process \ {p}, NEW other \in LeaseTx, other = leaseTx[q]
      PROVE  Apart(new, other) /\ Apart(other, new)
  <2>1. Apart(tx, other) /\ Apart(other, tx)
    BY <1>5, OfTx
  <2> QED
    BY <1>1, <2>1 DEF Apart, Holds
<1>6. held_up' \subseteq Process
  BY DEF LeaseInv, LeaseTypeOK
<1> QED
  BY <1>1, <1>2, <1>4, <1>5, <1>6, TxStep

\* A call that has reaped waits for a row somebody else has locked.
LEMMA ToWaitKeeps ==
  ASSUME LeaseInv, NEW p \in Process, NEW tx \in LeaseTx, tx = leaseTx[p],
         tx.step = "reaped", NEW i \in Unreleased(tx.resource) \ tx.reaped,
         leaseTx' = [leaseTx EXCEPT ![p] = [tx EXCEPT !.step = "waiting", !.row = i]],
         UNCHANGED <<leaseClock, lease, held_up, promise>>
  PROVE  LeaseInv'
<1> DEFINE new == [tx EXCEPT !.step = "waiting", !.row = i]
<1>1. i \in LeaseId /\ ~lease[i].released /\ lease[i].resource = tx.resource
  BY DEF Unreleased
<1>2. /\ new \in LeaseTx
      /\ new.step = "waiting" /\ new.now = tx.now /\ new.resource = tx.resource
      /\ new.reaped = tx.reaped /\ new.row = i /\ new.call = tx.call
  BY <1>1 DEF LeaseTx
<1>3. leaseTx' = [leaseTx EXCEPT ![p] = new]
  OBVIOUS
<1> HIDE DEF new
<1>4. TxSound(p, tx)
  BY OfTx
<1>5. Inserted(i)
  BY <1>1, RowTyped DEF LeaseInv
<1>6. TxSound(p, new)
  BY <1>1, <1>2, <1>4, <1>5 DEF TxSound, Names
<1>7. ASSUME NEW q \in Process \ {p}, NEW other \in LeaseTx, other = leaseTx[q]
      PROVE  Apart(new, other) /\ Apart(other, new)
  <2>1. Apart(tx, other) /\ Apart(other, tx)
    BY <1>7, OfTx
  <2> QED
    BY <1>2, <2>1 DEF Apart, Holds
<1>8. held_up' \subseteq Process
  BY DEF LeaseInv, LeaseTypeOK
<1> QED
  BY <1>2, <1>3, <1>6, <1>7, <1>8, TxStep

LEMMA LookKeeps ==
  ASSUME LeaseInv, NEW p \in Process, Look(p)
  PROVE  LeaseInv'
<1>1. PICK tx \in LeaseTx : tx = leaseTx[p]
  BY TxTyped DEF LeaseInv
<1>2. tx.step = "reaped"
  BY <1>1 DEF Look
<1>3. CASE Proceed(p, [tx EXCEPT !.step = "insert"])
  <2>1. PICK row \in LeaseId \cup {0} : row = tx.row
    BY DEF LeaseTx
  <2>2. [tx EXCEPT !.step = "insert"] = [tx EXCEPT !.step = "insert", !.row = row]
    BY <2>1 DEF LeaseTx
  <2> QED
    BY <1>1, <1>2, <1>3, <2>2, ToInsertKeeps DEF Proceed
<1>4. ASSUME NEW i \in Unreleased(tx.resource) \ tx.reaped,
             IF LockedByOther(p, i)
             THEN Proceed(p, [tx EXCEPT !.step = "waiting", !.row = i])
             ELSE Judge(p, i)
      PROVE  LeaseInv'
  <2>1. i \in LeaseId /\ ~lease[i].released /\ lease[i].resource = tx.resource
    BY DEF Unreleased
  <2>2. CASE LockedByOther(p, i)
    BY <1>1, <1>2, <1>4, <2>2, ToWaitKeeps DEF Proceed
  <2>3. CASE ~LockedByOther(p, i)
    BY <1>1, <1>2, <1>4, <2>1, <2>3, JudgeKeeps
  <2> QED
    BY <2>2, <2>3
<1> QED
  BY <1>1, <1>3, <1>4 DEF Look

LEMMA GrantedKeeps ==
  ASSUME LeaseInv, NEW p \in Process, LockGranted(p)
  PROVE  LeaseInv'
<1>1. PICK tx \in LeaseTx : tx = leaseTx[p]
  BY TxTyped DEF LeaseInv
<1>2. tx.step = "waiting" /\ ~LockedByOther(p, tx.row)
  BY <1>1 DEF LockGranted
<1>3. TxSound(p, tx)
  BY <1>1, OfTx
<1>4. tx.row \in LeaseId /\ lease[tx.row].resource = tx.resource /\ tx.row \notin tx.reaped
  BY <1>2, <1>3 DEF TxSound, Names
<1>5. CASE lease[tx.row].released
  <2>1. Proceed(p, [tx EXCEPT !.step = "insert", !.row = 0])
    BY <1>1, <1>5 DEF LockGranted
  <2> QED
    BY <1>1, <1>2, <2>1, ToInsertKeeps DEF Proceed
<1>6. CASE ~lease[tx.row].released
  <2>1. Judge(p, tx.row)
    BY <1>1, <1>6 DEF LockGranted
  <2> QED
    BY <1>1, <1>2, <1>4, <1>6, <2>1, JudgeKeeps
<1> QED
  BY <1>5, <1>6

\* The index lets an insert through only when nobody else works on the resource.
LEMMA InsertKeeps ==
  ASSUME LeaseInv, NEW p \in Process, InsertLease(p)
  PROVE  LeaseInv'
<1>1. PICK tx \in LeaseTx : tx = leaseTx[p]
  BY TxTyped DEF LeaseInv
<1> DEFINE taken == Unreleased(tx.resource) \ tx.reaped
<1>2. /\ tx.step = "insert"
      /\ \A q \in Process \ {p} :
           leaseTx[q].resource = tx.resource =>
             leaseTx[q].step # "written" /\ leaseTx[q].reaped = {}
  BY <1>1 DEF InsertLease
<1>3. CASE taken # {}
  BY <1>1, <1>3, RefuseKeeps DEF InsertLease
<1>4. CASE taken = {}
  <2>1. PICK i \in LeaseId :
          Unused(i) /\ Proceed(p, [tx EXCEPT !.step = "written", !.row = i])
    BY <1>1, <1>4 DEF InsertLease
  <2>2. PICK new \in LeaseTx : new = [tx EXCEPT !.step = "written", !.row = i]
    BY WrittenTyped
  <2>3. /\ leaseTx' = [leaseTx EXCEPT ![p] = new]
        /\ UNCHANGED <<leaseClock, lease, held_up, promise>>
    BY <2>1, <2>2 DEF Proceed
  <2>4. /\ new.step = "written" /\ new.now = tx.now /\ new.resource = tx.resource
        /\ new.reaped = tx.reaped /\ new.row = i /\ new.call = tx.call
    BY <2>2 DEF LeaseTx
  <2>5. TxSound(p, tx)
    BY <1>1, OfTx
  <2>6. ~Inserted(i)
    BY <2>1 DEF Unused
  <2>7. TxSound(p, new)
    <3>1. i \notin tx.reaped
      BY <2>5, <2>6, RowTyped DEF TxSound, LeaseInv
    <3> QED
      BY <1>2, <1>4, <2>4, <2>5, <2>6, <3>1 DEF TxSound, Inserts
  <2>8. ASSUME NEW q \in Process \ {p}, NEW other \in LeaseTx, other = leaseTx[q]
        PROVE  Apart(new, other) /\ Apart(other, new)
    <3>1. Apart(tx, other) /\ Apart(other, tx) /\ TxSound(q, other)
      BY <1>1, <2>8, OfTx
    <3>2. \A j \in other.reaped : ~lease[j].released /\ j \in LeaseId
      BY <3>1 DEF TxSound, LeaseTx
    <3>3. ~Holds(other, i)
      BY <2>1, <2>6, <2>8, <3>2, RowTyped DEF Unused, Holds, LeaseInv
    <3>4. other.resource = new.resource => other.step # "written" /\ other.reaped = {}
      BY <1>2, <2>4, <2>8
    <3>5. \A j \in LeaseId : ~(Holds(new, j) /\ Holds(other, j))
      BY <1>2, <2>4, <3>1, <3>3 DEF Apart, Holds
    <3> QED
      BY <3>4, <3>5 DEF Apart
  <2>9. held_up' \subseteq Process
    BY <2>3 DEF LeaseInv, LeaseTypeOK
  <2> QED
    BY <2>3, <2>7, <2>8, <2>9, TxStep
<1> QED
  BY <1>3, <1>4

-----------------------------------------------------------------------------
(* Commit. *)

Until(tx) == IF tx.call = "release" THEN 0 ELSE tx.now + tx.ttl

LEMMA UntilTyped ==
  ASSUME NEW tx \in LeaseTx
  PROVE  /\ Until(tx) \in Nat /\ tx.now \in Nat
         /\ tx.call # "release" => Until(tx) > tx.now + 1
<1>1. tx.ttl \in Ttl /\ tx.now \in Nat
  BY DEF LeaseTx
<1>2. tx.ttl \in Nat /\ tx.ttl # 0 /\ tx.ttl # 1
  BY <1>1, TtlAssumption
<1> QED
  BY <1>1, <1>2 DEF Until

\* What a commit leaves in the table.
LEMMA CommitRows ==
  ASSUME LeaseInv, NEW p \in Process, CommitLease(p), NEW tx \in LeaseTx, tx = leaseTx[p]
  PROVE  /\ tx.step = "written" /\ tx.row \in LeaseId
         /\ lease' \in [LeaseId -> LeaseRow]
         /\ Inserted(tx.row)'
         /\ lease'[tx.row].resource = tx.resource
         /\ lease'[tx.row].holder = AccountOf[p]
         /\ lease'[tx.row].released = (tx.call = "release")
         /\ tx.call # "release" => lease'[tx.row].expires = Until(tx)
         /\ \A i \in LeaseId : ~Holds(tx, i) => lease'[i] = lease[i]
         /\ tx.row \notin tx.reaped
         /\ \A i \in tx.reaped : i # tx.row =>
              lease'[i].released /\ Inserted(i)' /\ lease'[i].resource = lease[i].resource
<1> DEFINE written == [resource |-> tx.resource, holder |-> AccountOf[p],
                       expires |-> IF Until(tx) = 0 THEN lease[tx.row].expires ELSE Until(tx),
                       released |-> tx.call = "release"]
<1>1. /\ tx.step = "written"
      /\ lease' = [i \in LeaseId |->
                     CASE i = tx.row -> written
                       [] i \in tx.reaped -> [lease[i] EXCEPT !.released = TRUE]
                       [] OTHER -> lease[i]]
  BY DEF CommitLease, Until
<1>2. LeaseTypeOK /\ TxSound(p, tx)
  BY OfTx DEF LeaseInv
<1>3. tx.row \in LeaseId
  BY <1>1, <1>2 DEF TxSound, Owns, Names, Inserts
<1>4. tx.resource \in Resource /\ AccountOf[p] \in Account /\ (tx.call = "release") \in BOOLEAN
  BY AccountOfAssumption DEF LeaseTx
<1>5. tx.call # "release" => Until(tx) # 0
  BY UntilTyped
<1>6. tx.call = "release" => lease[tx.row].expires \in Nat
  BY <1>1, <1>2, RowTyped DEF TxSound, Owns, Names, Inserts
<1>7. written \in Row
  BY <1>4, <1>5, <1>6, UntilTyped DEF Row
<1>8. /\ written.resource = tx.resource /\ written.holder = AccountOf[p]
      /\ written.released = (tx.call = "release")
      /\ tx.call # "release" => written.expires = Until(tx)
  BY <1>5
<1> HIDE DEF written
<1>9. lease'[tx.row] = written
  <2>1. tx.row \notin tx.reaped
    BY <1>1, <1>2 DEF TxSound
  <2> QED
    BY <1>1, <1>3, <2>1
<1>10. \A i \in LeaseId : ~Holds(tx, i) => lease'[i] = lease[i]
  BY <1>1 DEF Holds
<1>11. ASSUME NEW i \in tx.reaped, i # tx.row
       PROVE  /\ lease'[i] \in Row /\ lease'[i].released
              /\ lease'[i].resource = lease[i].resource
  <2>1. i \in LeaseId /\ ~lease[i].released
    BY <1>2 DEF TxSound, LeaseTx
  <2>2. lease[i] \in Row
    BY <1>2, <2>1, RowTyped
  <2>3. lease'[i] = [lease[i] EXCEPT !.released = TRUE]
    BY <1>1, <1>11, <2>1
  <2> QED
    BY <2>2, <2>3 DEF Row
<1>12. ASSUME NEW i \in LeaseId
       PROVE  lease'[i] \in LeaseRow
  <2>1. CASE i = tx.row
    BY <1>7, <1>9, <2>1 DEF LeaseRow, Row
  <2>2. CASE i # tx.row /\ i \in tx.reaped
    BY <1>11, <2>2 DEF LeaseRow, Row
  <2>3. CASE i # tx.row /\ i \notin tx.reaped
    BY <1>2, <1>10, <2>3 DEF Holds, LeaseTypeOK
  <2> QED
    BY <2>1, <2>2, <2>3
<1>13. lease' \in [LeaseId -> LeaseRow]
  <2>1. lease' = [i \in LeaseId |-> lease'[i]]
    BY <1>1
  <2> QED
    BY <1>12, <2>1
<1>14. Inserted(tx.row)' /\ \A i \in tx.reaped : i # tx.row => Inserted(i)'
  BY <1>7, <1>9, <1>11 DEF Row, Inserted
<1> QED
  BY <1>1, <1>2, <1>3, <1>8, <1>9, <1>10, <1>11, <1>13, <1>14 DEF TxSound

\* Another transaction is not disturbed.
LEMMA CommitOthers ==
  ASSUME LeaseInv, NEW p \in Process, CommitLease(p), NEW tx \in LeaseTx, tx = leaseTx[p],
         NEW q \in Process \ {p}, NEW other \in LeaseTx, other = leaseTx[q]
  PROVE  TxSound(q, other)'
<1>1. /\ tx.step = "written" /\ tx.row \in LeaseId
      /\ Inserted(tx.row)'
      /\ lease'[tx.row].resource = tx.resource
      /\ lease'[tx.row].released = (tx.call = "release")
      /\ tx.call # "release" => lease'[tx.row].expires = Until(tx)
      /\ \A i \in LeaseId : ~Holds(tx, i) => lease'[i] = lease[i]
      /\ \A i \in tx.reaped : i # tx.row =>
           lease'[i].released /\ Inserted(i)' /\ lease'[i].resource = lease[i].resource
  BY CommitRows
<1>2. /\ TxSound(p, tx) /\ TxSound(q, other)
      /\ Apart(tx, other) /\ Apart(other, tx)
  BY OfTx
<1>3. leaseClock' = leaseClock
  BY DEF CommitLease
<1>4. \A i \in LeaseId : Inserted(i) => Inserted(i)' /\ lease'[i].resource = lease[i].resource
  <2> SUFFICES ASSUME NEW i \in LeaseId, Inserted(i)
               PROVE  Inserted(i)' /\ lease'[i].resource = lease[i].resource
    OBVIOUS
  <2>1. CASE i = tx.row
    BY <1>1, <1>2, <2>1 DEF TxSound, Owns, Names, Inserts
  <2>2. CASE i # tx.row /\ i \in tx.reaped
    BY <1>1, <2>2
  <2>3. CASE i # tx.row /\ i \notin tx.reaped
    BY <1>1, <2>3 DEF Holds, Inserted
  <2> QED
    BY <2>1, <2>2, <2>3
<1>5. Names(other) => Names(other)'
  BY <1>4 DEF Names
<1>6. \A i \in LeaseId : Holds(other, i) => lease'[i] = lease[i]
  BY <1>1, <1>2 DEF Apart
<1>7. \A i \in other.reaped :
        ~lease'[i].released /\ lease'[i].resource = other.resource /\ lease'[i].expires <= other.now
  <2>1. \A i \in other.reaped : i \in LeaseId /\ Holds(other, i)
    BY DEF LeaseTx, Holds
  <2> QED
    BY <1>2, <1>6, <2>1 DEF TxSound
<1>8. ASSUME NEW i \in LeaseId, ~lease'[i].released, i # tx.row
      PROVE  ~lease[i].released /\ lease'[i] = lease[i]
  <2>1. ~Holds(tx, i)
    BY <1>1, <1>8 DEF Holds
  <2> QED
    BY <1>1, <1>8, <2>1
<1>9. ASSUME other.step \in {"reaped", "waiting"},
             NEW i \in LeaseId, ~lease'[i].released, lease'[i].resource = other.resource,
             i \notin other.reaped
      PROVE  lease'[i].expires > other.now
  <2>1. CASE i = tx.row
    <3>1. tx.call # "release"
      BY <1>1, <1>9, <2>1
    <3>2. lease'[i].expires = Until(tx) /\ Until(tx) > tx.now + 1
      BY <1>1, <2>1, <3>1, UntilTyped
    <3>3. leaseClock <= tx.now + 1 /\ other.now <= leaseClock
      BY <1>1, <1>2, <1>9 DEF TxSound
    <3>4. leaseClock \in Nat /\ tx.now \in Nat /\ other.now \in Nat /\ Until(tx) \in Nat
      BY UntilTyped DEF LeaseInv, LeaseTypeOK
    <3> QED
      BY <3>2, <3>3, <3>4
  <2>2. CASE i # tx.row
    <3>1. ~lease[i].released /\ lease'[i] = lease[i]
      BY <1>8, <1>9, <2>2
    <3>2. i \in Unreleased(other.resource) \ other.reaped
      BY <1>9, <3>1 DEF Unreleased
    <3> QED
      BY <1>2, <1>9, <3>1, <3>2 DEF TxSound
  <2> QED
    BY <2>1, <2>2
<1>10. ASSUME other.step = "written"
       PROVE  Owns(q, other)' \/ Inserts(other)'
  <2>1. other.row \in LeaseId
    BY <1>2, <1>10 DEF TxSound, Owns, Names, Inserts
  <2>2. lease'[other.row] = lease[other.row]
    BY <1>6, <1>10, <2>1 DEF Holds
  <2>3. CASE Owns(q, other)
    BY <1>5, <2>2, <2>3 DEF Owns
  <2>4. CASE Inserts(other)
    <3>1. ~Inserted(other.row)'
      BY <2>2, <2>4 DEF Inserts, Inserted
    <3>2. tx.resource # other.resource
      BY <1>1, <1>2, <1>10, <2>4 DEF Apart, Inserts
    <3>3. ASSUME NEW i \in LeaseId, ~lease'[i].released, lease'[i].resource = other.resource
          PROVE  i \in other.reaped
      <4>1. i # tx.row
        BY <1>1, <3>2, <3>3
      <4>2. i \in Unreleased(other.resource)
        BY <1>8, <3>3, <4>1 DEF Unreleased
      <4> QED
        BY <2>4, <4>2 DEF Inserts
    <3>4. Unreleased(other.resource)' \subseteq other.reaped
      BY <3>3 DEF Unreleased
    <3> QED
      BY <2>4, <3>1, <3>4 DEF Inserts
  <2> QED
    BY <1>2, <1>10, <2>3, <2>4 DEF TxSound
<1>11. other.step \in {"reaped", "waiting"} =>
         \A i \in Unreleased(other.resource)' \ other.reaped : lease'[i].expires > other.now
  BY <1>9 DEF Unreleased
<1> QED
  BY <1>2, <1>3, <1>5, <1>7, <1>10, <1>11 DEF TxSound

\* One row of the resource is left, and it is what the account was told.
LEMMA CommitRowsSound ==
  ASSUME LeaseInv, NEW p \in Process, CommitLease(p), NEW tx \in LeaseTx, tx = leaseTx[p]
  PROVE  RowsSound'
<1> DEFINE a == AccountOf[p]
<1>1. /\ tx.step = "written" /\ tx.row \in LeaseId
      /\ lease'[tx.row].resource = tx.resource
      /\ lease'[tx.row].holder = a
      /\ lease'[tx.row].released = (tx.call = "release")
      /\ tx.call # "release" => lease'[tx.row].expires = Until(tx)
      /\ \A i \in LeaseId : ~Holds(tx, i) => lease'[i] = lease[i]
      /\ \A i \in tx.reaped : i # tx.row => lease'[i].released
  BY CommitRows
<1>2. LeaseTypeOK /\ TxSound(p, tx) /\ OneLive /\ RowIsPromise /\ PromiseIsRow
  BY OfTx DEF LeaseInv, RowsSound
<1>3. a \in Account /\ tx.resource \in Resource
  BY AccountOfAssumption DEF LeaseTx
<1>4. leaseClock' = leaseClock /\ promise' = [promise EXCEPT ![<<a, tx.resource>>] = Until(tx)]
  BY DEF CommitLease, Until
<1>5. /\ promise'[<<a, tx.resource>>] = Until(tx)
      /\ \A b \in Account, r \in Resource :
           <<b, r>> # <<a, tx.resource>> => promise'[<<b, r>>] = promise[<<b, r>>]
  BY <1>2, <1>3, <1>4 DEF LeaseTypeOK
<1>6. ASSUME NEW i \in LeaseId, ~lease'[i].released, i # tx.row
      PROVE  ~lease[i].released /\ lease'[i] = lease[i] /\ lease[i].resource # tx.resource
  <2>1. ~Holds(tx, i)
    BY <1>1, <1>6 DEF Holds
  <2>2. ~lease[i].released /\ lease'[i] = lease[i]
    BY <1>1, <1>6, <2>1
  <2>3. CASE Owns(p, tx)
    BY <1>2, <1>6, <2>2, <2>3 DEF Owns, Names, OneLive
  <2>4. CASE Inserts(tx)
    BY <1>6, <2>1, <2>2, <2>4 DEF Inserts, Unreleased, Holds
  <2> QED
    BY <1>1, <1>2, <2>2, <2>3, <2>4 DEF TxSound
<1>7. OneLive'
  <2> SUFFICES ASSUME NEW i \in LeaseId, NEW j \in LeaseId,
                      ~lease'[i].released, ~lease'[j].released,
                      lease'[i].resource = lease'[j].resource
               PROVE  i = j
    BY DEF OneLive
  <2>1. CASE i = tx.row \/ j = tx.row
    BY <1>1, <1>6, <2>1
  <2>2. CASE i # tx.row /\ j # tx.row
    BY <1>2, <1>6, <2>2 DEF OneLive
  <2> QED
    BY <2>1, <2>2
<1>8. RowIsPromise'
  <2> SUFFICES ASSUME NEW i \in LeaseId, ~lease'[i].released
               PROVE  promise'[<<lease'[i].holder, lease'[i].resource>>] = lease'[i].expires
    BY DEF RowIsPromise
  <2>1. CASE i = tx.row
    BY <1>1, <1>5, <2>1
  <2>2. CASE i # tx.row
    <3>1. ~lease[i].released /\ lease'[i] = lease[i] /\ lease[i].resource # tx.resource
      BY <1>6, <2>2
    <3>2. lease[i].holder \in Account /\ lease[i].resource \in Resource
      BY <1>2, <3>1, RowTyped
    <3> QED
      BY <1>2, <1>5, <3>1, <3>2 DEF RowIsPromise
  <2> QED
    BY <2>1, <2>2
<1>9. PromiseIsRow'
  <2> SUFFICES ASSUME NEW b \in Account, NEW r \in Resource, promise'[<<b, r>>] > leaseClock
               PROVE  \E i \in LeaseId :
                        ~lease'[i].released /\ lease'[i].holder = b /\ lease'[i].resource = r
    BY <1>4 DEF PromiseIsRow
  <2>1. CASE <<b, r>> = <<a, tx.resource>>
    <3>1. Until(tx) > leaseClock /\ leaseClock \in Nat
      BY <1>2, <1>5, <2>1 DEF LeaseTypeOK
    <3>2. tx.call # "release"
      BY <3>1 DEF Until
    <3> QED
      BY <1>1, <2>1, <3>2
  <2>2. CASE <<b, r>> # <<a, tx.resource>>
    <3>1. promise[<<b, r>>] > leaseClock
      BY <1>5, <2>2
    <3>2. PICK i \in LeaseId : ~lease[i].released /\ lease[i].holder = b /\ lease[i].resource = r
      BY <1>2, <3>1 DEF PromiseIsRow
    <3>3. lease[i].expires > leaseClock
      BY <1>2, <3>1, <3>2 DEF RowIsPromise
    <3>4. i # tx.row
      BY <1>1, <1>2, <2>2, <3>2, RowTyped DEF TxSound, Owns, Names, Inserts
    <3>5. i \notin tx.reaped
      <4>1. /\ lease[i].expires \in Nat /\ leaseClock \in Nat /\ tx.now \in Nat
            /\ tx.now <= leaseClock
        BY <1>1, <1>2, <3>2, RowTyped, UntilTyped DEF TxSound, LeaseTypeOK
      <4> QED
        BY <1>2, <3>3, <4>1 DEF TxSound
    <3>6. lease'[i] = lease[i]
      BY <1>1, <3>4, <3>5 DEF Holds
    <3> QED
      BY <3>2, <3>6
  <2> QED
    BY <2>1, <2>2
<1> QED
  BY <1>7, <1>8, <1>9 DEF RowsSound

LEMMA CommitKeeps ==
  ASSUME LeaseInv, NEW p \in Process, CommitLease(p)
  PROVE  LeaseInv'
<1>1. PICK tx \in LeaseTx : tx = leaseTx[p]
  BY TxTyped DEF LeaseInv
<1>2. LeaseTypeOK
  BY DEF LeaseInv
<1>3. /\ leaseTx' = [leaseTx EXCEPT ![p] = Idle]
      /\ promise' = [promise EXCEPT ![<<AccountOf[p], tx.resource>>] = Until(tx)]
      /\ UNCHANGED <<leaseClock, held_up>>
  BY <1>1 DEF CommitLease, Until
<1>4. /\ leaseTx' \in [Process -> LeaseTx]
      /\ leaseTx'[p] = Idle
      /\ \A q \in Process \ {p} : leaseTx'[q] = leaseTx[q]
  BY <1>2, <1>3, IdleTyped DEF LeaseTypeOK
<1>5. LeaseTypeOK'
  <2>1. promise' \in [Account \X Resource -> Nat]
    BY <1>2, <1>3, UntilTyped DEF LeaseTypeOK
  <2>2. lease' \in [LeaseId -> LeaseRow]
    BY <1>1, CommitRows
  <2> QED
    BY <1>2, <1>3, <1>4, <2>1, <2>2 DEF LeaseTypeOK
<1>6. TxsSound'
  <2> SUFFICES ASSUME NEW q \in Process, NEW other \in LeaseTx, other = leaseTx'[q]
               PROVE  TxSound(q, other)'
    BY DEF TxsSound
  <2>1. CASE q = p
    BY <1>4, <2>1, IdleTyped DEF TxSound
  <2>2. CASE q # p
    BY <1>1, <1>4, <2>2, CommitOthers
  <2> QED
    BY <2>1, <2>2
<1>7. TxsApart'
  <2> SUFFICES ASSUME NEW q \in Process, NEW v \in Process,
                      NEW one \in LeaseTx, NEW other \in LeaseTx,
                      q # v, one = leaseTx'[q], other = leaseTx'[v]
               PROVE  Apart(one, other)'
    BY DEF TxsApart
  <2>1. CASE q = p \/ v = p
    BY <1>4, <2>1, IdleTyped DEF Apart, Holds
  <2>2. CASE q # p /\ v # p
    <3>1. Apart(one, other) /\ TxSound(q, one)
      BY <1>4, <2>2 DEF LeaseInv, TxsApart, TxsSound
    <3>2. one.step = "written" /\ ~Inserted(one.row)' => ~Inserted(one.row)
      <4>1. TxSound(q, one)'
        BY <1>1, <1>4, <2>2, CommitOthers
      <4>2. Apart(one, tx)
        BY <1>1, <1>4, <2>2 DEF LeaseInv, TxsApart
      <4>3. one.step = "written" => one.row \in LeaseId /\ ~Holds(tx, one.row)
        BY <3>1, <4>2 DEF TxSound, Owns, Names, Inserts, Apart, Holds
      <4>4. one.step = "written" => lease'[one.row] = lease[one.row]
        BY <1>1, <4>3, CommitRows
      <4> QED
        BY <4>4 DEF Inserted
    <3> QED
      BY <3>1, <3>2 DEF Apart, Holds
  <2> QED
    BY <2>1, <2>2
<1>8. RowsSound'
  BY <1>1, CommitRowsSound
<1> QED
  BY <1>5, <1>6, <1>7, <1>8 DEF LeaseInv

-----------------------------------------------------------------------------

LEMMA LeaseInitially == LeaseInit => LeaseInv
<1> SUFFICES ASSUME LeaseInit PROVE LeaseInv
  OBVIOUS
<1>1. \A p \in Process : leaseTx[p] = Idle
  BY DEF LeaseInit
<1>2. \A i \in LeaseId : lease[i].released /\ lease[i] \in LeaseRow
  BY DEF LeaseInit, LeaseRow
<1>3. LeaseTypeOK
  BY <1>2, IdleTyped DEF LeaseInit, LeaseTypeOK
<1>4. TxsSound
  BY <1>1, IdleSound DEF TxsSound
<1>5. TxsApart
  BY <1>1, IdleApart DEF TxsApart
<1>6. \A a \in Account, r \in Resource : promise[<<a, r>>] = 0
  BY DEF LeaseInit
<1>7. RowsSound
  BY <1>2, <1>6 DEF RowsSound, OneLive, RowIsPromise, PromiseIsRow, LeaseInit
<1> QED
  BY <1>3, <1>4, <1>5, <1>7 DEF LeaseInv

\* The call that begins, of whichever kind.
LEMMA AcquireKeeps ==
  ASSUME LeaseInv, NEW p \in Process, NEW r \in Resource, NEW ttl \in Ttl,
         AcquireLease(p, r, ttl)
  PROVE  LeaseInv'
BY BeginKeeps DEF AcquireLease

LEMMA RenewKeeps ==
  ASSUME LeaseInv, NEW p \in Process, NEW i \in LeaseId, NEW ttl \in Ttl,
         RenewLease(p, i, ttl)
  PROVE  LeaseInv'
<1>1. PICK r \in Resource : r = lease[i].resource
  BY RowTyped DEF RenewLease, LeaseInv
<1> QED
  BY <1>1, BeginKeeps DEF RenewLease

LEMMA ReleaseKeeps ==
  ASSUME LeaseInv, NEW p \in Process, NEW i \in LeaseId, ReleaseLease(p, i)
  PROVE  LeaseInv'
<1>1. PICK r \in Resource : r = lease[i].resource
  BY RowTyped DEF ReleaseLease, LeaseInv
<1>2. PICK ttl \in Ttl : ttl = CHOOSE t \in Ttl : TRUE
  BY ResourceAssumption
<1> QED
  BY <1>1, <1>2, BeginKeeps DEF ReleaseLease

\* What member_removed and org_deleted do while no transaction is open: rows are
\* released, and their promises end with them.
LEMMA CleanUpKeeps ==
  ASSUME LeaseInv, NEW gone \in SUBSET LeaseId, RequestsExcluded,
         lease' \in [LeaseId -> LeaseRow], promise' \in [Account \X Resource -> Nat],
         \A i \in gone : lease'[i].released,
         \A i \in LeaseId \ gone : lease'[i] = lease[i],
         \A i \in LeaseId \ gone : ~lease[i].released =>
           promise'[<<lease[i].holder, lease[i].resource>>] = promise[<<lease[i].holder, lease[i].resource>>],
         \A a \in Account, r \in Resource :
           \/ promise'[<<a, r>>] = 0
           \/ /\ promise'[<<a, r>>] = promise[<<a, r>>]
              /\ \A i \in gone : ~(~lease[i].released /\ lease[i].holder = a /\ lease[i].resource = r),
         UNCHANGED <<leaseClock, leaseTx, held_up>>
  PROVE  LeaseInv'
<1>1. LeaseTypeOK /\ TxsSound /\ TxsApart /\ RowsSound
  BY DEF LeaseInv
<1>2. LeaseTypeOK'
  BY <1>1 DEF LeaseTypeOK
<1>3. ASSUME NEW p \in Process, NEW tx \in LeaseTx, tx = leaseTx[p]
      PROVE  tx.step = "idle" /\ tx.reaped = {}
  BY <1>1, <1>3 DEF TxsSound, TxSound, RequestsExcluded
<1>4. TxsSound'
  <2> SUFFICES ASSUME NEW p \in Process, NEW tx \in LeaseTx, tx = leaseTx'[p]
               PROVE  TxSound(p, tx)'
    BY DEF TxsSound
  <2>1. tx.step = "idle" /\ tx.reaped = {}
    BY <1>3
  <2>2. QED
    BY <2>1 DEF TxSound
<1>5. TxsApart'
  BY <1>3 DEF TxsApart, Apart, Holds
<1>6. OneLive'
  BY <1>1 DEF RowsSound, OneLive
<1>7. RowIsPromise'
  <2> SUFFICES ASSUME NEW i \in LeaseId, ~lease'[i].released
               PROVE  promise'[<<lease'[i].holder, lease'[i].resource>>] = lease'[i].expires
    BY DEF RowIsPromise
  <2>1. i \in LeaseId \ gone
    OBVIOUS
  <2>2. lease'[i] = lease[i]
    BY <2>1
  <2>3. promise[<<lease[i].holder, lease[i].resource>>] = lease[i].expires
    BY <1>1, <2>2 DEF RowsSound, RowIsPromise
  <2>4. QED
    BY <2>1, <2>2, <2>3
<1>8. PromiseIsRow'
  <2> SUFFICES ASSUME NEW a \in Account, NEW r \in Resource, promise'[<<a, r>>] > leaseClock
               PROVE  \E i \in LeaseId :
                        ~lease'[i].released /\ lease'[i].holder = a /\ lease'[i].resource = r
    BY DEF PromiseIsRow
  <2>1. promise'[<<a, r>>] # 0
    BY <1>1 DEF LeaseTypeOK
  <2>2. PICK i \in LeaseId : ~lease[i].released /\ lease[i].holder = a /\ lease[i].resource = r
    BY <1>1, <2>1 DEF RowsSound, PromiseIsRow
  <2>3. i \notin gone
    BY <2>1, <2>2
  <2> QED
    BY <2>2, <2>3
<1> QED
  BY <1>2, <1>4, <1>5, <1>6, <1>7, <1>8 DEF LeaseInv, RowsSound

LEMMA ReleaseMemberKeeps ==
  ASSUME LeaseInv, NEW a \in Account, ReleaseMember(a)
  PROVE  LeaseInv'
<1>1. PICK gone \in SUBSET LeaseId :
        gone = {i \in LeaseId : ~lease[i].released /\ lease[i].holder = a}
  OBVIOUS
<1>2. LeaseTypeOK
  BY DEF LeaseInv
<1>3. /\ RequestsExcluded
      /\ lease' = [i \in LeaseId |-> IF i \in gone THEN [lease[i] EXCEPT !.released = TRUE] ELSE lease[i]]
      /\ promise' = [holding \in Account \X Resource |-> IF holding[1] = a THEN 0 ELSE promise[holding]]
      /\ UNCHANGED <<leaseClock, leaseTx, held_up>>
  BY <1>1 DEF ReleaseMember
<1>4. ASSUME NEW i \in gone
      PROVE  [lease[i] EXCEPT !.released = TRUE] \in LeaseRow /\ lease'[i].released
  <2>1. lease[i] \in Row
    BY <1>1, <1>2, RowTyped
  <2>2. PICK row : row = [lease[i] EXCEPT !.released = TRUE]
    OBVIOUS
  <2>3. row \in Row /\ row.released
    BY <2>1, <2>2 DEF Row
  <2> QED
    BY <1>3, <2>2, <2>3 DEF LeaseRow, Row
<1>5. \A i \in LeaseId \ gone : lease'[i] = lease[i] /\ lease[i] \in LeaseRow
  BY <1>2, <1>3 DEF LeaseTypeOK
<1>6. lease' \in [LeaseId -> LeaseRow]
  BY <1>3, <1>4, <1>5
<1>7. promise' \in [Account \X Resource -> Nat]
  BY <1>2, <1>3 DEF LeaseTypeOK
<1>8. \A i \in LeaseId \ gone : ~lease[i].released =>
        promise'[<<lease[i].holder, lease[i].resource>>] = promise[<<lease[i].holder, lease[i].resource>>]
  <2> SUFFICES ASSUME NEW i \in LeaseId \ gone, ~lease[i].released
               PROVE  promise'[<<lease[i].holder, lease[i].resource>>]
                        = promise[<<lease[i].holder, lease[i].resource>>]
    OBVIOUS
  <2>1. PICK b \in Account, r \in Resource : b = lease[i].holder /\ r = lease[i].resource
    BY <1>2, RowTyped
  <2>2. b # a
    BY <1>1, <2>1
  <2> QED
    BY <1>3, <2>1, <2>2
<1>9. \A b \in Account, r \in Resource :
        \/ promise'[<<b, r>>] = 0
        \/ /\ promise'[<<b, r>>] = promise[<<b, r>>]
           /\ \A i \in gone : ~(~lease[i].released /\ lease[i].holder = b /\ lease[i].resource = r)
  BY <1>1, <1>3
<1> QED
  BY <1>3, <1>4, <1>5, <1>6, <1>7, <1>8, <1>9, CleanUpKeeps

LEMMA PurgeKeeps ==
  ASSUME LeaseInv, PurgeLeases
  PROVE  LeaseInv'
<1>1. PICK gone \in SUBSET LeaseId : gone = LeaseId
  OBVIOUS
<1>2. /\ RequestsExcluded
      /\ lease' = [i \in LeaseId |-> [released |-> TRUE]]
      /\ promise' = [holding \in Account \X Resource |-> 0]
      /\ UNCHANGED <<leaseClock, leaseTx, held_up>>
  BY DEF PurgeLeases
<1>3. lease' \in [LeaseId -> LeaseRow] /\ promise' \in [Account \X Resource -> Nat]
  BY <1>2 DEF LeaseRow
<1>4. \A a \in Account, r \in Resource : promise'[<<a, r>>] = 0
  BY <1>2
<1> QED
  BY <1>1, <1>2, <1>3, <1>4, CleanUpKeeps

LEMMA LeaseKept == LeaseInv /\ [LeaseNext]_leaseVars => LeaseInv'
<1> SUFFICES ASSUME LeaseInv, [LeaseNext]_leaseVars
             PROVE  LeaseInv'
  OBVIOUS
<1>1. CASE LeaseTick
  BY <1>1, TickKeeps
<1>2. ASSUME NEW p \in Process, NEW r \in Resource, NEW ttl \in Ttl, AcquireLease(p, r, ttl)
      PROVE  LeaseInv'
  BY <1>2, AcquireKeeps
<1>3. ASSUME NEW p \in Process, NEW i \in LeaseId, NEW ttl \in Ttl, RenewLease(p, i, ttl)
      PROVE  LeaseInv'
  BY <1>3, RenewKeeps
<1>4. ASSUME NEW p \in Process, NEW i \in LeaseId, ReleaseLease(p, i)
      PROVE  LeaseInv'
  BY <1>4, ReleaseKeeps
<1>5. ASSUME NEW p \in Process, Reap(p) \/ Look(p) \/ LockGranted(p) \/ InsertLease(p)
      PROVE  LeaseInv'
  BY <1>5, ReapKeeps, LookKeeps, GrantedKeeps, InsertKeeps
<1>6. ASSUME NEW p \in Process, UpdateOwn(p) \/ CommitLease(p) \/ AbortLease(p)
      PROVE  LeaseInv'
  BY <1>6, UpdateKeeps, CommitKeeps, RefuseKeeps DEF AbortLease
<1>7. CASE UNCHANGED leaseVars
  BY <1>7 DEF leaseVars, LeaseInv, LeaseTypeOK, TxsSound, TxsApart, RowsSound, OneLive,
     RowIsPromise, PromiseIsRow, TxSound, Apart, Holds, Names, Owns, Inserts, Inserted, Unreleased
<1>8. CASE PurgeLeases \/ \E a \in Account : ReleaseMember(a)
  BY <1>8, PurgeKeeps, ReleaseMemberKeeps
<1> QED
  BY <1>1, <1>2, <1>3, <1>4, <1>5, <1>6, <1>7, <1>8 DEF LeaseNext

LEMMA LeaseInvAlways == LeaseSpec => []LeaseInv
BY LeaseInitially, LeaseKept, PTL DEF LeaseSpec

\* Every variable keeps its range: a transaction is at a step the code has and
\* locks rows that exist, and a row that was inserted keeps its columns.
THEOREM LeaseTypeCorrect == LeaseSpec => []LeaseTypeOK
<1>1. LeaseInv => LeaseTypeOK
  BY DEF LeaseInv
<1> QED
  BY <1>1, LeaseInvAlways, PTL

\* list_leases names exactly the accounts whose last acquire or renewal has not
\* run out: a row that has expired and is not reaped is not listed, and a row
\* that is reaped had expired.
THEOREM ListIsRight == LeaseSpec => []ListedIsPromised
<1>1. LeaseInv => ListedIsPromised
  <2> SUFFICES ASSUME LeaseInv PROVE ListedIsPromised
    OBVIOUS
  <2> DEFINE listed == {<<lease[i].holder, lease[i].resource>> : i \in ListLeases}
             promised == {holding \in Account \X Resource : promise[holding] > leaseClock}
  <2>1. LeaseTypeOK /\ RowIsPromise /\ PromiseIsRow
    BY DEF LeaseInv, RowsSound
  <2>2. ASSUME NEW i \in ListLeases
        PROVE  <<lease[i].holder, lease[i].resource>> \in promised
    <3>1. i \in LeaseId /\ ~lease[i].released /\ lease[i].expires > leaseClock
      BY DEF ListLeases
    <3>2. lease[i].holder \in Account /\ lease[i].resource \in Resource
      BY <2>1, <3>1, RowTyped
    <3> QED
      BY <2>1, <3>1, <3>2 DEF RowIsPromise
  <2>3. ASSUME NEW holding \in promised
        PROVE  \E i \in ListLeases : holding = <<lease[i].holder, lease[i].resource>>
    <3>1. PICK a \in Account, r \in Resource : holding = <<a, r>>
      OBVIOUS
    <3>2. promise[<<a, r>>] > leaseClock
      BY <3>1
    <3>3. PICK i \in LeaseId : ~lease[i].released /\ lease[i].holder = a /\ lease[i].resource = r
      BY <2>1, <3>2 DEF PromiseIsRow
    <3>4. i \in ListLeases
      BY <2>1, <3>2, <3>3 DEF RowIsPromise, ListLeases
    <3> QED
      BY <3>1, <3>3, <3>4
  <2> QED
    BY <2>2, <2>3 DEF ListedIsPromised
<1> QED
  BY <1>1, LeaseInvAlways, PTL

\* A row that a call has found and not reaped is a promise by its own clock.
LEMMA RefusalStep ==
  ASSUME LeaseInv, NEW p \in Process, leaseTx[p].step \in {"reaped", "waiting"},
         NEW i \in LeaseId, ~lease[i].released, lease[i].resource = leaseTx[p].resource,
         i \notin leaseTx[p].reaped, lease[i].holder # AccountOf[p]
  PROVE  \E b \in Account \ {AccountOf[p]} :
           promise[<<b, leaseTx[p].resource>>] > leaseTx[p].now
<1>1. PICK tx \in LeaseTx : tx = leaseTx[p]
  BY TxTyped DEF LeaseInv
<1>2. TxSound(p, tx)
  BY <1>1, OfTx
<1>3. lease[i].expires > tx.now
  BY <1>1, <1>2 DEF TxSound, Unreleased
<1>4. lease[i].holder \in Account
  BY RowTyped DEF LeaseInv
<1> QED
  BY <1>1, <1>3, <1>4 DEF LeaseInv, RowsSound, RowIsPromise

\* acquire says "held" only of a lease that had not expired when its own
\* transaction began, even if it judged a row it had waited for.
THEOREM RefusalsAreRight == LeaseSpec => RefusedOnlyWhileHeld
<1> DEFINE Held(p) == \E b \in Account \ {AccountOf[p]} :
                        promise[<<b, leaseTx[p].resource>>] > leaseTx[p].now
<1>1. ASSUME LeaseInv, [LeaseNext]_leaseVars, NEW p \in held_up' \ held_up
      PROVE  Held(p)
  <2>1. held_up' # held_up
    OBVIOUS
  <2>2. ASSUME NEW q \in Process, NEW error, Refuse(q, error), error # "lease_held"
        PROVE  FALSE
    BY <2>1, <2>2 DEF Refuse
  <2>3. ASSUME NEW q \in Process, NEW i \in LeaseId, Judge(q, i)
        PROVE  p = q /\ lease[i].holder # AccountOf[q]
    BY <2>1, <2>3 DEF Judge, Refuse, Proceed
  <2>4. ASSUME NEW q \in Process, NEW tx, Proceed(q, tx)
        PROVE  FALSE
    BY <2>1, <2>4 DEF Proceed
  <2>5. ASSUME NEW q \in Process, Look(q)
        PROVE  Held(p)
    <3>1. PICK i \in Unreleased(leaseTx[q].resource) \ leaseTx[q].reaped : Judge(q, i)
      BY <2>4, <2>5 DEF Look
    <3>2. leaseTx[q].step = "reaped"
      BY <2>5 DEF Look
    <3>3. i \in LeaseId /\ ~lease[i].released /\ lease[i].resource = leaseTx[q].resource
      BY DEF Unreleased
    <3>4. p = q /\ lease[i].holder # AccountOf[q]
      BY <2>3, <3>1, <3>3
    <3> QED
      BY <1>1, <3>1, <3>2, <3>3, <3>4, RefusalStep
  <2>6. ASSUME NEW q \in Process, LockGranted(q)
        PROVE  Held(p)
    <3>1. PICK tx \in LeaseTx : tx = leaseTx[q]
      BY <1>1, TxTyped DEF LeaseInv
    <3>2. tx.step = "waiting"
      BY <2>6, <3>1 DEF LockGranted
    <3>3. TxSound(q, tx)
      BY <1>1, <3>1, OfTx
    <3>4. tx.row \in LeaseId /\ lease[tx.row].resource = tx.resource /\ tx.row \notin tx.reaped
      BY <3>2, <3>3 DEF TxSound, Names
    <3>5. ~lease[tx.row].released /\ Judge(q, tx.row)
      BY <2>4, <2>6, <3>1 DEF LockGranted
    <3>6. p = q /\ lease[tx.row].holder # AccountOf[q]
      BY <2>3, <3>4, <3>5
    <3> QED
      BY <1>1, <3>1, <3>2, <3>4, <3>5, <3>6, RefusalStep
  <2>7. ASSUME NEW q \in Process, InsertLease(q)
        PROVE  FALSE
    BY <2>2, <2>4, <2>7 DEF InsertLease
  <2>8. ASSUME NEW q \in Process, UpdateOwn(q)
        PROVE  FALSE
    BY <2>2, <2>4, <2>8 DEF UpdateOwn
  <2>9. ASSUME NEW q \in Process, Reap(q)
        PROVE  FALSE
    BY <2>4, <2>9 DEF Reap
  <2>10. ASSUME NEW q \in Process, CommitLease(q) \/ AbortLease(q)
         PROVE  FALSE
    <3>1. CASE CommitLease(q)
      BY <2>1, <3>1 DEF CommitLease
    <3>2. CASE AbortLease(q)
      BY <2>2, <3>2 DEF AbortLease
    <3> QED
      BY <2>10, <3>1, <3>2
  <2>11. ASSUME NEW q \in Process, NEW call, NEW r, NEW i, NEW ttl, BeginCall(q, call, r, i, ttl)
         PROVE  FALSE
    BY <2>11 DEF BeginCall
  <2>12. ~(LeaseTick \/ PurgeLeases \/ UNCHANGED leaseVars) /\ ~\E a \in Account : ReleaseMember(a)
    BY <2>1 DEF LeaseTick, PurgeLeases, ReleaseMember, leaseVars
  <2>13. ~\E q \in Process, r \in Resource, ttl \in Ttl : AcquireLease(q, r, ttl)
    BY <2>11 DEF AcquireLease
  <2>14. ~\E q \in Process, i \in LeaseId, ttl \in Ttl : RenewLease(q, i, ttl)
    BY <2>11 DEF RenewLease
  <2>15. ~\E q \in Process, i \in LeaseId : ReleaseLease(q, i)
    BY <2>11 DEF ReleaseLease
  <2> QED
    BY <1>1, <2>5, <2>6, <2>7, <2>8, <2>9, <2>10, <2>12, <2>13, <2>14, <2>15 DEF LeaseNext
<1> HIDE DEF Held
<1>2. LeaseInv /\ [LeaseNext]_leaseVars => [\A p \in held_up' \ held_up : Held(p)]_leaseVars
  BY <1>1
<1>3. [][\A p \in held_up' \ held_up : Held(p)]_leaseVars => RefusedOnlyWhileHeld
  BY DEF RefusedOnlyWhileHeld, Held
<1> QED
  BY <1>2, <1>3, LeaseInvAlways, PTL DEF LeaseSpec

-----------------------------------------------------------------------------
(* The refinement. *)

\* A commit changes one promise.
LEMMA CommitGrants ==
  ASSUME LeaseInv, NEW p \in Process, CommitLease(p)
  PROVE  Promises!PromiseNext
<1>1. PICK tx \in LeaseTx : tx = leaseTx[p]
  BY TxTyped DEF LeaseInv
<1>2. PICK a \in Account, r \in Resource : a = AccountOf[p] /\ r = tx.resource
  BY AccountOfAssumption DEF LeaseTx
<1>3. /\ promise' = [promise EXCEPT ![<<a, r>>] = Until(tx)]
      /\ UNCHANGED leaseClock
      /\ tx.step = "written"
  BY <1>1, <1>2 DEF CommitLease, Until
<1>4. LeaseTypeOK /\ OneLive /\ RowIsPromise /\ PromiseIsRow /\ TxSound(p, tx)
  BY <1>1, OfTx DEF LeaseInv, RowsSound
<1>5. CASE tx.call = "release"
  <2>0. {<<a, r>>} \in SUBSET (Account \X Resource)
    OBVIOUS
  <2>1. PICK holdings \in SUBSET (Account \X Resource) : holdings = {<<a, r>>}
    BY <2>0, Zenon
  <2>2. promise' = [promise EXCEPT ![<<a, r>>] = 0]
    BY <1>3, <1>5 DEF Until
  <2>3. promise' = [holding \in Account \X Resource |->
                     IF holding \in holdings THEN 0 ELSE promise[holding]]
    BY <1>4, <2>1, <2>2 DEF LeaseTypeOK
  <2>4. Promises!GiveUp(holdings)
    BY <1>3, <2>3 DEF Promises!GiveUp
  <2> QED
    BY <2>4 DEF Promises!PromiseNext
<1>6. CASE tx.call # "release"
  <2>1. ASSUME NEW b \in Account \ {a}, ~(promise[<<b, r>>] <= leaseClock)
        PROVE  FALSE
    <3>1. promise[<<b, r>>] > leaseClock
      BY <1>4, <2>1 DEF LeaseTypeOK
    <3>2. PICK i \in LeaseId : ~lease[i].released /\ lease[i].holder = b /\ lease[i].resource = r
      BY <1>4, <3>1 DEF PromiseIsRow
    <3>3. lease[i].expires > leaseClock
      BY <1>4, <3>1, <3>2 DEF RowIsPromise
    <3>4. CASE Owns(p, tx)
      <4>1. i = tx.row
        BY <1>2, <1>4, <3>2, <3>4 DEF Owns, Names, OneLive
      <4> QED
        BY <1>2, <3>2, <3>4, <4>1 DEF Owns
    <3>5. CASE Inserts(tx)
      <4>1. i \in tx.reaped
        BY <1>2, <3>2, <3>5 DEF Inserts, Unreleased
      <4>2. lease[i].expires <= tx.now /\ tx.now <= leaseClock
        BY <1>3, <1>4, <4>1 DEF TxSound
      <4>3. lease[i].expires \in Nat /\ tx.now \in Nat /\ leaseClock \in Nat
        BY <1>4, <3>2, RowTyped, UntilTyped DEF LeaseTypeOK
      <4> QED
        BY <3>3, <4>2, <4>3
    <3> QED
      BY <1>3, <1>4, <3>4, <3>5 DEF TxSound
  <2>2. /\ promise' \in [Account \X Resource -> Nat]
        /\ \A holding \in (Account \X Resource) \ {<<a, r>>} : promise'[holding] = promise[holding]
    BY <1>3, <1>4, UntilTyped DEF LeaseTypeOK
  <2>3. Promises!Grant(a, r)
    BY <1>3, <2>1, <2>2 DEF Promises!Grant, Promises!Promise
  <2> QED
    BY <2>3 DEF Promises!PromiseNext
<1> QED
  BY <1>5, <1>6

\* A clean-up takes back the promises of a member, or all of them.
LEMMA CleanUpGivesUp ==
  ASSUME LeaseInv, PurgeLeases \/ \E a \in Account : ReleaseMember(a)
  PROVE  Promises!PromiseNext
<1>1. ASSUME NEW holdings \in SUBSET (Account \X Resource), leaseClock' = leaseClock,
             promise' = [holding \in Account \X Resource |->
                          IF holding \in holdings THEN 0 ELSE promise[holding]]
      PROVE  Promises!PromiseNext
  BY <1>1 DEF Promises!PromiseNext, Promises!GiveUp
<1>2. CASE PurgeLeases
  <2>1. PICK holdings \in SUBSET (Account \X Resource) : holdings = Account \X Resource
    OBVIOUS
  <2> QED
    BY <1>1, <1>2, <2>1 DEF PurgeLeases
<1>3. ASSUME NEW a \in Account, ReleaseMember(a)
      PROVE  Promises!PromiseNext
  <2>1. PICK holdings \in SUBSET (Account \X Resource) :
          holdings = {holding \in Account \X Resource : holding[1] = a}
    OBVIOUS
  <2>2. promise' = [holding \in Account \X Resource |->
                     IF holding \in holdings THEN 0 ELSE promise[holding]]
    BY <1>3, <2>1 DEF ReleaseMember
  <2> QED
    BY <1>1, <1>3, <2>2 DEF ReleaseMember
<1> QED
  BY <1>2, <1>3

\* The statements of acquire_lease, renew_lease and release_lease, with their
\* locks, the index and clocks that lag, give a resource to an account only
\* when no other account still has a promise of it.
THEOREM KeepsThePromises == LeaseSpec => KeepsPromises
<1>1. LeaseInit => Promises!PromiseInit
  BY DEF LeaseInit, Promises!PromiseInit
<1>2. LeaseInv /\ [LeaseNext]_leaseVars => [Promises!PromiseNext]_(Promises!promiseVars)
  <2> SUFFICES ASSUME LeaseInv, [LeaseNext]_leaseVars
               PROVE  Promises!PromiseNext \/ UNCHANGED <<leaseClock, promise>>
    BY DEF Promises!promiseVars
  <2>1. CASE LeaseTick
    BY <2>1 DEF LeaseTick, Promises!PromiseNext, Promises!PassTime
  <2>2. ASSUME NEW p \in Process, CommitLease(p)
        PROVE  Promises!PromiseNext
    BY <2>2, CommitGrants
  <2>3. ASSUME NEW p \in Process, NEW i, Judge(p, i)
        PROVE  UNCHANGED <<leaseClock, promise>>
    BY <2>3 DEF Judge, Refuse, Proceed
  <2>4. ASSUME NEW p \in Process,
               Reap(p) \/ Look(p) \/ LockGranted(p) \/ InsertLease(p) \/ UpdateOwn(p) \/ AbortLease(p)
        PROVE  UNCHANGED <<leaseClock, promise>>
    <3>1. CASE Reap(p) \/ UpdateOwn(p) \/ AbortLease(p)
      BY <3>1 DEF Reap, UpdateOwn, AbortLease, Refuse, Proceed
    <3>2. CASE Look(p)
      BY <2>3, <3>2 DEF Look, Proceed
    <3>3. CASE LockGranted(p)
      BY <2>3, <3>3 DEF LockGranted, Proceed
    <3>4. CASE InsertLease(p)
      BY <3>4 DEF InsertLease, Refuse, Proceed
    <3> QED
      BY <2>4, <3>1, <3>2, <3>3, <3>4
  <2>5. ASSUME NEW p \in Process,
               \/ \E r \in Resource, ttl \in Ttl : AcquireLease(p, r, ttl)
               \/ \E i \in LeaseId, ttl \in Ttl : RenewLease(p, i, ttl)
               \/ \E i \in LeaseId : ReleaseLease(p, i)
        PROVE  UNCHANGED <<leaseClock, promise>>
    BY <2>5 DEF AcquireLease, RenewLease, ReleaseLease, BeginCall
  <2>6. CASE UNCHANGED leaseVars
    BY <2>6 DEF leaseVars
  <2>7. CASE PurgeLeases \/ \E a \in Account : ReleaseMember(a)
    BY <2>7, CleanUpGivesUp
  <2> QED
    BY <2>1, <2>2, <2>4, <2>5, <2>6, <2>7 DEF LeaseNext
<1> QED
  BY <1>1, <1>2, LeaseInvAlways, PTL DEF LeaseSpec, KeepsPromises, Promises!PromiseSpec

\* What the abstract calls already guarantee, from the abstract calls alone.
PromiseOK == leaseClock \in Nat /\ promise \in Promises!Promise /\ Promises!Exclusive

LEMMA PromisesApart == Promises!PromiseSpec => []PromiseOK
<1>1. Promises!PromiseInit => PromiseOK
  BY DEF Promises!PromiseInit, PromiseOK, Promises!Promise, Promises!Exclusive
<1>2. PromiseOK /\ [Promises!PromiseNext]_(Promises!promiseVars) => PromiseOK'
  <2> SUFFICES ASSUME PromiseOK, [Promises!PromiseNext]_(Promises!promiseVars)
               PROVE  PromiseOK'
    OBVIOUS
  <2>0. \A holding \in Account \X Resource : promise[holding] \in Nat
    BY DEF PromiseOK, Promises!Promise
  <2>1. CASE Promises!PassTime
    <3>1. leaseClock' \in Nat /\ leaseClock < leaseClock' /\ promise' = promise
      BY <2>1 DEF Promises!PassTime, PromiseOK
    <3>2. Promises!Exclusive'
      <4> SUFFICES ASSUME NEW a \in Account, NEW b \in Account, NEW r \in Resource,
                          promise[<<a, r>>] > leaseClock', promise[<<b, r>>] > leaseClock'
                   PROVE  a = b
        BY <3>1 DEF Promises!Exclusive
      <4>1. promise[<<a, r>>] > leaseClock /\ promise[<<b, r>>] > leaseClock
        BY <2>0, <3>1 DEF PromiseOK
      <4> QED
        BY <4>1 DEF PromiseOK, Promises!Exclusive
    <3> QED
      BY <3>1, <3>2 DEF PromiseOK
  <2>2. ASSUME NEW a \in Account, NEW r \in Resource, Promises!Grant(a, r)
        PROVE  PromiseOK'
    <3>1. /\ promise' \in Promises!Promise /\ UNCHANGED leaseClock
          /\ \A b \in Account \ {a} : ~(promise'[<<b, r>>] > leaseClock)
          /\ \A b \in Account : \A q \in Resource \ {r} : promise'[<<b, q>>] = promise[<<b, q>>]
      BY <2>0, <2>2 DEF Promises!Grant, PromiseOK
    <3>2. Promises!Exclusive'
      BY <3>1 DEF PromiseOK, Promises!Exclusive
    <3> QED
      BY <3>1, <3>2 DEF PromiseOK, Promises!Promise
  <2>3. ASSUME NEW holdings \in SUBSET (Account \X Resource), Promises!GiveUp(holdings)
        PROVE  PromiseOK'
    <3>1. /\ promise' \in Promises!Promise /\ UNCHANGED leaseClock
          /\ \A holding \in Account \X Resource :
               promise'[holding] = promise[holding] \/ promise'[holding] = 0
      BY <2>3 DEF Promises!GiveUp, PromiseOK, Promises!Promise
    <3>2. \A holding \in Account \X Resource :
            promise'[holding] > leaseClock => promise[holding] > leaseClock
      BY <2>0, <3>1 DEF PromiseOK
    <3>3. Promises!Exclusive'
      BY <3>1, <3>2 DEF PromiseOK, Promises!Exclusive
    <3> QED
      BY <3>1, <3>3 DEF PromiseOK, Promises!Promise
  <2>4. CASE UNCHANGED Promises!promiseVars
    BY <2>4 DEF Promises!promiseVars, PromiseOK, Promises!Promise, Promises!Exclusive
  <2> QED
    BY <2>1, <2>2, <2>3, <2>4 DEF Promises!PromiseNext
<1> QED
  BY <1>1, <1>2, PTL DEF Promises!PromiseSpec

\* "Who holds this resource" has one answer: no two accounts are ever told that
\* a resource is theirs for a time that both have still to come.  It follows from
\* the refinement, without another look at rows, locks or clocks.
THEOREM ResourcesAreNotShared == LeaseSpec => []Promises!Exclusive
<1>1. KeepsPromises => []PromiseOK
  BY PromisesApart DEF KeepsPromises
<1>2. PromiseOK => Promises!Exclusive
  BY DEF PromiseOK
<1> QED
  BY <1>1, <1>2, KeepsThePromises, PTL

-----------------------------------------------------------------------------
(* MessageCursors. *)

\* A call that has drawn its id.
Drawn(p) == send[p].step \in {"unique", "inserted"}

\* A drawn id is one call's, and no message's yet.
IdsDrawnOnce ==
  /\ \A p \in Sender : Drawn(p) => send[p].id \in (1..(next_id - 1)) \ Committed
  /\ \A p, q \in Sender : Drawn(p) /\ Drawn(q) /\ send[p].id = send[q].id => p = q

\* The unique index: a key is one message's, or one open call's.
KeysApart ==
  /\ \A i, j \in Committed : messages[i].key = messages[j].key /\ messages[i].key # NoKey => i = j
  /\ \A p \in Sender : send[p].step = "inserted" => WithKey(send[p].row.key) = {}
  /\ \A p, q \in Sender :
       /\ send[p].step = "inserted" /\ send[q].step = "inserted"
       /\ send[p].row.key = send[q].row.key /\ send[p].row.key # NoKey
       => p = q

\* Where a member has got to.
Reached(u) == shown[u] \cup ({cursor[<<u, c>>] : c \in Channel} \ {0})

\* Of what lies below, nothing was overlooked: what is committed was shown or
\* passed over, and so was what is still to commit.
ShownInOrder ==
  \A u \in Reader : \A top \in Reached(u) :
    /\ \A id \in Committed :
         /\ messages[id].channel = messages[top].channel
         /\ id < top /\ messages[id].sender # u
         => id \in shown[u] \cup passed_over[u]
    /\ \A p \in Sender : Drawn(p) /\ send[p].id < top => send[p].id \in passed_over[u]

\* A cursor stands at a message of its channel that is accounted for itself.
CursorsShown ==
  \A u \in Reader, c \in Channel :
    cursor[<<u, c>>] # 0 =>
      cursor[<<u, c>>] \in (shown[u] \cup passed_over[u]) \cap InChannel(c)

MessageInv ==
  /\ MessageTypeOK /\ IdsDrawnOnce /\ KeysApart /\ KeyNamesOneCall
  /\ ShownInOrder /\ CursorsShown

-----------------------------------------------------------------------------
(* What a call in progress is. *)

LEMMA SendTyped ==
  ASSUME MessageTypeOK, NEW p \in Sender, send[p].step # "idle"
  PROVE  /\ send[p] \in Sending
         /\ send[p].id \in 0..MaxMessage /\ send[p].row \in MessageRow
         /\ send[p].row.key \in Key \cup {NoKey}
         /\ send[p].step \in {"begun", "unique", "inserted"}
  <1>1. send[p] \in Sending
    BY DEF MessageTypeOK, NoSend
  <1>2. QED
    BY <1>1 DEF Sending, MessageRow

LEMMA IdsAreNat ==
  ASSUME MessageTypeOK
  PROVE  /\ MaxMessage \in Nat /\ next_id \in Nat
         /\ Committed \subseteq Nat
         /\ \A p \in Sender : Drawn(p) => send[p].id \in Nat
  <1>1. \A p \in Sender : Drawn(p) => send[p].id \in Nat
    <2>1. SUFFICES ASSUME NEW p \in Sender, Drawn(p)
                   PROVE  send[p].id \in Nat
      OBVIOUS
    <2>2. send[p].id \in 0..MaxMessage
      BY <2>1, SendTyped DEF Drawn
    <2>3. QED
      BY <2>2, MessageAssumption
  <1>2. QED
    BY <1>1, MessageAssumption DEF MessageTypeOK

-----------------------------------------------------------------------------
(* Steps of a call that leave the rows and the readers alone. *)

LEMMA RangeGrows ==
  ASSUME NEW m \in Int, NEW n \in Int, m <= n
  PROVE  1..(m - 1) \subseteq 1..(n - 1)
  OBVIOUS

\* p goes on with s: s may have an id that nobody has and that no read went past,
\* and a key that nobody holds.
FreshId(p, s) ==
  /\ s.id \in (1..(next_id' - 1)) \ Committed
  /\ \A q \in Sender \ {p} : Drawn(q) => send[q].id # s.id
  /\ \A u \in Reader : \A top \in Reached(u) : s.id < top => s.id \in passed_over[u]

FreshKey(p, s) ==
  /\ WithKey(s.row.key) = {}
  /\ \A q \in Sender \ {p} :
       send[q].step = "inserted" /\ s.row.key # NoKey => send[q].row.key # s.row.key

LEMMA SenderMoves ==
  ASSUME MessageInv, NEW p \in Sender, NEW s \in Sending \cup {NoSend},
         send' = [send EXCEPT ![p] = s],
         UNCHANGED <<messages, reading>>,
         next_id' \in {next_id, next_id + 1}, next_id' <= MaxMessage + 1,
         s.step \in {"unique", "inserted"} => FreshId(p, s),
         s.step = "inserted" => FreshKey(p, s),
         answered' \subseteq [call: MessageRow, id: 1..MaxMessage],
         KeyNamesOneCall'
  PROVE  MessageInv'
  <1> USE DEF MessageInv
  <1>1. /\ Committed' = Committed /\ messages' = messages
        /\ cursor' = cursor /\ shown' = shown /\ passed_over' = passed_over
        /\ \A key : WithKey(key)' = WithKey(key)
        /\ \A c : InChannel(c)' = InChannel(c)
        /\ \A u : Reached(u)' = Reached(u)
    BY DEF Committed, WithKey, InChannel, Reached, reading
  <1>2. send'[p] = s /\ \A q \in Sender \ {p} : send'[q] = send[q]
    BY DEF MessageTypeOK
  <1>3. \A q \in Sender : q # p => (Drawn(q)' <=> Drawn(q))
    BY <1>2 DEF Drawn
  <1>4. Drawn(p)' <=> s.step \in {"unique", "inserted"}
    BY <1>2 DEF Drawn
  <1>5. MessageTypeOK'
    <2>1. send' \in [Sender -> Sending \cup {NoSend}]
      BY DEF MessageTypeOK
    <2>2. next_id \in Nat \ {0} /\ MaxMessage \in Nat /\ Committed \subseteq 1..(next_id - 1)
      BY MessageAssumption DEF MessageTypeOK
    <2>3. next_id' \in 1..(MaxMessage + 1)
      BY <2>2
    <2>4. Committed' \subseteq 1..(next_id' - 1)
      <3>1. next_id \in Int /\ next_id' \in Int /\ next_id <= next_id'
        BY <2>2
      <3>2. 1..(next_id - 1) \subseteq 1..(next_id' - 1)
        BY <3>1, RangeGrows
      <3>3. QED
        BY <1>1, <2>2, <3>2
    <2>5. QED
      BY <1>1, <2>1, <2>3, <2>4 DEF MessageTypeOK
  <1>6. IdsDrawnOnce'
    <2>1. \A q \in Sender \ {p} : Drawn(q) => send[q].id \in (1..(next_id' - 1)) \ Committed
      BY IdsAreNat DEF IdsDrawnOnce
    <2>2. \A q \in Sender : Drawn(q)' => send'[q].id \in (1..(next_id' - 1)) \ Committed'
      BY <1>1, <1>2, <1>3, <1>4, <2>1 DEF FreshId
    <2>3. \A q, r \in Sender : Drawn(q)' /\ Drawn(r)' /\ send'[q].id = send'[r].id => q = r
      BY <1>1, <1>2, <1>3, <1>4 DEF FreshId, IdsDrawnOnce
    <2>4. QED
      BY <2>2, <2>3 DEF IdsDrawnOnce
  <1>7. KeysApart'
    <2>1. \A q \in Sender : send'[q].step = "inserted" => WithKey(send'[q].row.key) = {}
      BY <1>2 DEF FreshKey, KeysApart
    <2>2. \A q, r \in Sender :
             /\ send'[q].step = "inserted" /\ send'[r].step = "inserted"
             /\ send'[q].row.key = send'[r].row.key /\ send'[q].row.key # NoKey
             => q = r
      BY <1>2 DEF FreshKey, KeysApart
    <2>3. QED
      BY <1>1, <2>1, <2>2 DEF KeysApart
  <1>8. ShownInOrder'
    <2>1. \A u \in Reader : \A top \in Reached(u) : \A q \in Sender :
             Drawn(q)' /\ send'[q].id < top => send'[q].id \in passed_over[u]
      BY <1>2, <1>3, <1>4 DEF FreshId, ShownInOrder
    <2>2. QED
      BY <1>1, <2>1 DEF ShownInOrder
  <1>9. CursorsShown'
    BY <1>1 DEF CursorsShown
  <1>10. QED
    BY <1>5, <1>6, <1>7, <1>8, <1>9

\* Answers stand while the rows do.
LEMMA AnswersStand ==
  ASSUME KeyNamesOneCall, UNCHANGED <<messages, answered>>
  PROVE  KeyNamesOneCall'
  BY DEF KeyNamesOneCall, WithKey, Committed

LEMMA SendKeeps ==
  ASSUME MessageInv, NEW p \in Sender, NEW c \in Channel, NEW key \in Key \cup {NoKey},
         NEW payload \in Payload, SendMessage(p, c, key, payload)
  PROVE  MessageInv'
  <1>1. PICK s : s = [step |-> "begun", id |-> 0,
                      row |-> [channel |-> c, sender |-> MemberOf[p], key |-> key, payload |-> payload]]
    OBVIOUS
  <1>2. s \in Sending /\ s.step = "begun"
    <2>1. MemberOf[p] \in Member /\ 0 \in 0..MaxMessage
      BY MessageAssumption
    <2>2. QED
      BY <1>1, <2>1 DEF Sending, MessageRow
  <1>3. /\ send' = [send EXCEPT ![p] = s]
        /\ UNCHANGED <<next_id, messages, answered, reading>>
    BY <1>1 DEF SendMessage
  <1>4. KeyNamesOneCall' /\ answered' \subseteq [call: MessageRow, id: 1..MaxMessage]
    BY <1>3, AnswersStand DEF MessageInv, MessageTypeOK
  <1>5. next_id' = next_id /\ next_id' <= MaxMessage + 1
    BY <1>3, MessageAssumption DEF MessageInv, MessageTypeOK
  <1>6. QED
    BY <1>2, <1>3, <1>4, <1>5, SenderMoves

\* A call that ends.
LEMMA EndKeeps ==
  ASSUME MessageInv, NEW p \in Sender, EndSend(p),
         UNCHANGED <<next_id, messages, reading>>,
         answered' \subseteq [call: MessageRow, id: 1..MaxMessage],
         KeyNamesOneCall'
  PROVE  MessageInv'
  <1>1. NoSend.step = "idle" /\ NoSend \in Sending \cup {NoSend}
    BY DEF NoSend
  <1>2. next_id' = next_id /\ next_id' <= MaxMessage + 1
    BY MessageAssumption DEF MessageInv, MessageTypeOK
  <1>3. send' = [send EXCEPT ![p] = NoSend]
    BY DEF EndSend
  <1>4. QED
    BY <1>1, <1>2, <1>3, SenderMoves

\* Two rows that are the same call's are equal.
LEMMA SameRow ==
  ASSUME NEW r \in MessageRow, NEW s \in MessageRow,
         r.channel = s.channel, r.sender = s.sender, r.key = s.key, r.payload = s.payload
  PROVE  r = s
  BY DEF MessageRow

\* What a replay is answered is the only message of the key.
LEMMA ConvergeKeeps ==
  ASSUME MessageInv, NEW p \in Sender, send[p].step # "idle",
         NEW id \in WithKey(send[p].row.key), Converge(p, id)
  PROVE  MessageInv'
  <1>1. send[p].row \in MessageRow
    BY SendTyped DEF MessageInv
  <1>2. id \in Committed /\ messages[id].key = send[p].row.key /\ messages[id].key # NoKey
    BY DEF WithKey
  <1>3. messages[id] \in MessageRow /\ id \in 1..MaxMessage
    BY <1>2, IdsAreNat DEF MessageInv, MessageTypeOK
  <1>4. WithKey(send[p].row.key) = {id}
    BY <1>2 DEF WithKey, MessageInv, KeysApart
  <1>5. CASE ~SameCall(id, send[p].row)
    <2>1. EndSend(p) /\ UNCHANGED <<next_id, messages, answered, reading>>
      BY <1>5 DEF Converge
    <2>2. QED
      BY <2>1, AnswersStand, EndKeeps DEF MessageInv, MessageTypeOK
  <1>6. CASE SameCall(id, send[p].row)
    <2>1. messages[id] = send[p].row
      BY <1>1, <1>2, <1>3, <1>6, SameRow DEF SameCall
    <2>2. PICK a : a = [call |-> send[p].row, id |-> id]
      OBVIOUS
    <2>3. /\ EndSend(p) /\ answered' = answered \cup {a}
          /\ UNCHANGED <<next_id, messages, reading>>
      BY <1>6, <2>2 DEF Converge
    <2>4. a \in [call: MessageRow, id: 1..MaxMessage] /\ a.call = send[p].row /\ a.id = id
      BY <1>1, <1>3, <2>2
    <2>5. answered' \subseteq [call: MessageRow, id: 1..MaxMessage]
      BY <2>3, <2>4 DEF MessageInv, MessageTypeOK
    <2>6. KeyNamesOneCall'
      BY <1>4, <2>1, <2>3, <2>4 DEF MessageInv, KeyNamesOneCall, WithKey, Committed
    <2>7. QED
      BY <2>3, <2>5, <2>6, EndKeeps
  <1>7. QED
    BY <1>5, <1>6

LEMMA AbortSendKeeps ==
  ASSUME MessageInv, NEW p \in Sender, AbortSend(p)
  PROVE  MessageInv'
  BY AnswersStand, EndKeeps DEF AbortSend, MessageInv, MessageTypeOK

\* An id that is drawn is above everything that was read.
LEMMA DrawIdKeeps ==
  ASSUME MessageInv, NEW p \in Sender, DrawId(p)
  PROVE  MessageInv'
  <1>1. PICK s : s = [step |-> "unique", id |-> next_id, row |-> send[p].row]
    OBVIOUS
  <1>2. send[p] \in Sending /\ next_id \in 1..MaxMessage
    BY SendTyped, IdsAreNat DEF DrawId, MessageInv, MessageTypeOK
  <1>3. s \in Sending /\ s.step = "unique" /\ s.id = next_id
    BY <1>1, <1>2, MessageAssumption DEF Sending
  <1>4. send' = [send EXCEPT ![p] = s]
    <2>1. PICK t : t = [send[p] EXCEPT !.step = "unique"]
      OBVIOUS
    <2>2. t \in Sending /\ t.step = "unique" /\ t.row = send[p].row
      BY <1>2, <2>1 DEF Sending
    <2>3. [t EXCEPT !.id = next_id] = s
      BY <1>1, <2>2 DEF Sending
    <2>4. send' = [send EXCEPT ![p] = [t EXCEPT !.id = next_id]]
      BY <2>1 DEF DrawId, MessageInv, MessageTypeOK
    <2>5. QED
      BY <2>3, <2>4
  <1>5. /\ next_id' = next_id + 1 /\ next_id' <= MaxMessage + 1
        /\ UNCHANGED <<messages, answered, reading>>
    BY <1>2, MessageAssumption DEF DrawId
  <1>6. FreshId(p, s)
    <2>1. \A id \in Committed : id < next_id
      BY <1>2, IdsAreNat DEF MessageInv, MessageTypeOK
    <2>2. \A u \in Reader : Reached(u) \subseteq Committed
      BY DEF MessageInv, MessageTypeOK, CursorsShown, InChannel, Reached
    <2>3. \A q \in Sender \ {p} : Drawn(q) => send[q].id < next_id
      BY <1>2, IdsAreNat DEF MessageInv, IdsDrawnOnce
    <2>4. \A u \in Reader : \A top \in Reached(u) : ~(next_id < top)
      BY <1>2, <2>1, <2>2, IdsAreNat DEF MessageInv
    <2>5. next_id \in 1..(next_id' - 1) /\ next_id \notin Committed
      BY <1>2, <1>5, <2>1
    <2>6. QED
      BY <1>2, <1>3, <2>3, <2>4, <2>5 DEF FreshId
  <1>7. KeyNamesOneCall' /\ answered' \subseteq [call: MessageRow, id: 1..MaxMessage]
    BY <1>5, AnswersStand DEF MessageInv, MessageTypeOK
  <1>8. QED
    BY <1>3, <1>4, <1>5, <1>6, <1>7, SenderMoves

LEMMA InsertMessageKeeps ==
  ASSUME MessageInv, NEW p \in Sender, InsertMessage(p)
  PROVE  MessageInv'
  <1>1. PICK s : s = [send[p] EXCEPT !.step = "inserted"]
    OBVIOUS
  <1>2. send[p] \in Sending /\ Drawn(p)
    BY SendTyped DEF InsertMessage, MessageInv, Drawn
  <1>3. s \in Sending /\ s.step = "inserted" /\ s.id = send[p].id /\ s.row = send[p].row
    BY <1>1, <1>2 DEF Sending
  <1>4. send' = [send EXCEPT ![p] = s]
    BY <1>1, <1>2 DEF InsertMessage, MessageInv, MessageTypeOK
  <1>5. next_id' = next_id /\ next_id' <= MaxMessage + 1 /\ UNCHANGED <<messages, answered, reading>>
    BY MessageAssumption DEF InsertMessage, MessageInv, MessageTypeOK
  <1>6. FreshId(p, s)
    BY <1>2, <1>3, <1>5 DEF FreshId, MessageInv, IdsDrawnOnce, ShownInOrder
  <1>7. FreshKey(p, s)
    BY <1>3 DEF FreshKey, InsertMessage
  <1>8. KeyNamesOneCall' /\ answered' \subseteq [call: MessageRow, id: 1..MaxMessage]
    BY <1>5, AnswersStand DEF MessageInv, MessageTypeOK
  <1>9. QED
    BY <1>3, <1>4, <1>5, <1>6, <1>7, <1>8, SenderMoves

-----------------------------------------------------------------------------
(* A message is committed. *)

LEMMA CommitSendKeeps ==
  ASSUME MessageInv, NEW p \in Sender, CommitSend(p)
  PROVE  MessageInv'
  <1> USE DEF MessageInv
  <1>1. PICK s : s = send[p]
    OBVIOUS
  <1>2. /\ s.step = "inserted" /\ Drawn(p)
        /\ s.row \in MessageRow /\ s.id \in 1..MaxMessage
        /\ s.id \in (1..(next_id - 1)) \ Committed
    BY <1>1, SendTyped DEF CommitSend, Drawn, IdsDrawnOnce
  <1>3. /\ Committed' = Committed \cup {s.id}
        /\ messages'[s.id] = s.row
        /\ \A id \in Committed : messages'[id] = messages[id]
    BY <1>1, <1>2 DEF CommitSend, Committed
  <1>4. /\ send'[p] = NoSend /\ send' \in [Sender -> Sending \cup {NoSend}]
        /\ \A q \in Sender \ {p} : send'[q] = send[q]
        /\ NoSend.step = "idle"
    BY DEF CommitSend, EndSend, MessageTypeOK, NoSend
  <1>5. UNCHANGED <<next_id, cursor, shown, passed_over>>
    BY DEF CommitSend, reading
  <1>6. \A q \in Sender : Drawn(q)' => q # p /\ Drawn(q) /\ send[q].id # s.id
    BY <1>1, <1>2, <1>4 DEF Drawn, IdsDrawnOnce
  <1>7. s.row.key # NoKey => \A id \in Committed : messages[id].key # s.row.key
    BY <1>1, <1>2 DEF KeysApart, WithKey
  <1>8. MessageTypeOK'
    <2>1. answered' \subseteq [call: MessageRow, id: 1..MaxMessage]
      BY <1>1, <1>2 DEF CommitSend, MessageTypeOK
    <2>2. \A id \in Committed' : messages'[id] \in MessageRow
      BY <1>2, <1>3 DEF MessageTypeOK
    <2>3. shown' \in [Reader -> SUBSET Committed']
      BY <1>3, <1>5 DEF MessageTypeOK
    <2>4. QED
      BY <1>2, <1>3, <1>4, <1>5, <2>1, <2>2, <2>3 DEF MessageTypeOK
  <1>9. IdsDrawnOnce'
    <2>1. \A q \in Sender : Drawn(q)' => send'[q].id \in (1..(next_id' - 1)) \ Committed'
      BY <1>3, <1>4, <1>5, <1>6 DEF IdsDrawnOnce
    <2>2. \A q, r \in Sender : Drawn(q)' /\ Drawn(r)' /\ send'[q].id = send'[r].id => q = r
      BY <1>4, <1>6 DEF IdsDrawnOnce
    <2>3. QED
      BY <2>1, <2>2 DEF IdsDrawnOnce
  <1>10. KeysApart'
    <2>1. \A i, j \in Committed' :
             messages'[i].key = messages'[j].key /\ messages'[i].key # NoKey => i = j
      BY <1>2, <1>3, <1>7 DEF KeysApart
    <2>2. ASSUME NEW q \in Sender, send'[q].step = "inserted"
          PROVE  WithKey(send[q].row.key)' = {}
      <3>1. q # p /\ send[q].step = "inserted" /\ send'[q] = send[q]
        BY <1>4, <2>2
      <3>2. send[q].row.key # NoKey => send[q].row.key # s.row.key
        BY <1>1, <1>2, <3>1 DEF KeysApart
      <3>3. WithKey(send[q].row.key) = {}
        BY <3>1 DEF KeysApart
      <3>4. QED
        <4>1. WithKey(send[q].row.key)' =
                {id \in Committed' : messages'[id].key = send[q].row.key /\ send[q].row.key # NoKey}
          BY <3>1 DEF WithKey
        <4>2. QED
          BY <1>2, <1>3, <3>2, <3>3, <4>1 DEF WithKey
    <2>3. \A q, r \in Sender :
             /\ send'[q].step = "inserted" /\ send'[r].step = "inserted"
             /\ send'[q].row.key = send'[r].row.key /\ send'[q].row.key # NoKey
             => q = r
      BY <1>4 DEF KeysApart
    <2>4. QED
      BY <2>1, <2>2, <2>3 DEF KeysApart
  <1>11. KeyNamesOneCall'
    <2>1. ASSUME NEW a \in answered
          PROVE  WithKey(a.call.key)' = {a.id} /\ messages'[a.id] = a.call
      <3>1. WithKey(a.call.key) = {a.id} /\ messages[a.id] = a.call
        BY DEF KeyNamesOneCall
      <3>2. a.id \in Committed /\ a.call.key # NoKey /\ messages[a.id].key = a.call.key
        BY <3>1 DEF WithKey
      <3>3. s.row.key # a.call.key
        BY <1>7, <3>2
      <3>4. QED
        BY <1>2, <1>3, <3>1, <3>2, <3>3 DEF WithKey
    <2>2. CASE s.row.key = NoKey
      BY <1>1, <2>1, <2>2 DEF CommitSend, KeyNamesOneCall
    <2>3. CASE s.row.key # NoKey
      <3>1. WithKey(s.row.key)' = {s.id}
        BY <1>2, <1>3, <1>7, <2>3 DEF WithKey
      <3>2. answered' = answered \cup {[call |-> s.row, id |-> s.id]}
        BY <1>1, <2>3 DEF CommitSend
      <3>3. QED
        BY <1>3, <2>1, <3>1, <3>2 DEF KeyNamesOneCall
    <2>4. QED
      BY <2>2, <2>3
  <1>12. ShownInOrder'
    <2>1. SUFFICES ASSUME NEW u \in Reader, NEW top \in Reached(u)
          PROVE  /\ \A id \in Committed' :
                      /\ messages'[id].channel = messages'[top].channel
                      /\ id < top /\ messages'[id].sender # u
                      => id \in shown[u] \cup passed_over[u]
                 /\ \A q \in Sender : Drawn(q)' /\ send'[q].id < top => send'[q].id \in passed_over[u]
      BY <1>5 DEF ShownInOrder, Reached
    <2>2. top \in Committed
      BY DEF MessageTypeOK, Reached, CursorsShown, InChannel
    <2>3. s.id < top => s.id \in passed_over[u]
      BY <1>1, <1>2 DEF ShownInOrder
    <2>4. QED
      BY <1>3, <1>4, <1>6, <2>2, <2>3 DEF ShownInOrder
  <1>13. CursorsShown'
    BY <1>3, <1>5 DEF CursorsShown, InChannel
  <1>14. QED
    BY <1>8, <1>9, <1>10, <1>11, <1>12, <1>13

-----------------------------------------------------------------------------
(* Reading. *)

\* A limited read keeps, with a message, all that it asked for below it.
LEMMA OldestFirst ==
  ASSUME NEW ids \in SUBSET (1..MaxMessage), NEW limit \in Nat,
         NEW top \in OldestKept(ids, limit), NEW id \in ids, id < top
  PROVE  id \in OldestKept(ids, limit)
  <1> DEFINE Below(i) == {other \in ids : other < i}
  <1>1. top \in ids /\ id \in Int /\ top \in Int
    BY MessageAssumption DEF OldestKept
  <1>2. IsFiniteSet(Below(id)) /\ IsFiniteSet(Below(top))
    <2>1. IsFiniteSet(1..MaxMessage)
      BY MessageAssumption, FS_Interval
    <2>2. QED
      BY <2>1, FS_Subset
  <1>3. Below(id) \subseteq Below(top)
    <2>1. SUFFICES ASSUME NEW other \in ids, other < id
                   PROVE  other < top
      OBVIOUS
    <2>2. other \in Int
      OBVIOUS
    <2>3. QED
      BY <1>1, <2>1, <2>2
  <1>4. Cardinality(Below(id)) <= Cardinality(Below(top))
    BY <1>2, <1>3, FS_Subset
  <1>5. Cardinality(Below(id)) \in Nat /\ Cardinality(Below(top)) \in Nat
    BY <1>2, FS_CardinalityType
  <1>6. Cardinality(Below(top)) < limit
    BY DEF OldestKept
  <1>7. Cardinality(Below(id)) < limit
    BY <1>4, <1>5, <1>6
  <1>8. QED
    BY <1>7 DEF OldestKept

\* What was shown in order, up to a message that was shown, is all there is.
LEMMA NothingMissed ==
  ASSUME MessageInv
  PROVE  ReadBeforePassed
  <1>1. SUFFICES ASSUME NEW u \in Reader, NEW c \in Channel, NEW id \in InChannel(c),
                        id <= cursor[<<u, c>>], messages[id].sender # u
                 PROVE  id \in shown[u] \cup passed_over[u]
    BY DEF ReadBeforePassed
  <1>2. id \in Committed /\ messages[id].channel = c /\ id \in Nat \ {0}
    BY IdsAreNat DEF InChannel, MessageInv, MessageTypeOK
  <1>3. PICK top : top = cursor[<<u, c>>]
    OBVIOUS
  <1>4. top \in Nat
    BY <1>3, MessageAssumption DEF MessageInv, MessageTypeOK
  <1>5. top # 0
    BY <1>1, <1>2, <1>3, <1>4
  <1>6. /\ top \in shown[u] \cup passed_over[u] /\ messages[top].channel = c
        /\ top \in Reached(u)
    BY <1>3, <1>5 DEF MessageInv, CursorsShown, InChannel, Reached
  <1>7. id = top \/ id < top
    BY <1>1, <1>2, <1>3, <1>4
  <1>8. QED
    BY <1>1, <1>2, <1>6, <1>7 DEF MessageInv, ShownInOrder

LEMMA InboxKeeps ==
  ASSUME MessageInv, NEW u \in Reader, NEW c \in Channel,
         NEW unread_only \in BOOLEAN, NEW newest_first \in BOOLEAN, NEW limit \in InboxLimit,
         Inbox(u, c, unread_only, newest_first, limit)
  PROVE  MessageInv'
  <1> USE DEF MessageInv
  <1>1. PICK asked : asked = IF unread_only THEN Unread(u, c) ELSE InChannel(c)
    OBVIOUS
  <1>2. PICK returned : returned = IF newest_first THEN NewestKept(asked, limit) ELSE OldestKept(asked, limit)
    OBVIOUS
  <1>3. PICK missed : missed = {id \in InFlight \cup (IF newest_first THEN asked \ returned ELSE {}) :
                                  \E top \in returned : id < top}
    OBVIOUS
  <1>4. /\ shown' = [shown EXCEPT ![u] = @ \cup returned]
        /\ passed_over' = [passed_over EXCEPT ![u] = @ \cup missed]
        /\ UNCHANGED <<next_id, messages, send, cursor, answered>>
    BY <1>1, <1>2, <1>3 DEF Inbox
  <1>5. /\ asked \subseteq InChannel(c) /\ asked \subseteq Committed
        /\ Committed \subseteq 1..MaxMessage
    <2>1. Committed \subseteq 1..MaxMessage
      BY MessageAssumption DEF MessageTypeOK
    <2>2. QED
      BY <1>1, <2>1 DEF Unread, InChannel
  <1>6. returned \subseteq asked
    BY <1>2 DEF NewestKept, OldestKept
  <1>7. \A p \in Sender : Drawn(p) => send[p].id \in InFlight
    <2>1. \A p \in Sender : Drawn(p) => send[p].step # "idle" /\ send[p].id # 0
      BY DEF Drawn, IdsDrawnOnce
    <2>2. QED
      BY <2>1 DEF InFlight
  <1>8. missed \subseteq 1..MaxMessage
    <2>1. InFlight \subseteq 1..MaxMessage
      BY SendTyped, MessageAssumption DEF InFlight
    <2>2. QED
      BY <1>3, <1>5, <2>1
  <1>9. /\ shown'[u] = shown[u] \cup returned
        /\ passed_over'[u] = passed_over[u] \cup missed
        /\ \A v \in Reader \ {u} : shown'[v] = shown[v] /\ passed_over'[v] = passed_over[v]
    BY <1>4 DEF MessageTypeOK
  <1>10. /\ Committed' = Committed
         /\ \A key : WithKey(key)' = WithKey(key)
         /\ \A d : InChannel(d)' = InChannel(d)
         /\ \A p : Drawn(p)' <=> Drawn(p)
    BY <1>4 DEF Committed, WithKey, InChannel, Drawn
  <1>11. MessageTypeOK'
    <2>1. shown' \in [Reader -> SUBSET Committed']
      BY <1>4, <1>5, <1>6, <1>10 DEF MessageTypeOK
    <2>2. passed_over' \in [Reader -> SUBSET (1..MaxMessage)]
      BY <1>4, <1>8 DEF MessageTypeOK
    <2>3. QED
      BY <1>4, <1>10, <2>1, <2>2 DEF MessageTypeOK
  <1>12. IdsDrawnOnce' /\ KeysApart'
    BY <1>4, <1>10 DEF IdsDrawnOnce, KeysApart
  <1>13. KeyNamesOneCall'
    BY <1>4, AnswersStand
  <1>14. CursorsShown'
    BY <1>4, <1>9, <1>10 DEF CursorsShown
  <1>15. ASSUME NEW top \in returned, NEW id \in Committed,
                messages[id].channel = messages[top].channel,
                id < top, messages[id].sender # u
         PROVE  id \in shown'[u] \cup passed_over'[u]
    <2>1. messages[top].channel = c /\ id \in InChannel(c)
      BY <1>5, <1>6, <1>15 DEF InChannel
    <2>2. CASE id \notin asked
      <3>1. unread_only /\ ~(id > cursor[<<u, c>>])
        BY <1>1, <1>15, <2>1, <2>2 DEF Unread
      <3>2. id <= cursor[<<u, c>>]
        BY <3>1, IdsAreNat DEF MessageTypeOK
      <3>3. id \in shown[u] \cup passed_over[u]
        BY <1>15, <2>1, <3>2, NothingMissed DEF ReadBeforePassed
      <3>4. QED
        BY <1>9, <3>3
    <2>3. CASE id \in asked /\ newest_first
      BY <1>3, <1>9, <1>15, <2>3
    <2>4. CASE id \in asked /\ ~newest_first
      <3>1. returned = OldestKept(asked, limit) /\ limit \in Nat
        BY <1>2, <2>4, MessageAssumption
      <3>2. id \in OldestKept(asked, limit)
        BY <1>5, <1>15, <2>4, <3>1, OldestFirst
      <3>3. QED
        BY <1>9, <3>1, <3>2
    <2>5. QED
      BY <2>2, <2>3, <2>4
  <1>16. ASSUME NEW top \in returned, NEW p \in Sender, Drawn(p), send[p].id < top
         PROVE  send[p].id \in passed_over'[u]
    BY <1>3, <1>7, <1>9, <1>16
  <1>17. ShownInOrder'
    <2>0. /\ Reached(u)' = Reached(u) \cup returned
          /\ \A v \in Reader \ {u} : Reached(v)' = Reached(v)
      BY <1>4, <1>9 DEF Reached
    <2>1. SUFFICES ASSUME NEW v \in Reader, NEW top \in Reached(v)'
          PROVE  /\ \A id \in Committed :
                      /\ messages[id].channel = messages[top].channel
                      /\ id < top /\ messages[id].sender # v
                      => id \in shown'[v] \cup passed_over'[v]
                 /\ \A p \in Sender : Drawn(p) /\ send[p].id < top => send[p].id \in passed_over'[v]
      BY <1>4, <1>10 DEF ShownInOrder
    <2>2. CASE top \in Reached(v)
      BY <1>9, <2>2 DEF ShownInOrder
    <2>3. CASE top \notin Reached(v)
      <3>1. v = u /\ top \in returned
        BY <2>0, <2>1, <2>3
      <3>2. QED
        BY <1>15, <1>16, <3>1
    <2>4. QED
      BY <2>2, <2>3
  <1>18. QED
    BY <1>11, <1>12, <1>13, <1>14, <1>17

\* What readers do to nothing but their cursors and records.
LEMMA ReaderKeeps ==
  ASSUME MessageInv, UNCHANGED <<next_id, messages, send, answered, shown>>,
         cursor' \in [Reader \X Channel -> 0..MaxMessage],
         passed_over' \in [Reader -> SUBSET (1..MaxMessage)],
         ShownInOrder', CursorsShown'
  PROVE  MessageInv'
  <1> USE DEF MessageInv
  <1>1. /\ Committed' = Committed
        /\ \A key : WithKey(key)' = WithKey(key)
        /\ \A p : Drawn(p)' <=> Drawn(p)
    BY DEF Committed, WithKey, Drawn
  <1>2. MessageTypeOK'
    BY <1>1 DEF MessageTypeOK
  <1>3. IdsDrawnOnce' /\ KeysApart'
    BY <1>1 DEF IdsDrawnOnce, KeysApart
  <1>4. KeyNamesOneCall'
    BY AnswersStand
  <1>5. QED
    BY <1>2, <1>3, <1>4

LEMMA AckKeeps ==
  ASSUME MessageInv, NEW u \in Reader, NEW c \in Channel, NEW id \in 1..MaxMessage,
         AckMessages(u, c, id)
  PROVE  MessageInv'
  <1> USE DEF MessageInv
  <1>1. UNCHANGED <<next_id, messages, send, answered, shown>>
    BY DEF AckMessages
  <1>2. /\ Committed' = Committed
        /\ \A d : InChannel(d)' = InChannel(d)
        /\ \A p : Drawn(p)' <=> Drawn(p)
    BY <1>1 DEF Committed, InChannel, Drawn
  <1>3. /\ cursor'[<<u, c>>] \in {cursor[<<u, c>>], id}
        /\ \A at \in (Reader \X Channel) \ {<<u, c>>} : cursor'[at] = cursor[at]
        /\ cursor' \in [Reader \X Channel -> 0..MaxMessage]
    BY MessageAssumption DEF AckMessages, MessageTypeOK
  <1>4. id \in InChannel(c) /\ id \in Committed /\ messages[id].channel = c
    BY DEF AckMessages, Ackable, InChannel
  <1>5. PICK below \in SUBSET (1..MaxMessage) :
          below = {other \in InFlight \cup InChannel(c) : other <= id}
    <2>1. InFlight \subseteq 1..MaxMessage
      BY SendTyped, MessageAssumption DEF InFlight
    <2>2. InChannel(c) \subseteq 1..MaxMessage
      <3>1. Committed \subseteq 1..MaxMessage
        BY MessageAssumption DEF MessageTypeOK
      <3>2. QED
        BY <3>1 DEF InChannel
    <2>3. {other \in InFlight \cup InChannel(c) : other <= id} \in SUBSET (1..MaxMessage)
      BY <2>1, <2>2
    <2>4. QED
      BY <2>3, Zenon
  <1>6. /\ passed_over' \in [Reader -> SUBSET (1..MaxMessage)]
        /\ \A v \in Reader : passed_over[v] \subseteq passed_over'[v]
        /\ id \notin shown[u] => below \subseteq passed_over'[u]
    BY <1>5 DEF AckMessages, MessageTypeOK
  <1>7. \A v \in Reader : Reached(v)' \subseteq Reached(v) \cup (IF v = u THEN {id} ELSE {})
    <2>1. SUFFICES ASSUME NEW v \in Reader, NEW top \in Reached(v)'
                   PROVE  top \in Reached(v) \cup (IF v = u THEN {id} ELSE {})
      OBVIOUS
    <2>2. CASE top \in shown[v]
      BY <2>2 DEF Reached
    <2>3. CASE top \notin shown[v]
      <3>1. PICK d \in Channel : top = cursor'[<<v, d>>] /\ top # 0
        BY <1>1, <2>1, <2>3 DEF Reached
      <3>2. CASE <<v, d>> = <<u, c>>
        BY <1>3, <3>1, <3>2 DEF Reached
      <3>3. CASE <<v, d>> # <<u, c>>
        BY <1>3, <3>1, <3>3 DEF Reached
      <3>4. QED
        BY <3>2, <3>3
    <2>4. QED
      BY <2>2, <2>3
  <1>8. /\ \A other \in Committed :
             /\ messages[other].channel = messages[id].channel
             /\ other < id /\ messages[other].sender # u
             => other \in shown[u] \cup passed_over'[u]
        /\ \A p \in Sender : Drawn(p) /\ send[p].id < id => send[p].id \in passed_over'[u]
    <2>1. CASE id \in shown[u]
      BY <1>6, <2>1 DEF ShownInOrder, Reached
    <2>2. CASE id \notin shown[u]
      <3>1. \A p \in Sender : Drawn(p) => send[p].id \in InFlight
        BY DEF Drawn, IdsDrawnOnce, InFlight
      <3>2. \A other \in Committed : messages[other].channel = c /\ other < id => other \in below
        BY <1>5, IdsAreNat DEF InChannel
      <3>3. \A p \in Sender : Drawn(p) /\ send[p].id < id => send[p].id \in below
        BY <1>5, <3>1, IdsAreNat DEF Drawn, IdsDrawnOnce
      <3>4. QED
        BY <1>4, <1>6, <2>2, <3>2, <3>3
    <2>3. QED
      BY <2>1, <2>2
  <1>9. ShownInOrder'
    <2>1. SUFFICES ASSUME NEW v \in Reader, NEW top \in Reached(v)'
          PROVE  /\ \A other \in Committed :
                      /\ messages[other].channel = messages[top].channel
                      /\ other < top /\ messages[other].sender # v
                      => other \in shown[v] \cup passed_over'[v]
                 /\ \A p \in Sender : Drawn(p) /\ send[p].id < top => send[p].id \in passed_over'[v]
      BY <1>1, <1>2 DEF ShownInOrder
    <2>2. CASE top \in Reached(v)
      BY <1>6, <2>2 DEF ShownInOrder
    <2>3. CASE top \notin Reached(v)
      BY <1>7, <1>8, <2>1, <2>3
    <2>4. QED
      BY <2>2, <2>3
  <1>10. CursorsShown'
    <2>1. id \in shown[u] \cup passed_over'[u]
      BY <1>4, <1>5, <1>6
    <2>2. SUFFICES ASSUME NEW v \in Reader, NEW d \in Channel, cursor'[<<v, d>>] # 0
                   PROVE  cursor'[<<v, d>>] \in (shown[v] \cup passed_over'[v]) \cap InChannel(d)
      BY <1>1, <1>2 DEF CursorsShown
    <2>3. CASE <<v, d>> = <<u, c>>
      BY <1>3, <1>4, <1>6, <2>1, <2>2, <2>3 DEF CursorsShown
    <2>4. CASE <<v, d>> # <<u, c>>
      BY <1>3, <1>6, <2>2, <2>4 DEF CursorsShown
    <2>5. QED
      BY <2>3, <2>4
  <1>11. QED
    BY <1>1, <1>3, <1>6, <1>9, <1>10, ReaderKeeps

LEMMA DropKeeps ==
  ASSUME MessageInv, NEW u \in Reader, DropCursors(u)
  PROVE  MessageInv'
  <1> USE DEF MessageInv
  <1>1. UNCHANGED <<next_id, messages, send, answered, shown, passed_over>>
    BY DEF DropCursors
  <1>2. /\ cursor' \in [Reader \X Channel -> 0..MaxMessage]
        /\ \A at \in Reader \X Channel : cursor'[at] \in {0, cursor[at]}
    BY MessageAssumption DEF DropCursors, MessageTypeOK
  <1>3. \A v \in Reader : Reached(v)' \subseteq Reached(v)
    BY <1>1, <1>2 DEF Reached
  <1>4. ShownInOrder'
    BY <1>1, <1>3 DEF ShownInOrder, Committed, Drawn
  <1>5. CursorsShown'
    BY <1>1, <1>2 DEF CursorsShown, InChannel, Committed
  <1>6. passed_over' \in [Reader -> SUBSET (1..MaxMessage)]
    BY <1>1 DEF MessageTypeOK
  <1>7. QED
    BY <1>1, <1>2, <1>4, <1>5, <1>6, ReaderKeeps

-----------------------------------------------------------------------------
(* The theorems. *)

LEMMA MessageInitially == MessageInit => MessageInv
  <1>1. SUFFICES ASSUME MessageInit
                 PROVE  MessageInv
    OBVIOUS
  <1>2. /\ Committed = {} /\ \A key : WithKey(key) = {}
        /\ \A p \in Sender : send[p] = NoSend /\ send[p].step = "idle"
        /\ \A u \in Reader : shown[u] = {} /\ \A c \in Channel : cursor[<<u, c>>] = 0
    BY <1>1 DEF MessageInit, Committed, WithKey, NoSend
  <1>3. MessageTypeOK
    BY <1>1, <1>2, MessageAssumption DEF MessageInit, MessageTypeOK
  <1>4. IdsDrawnOnce /\ KeysApart /\ ShownInOrder
    BY <1>2 DEF IdsDrawnOnce, KeysApart, ShownInOrder, Reached, Drawn
  <1>5. KeyNamesOneCall /\ CursorsShown
    BY <1>1 DEF MessageInit, KeyNamesOneCall, CursorsShown
  <1>6. QED
    BY <1>3, <1>4, <1>5 DEF MessageInv

LEMMA MessageKept == MessageInv /\ [MessageNext]_messageVars => MessageInv'
  <1>1. SUFFICES ASSUME MessageInv, [MessageNext]_messageVars
                 PROVE  MessageInv'
    OBVIOUS
  <1>2. CASE \E p \in Sender, c \in Channel, key \in Key \cup {NoKey}, payload \in Payload :
               SendMessage(p, c, key, payload)
    BY <1>1, <1>2, SendKeeps
  <1>3. CASE \E p \in Sender : Replay(p) \/ LoseKeyRace(p)
    <2>1. PICK p \in Sender : Replay(p) \/ LoseKeyRace(p)
      BY <1>3
    <2>2. send[p].step # "idle" /\ \E id \in WithKey(send[p].row.key) : Converge(p, id)
      BY <2>1 DEF Replay, LoseKeyRace
    <2>3. QED
      BY <1>1, <2>2, ConvergeKeeps
  <1>4. CASE \E p \in Sender : DrawId(p) \/ InsertMessage(p) \/ CommitSend(p) \/ AbortSend(p)
    BY <1>1, <1>4, DrawIdKeeps, InsertMessageKeeps, CommitSendKeeps, AbortSendKeeps
  <1>5. CASE \E u \in Reader, c \in Channel, unread_only, newest_first \in BOOLEAN,
                limit \in InboxLimit : Inbox(u, c, unread_only, newest_first, limit)
    BY <1>1, <1>5, InboxKeeps
  <1>6. CASE \E u \in Reader, c \in Channel, id \in 1..MaxMessage : AckMessages(u, c, id)
    BY <1>1, <1>6, AckKeeps
  <1>7. CASE UNCHANGED messageVars
    <2>1. UNCHANGED <<next_id, messages, send, cursor, answered, shown, passed_over>>
      BY <1>7 DEF messageVars
    <2>2. /\ cursor' \in [Reader \X Channel -> 0..MaxMessage]
          /\ passed_over' \in [Reader -> SUBSET (1..MaxMessage)]
      BY <1>1, <2>1 DEF MessageInv, MessageTypeOK
    <2>3. \A u \in Reader : Reached(u)' = Reached(u)
      BY <2>1 DEF Reached
    <2>4. ShownInOrder' /\ CursorsShown'
      BY <1>1, <2>1, <2>3 DEF MessageInv, ShownInOrder, CursorsShown, Committed, InChannel, Drawn
    <2>5. QED
      BY <1>1, <2>1, <2>2, <2>4, ReaderKeeps
  <1>8. CASE \E u \in Reader : DropCursors(u)
    BY <1>1, <1>8, DropKeeps
  <1>9. QED
    BY <1>1, <1>2, <1>3, <1>4, <1>5, <1>6, <1>7, <1>8 DEF MessageNext

LEMMA MessagesSound == MessageSpec => []MessageInv
  BY MessageInitially, MessageKept, PTL DEF MessageSpec

\* The sequence, the rows, the calls and the readers' records keep their shape.
THEOREM MessageTypeCorrect == MessageSpec => []MessageTypeOK
  <1>1. MessageInv => MessageTypeOK
    BY DEF MessageInv
  <1>2. QED
    BY <1>1, MessagesSound, PTL

\* An idempotency key names one message, and who is answered with it asked for
\* just that: send_message's look-up, its savepoint and the unique index, for any
\* number of concurrent calls and retries.
THEOREM KeysNameOne == MessageSpec => []KeyNamesOneCall
  <1>1. MessageInv => KeyNamesOneCall
    BY DEF MessageInv
  <1>2. QED
    BY <1>1, MessagesSound, PTL

\* What the cursor has passed was shown to the member, or left out below what was
\* shown, or at or below what the member acknowledged unseen: inbox and
\* ack_messages, whatever order the sends commit in.
THEOREM ReadFirst == MessageSpec => []ReadBeforePassed
  BY NothingMissed, MessagesSound, PTL

-----------------------------------------------------------------------------
(* ChangeWatch. *)

\* A waiter has others' changes to take only if it counts as woken by others.
OthersKnown ==
  \A w \in Watching : \A i \in 1..Len(waiter[w].queue) :
    ~SelfAuthored(w, waiter[w].queue[i]) => waiter[w].others

WatchInv == WatchTypeOK /\ OthersKnown

\* One more change in a receiver's queue.
LEMMA Queued ==
  ASSUME NEW q \in Seq(Change), NEW change \in Change, Len(q) <= Capacity
  PROVE  \E p \in Seq(Change) :
         /\ p = Append(IF Len(q) < Capacity THEN q ELSE Tail(q), change)
         /\ Len(p) <= Capacity
         /\ \A i \in 1..Len(p) : p[i] = change \/ \E j \in 1..Len(q) : p[i] = q[j]
  <1> USE WatchAssumption
  <1>1. PICK t \in Seq(Change) : /\ t = IF Len(q) < Capacity THEN q ELSE Tail(q)
                                 /\ Len(t) < Capacity
                                 /\ \A i \in 1..Len(t) : \E j \in 1..Len(q) : t[i] = q[j]
    <2>1. CASE Len(q) < Capacity
      BY <2>1
    <2>2. CASE ~(Len(q) < Capacity)
      <3>1. Len(q) = Capacity /\ q # <<>>
        BY <2>2, EmptySeq, LenProperties
      <3>2. /\ Tail(q) \in Seq(Change) /\ Len(Tail(q)) = Len(q) - 1
            /\ \A i \in 1..Len(Tail(q)) : Tail(q)[i] = q[i + 1]
        BY <3>1, HeadTailProperties
      <3>3. \A i \in 1..Len(Tail(q)) : i + 1 \in 1..Len(q)
        BY <3>1, <3>2
      <3>4. PICK t : t = Tail(q)
        OBVIOUS
      <3>5. t \in Seq(Change) /\ Len(t) < Capacity /\ t = IF Len(q) < Capacity THEN q ELSE Tail(q)
        BY <3>1, <3>2, <3>4
      <3>6. \A i \in 1..Len(t) : \E j \in 1..Len(q) : t[i] = q[j]
        BY <3>2, <3>3, <3>4
      <3>7. QED
        BY <3>5, <3>6
    <2>3. QED
      BY <2>1, <2>2
  <1>2. PICK p : p = Append(t, change)
    OBVIOUS
  <1>3. /\ p \in Seq(Change) /\ Len(p) = Len(t) + 1
        /\ \A i \in 1..Len(t) : p[i] = t[i]
        /\ p[Len(t) + 1] = change
    BY <1>1, <1>2, AppendProperties
  <1>4. Len(t) \in Nat
    BY <1>1, LenProperties
  <1>5. \A i \in 1..Len(p) : i = Len(t) + 1 \/ i \in 1..Len(t)
    BY <1>3, <1>4
  <1>6. \A i \in 1..Len(p) : p[i] = change \/ \E j \in 1..Len(q) : p[i] = q[j]
    BY <1>1, <1>3, <1>5
  <1>7. Len(p) <= Capacity
    BY <1>1, <1>3, <1>4
  <1>8. p \in Seq(Change) /\ p = Append(IF Len(q) < Capacity THEN q ELSE Tail(q), change)
    BY <1>1, <1>2, <1>3
  <1>9. QED
    BY <1>6, <1>7, <1>8

LEMMA ReceivedTyped ==
  ASSUME NEW wt \in Waiter, Len(wt.queue) <= Capacity, NEW change \in Change, NEW own \in BOOLEAN,
         NEW new, new = Received(wt, change, own)
  PROVE  /\ new \in Waiter /\ Len(new.queue) <= Capacity /\ new.state = wt.state
         /\ wt.others => new.others
         /\ ~own => new.others
         /\ \A i \in 1..Len(new.queue) :
              new.queue[i] = change \/ \E j \in 1..Len(wt.queue) : new.queue[i] = wt.queue[j]
  <1>1. PICK p \in Seq(Change) :
          /\ p = Append(IF Len(wt.queue) < Capacity THEN wt.queue ELSE Tail(wt.queue), change)
          /\ Len(p) <= Capacity
          /\ \A i \in 1..Len(p) : p[i] = change \/ \E j \in 1..Len(wt.queue) : p[i] = wt.queue[j]
    <2>1. wt.queue \in Seq(Change)
      BY DEF Waiter
    <2>2. QED
      BY <2>1, Queued
  <1>2. PICK lagged \in BOOLEAN : lagged <=> (wt.lagged \/ Len(wt.queue) = Capacity)
    OBVIOUS
  <1>3. PICK others \in BOOLEAN : others <=> (wt.others \/ ~own)
    OBVIOUS
  <1>4. wt.queue \in Seq(Change) /\ wt.lagged \in BOOLEAN /\ wt.others \in BOOLEAN
    BY DEF Waiter
  <1>5. /\ p \in Seq(Change) /\ Len(p) <= Capacity
        /\ \A i \in 1..Len(p) : p[i] = change \/ \E j \in 1..Len(wt.queue) : p[i] = wt.queue[j]
    BY <1>1
  <1>6. (wt.lagged \/ Len(wt.queue) = Capacity) \in BOOLEAN /\ (wt.others \/ ~own) \in BOOLEAN
    BY <1>4
  <1>7. lagged = (wt.lagged \/ Len(wt.queue) = Capacity) /\ others = (wt.others \/ ~own)
    BY <1>2, <1>3, <1>6
  <1>8. new = [wt EXCEPT !.queue = p, !.lagged = lagged, !.others = others]
    BY <1>1, <1>7 DEF Received, Waiter
  <1>9. lagged \in BOOLEAN /\ others \in BOOLEAN
    BY <1>2, <1>3
  <1>10. /\ new \in Waiter /\ new.queue = p /\ new.state = wt.state /\ new.others = others
    BY <1>5, <1>8, <1>9 DEF Waiter
  <1>11. (wt.others => others) /\ (~own => others)
    BY <1>3
  <1>12. QED
    BY <1>5, <1>10, <1>11

LEMMA ReadingTyped ==
  /\ Reading \in Waiter /\ Reading.queue = <<>> /\ Reading.state = "reading"
  /\ [Reading EXCEPT !.state = "away"] \in Waiter
  /\ [Reading EXCEPT !.state = "away"].queue = <<>>
  /\ [Reading EXCEPT !.state = "waiting", !.left = WatchTime] \in Waiter
  /\ [Reading EXCEPT !.state = "waiting", !.left = WatchTime].queue = <<>>
  <1>1. <<>> \in Seq(Change) /\ 0 \in 0..WatchTime /\ WatchTime \in 0..WatchTime
    BY WatchAssumption
  <1>2. QED
    BY <1>1 DEF Reading, Waiter

\* One agent's call changes, and brings no change it did not have.
LEMMA CallMoves ==
  ASSUME WatchInv, NEW w \in Watching, NEW new \in Waiter, waiter' = [waiter EXCEPT ![w] = new],
         Len(new.queue) <= Capacity,
         \A i \in 1..Len(new.queue) : ~SelfAuthored(w, new.queue[i]) => new.others,
         UNCHANGED <<changes, dispatched, listening>>,
         seen' \in [Watching -> 0..Len(changes)]
  PROVE  WatchInv'
  <1>1. /\ waiter' \in [Watching -> Waiter] /\ waiter'[w] = new
        /\ \A x \in Watching \ {w} : waiter'[x] = waiter[x]
    BY DEF WatchInv, WatchTypeOK
  <1>2. WatchTypeOK'
    BY <1>1 DEF WatchInv, WatchTypeOK
  <1>3. \A x, c : SelfAuthored(x, c)' <=> SelfAuthored(x, c)
    BY DEF SelfAuthored
  <1>4. OthersKnown'
    <2>1. SUFFICES ASSUME NEW x \in Watching, NEW i \in 1..Len(waiter'[x].queue),
                          ~SelfAuthored(x, waiter'[x].queue[i])
                   PROVE  waiter'[x].others
      BY <1>3 DEF OthersKnown
    <2>2. CASE x = w
      BY <1>1, <2>1, <2>2
    <2>3. CASE x # w
      BY <1>1, <2>1, <2>3 DEF WatchInv, OthersKnown
    <2>4. QED
      BY <2>2, <2>3
  <1>5. QED
    BY <1>2, <1>4 DEF WatchInv

LEMMA AgentKeeps ==
  ASSUME WatchInv, NEW w \in Watching,
         Arrive(w) \/ Read(w) \/ Subscribe(w) \/ Wake(w) \/ SkipOwn(w) \/ TimeOut(w)
  PROVE  WatchInv'
  <1> USE WatchAssumption DEF WatchInv
  <1>1. /\ waiter[w] \in Waiter /\ Len(waiter[w].queue) <= Capacity
        /\ changes \in Seq(Change) /\ seen \in [Watching -> 0..Len(changes)]
    BY DEF WatchTypeOK
  <1>2. CASE Arrive(w) \/ Wake(w) \/ TimeOut(w)
    <2>1. waiter' = [waiter EXCEPT ![w] = Reading] /\ UNCHANGED <<changes, dispatched, listening, seen>>
      BY <1>2 DEF Arrive, Wake, TimeOut, Answer
    <2>2. PICK new \in Waiter : new = Reading /\ new.queue = <<>>
      BY ReadingTyped
    <2>3. Len(new.queue) = 0
      BY <2>2
    <2>4. \A i \in 1..Len(new.queue) : ~SelfAuthored(w, new.queue[i]) => new.others
      BY <2>3
    <2>5. Len(new.queue) <= Capacity
      BY <2>3
    <2>6. waiter' = [waiter EXCEPT ![w] = new]
      BY <2>1, <2>2
    <2>7. QED
      BY <1>1, <2>1, <2>4, <2>5, <2>6, CallMoves
  <1>3. CASE Read(w)
    <2>1. PICK new : new = [waiter[w] EXCEPT !.state = "calling"]
      OBVIOUS
    <2>2. new \in Waiter /\ new.queue = waiter[w].queue /\ new.others = waiter[w].others
      BY <1>1, <2>1 DEF Waiter
    <2>3. waiter' = [waiter EXCEPT ![w] = new] /\ UNCHANGED <<changes, dispatched, listening>>
      BY <1>3, <2>1 DEF Read, WatchTypeOK
    <2>4. seen' \in [Watching -> 0..Len(changes)]
      BY <1>1, <1>3 DEF Read
    <2>5. \A i \in 1..Len(new.queue) : ~SelfAuthored(w, new.queue[i]) => new.others
      BY <2>2 DEF OthersKnown
    <2>6. QED
      BY <1>1, <2>2, <2>3, <2>4, <2>5, CallMoves
  <1>4. CASE Subscribe(w)
    <2>1. PICK new : new = [Reading EXCEPT !.state = "waiting", !.left = WatchTime]
      OBVIOUS
    <2>2. new \in Waiter /\ Len(new.queue) = 0
      BY <2>1, ReadingTyped
    <2>3. waiter' = [waiter EXCEPT ![w] = new] /\ UNCHANGED <<changes, dispatched, listening, seen>>
      BY <1>4, <2>1 DEF Subscribe
    <2>4. \A i \in 1..Len(new.queue) : ~SelfAuthored(w, new.queue[i]) => new.others
      BY <2>2
    <2>5. Len(new.queue) <= Capacity
      BY <2>2
    <2>6. QED
      BY <1>1, <2>2, <2>3, <2>4, <2>5, CallMoves
  <1>5. CASE SkipOwn(w)
    <2>1. PICK q : q = waiter[w].queue
      OBVIOUS
    <2>2. q \in Seq(Change) /\ q # <<>> /\ Len(q) <= Capacity
      BY <1>1, <1>5, <2>1 DEF SkipOwn, Waiter
    <2>3. /\ Tail(q) \in Seq(Change) /\ Len(Tail(q)) = Len(q) - 1
          /\ \A i \in 1..Len(Tail(q)) : Tail(q)[i] = q[i + 1] /\ i + 1 \in 1..Len(q)
      BY <2>2
    <2>4. PICK new : new = [waiter[w] EXCEPT !.queue = Tail(q)]
      OBVIOUS
    <2>5. new \in Waiter /\ new.queue = Tail(q) /\ new.others = waiter[w].others
      BY <1>1, <2>3, <2>4 DEF Waiter
    <2>6. waiter' = [waiter EXCEPT ![w] = new] /\ UNCHANGED <<changes, dispatched, listening, seen>>
      BY <1>5, <2>1, <2>4 DEF SkipOwn, WatchTypeOK
    <2>7. \A i \in 1..Len(new.queue) : ~SelfAuthored(w, new.queue[i]) => new.others
      BY <2>1, <2>3, <2>5 DEF OthersKnown
    <2>8. Len(new.queue) <= Capacity
      BY <2>2, <2>3, <2>5
    <2>9. QED
      BY <1>1, <2>5, <2>6, <2>7, <2>8, CallMoves
  <1>6. QED
    BY <1>2, <1>3, <1>4, <1>5

LEMMA DispatchKeeps ==
  ASSUME WatchInv, Dispatch
  PROVE  WatchInv'
  <1> USE DEF WatchInv
  <1>1. /\ changes \in Seq(Change) /\ dispatched \in 0..Len(changes)
        /\ waiter \in [Watching -> Waiter] /\ dispatched < Len(changes)
        /\ dispatched' = dispatched + 1 /\ UNCHANGED <<changes, listening, seen>>
    BY DEF WatchTypeOK, Dispatch
  <1>2. PICK change : change = changes[dispatched + 1]
    OBVIOUS
  <1>3. change \in Change
    BY <1>1, <1>2
  <1>4. \A w, c : SelfAuthored(w, c)' <=> SelfAuthored(w, c)
    BY DEF SelfAuthored
  <1>5. waiter' = [w \in Watching |->
                     IF waiter[w].state = "waiting"
                     THEN Received(waiter[w], change,
                                   change.kind = "message" /\ change.sender = UserOf[w])
                     ELSE waiter[w]]
    BY <1>2 DEF Dispatch
  <1>6. ASSUME NEW w \in Watching
        PROVE  /\ waiter'[w] \in Waiter /\ Len(waiter'[w].queue) <= Capacity
               /\ \A i \in 1..Len(waiter'[w].queue) :
                    ~SelfAuthored(w, waiter'[w].queue[i]) => waiter'[w].others
    <2>1. /\ waiter[w] \in Waiter /\ Len(waiter[w].queue) <= Capacity
          /\ \A i \in 1..Len(waiter[w].queue) :
               ~SelfAuthored(w, waiter[w].queue[i]) => waiter[w].others
      BY DEF WatchTypeOK, OthersKnown
    <2>2. CASE waiter[w].state # "waiting"
      BY <1>5, <2>1, <2>2
    <2>3. CASE waiter[w].state = "waiting"
      <3>1. PICK own : own = (change.kind = "message" /\ change.sender = UserOf[w])
        OBVIOUS
      <3>2. own \in BOOLEAN /\ (own <=> SelfAuthored(w, change))
        BY <3>1 DEF SelfAuthored
      <3>3. PICK new : new = Received(waiter[w], change, own)
        OBVIOUS
      <3>4. waiter'[w] = new
        BY <1>5, <2>3, <3>1, <3>3
      <3>5. /\ new \in Waiter /\ Len(new.queue) <= Capacity
            /\ waiter[w].others => new.others
            /\ ~own => new.others
            /\ \A i \in 1..Len(new.queue) :
                 new.queue[i] = change \/ \E j \in 1..Len(waiter[w].queue) :
                                            new.queue[i] = waiter[w].queue[j]
        BY <1>3, <2>1, <3>2, <3>3, ReceivedTyped
      <3>6. QED
        BY <2>1, <3>2, <3>4, <3>5
    <2>4. QED
      BY <2>2, <2>3
  <1>7. DOMAIN waiter' = Watching /\ waiter' = [w \in Watching |-> waiter'[w]]
    BY <1>5
  <1>8. waiter' \in [Watching -> Waiter]
    BY <1>6, <1>7
  <1>9. WatchTypeOK'
    BY <1>1, <1>6, <1>8 DEF WatchTypeOK
  <1>10. OthersKnown'
    BY <1>4, <1>6 DEF OthersKnown
  <1>11. QED
    BY <1>9, <1>10

LEMMA SecondKeeps ==
  ASSUME WatchInv, Second
  PROVE  WatchInv'
  <1> USE WatchAssumption DEF WatchInv
  <1>1. /\ waiter' = [w \in Watching |-> [waiter[w] EXCEPT !.left = IF @ > 0 THEN @ - 1 ELSE 0]]
        /\ UNCHANGED <<changes, dispatched, listening, seen>>
    BY DEF Second
  <1>2. ASSUME NEW w \in Watching
        PROVE  /\ waiter'[w] \in Waiter /\ waiter'[w].queue = waiter[w].queue
               /\ waiter'[w].others = waiter[w].others
    <2>1. waiter[w] \in Waiter
      BY DEF WatchTypeOK
    <2>2. PICK n \in 0..WatchTime : n = IF waiter[w].left > 0 THEN waiter[w].left - 1 ELSE 0
      BY <2>1 DEF Waiter
    <2>3. waiter'[w] = [waiter[w] EXCEPT !.left = n]
      BY <1>1, <2>1, <2>2 DEF Waiter
    <2>4. QED
      BY <2>1, <2>2, <2>3 DEF Waiter
  <1>3. waiter' = [w \in Watching |-> waiter'[w]]
    BY <1>1
  <1>4. waiter' \in [Watching -> Waiter]
    BY <1>2, <1>3
  <1>5. WatchTypeOK'
    BY <1>1, <1>2, <1>4 DEF WatchTypeOK
  <1>6. \A w, c : SelfAuthored(w, c)' <=> SelfAuthored(w, c)
    BY DEF SelfAuthored
  <1>7. OthersKnown'
    BY <1>2, <1>6 DEF OthersKnown
  <1>8. QED
    BY <1>5, <1>7

LEMMA WatchKept == WatchInv /\ [WatchNext]_watchVars => WatchInv'
  <1>1. SUFFICES ASSUME WatchInv, [WatchNext]_watchVars
                 PROVE  WatchInv'
    OBVIOUS
  <1>2. \A w, c : SelfAuthored(w, c)' <=> SelfAuthored(w, c)
    BY DEF SelfAuthored
  <1>3. CASE \E change \in Change : Commit(change)
    <2>1. PICK change \in Change : Commit(change)
      BY <1>3
    <2>2. /\ changes \in Seq(Change)
          /\ changes' = Append(changes, change) /\ UNCHANGED <<dispatched, listening, waiter, seen>>
      BY <1>1, <2>1 DEF Commit, WatchInv, WatchTypeOK
    <2>3. changes' \in Seq(Change) /\ Len(changes') = Len(changes) + 1
      BY <2>2
    <2>4. WatchTypeOK'
      BY <1>1, <2>2, <2>3 DEF WatchInv, WatchTypeOK
    <2>5. OthersKnown'
      BY <1>1, <1>2, <2>2 DEF WatchInv, OthersKnown
    <2>6. QED
      BY <2>4, <2>5 DEF WatchInv
  <1>4. CASE Gap \/ ShutdownWatcher \/ UNCHANGED watchVars
    <2>1. UNCHANGED <<changes, waiter, seen>>
      BY <1>4 DEF Gap, ShutdownWatcher, watchVars
    <2>2. dispatched' \in 0..Len(changes) /\ listening' \in BOOLEAN
      <3>1. Len(changes) \in 0..Len(changes) /\ dispatched \in 0..Len(changes) /\ listening \in BOOLEAN
        BY <1>1, LenProperties DEF WatchInv, WatchTypeOK
      <3>2. QED
        BY <1>4, <3>1 DEF Gap, ShutdownWatcher, watchVars
    <2>3. WatchTypeOK'
      BY <1>1, <2>1, <2>2 DEF WatchInv, WatchTypeOK
    <2>4. OthersKnown'
      BY <1>1, <1>2, <2>1 DEF WatchInv, OthersKnown
    <2>5. QED
      BY <2>3, <2>4 DEF WatchInv
  <1>5. CASE Dispatch \/ Second
    BY <1>1, <1>5, DispatchKeeps, SecondKeeps
  <1>6. CASE \E w \in Watching : \/ Arrive(w) \/ Read(w) \/ Subscribe(w)
                                 \/ Wake(w) \/ SkipOwn(w) \/ TimeOut(w)
    BY <1>1, <1>6, AgentKeeps
  <1>7. QED
    BY <1>1, <1>3, <1>4, <1>5, <1>6 DEF WatchNext

LEMMA WatchInitially == WatchInit => WatchInv
  <1>1. SUFFICES ASSUME WatchInit
                 PROVE  WatchInv
    OBVIOUS
  <1>2. /\ changes = <<>> /\ dispatched = 0 /\ listening = TRUE
        /\ waiter = [w \in Watching |-> [Reading EXCEPT !.state = "away"]]
        /\ seen = [w \in Watching |-> 0]
    BY <1>1 DEF WatchInit
  <1>3. \A w \in Watching : waiter[w] \in Waiter /\ waiter[w].queue = <<>>
    BY <1>2, ReadingTyped
  <1>4. waiter \in [Watching -> Waiter]
    BY <1>2, ReadingTyped
  <1>5. changes \in Seq(Change) /\ Len(changes) = 0
    BY <1>2
  <1>6. WatchTypeOK
    BY <1>2, <1>3, <1>4, <1>5, WatchAssumption DEF WatchTypeOK
  <1>7. OthersKnown
    BY <1>3 DEF OthersKnown
  <1>8. QED
    BY <1>6, <1>7 DEF WatchInv

LEMMA WatchSound == WatchSpec => []WatchInv
  BY WatchInitially, WatchKept, PTL DEF WatchSpec

\* The listener's position, the queues and the reads keep their shape; no queue
\* outgrows its channel.
THEOREM WatchTypeCorrect == WatchSpec => []WatchTypeOK
  <1>1. WatchInv => WatchTypeOK
    BY DEF WatchInv
  <1>2. QED
    BY <1>1, WatchSound, PTL

\* A call that is waiting ends with its deadline, with a receiver that lagged, or
\* with a change at the head of its queue that somebody else made.
LEMMA EndsByOthers ==
  ASSUME WatchInv, [WatchNext]_watchVars, NEW w \in Watching,
         waiter[w].state = "waiting", waiter'[w].state = "reading"
  PROVE  waiter[w].others \/ waiter[w].lagged \/ waiter[w].left = 0
  <1> USE DEF WatchInv
  <1>1. waiter[w] \in Waiter /\ waiter[w].queue \in Seq(Change) /\ waiter \in [Watching -> Waiter]
    BY DEF WatchTypeOK, Waiter
  <1>2. CASE Wake(w)
    <2>1. CASE waiter[w].lagged
      BY <2>1
    <2>2. CASE waiter[w].queue # <<>> /\ ~SelfAuthored(w, Head(waiter[w].queue))
      <3>1. Head(waiter[w].queue) = waiter[w].queue[1] /\ 1 \in 1..Len(waiter[w].queue)
        BY <1>1, <2>2
      <3>2. QED
        BY <2>2, <3>1 DEF OthersKnown
    <2>3. QED
      BY <1>2, <2>1, <2>2 DEF Wake
  <1>3. CASE TimeOut(w)
    BY <1>3 DEF TimeOut
  <1>4. waiter'[w].state # waiter[w].state
    OBVIOUS
  <1>5. ~Dispatch
    <2>1. SUFFICES ASSUME Dispatch
                   PROVE  FALSE
      OBVIOUS
    <2>2. PICK change, own : waiter'[w] = Received(waiter[w], change, own)
      BY <2>1 DEF Dispatch
    <2>3. waiter'[w].state = waiter[w].state
      BY <1>1, <2>2 DEF Received, Waiter
    <2>4. QED
      BY <1>4, <2>3
  <1>6. ~Second
    <2>1. SUFFICES ASSUME Second
                   PROVE  FALSE
      OBVIOUS
    <2>2. PICK n : waiter'[w] = [waiter[w] EXCEPT !.left = n]
      BY <2>1 DEF Second
    <2>3. QED
      BY <1>1, <1>4, <2>2 DEF Waiter
  <1>7. ~Gap /\ ~ShutdownWatcher /\ ~UNCHANGED watchVars /\ \A change : ~Commit(change)
    BY <1>4 DEF Gap, ShutdownWatcher, watchVars, Commit
  <1>8. ASSUME NEW x \in Watching,
               Arrive(x) \/ Read(x) \/ Subscribe(x) \/ Wake(x) \/ SkipOwn(x) \/ TimeOut(x)
        PROVE  Wake(w) \/ TimeOut(w)
    <2>1. CASE x # w
      <3>1. waiter'[w] = waiter[w]
        BY <1>1, <1>8, <2>1 DEF Arrive, Read, Subscribe, Wake, SkipOwn, TimeOut, Answer
      <3>2. QED
        BY <1>4, <3>1
    <2>2. CASE x = w
      <3>1. ~Arrive(w) /\ ~Read(w) /\ ~Subscribe(w)
        BY DEF Arrive, Read, Subscribe
      <3>2. ~SkipOwn(w)
        <4>1. SUFFICES ASSUME SkipOwn(w)
                       PROVE  FALSE
          OBVIOUS
        <4>2. waiter'[w] = [waiter[w] EXCEPT !.queue = Tail(waiter[w].queue)]
          BY <1>1, <4>1 DEF SkipOwn
        <4>3. QED
          BY <1>1, <1>4, <4>2 DEF Waiter
      <3>3. QED
        BY <1>8, <2>2, <3>1, <3>2
    <2>3. QED
      BY <2>1, <2>2
  <1>9. Wake(w) \/ TimeOut(w)
    BY <1>5, <1>6, <1>7, <1>8 DEF WatchNext
  <1>10. QED
    BY <1>2, <1>3, <1>9

\* The watch tool skips its caller's own messages, whatever the channel drops and
\* however many callers wait.
THEOREM OthersWake == WatchSpec => WokenByOthers
  <1>1. WatchInv /\ [WatchNext]_watchVars =>
          [\A w \in Watching :
             waiter[w].state = "waiting" /\ waiter'[w].state = "reading" =>
               waiter[w].others \/ waiter[w].lagged \/ waiter[w].left = 0]_watchVars
    BY EndsByOthers
  <1>2. QED
    BY <1>1, WatchSound, PTL DEF WatchSpec, WokenByOthers
=============================================================================
