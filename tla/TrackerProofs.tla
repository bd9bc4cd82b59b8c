---------------------------- MODULE TrackerProofs ----------------------------
(***************************************************************************)
(* The two modules about trackers. Their proofs stand in one module and    *)
(* have nothing in common: TrackerCredentials comes first, TicketSync      *)
(* second.                                                                 *)
(*                                                                         *)
(* TrackerCredentials keeps its index and its bindings, and never loses a  *)
(* token unnoticed, for any organizations, sites, admins and write-backs.  *)
(* A token is in one of four places: stored in a connection, redeemed by   *)
(* an admin who has yet to store it, read by a write-back, or given to a   *)
(* write-back in place of the one it read. The argument is about who else  *)
(* may have a token in each of them: a write-back kills the token it read, *)
(* so nobody may hold a copy whose organization is not its own.            *)
(*                                                                         *)
(* TicketSync keeps one open job per ticket and one completion row per     *)
(* completion, for any deliveries and agents. A step leaves the rows       *)
(* alone, writes one row that is open, closes one with its completion row, *)
(* or adds one when none is open. What a delivery read is older than what  *)
(* it writes: that is why a later revision is never overwritten.           *)
(***************************************************************************)
EXTENDS TrackerCredentials, TicketSync, SequenceTheorems, TLAPS

HasStored(o, t) == Connected(o) /\ connections[o].token = t
HasRedeemed(a, t) == admin[a].step = "redeemed" /\ admin[a].held.token = t
HasRead(w, t) == syncer[w].step \in {"read", "posted"} /\ syncer[w].read.token = t
HasNext(w, t) == Rotated(w) /\ syncer[w].next = t

AdminState == [step: {"idle", "redeemed", "binding"}, org: Org, held: Connection]
SyncerState == [step: {"idle", "bound", "read", "posted"}, org: Org, bound: Int,
                read: Connection, next: 0..MaxToken]

CredentialTypeOK ==
  /\ connections \in [Org -> Connection]
  /\ index \subseteq [site: Site, org: Org, id: 0..MaxConnectionId]
  /\ bindings \in [Org -> Int]
  /\ live \subseteq Nat
  /\ issued \in Nat
  /\ inserted \in Nat
  /\ admin \in [Admin -> AdminState]
  /\ syncer \in [Syncer -> SyncerState]

\* An id is given to one connection.
IdsAreOwn ==
  /\ \A o \in Org : connections[o].id <= inserted
  /\ \A o, p \in Org : Connected(o) /\ connections[o].id = connections[p].id => o = p

\* A write-back looks for a connection that a binding names.
LooksForOne == \A w \in Syncer : syncer[w].step = "bound" => syncer[w].bound # 0

\* Nobody has a token that has yet to be issued.
Issued ==
  /\ \A t \in live : t <= issued
  /\ \A o \in Org, t \in Nat : HasStored(o, t) => t <= issued
  /\ \A a \in Admin, t \in Nat : HasRedeemed(a, t) => t <= issued
  /\ \A w \in Syncer, t \in Nat : HasRead(w, t) \/ HasNext(w, t) => t <= issued

StoredOnce == \A o, p \in Org, t \in Nat : HasStored(o, t) /\ HasStored(p, t) => o = p

ReadOfOwn ==
  \A w \in Syncer, o \in Org, t \in Nat :
    HasRead(w, t) /\ HasStored(o, t) => syncer[w].org = o

\* A token that was redeemed or put in place of another is live, and nobody else
\* has it.
RedeemedAlone ==
  \A a \in Admin, t \in Nat : HasRedeemed(a, t) =>
    /\ t \in live
    /\ \A o \in Org : ~HasStored(o, t)
    /\ \A w \in Syncer : ~HasRead(w, t) /\ ~HasNext(w, t)
    /\ \A b \in Admin : HasRedeemed(b, t) => b = a

NextAlone ==
  \A w \in Syncer, t \in Nat : HasNext(w, t) =>
    /\ t \in live
    /\ \A o \in Org : ~HasStored(o, t)
    /\ \A v \in Syncer : ~HasRead(v, t) /\ (HasNext(v, t) => v = w)

\* A stored token is live, or lost, or a write-back of its organization has its
\* replacement in hand.
StoredAlive ==
  \A o \in Org, t \in Nat : HasStored(o, t) =>
    \/ t \in live
    \/ t \in lost
    \/ \E w \in Syncer : HasRead(w, t) /\ Rotated(w) /\ syncer[w].org = o

TokensOwned == Issued /\ StoredOnce /\ ReadOfOwn /\ RedeemedAlone /\ NextAlone

CredentialInv ==
  /\ CredentialTypeOK
  /\ IdsAreOwn
  /\ LooksForOne
  /\ IndexNamesOwner
  /\ BoundToCurrent
  /\ TokensOwned
  /\ StoredAlive

\* Records, field by field.
LEMMA ConnectionTyped ==
  ASSUME CredentialTypeOK, NEW o \in Org
  PROVE  /\ connections[o] \in Connection
         /\ connections[o].id \in 0..MaxConnectionId
         /\ connections[o].site \in Site
         /\ connections[o].token \in 0..MaxToken
BY DEF CredentialTypeOK, Connection

LEMMA AdminTyped ==
  ASSUME CredentialTypeOK, NEW a \in Admin
  PROVE  /\ admin[a] \in AdminState
         /\ admin[a].step \in {"idle", "redeemed", "binding"}
         /\ admin[a].org \in Org
         /\ admin[a].held \in Connection
         /\ admin[a].held.id \in 0..MaxConnectionId
         /\ admin[a].held.site \in Site
         /\ admin[a].held.token \in 0..MaxToken
BY DEF CredentialTypeOK, AdminState, Connection

LEMMA SyncerTyped ==
  ASSUME CredentialTypeOK, NEW w \in Syncer
  PROVE  /\ syncer[w] \in SyncerState
         /\ syncer[w].step \in {"idle", "bound", "read", "posted"}
         /\ syncer[w].org \in Org
         /\ syncer[w].bound \in Int
         /\ syncer[w].read \in Connection
         /\ syncer[w].read.site \in Site
         /\ syncer[w].read.token \in 0..MaxToken
         /\ syncer[w].next \in 0..MaxToken
BY DEF CredentialTypeOK, SyncerState, Connection

LEMMA NoConnectionTyped ==
  /\ NoConnection \in Connection
  /\ NoConnection.id = 0 /\ NoConnection.token = 0 /\ NoConnection.site \in Site
BY CredentialAssumption DEF NoConnection, Connection

LEMMA IdleTyped ==
  /\ IdleAdmin \in AdminState /\ IdleAdmin.step = "idle"
  /\ IdleSyncer \in SyncerState /\ IdleSyncer.step = "idle"
BY CredentialAssumption, NoConnectionTyped
DEF IdleAdmin, IdleSyncer, AdminState, SyncerState, Null

LEMMA CredentialInitially == CredentialInit => CredentialInv
<1> SUFFICES ASSUME CredentialInit PROVE CredentialInv
  OBVIOUS
<1>1. \A o \in Org : connections[o] = NoConnection
  BY DEF CredentialInit
<1>2. \A a \in Admin : admin[a] = IdleAdmin
  BY DEF CredentialInit
<1>3. \A w \in Syncer : syncer[w] = IdleSyncer
  BY DEF CredentialInit
<1>4. CredentialTypeOK
  BY NoConnectionTyped, IdleTyped DEF CredentialInit, CredentialTypeOK, NoBinding
<1>5. \A o \in Org : ~Connected(o)
  BY <1>1, NoConnectionTyped DEF Connected
<1>6. IdsAreOwn
  BY <1>1, <1>5, NoConnectionTyped DEF IdsAreOwn, CredentialInit
<1>7. LooksForOne
  BY <1>3, IdleTyped DEF LooksForOne
<1>8. IndexNamesOwner
  BY <1>5 DEF IndexNamesOwner, CredentialInit
<1>9. BoundToCurrent
  BY DEF BoundToCurrent, CredentialInit
<1>10. live = {}
  BY DEF CredentialInit
<1>11. \A o \in Org, t \in Nat : ~HasStored(o, t)
  BY <1>5 DEF HasStored
<1>12. \A a \in Admin, t \in Nat : ~HasRedeemed(a, t)
  BY <1>2, IdleTyped DEF HasRedeemed
<1>13. \A w \in Syncer, t \in Nat : ~HasRead(w, t) /\ ~HasNext(w, t)
  BY <1>3, IdleTyped DEF HasRead, HasNext, Rotated
<1>14. Issued
  BY <1>10, <1>11, <1>12, <1>13 DEF Issued
<1>15. StoredOnce /\ ReadOfOwn /\ StoredAlive
  BY <1>11 DEF StoredOnce, ReadOfOwn, StoredAlive
<1>16. RedeemedAlone /\ NextAlone
  BY <1>12, <1>13 DEF RedeemedAlone, NextAlone
<1> QED
  BY <1>4, <1>6, <1>7, <1>8, <1>9, <1>14, <1>15, <1>16 DEF CredentialInv, TokensOwned

\* What is not written has what it had.
LEMMA SameStored ==
  ASSUME UNCHANGED connections
  PROVE  \A o \in Org, t \in Nat : HasStored(o, t)' => HasStored(o, t)
BY DEF HasStored, Connected

LEMMA SameRedeemed ==
  ASSUME UNCHANGED admin
  PROVE  \A a \in Admin, t \in Nat : HasRedeemed(a, t)' => HasRedeemed(a, t)
BY DEF HasRedeemed

LEMMA SameRead ==
  ASSUME UNCHANGED syncer
  PROVE  /\ \A w \in Syncer : syncer'[w].org = syncer[w].org
         /\ \A w \in Syncer : Rotated(w) => Rotated(w)'
         /\ \A w \in Syncer, t \in Nat : HasRead(w, t)' => HasRead(w, t)
         /\ \A w \in Syncer, t \in Nat : HasRead(w, t) => HasRead(w, t)'
         /\ \A w \in Syncer, t \in Nat : HasNext(w, t)' => HasNext(w, t)
BY DEF HasRead, HasNext, Rotated

\* Nobody is given a token.
LEMMA TokensLeft ==
  ASSUME TokensOwned, UNCHANGED live, UNCHANGED issued,
         \A o \in Org, t \in Nat : HasStored(o, t)' => HasStored(o, t),
         \A a \in Admin, t \in Nat : HasRedeemed(a, t)' => HasRedeemed(a, t),
         \A w \in Syncer, t \in Nat : HasRead(w, t)' => HasRead(w, t) /\ syncer'[w].org = syncer[w].org,
         \A w \in Syncer, t \in Nat : HasNext(w, t)' => HasNext(w, t)
  PROVE  TokensOwned'
<1>1. Issued'
  BY DEF TokensOwned, Issued
<1>2. StoredOnce' /\ ReadOfOwn'
  BY DEF TokensOwned, StoredOnce, ReadOfOwn
<1>3. RedeemedAlone'
  BY DEF TokensOwned, RedeemedAlone
<1>4. NextAlone'
  BY DEF TokensOwned, NextAlone
<1> QED
  BY <1>1, <1>2, <1>3, <1>4 DEF TokensOwned

-----------------------------------------------------------------------------
(* Connections, their index, and bindings. *)

\* The index, row by row.
LEMMA IndexRows ==
  ASSUME IndexNamesOwner
  PROVE  /\ \A p \in Org : Connected(p) =>
              [site |-> connections[p].site, org |-> p, id |-> connections[p].id] \in index
         /\ \A row \in index : \E p \in Org :
              /\ Connected(p)
              /\ row = [site |-> connections[p].site, org |-> p, id |-> connections[p].id]
BY DEF IndexNamesOwner

\* The id upsert_connection gives.
IdFor(o) == IF Connected(o) THEN connections[o].id ELSE inserted + 1

\* A connection that is stored over another keeps its id, and its index row
\* moves with it; a new one gets a new id.
LEMMA UpsertKeeps ==
  ASSUME CredentialTypeOK, IdsAreOwn, IndexNamesOwner, BoundToCurrent,
         NEW o \in Org, NEW site \in Site, NEW t \in 0..MaxToken,
         Upsert(o, site, t), UNCHANGED bindings
  PROVE  /\ connections' \in [Org -> Connection]
         /\ index' \subseteq [site: Site, org: Org, id: 0..MaxConnectionId]
         /\ inserted' \in Nat
         /\ IdsAreOwn' /\ IndexNamesOwner' /\ BoundToCurrent'
         /\ \A p \in Org \ {o} : connections'[p] = connections[p]
         /\ \/ ~MayIndex(o, IdFor(o), site) /\ UNCHANGED <<connections, index, inserted>>
            \/ connections'[o].id # 0 /\ connections'[o].token = t
<1> DEFINE id == IdFor(o)
           new == [id |-> id, site |-> site, token |-> t]
<1>1. CASE ~MayIndex(o, id, site)
  <2>1. UNCHANGED <<connections, index, inserted>>
    BY <1>1 DEF Upsert, IdFor
  <2> QED
    BY <1>1, <2>1 DEF CredentialTypeOK, IdsAreOwn, IndexNamesOwner, BoundToCurrent, Connected
<1>2. CASE MayIndex(o, id, site)
  <2>1. /\ id <= MaxConnectionId
        /\ connections' = [connections EXCEPT ![o] = new]
        /\ index' = IndexWith(o, id, site)
        /\ inserted' = IF Connected(o) THEN inserted ELSE id
    BY <1>2 DEF Upsert, IdFor
  <2>2. id \in Nat /\ id # 0 /\ id <= inserted'
    BY <2>1, ConnectionTyped, CredentialAssumption DEF IdFor, Connected, CredentialTypeOK, IdsAreOwn
  <2>3. \A p \in Org \ {o} : connections[p].id # id
    BY <2>2, ConnectionTyped, CredentialAssumption DEF IdFor, Connected, CredentialTypeOK, IdsAreOwn
  <2>4. new \in Connection /\ new.id = id /\ new.site = site /\ new.token = t
    BY <2>1, <2>2, CredentialAssumption DEF Connection
  <2>5. Connected(o) => connections[o].id = id
    BY DEF IdFor
  <2>6. inserted \in Nat /\ inserted' \in Nat /\ inserted <= inserted'
    BY <2>1, ConnectionTyped, CredentialAssumption DEF IdFor, CredentialTypeOK
  <2> HIDE DEF id, new
  <2>7. /\ connections' \in [Org -> Connection]
        /\ connections'[o] = new
        /\ \A p \in Org \ {o} : connections'[p] = connections[p]
    BY <2>1, <2>4 DEF CredentialTypeOK
  <2>8. /\ Connected(o)'
        /\ \A p \in Org \ {o} : Connected(p)' <=> Connected(p)
    BY <2>2, <2>4, <2>7 DEF Connected
  <2>9. index' \subseteq [site: Site, org: Org, id: 0..MaxConnectionId]
    BY <2>1, <2>2, CredentialAssumption DEF CredentialTypeOK, IndexWith
  <2>10. IdsAreOwn'
    <3>1. \A p \in Org : connections'[p].id <= inserted'
      BY <2>2, <2>4, <2>6, <2>7, ConnectionTyped, CredentialAssumption DEF IdsAreOwn
    <3>2. \A p, q \in Org :
            Connected(p)' /\ connections'[p].id = connections'[q].id => p = q
      BY <2>3, <2>4, <2>7, <2>8 DEF IdsAreOwn
    <3> QED
      BY <3>1, <3>2 DEF IdsAreOwn
  <2>11. IndexNamesOwner'
    <3> DEFINE IndexRow(p) ==
                 [site |-> connections[p].site, org |-> p, id |-> connections[p].id]
               After(p) ==
                 [site |-> connections'[p].site, org |-> p, id |-> connections'[p].id]
    <3>1. After(o) = [site |-> site, org |-> o, id |-> id]
      BY <2>4, <2>7
    <3>2. \A p \in Org \ {o} : After(p) = IndexRow(p) /\ IndexRow(p).id # id
      BY <2>3, <2>7
    <3>3. index' = {row \in index : row.id # id} \cup {After(o)}
      BY <2>1, <3>1 DEF IndexWith
    <3>4. ASSUME NEW row \in index, row.id # id
          PROVE  \E p \in Org : Connected(p)' /\ row = After(p)
      <4>1. PICK p \in Org : Connected(p) /\ row = IndexRow(p)
        BY IndexRows
      <4>2. p # o
        BY <3>4, <4>1, <2>5
      <4> QED
        BY <4>1, <4>2, <3>2, <2>8
    <3>5. ASSUME NEW p \in Org, Connected(p)'
          PROVE  After(p) \in index'
      <4>1. CASE p = o
        BY <4>1, <3>3
      <4>2. CASE p # o
        <5>1. IndexRow(p) \in index
          BY <4>2, <3>5, <2>8, IndexRows
        <5> QED
          BY <5>1, <4>2, <3>2, <3>3
      <4> QED
        BY <4>1, <4>2
    <3>6. \A row \in index' : \E p \in Org : Connected(p)' /\ row = After(p)
      BY <3>3, <3>4, <2>8
    <3> QED
      BY <3>5, <3>6 DEF IndexNamesOwner
  <2>12. BoundToCurrent'
    BY <2>5, <2>4, <2>7, ConnectionTyped DEF BoundToCurrent, Connected, Null
  <2> QED
    BY <2>2, <2>4, <2>6, <2>7, <2>9, <2>10, <2>11, <2>12
<1> QED
  BY <1>1, <1>2

\* A connection goes with its index row and leaves its binding inert.
LEMMA DisconnectKeeps ==
  ASSUME CredentialInv, NEW o \in Org, DisconnectTracker(o)
  PROVE  /\ connections' \in [Org -> Connection]
         /\ index' \subseteq [site: Site, org: Org, id: 0..MaxConnectionId]
         /\ bindings' \in [Org -> Int]
         /\ IdsAreOwn' /\ IndexNamesOwner' /\ BoundToCurrent'
         /\ ~Connected(o)'
         /\ \A p \in Org \ {o} : connections'[p] = connections[p]
<1>1. /\ connections' = [connections EXCEPT ![o] = NoConnection]
      /\ index' = {row \in index : row.org # o}
      /\ bindings' = [bindings EXCEPT ![o] = IF @ = connections[o].id THEN Null ELSE @]
      /\ inserted' = inserted
  BY DEF DisconnectTracker
<1>2. CredentialTypeOK /\ IdsAreOwn /\ IndexNamesOwner /\ BoundToCurrent
  BY DEF CredentialInv
<1>3. /\ connections' \in [Org -> Connection]
      /\ connections'[o] = NoConnection
      /\ \A p \in Org \ {o} : connections'[p] = connections[p]
  BY <1>1, <1>2, NoConnectionTyped DEF CredentialTypeOK
<1>4. /\ ~Connected(o)'
      /\ \A p \in Org \ {o} : Connected(p)' <=> Connected(p)
  BY <1>3, NoConnectionTyped DEF Connected
<1>5. index' \subseteq [site: Site, org: Org, id: 0..MaxConnectionId]
  BY <1>1, <1>2 DEF CredentialTypeOK
<1>6. bindings' \in [Org -> Int]
  BY <1>1, <1>2 DEF CredentialTypeOK, Null
<1>7. IdsAreOwn'
  <2>1. inserted \in Nat
    BY <1>2 DEF CredentialTypeOK
  <2>2. \A p \in Org : connections'[p].id <= inserted'
    BY <1>1, <1>2, <1>3, <2>1, NoConnectionTyped DEF IdsAreOwn
  <2>3. \A p, q \in Org :
          Connected(p)' /\ connections'[p].id = connections'[q].id => p = q
    BY <1>2, <1>3, <1>4, NoConnectionTyped DEF IdsAreOwn, Connected
  <2> QED
    BY <2>2, <2>3 DEF IdsAreOwn
<1>8. IndexNamesOwner'
  <2> DEFINE After(p) ==
               [site |-> connections'[p].site, org |-> p, id |-> connections'[p].id]
  <2>1. ASSUME NEW p \in Org, Connected(p)'
        PROVE  After(p) \in index'
    <3>1. p # o /\ Connected(p) /\ connections'[p] = connections[p]
      BY <2>1, <1>3, <1>4
    <3>2. After(p) \in index
      BY <3>1, <1>2, IndexRows
    <3> QED
      BY <3>1, <3>2, <1>1
  <2>2. ASSUME NEW row \in index'
        PROVE  \E p \in Org : Connected(p)' /\ row = After(p)
    <3>1. row \in index /\ row.org # o
      BY <1>1
    <3>2. PICK p \in Org :
            /\ Connected(p)
            /\ row = [site |-> connections[p].site, org |-> p, id |-> connections[p].id]
      BY <3>1, <1>2, IndexRows
    <3> QED
      BY <3>1, <3>2, <1>3, <1>4
  <2> QED
    BY <2>1, <2>2 DEF IndexNamesOwner
<1>9. BoundToCurrent'
  BY <1>1, <1>2, <1>3 DEF BoundToCurrent, CredentialTypeOK
<1> QED
  BY <1>3, <1>4, <1>5, <1>6, <1>7, <1>8, <1>9

-----------------------------------------------------------------------------
(* Steps. *)

\* Connections, index and bindings that are not written stay as they are.
LEMMA ConnectionsKept ==
  ASSUME CredentialInv, UNCHANGED <<connections, index, bindings, inserted>>
  PROVE  IdsAreOwn' /\ IndexNamesOwner' /\ BoundToCurrent'
BY DEF CredentialInv, IdsAreOwn, IndexNamesOwner, BoundToCurrent, Connected

\* One write-back changes.
LEMMA SyncerChanged ==
  ASSUME CredentialTypeOK, NEW w \in Syncer, NEW new \in SyncerState,
         syncer' = [syncer EXCEPT ![w] = new]
  PROVE  /\ syncer' \in [Syncer -> SyncerState]
         /\ syncer'[w] = new
         /\ \A v \in Syncer \ {w} : syncer'[v] = syncer[v]
         /\ \A v \in Syncer \ {w} : Rotated(v) => Rotated(v)'
         /\ \A v \in Syncer \ {w}, t \in Nat : HasRead(v, t)' => HasRead(v, t)
         /\ \A v \in Syncer \ {w}, t \in Nat : HasRead(v, t) => HasRead(v, t)'
         /\ \A v \in Syncer \ {w}, t \in Nat : HasNext(v, t)' => HasNext(v, t)
<1>1. /\ syncer' \in [Syncer -> SyncerState]
      /\ syncer'[w] = new
      /\ \A v \in Syncer \ {w} : syncer'[v] = syncer[v]
  BY DEF CredentialTypeOK
<1> QED
  BY <1>1 DEF Rotated, HasRead, HasNext

\* One admin's request changes.
LEMMA AdminChanged ==
  ASSUME CredentialTypeOK, NEW a \in Admin, NEW new \in AdminState,
         admin' = [admin EXCEPT ![a] = new]
  PROVE  /\ admin' \in [Admin -> AdminState]
         /\ admin'[a] = new
         /\ \A b \in Admin \ {a}, t \in Nat : HasRedeemed(b, t)' => HasRedeemed(b, t)
<1>1. /\ admin' \in [Admin -> AdminState]
      /\ admin'[a] = new
      /\ \A b \in Admin \ {a} : admin'[b] = admin[b]
  BY DEF CredentialTypeOK
<1> QED
  BY <1>1 DEF HasRedeemed

\* The tracker issues a token that nobody has.
LEMMA NewToken ==
  ASSUME CredentialInv
  PROVE  /\ issued + 1 \in Nat
         /\ \A o \in Org : ~HasStored(o, issued + 1)
         /\ \A a \in Admin : ~HasRedeemed(a, issued + 1)
         /\ \A w \in Syncer : ~HasRead(w, issued + 1) /\ ~HasNext(w, issued + 1)
<1>1. issued \in Nat /\ issued + 1 \in Nat /\ ~(issued + 1 <= issued)
  BY DEF CredentialInv, CredentialTypeOK
<1> QED
  BY <1>1 DEF CredentialInv, TokensOwned, Issued

LEMMA RedeemKeeps ==
  ASSUME CredentialInv, NEW a \in Admin, NEW o \in Org, NEW site \in Site,
         RedeemCode(a, o, site)
  PROVE  CredentialInv'
<1> DEFINE t0 == issued + 1
           new == [step |-> "redeemed", org |-> o,
                   held |-> [id |-> 0, site |-> site, token |-> t0]]
<1>1. /\ issued \in Nat /\ t0 \in Nat /\ t0 \in 0..MaxToken /\ issued < t0
  BY CredentialAssumption DEF RedeemCode, CredentialInv, CredentialTypeOK
<1>2. /\ new \in AdminState
      /\ new.step = "redeemed" /\ new.held.token = t0
  BY <1>1, CredentialAssumption DEF AdminState, Connection
<1>3. /\ issued' = t0 /\ live' = live \cup {t0}
      /\ admin' = [admin EXCEPT ![a] = new]
      /\ UNCHANGED <<connections, index, bindings, inserted, syncer, lost>>
  BY DEF RedeemCode
<1>4. /\ \A p \in Org : ~HasStored(p, t0)
      /\ \A b \in Admin : ~HasRedeemed(b, t0)
      /\ \A w \in Syncer : ~HasRead(w, t0) /\ ~HasNext(w, t0)
  BY NewToken
<1> HIDE DEF t0, new
<1>5. /\ admin' \in [Admin -> AdminState]
      /\ admin'[a] = new
      /\ \A b \in Admin \ {a}, t \in Nat : HasRedeemed(b, t)' => HasRedeemed(b, t)
  BY <1>2, <1>3, AdminChanged DEF CredentialInv
<1>6. \A t \in Nat : HasRedeemed(a, t)' => t = t0
  BY <1>2, <1>5 DEF HasRedeemed
<1>7. CredentialTypeOK'
  BY <1>1, <1>3, <1>5 DEF CredentialInv, CredentialTypeOK
<1>8. IdsAreOwn' /\ IndexNamesOwner' /\ BoundToCurrent'
  BY <1>3, ConnectionsKept
<1>9. LooksForOne'
  BY <1>3 DEF CredentialInv, LooksForOne
<1>10. \A p \in Org, t \in Nat : HasStored(p, t)' => HasStored(p, t)
  BY <1>3, SameStored
<1>11. /\ \A w \in Syncer : syncer'[w].org = syncer[w].org
       /\ \A w \in Syncer : Rotated(w) => Rotated(w)'
       /\ \A w \in Syncer, t \in Nat : HasRead(w, t)' => HasRead(w, t)
       /\ \A w \in Syncer, t \in Nat : HasRead(w, t) => HasRead(w, t)'
       /\ \A w \in Syncer, t \in Nat : HasNext(w, t)' => HasNext(w, t)
  BY <1>3, SameRead
<1>12. /\ \A t \in live : t \in live'
       /\ t0 \in live'
       /\ lost' = lost
  BY <1>3
<1>13. Issued /\ StoredOnce /\ ReadOfOwn /\ RedeemedAlone /\ NextAlone /\ StoredAlive
  BY DEF CredentialInv, TokensOwned
<1>14. Issued'
  <2>1. \A t \in Nat : t <= issued => t <= t0
    BY <1>1
  <2>2. \A t \in live' : t <= t0
    BY <1>1, <1>3, <1>13, <2>1 DEF CredentialInv, CredentialTypeOK, Issued
  <2>3. \A b \in Admin, t \in Nat : HasRedeemed(b, t)' => t <= t0
    <3> SUFFICES ASSUME NEW b \in Admin, NEW t \in Nat, HasRedeemed(b, t)'
                 PROVE  t <= t0
      OBVIOUS
    <3>1. CASE b = a
      BY <1>1, <1>6, <3>1
    <3>2. CASE b # a
      BY <1>5, <1>13, <2>1, <3>2 DEF Issued
    <3> QED
      BY <3>1, <3>2
  <2>4. \A p \in Org, t \in Nat : HasStored(p, t)' => t <= t0
    BY <1>10, <1>13, <2>1 DEF Issued
  <2>5. \A w \in Syncer, t \in Nat : HasRead(w, t)' \/ HasNext(w, t)' => t <= t0
    BY <1>11, <1>13, <2>1 DEF Issued
  <2>6. issued' = t0
    BY <1>3
  <2> QED
    BY <2>2, <2>3, <2>4, <2>5, <2>6 DEF Issued
<1>15. StoredOnce' /\ ReadOfOwn'
  BY <1>10, <1>11, <1>13 DEF StoredOnce, ReadOfOwn
<1>16. RedeemedAlone'
  <2> SUFFICES ASSUME NEW b \in Admin, NEW t \in Nat, HasRedeemed(b, t)'
               PROVE  /\ t \in live'
                      /\ \A p \in Org : ~HasStored(p, t)'
                      /\ \A w \in Syncer : ~HasRead(w, t)' /\ ~HasNext(w, t)'
                      /\ \A c \in Admin : HasRedeemed(c, t)' => c = b
    BY DEF RedeemedAlone
  <2>1. CASE b = a
    <3>1. t = t0
      BY <2>1, <1>6
    <3>2. \A c \in Admin : HasRedeemed(c, t)' => c = a
      BY <3>1, <1>4, <1>5
    <3> QED
      BY <2>1, <3>1, <3>2, <1>4, <1>10, <1>11, <1>12
  <2>2. CASE b # a
    <3>1. HasRedeemed(b, t)
      BY <2>2, <1>5
    <3>2. t # t0
      BY <3>1, <1>4
    <3>3. \A c \in Admin : HasRedeemed(c, t)' => HasRedeemed(c, t)
      BY <3>2, <1>5, <1>6
    <3> QED
      BY <3>1, <3>3, <1>10, <1>11, <1>12, <1>13 DEF RedeemedAlone
  <2> QED
    BY <2>1, <2>2
<1>17. NextAlone'
  BY <1>10, <1>11, <1>12, <1>13 DEF NextAlone
<1>18. StoredAlive'
  BY <1>10, <1>11, <1>12, <1>13 DEF StoredAlive
<1> QED
  BY <1>7, <1>8, <1>9, <1>14, <1>15, <1>16, <1>17, <1>18 DEF CredentialInv, TokensOwned

\* A token that was redeemed, or put in place of another, is stored.
LEMMA TokenStored ==
  ASSUME TokensOwned, UNCHANGED live, UNCHANGED issued,
         NEW o \in Org, NEW t0 \in live, t0 \in Nat, t0 <= issued,
         \A p \in Org \ {o}, t \in Nat : HasStored(p, t)' => HasStored(p, t),
         \A t \in Nat : HasStored(o, t)' => t = t0,
         \A p \in Org : ~HasStored(p, t0),
         \A w \in Syncer : ~HasRead(w, t0),
         \A w \in Syncer : ~HasNext(w, t0)',
         \A a \in Admin : ~HasRedeemed(a, t0)',
         \A a \in Admin, t \in Nat : HasRedeemed(a, t)' => HasRedeemed(a, t),
         \A w \in Syncer, t \in Nat : HasRead(w, t)' => HasRead(w, t) /\ syncer'[w].org = syncer[w].org,
         \A w \in Syncer, t \in Nat : HasNext(w, t)' => HasNext(w, t)
  PROVE  TokensOwned'
<1>1. Issued /\ StoredOnce /\ ReadOfOwn /\ RedeemedAlone /\ NextAlone
  BY DEF TokensOwned
<1>2. \A p \in Org, t \in Nat : HasStored(p, t)' => HasStored(p, t) \/ (p = o /\ t = t0)
  OBVIOUS
<1>3. Issued'
  BY <1>1, <1>2 DEF Issued
<1>4. StoredOnce'
  <2> SUFFICES ASSUME NEW p \in Org, NEW q \in Org, NEW t \in Nat,
                      HasStored(p, t)', HasStored(q, t)'
               PROVE  p = q
    BY DEF StoredOnce
  <2>1. CASE t = t0
    BY <1>2, <2>1
  <2>2. CASE t # t0
    BY <1>1, <1>2, <2>2 DEF StoredOnce
  <2> QED
    BY <2>1, <2>2
<1>5. ReadOfOwn'
  BY <1>1, <1>2 DEF ReadOfOwn
<1>6. RedeemedAlone'
  BY <1>1, <1>2 DEF RedeemedAlone
<1>7. NextAlone'
  BY <1>1, <1>2 DEF NextAlone
<1> QED
  BY <1>3, <1>4, <1>5, <1>6, <1>7 DEF TokensOwned

\* A request that ends, or goes on without a token, has none.
LEMMA AdminWithout ==
  ASSUME CredentialTypeOK, NEW a \in Admin, NEW new \in AdminState, new.step # "redeemed",
         admin' = [admin EXCEPT ![a] = new]
  PROVE  /\ admin' \in [Admin -> AdminState]
         /\ \A t \in Nat : ~HasRedeemed(a, t)'
         /\ \A b \in Admin, t \in Nat : HasRedeemed(b, t)' => HasRedeemed(b, t)
<1>1. /\ admin' \in [Admin -> AdminState]
      /\ admin'[a] = new
      /\ \A b \in Admin \ {a}, t \in Nat : HasRedeemed(b, t)' => HasRedeemed(b, t)
  BY AdminChanged
<1>2. \A t \in Nat : ~HasRedeemed(a, t)'
  BY <1>1 DEF HasRedeemed
<1> QED
  BY <1>1, <1>2

LEMMA ConnectKeeps ==
  ASSUME CredentialInv, NEW a \in Admin, ConnectTracker(a)
  PROVE  CredentialInv'
<1>1. /\ admin[a].step = "redeemed"
      /\ Upsert(admin[a].org, admin[a].held.site, admin[a].held.token)
      /\ admin' = [admin EXCEPT ![a] = IdleAdmin]
      /\ UNCHANGED <<bindings, live, issued, syncer, lost>>
  BY DEF ConnectTracker
<1>2. CredentialTypeOK /\ IdsAreOwn /\ IndexNamesOwner /\ BoundToCurrent
  BY DEF CredentialInv
<1>3. PICK o \in Org, t0 \in 0..MaxToken :
        /\ o = admin[a].org /\ t0 = admin[a].held.token
        /\ admin[a].held.site \in Site /\ t0 \in Nat
  BY <1>2, AdminTyped, CredentialAssumption
<1>4. HasRedeemed(a, t0)
  BY <1>1, <1>3 DEF HasRedeemed
<1>5. /\ connections' \in [Org -> Connection]
      /\ index' \subseteq [site: Site, org: Org, id: 0..MaxConnectionId]
      /\ inserted' \in Nat
      /\ IdsAreOwn' /\ IndexNamesOwner' /\ BoundToCurrent'
      /\ \A p \in Org \ {o} : connections'[p] = connections[p]
      /\ connections' = connections \/ (connections'[o].id # 0 /\ connections'[o].token = t0)
  BY <1>1, <1>2, <1>3, UpsertKeeps
<1>6. /\ admin' \in [Admin -> AdminState]
      /\ \A t \in Nat : ~HasRedeemed(a, t)'
      /\ \A b \in Admin, t \in Nat : HasRedeemed(b, t)' => HasRedeemed(b, t)
  BY <1>1, <1>2, IdleTyped, AdminWithout
<1>7. CredentialTypeOK'
  BY <1>1, <1>2, <1>5, <1>6 DEF CredentialTypeOK
<1>8. LooksForOne'
  BY <1>1 DEF CredentialInv, LooksForOne
<1>9. /\ \A w \in Syncer : syncer'[w].org = syncer[w].org
      /\ \A w \in Syncer : Rotated(w) => Rotated(w)'
      /\ \A w \in Syncer, t \in Nat : HasRead(w, t)' => HasRead(w, t)
      /\ \A w \in Syncer, t \in Nat : HasRead(w, t) => HasRead(w, t)'
      /\ \A w \in Syncer, t \in Nat : HasNext(w, t)' => HasNext(w, t)
  BY <1>1, SameRead
<1>10. Issued /\ RedeemedAlone /\ StoredAlive /\ TokensOwned
  BY DEF CredentialInv, TokensOwned
<1>11. CASE connections' = connections
  <2>1. \A p \in Org, t \in Nat : HasStored(p, t)' => HasStored(p, t)
    BY <1>11, SameStored
  <2>2. TokensOwned'
    BY <1>1, <1>6, <1>9, <1>10, <2>1, TokensLeft
  <2>3. StoredAlive'
    BY <1>1, <1>9, <1>10, <2>1 DEF StoredAlive
  <2> QED
    BY <1>5, <1>7, <1>8, <2>2, <2>3 DEF CredentialInv
<1>12. CASE connections'[o].id # 0 /\ connections'[o].token = t0
  <2>1. \A p \in Org \ {o}, t \in Nat : HasStored(p, t)' => HasStored(p, t)
    BY <1>5 DEF HasStored, Connected
  <2>2. \A t \in Nat : HasStored(o, t)' => t = t0
    BY <1>12 DEF HasStored
  <2>3. /\ t0 \in live
        /\ \A p \in Org : ~HasStored(p, t0)
        /\ \A w \in Syncer : ~HasRead(w, t0) /\ ~HasNext(w, t0)
        /\ \A b \in Admin : HasRedeemed(b, t0) => b = a
    BY <1>3, <1>4, <1>10 DEF RedeemedAlone
  <2>4. t0 <= issued
    BY <1>3, <1>4, <1>10 DEF Issued
  <2>5. \A b \in Admin : ~HasRedeemed(b, t0)'
    BY <1>3, <1>6, <2>3
  <2>6. \A w \in Syncer : ~HasRead(w, t0) /\ ~HasNext(w, t0)'
    BY <1>3, <1>9, <2>3
  <2>7. TokensOwned'
    BY <1>1, <1>3, <1>6, <1>9, <1>10, <2>1, <2>2, <2>3, <2>4, <2>5, <2>6, TokenStored
  <2>8. StoredAlive'
    <3> SUFFICES ASSUME NEW p \in Org, NEW t \in Nat, HasStored(p, t)'
                 PROVE  \/ t \in live' \/ t \in lost'
                        \/ \E w \in Syncer : HasRead(w, t)' /\ Rotated(w)' /\ syncer'[w].org = p
      BY DEF StoredAlive
    <3>1. CASE p = o
      BY <1>1, <2>2, <2>3, <3>1
    <3>2. CASE p # o
      BY <1>1, <1>9, <1>10, <2>1, <3>2 DEF StoredAlive
    <3> QED
      BY <3>1, <3>2
  <2> QED
    BY <1>5, <1>7, <1>8, <2>7, <2>8 DEF CredentialInv
<1> QED
  BY <1>5, <1>11, <1>12

LEMMA DisconnectStepKeeps ==
  ASSUME CredentialInv, NEW o \in Org, DisconnectTracker(o)
  PROVE  CredentialInv'
<1>1. UNCHANGED <<live, issued, inserted, admin, syncer, lost>>
  BY DEF DisconnectTracker
<1>2. CredentialTypeOK'
  BY <1>1, DisconnectKeeps DEF CredentialInv, CredentialTypeOK
<1>3. LooksForOne'
  BY <1>1 DEF CredentialInv, LooksForOne
<1>4. \A p \in Org, t \in Nat : HasStored(p, t)' => HasStored(p, t)
  <2>1. \A t \in Nat : ~HasStored(o, t)'
    BY DisconnectKeeps DEF HasStored
  <2>2. \A p \in Org \ {o}, t \in Nat : HasStored(p, t)' => HasStored(p, t)
    BY DisconnectKeeps DEF HasStored, Connected
  <2> QED
    BY <2>1, <2>2
<1>5. TokensOwned'
  BY <1>1, <1>4, SameRedeemed, SameRead, TokensLeft DEF CredentialInv
<1>6. StoredAlive'
  BY <1>1, <1>4, SameRead DEF CredentialInv, StoredAlive
<1> QED
  BY <1>2, <1>3, <1>5, <1>6, DisconnectKeeps DEF CredentialInv

\* An admin's step that stores nothing.
LEMMA AdminKeeps ==
  ASSUME CredentialInv, NEW a \in Admin, NEW new \in AdminState, new.step # "redeemed",
         admin' = [admin EXCEPT ![a] = new],
         UNCHANGED <<connections, index, live, issued, inserted, syncer, lost>>,
         bindings' \in [Org -> Int], BoundToCurrent'
  PROVE  CredentialInv'
<1>1. CredentialTypeOK
  BY DEF CredentialInv
<1>2. /\ admin' \in [Admin -> AdminState]
      /\ \A b \in Admin, t \in Nat : HasRedeemed(b, t)' => HasRedeemed(b, t)
  BY <1>1, AdminWithout
<1>3. CredentialTypeOK'
  BY <1>1, <1>2 DEF CredentialTypeOK
<1>4. IdsAreOwn' /\ LooksForOne' /\ IndexNamesOwner'
  BY DEF CredentialInv, IdsAreOwn, LooksForOne, IndexNamesOwner, Connected
<1>5. TokensOwned'
  BY <1>2, SameStored, SameRead, TokensLeft DEF CredentialInv
<1>6. StoredAlive'
  BY SameStored, SameRead DEF CredentialInv, StoredAlive
<1> QED
  BY <1>3, <1>4, <1>5, <1>6 DEF CredentialInv

LEMMA LookUpKeeps ==
  ASSUME CredentialInv, NEW a \in Admin, NEW o \in Org, LookUp(a, o)
  PROVE  CredentialInv'
<1> DEFINE new == [step |-> "binding", org |-> o,
                   held |-> [NoConnection EXCEPT !.id = connections[o].id]]
<1>1. new \in AdminState /\ new.step # "redeemed"
  BY ConnectionTyped, NoConnectionTyped DEF CredentialInv, AdminState, Connection, NoConnection
<1>2. /\ admin' = [admin EXCEPT ![a] = new]
      /\ UNCHANGED <<connections, index, bindings, live, issued, inserted, syncer, lost>>
  BY DEF LookUp
<1>3. bindings' \in [Org -> Int] /\ BoundToCurrent'
  BY <1>2, ConnectionsKept DEF CredentialInv, CredentialTypeOK
<1> HIDE DEF new
<1> QED
  BY <1>1, <1>2, <1>3, AdminKeeps

LEMMA BindKeeps ==
  ASSUME CredentialInv, NEW a \in Admin, BindRepo(a)
  PROVE  CredentialInv'
<1> DEFINE o == admin[a].org
           id == admin[a].held.id
<1>1. /\ bindings' = IF StillConnected(o, id) THEN [bindings EXCEPT ![o] = id] ELSE bindings
      /\ admin' = [admin EXCEPT ![a] = IdleAdmin]
      /\ UNCHANGED <<connections, index, live, issued, inserted, syncer, lost>>
  BY DEF BindRepo
<1>2. o \in Org /\ id \in Int
  BY AdminTyped, CredentialAssumption DEF CredentialInv
<1> HIDE DEF o, id
<1>3. bindings' \in [Org -> Int]
  BY <1>1, <1>2 DEF CredentialInv, CredentialTypeOK
<1>4. BoundToCurrent'
  BY <1>1, <1>2 DEF CredentialInv, CredentialTypeOK, BoundToCurrent, StillConnected
<1> QED
  BY <1>1, <1>3, <1>4, IdleTyped, AdminKeeps

LEMMA UnbindKeeps ==
  ASSUME CredentialInv, NEW o \in Org, UnbindRepo(o)
  PROVE  CredentialInv'
<1>1. /\ bindings' = [bindings EXCEPT ![o] = NoBinding]
      /\ UNCHANGED <<connections, index, live, issued, inserted, admin, syncer, lost>>
  BY DEF UnbindRepo
<1>2. CredentialTypeOK' /\ BoundToCurrent'
  BY <1>1 DEF CredentialInv, CredentialTypeOK, BoundToCurrent, NoBinding
<1>3. IdsAreOwn' /\ LooksForOne' /\ IndexNamesOwner'
  BY <1>1 DEF CredentialInv, IdsAreOwn, LooksForOne, IndexNamesOwner, Connected
<1>4. TokensOwned'
  BY <1>1, SameStored, SameRedeemed, SameRead, TokensLeft DEF CredentialInv
<1>5. StoredAlive'
  BY <1>1, SameStored, SameRead DEF CredentialInv, StoredAlive
<1> QED
  BY <1>2, <1>3, <1>4, <1>5 DEF CredentialInv

\* A write-back that has no connection in hand has no token.
LEMMA SyncerWithout ==
  ASSUME CredentialTypeOK, NEW w \in Syncer, NEW new \in SyncerState,
         new.step \notin {"read", "posted"}, syncer' = [syncer EXCEPT ![w] = new]
  PROVE  /\ syncer' \in [Syncer -> SyncerState]
         /\ syncer'[w] = new
         /\ \A v \in Syncer \ {w} : syncer'[v] = syncer[v]
         /\ \A v \in Syncer \ {w} : Rotated(v) => Rotated(v)'
         /\ \A v \in Syncer \ {w}, t \in Nat : HasRead(v, t) => HasRead(v, t)'
         /\ \A v \in Syncer, t \in Nat : HasRead(v, t)' => HasRead(v, t) /\ syncer'[v].org = syncer[v].org
         /\ \A v \in Syncer, t \in Nat : HasNext(v, t)' => HasNext(v, t)
         /\ \A t \in Nat : ~HasNext(w, t)'
<1>1. /\ syncer' \in [Syncer -> SyncerState]
      /\ syncer'[w] = new
      /\ \A v \in Syncer \ {w} : syncer'[v] = syncer[v]
      /\ \A v \in Syncer \ {w} : Rotated(v) => Rotated(v)'
      /\ \A v \in Syncer \ {w}, t \in Nat : HasRead(v, t)' => HasRead(v, t)
      /\ \A v \in Syncer \ {w}, t \in Nat : HasRead(v, t) => HasRead(v, t)'
      /\ \A v \in Syncer \ {w}, t \in Nat : HasNext(v, t)' => HasNext(v, t)
  BY SyncerChanged
<1>2. \A t \in Nat : ~HasRead(w, t)' /\ ~HasNext(w, t)'
  BY <1>1 DEF HasRead, HasNext, Rotated
<1> QED
  BY <1>1, <1>2

\* A write-back that ends, or begins, stores nothing; if it ends with a token
\* that was put in place of another, the other one is lost.
LEMMA SyncerEnds ==
  ASSUME CredentialInv, NEW w \in Syncer, NEW new \in SyncerState,
         new.step \notin {"read", "posted"}, new.step = "bound" => new.bound # 0,
         syncer' = [syncer EXCEPT ![w] = new],
         UNCHANGED <<connections, index, bindings, live, issued, inserted, admin>>,
         lost \subseteq lost', Rotated(w) => syncer[w].read.token \in lost'
  PROVE  CredentialInv'
<1>1. CredentialTypeOK /\ LooksForOne /\ TokensOwned /\ StoredAlive
  BY DEF CredentialInv
<1>2. /\ syncer' \in [Syncer -> SyncerState]
      /\ syncer'[w] = new
      /\ \A v \in Syncer \ {w} : syncer'[v] = syncer[v]
      /\ \A v \in Syncer \ {w} : Rotated(v) => Rotated(v)'
      /\ \A v \in Syncer \ {w}, t \in Nat : HasRead(v, t) => HasRead(v, t)'
      /\ \A v \in Syncer, t \in Nat : HasRead(v, t)' => HasRead(v, t) /\ syncer'[v].org = syncer[v].org
      /\ \A v \in Syncer, t \in Nat : HasNext(v, t)' => HasNext(v, t)
  BY <1>1, SyncerWithout
<1>3. CredentialTypeOK'
  BY <1>1, <1>2 DEF CredentialTypeOK
<1>4. LooksForOne'
  BY <1>1, <1>2 DEF LooksForOne
<1>5. IdsAreOwn' /\ IndexNamesOwner' /\ BoundToCurrent'
  BY ConnectionsKept
<1>6. TokensOwned'
  BY <1>1, <1>2, SameStored, SameRedeemed, TokensLeft
<1>7. StoredAlive'
  <2> SUFFICES ASSUME NEW o \in Org, NEW t \in Nat, HasStored(o, t)'
               PROVE  \/ t \in live' \/ t \in lost'
                      \/ \E v \in Syncer : HasRead(v, t)' /\ Rotated(v)' /\ syncer'[v].org = o
    BY DEF StoredAlive
  <2>1. HasStored(o, t)
    BY SameStored
  <2>2. CASE t \in live \/ t \in lost
    BY <2>2
  <2>3. ASSUME NEW v \in Syncer, HasRead(v, t), Rotated(v), syncer[v].org = o
        PROVE  \/ t \in lost'
               \/ \E u \in Syncer : HasRead(u, t)' /\ Rotated(u)' /\ syncer'[u].org = o
    <3>1. CASE v = w
      BY <2>3, <3>1 DEF HasRead
    <3>2. CASE v # w
      BY <1>2, <2>3, <3>2
    <3> QED
      BY <3>1, <3>2
  <2> QED
    BY <1>1, <2>1, <2>2, <2>3 DEF StoredAlive
<1> QED
  BY <1>3, <1>4, <1>5, <1>6, <1>7 DEF CredentialInv

LEMMA ReadBindingKeeps ==
  ASSUME CredentialInv, NEW w \in Syncer, NEW o \in Org, ReadBinding(w, o)
  PROVE  CredentialInv'
<1> DEFINE new == [syncer[w] EXCEPT !.step = "bound", !.org = o, !.bound = bindings[o]]
<1>1. /\ syncer[w].step = "idle"
      /\ bindings[o] # 0
      /\ UNCHANGED <<connections, index, bindings, live, issued, inserted, admin, lost>>
  BY DEF ReadBinding, Null
<1>2. bindings[o] \in Int
  BY DEF CredentialInv, CredentialTypeOK
<1>3. new \in SyncerState /\ new.step = "bound" /\ new.bound = bindings[o]
  BY <1>2, SyncerTyped DEF CredentialInv, SyncerState
<1>4. syncer' = [syncer EXCEPT ![w] = new]
  BY DEF ReadBinding, CredentialInv, CredentialTypeOK
<1>5. ~Rotated(w)
  BY <1>1 DEF Rotated
<1> HIDE DEF new
<1> QED
  BY <1>1, <1>3, <1>4, <1>5, SyncerEnds

LEMMA FailSyncKeeps ==
  ASSUME CredentialInv, NEW w \in Syncer, FailSync(w)
  PROVE  CredentialInv'
<1>1. /\ syncer' = [syncer EXCEPT ![w] = IdleSyncer]
      /\ lost' = IF Rotated(w) THEN lost \cup {syncer[w].read.token} ELSE lost
      /\ UNCHANGED <<connections, index, bindings, live, issued, inserted, admin>>
  BY DEF FailSync
<1>2. lost \subseteq lost' /\ (Rotated(w) => syncer[w].read.token \in lost')
  BY <1>1
<1> QED
  BY <1>1, <1>2, IdleTyped, SyncerEnds

\* What a write-back takes in hand.
LEMMA WithNext ==
  ASSUME NEW s \in SyncerState, NEW next \in 0..MaxToken
  PROVE  LET new == [s EXCEPT !.step = "posted", !.next = next] IN
         /\ new \in SyncerState
         /\ new.step = "posted" /\ new.org = s.org /\ new.read = s.read /\ new.next = next
BY DEF SyncerState

LEMMA ReadConnectionKeeps ==
  ASSUME CredentialInv, NEW w \in Syncer, ReadConnection(w)
  PROVE  CredentialInv'
<1>1. CredentialTypeOK /\ LooksForOne /\ TokensOwned /\ StoredAlive
  BY DEF CredentialInv
<1>2. PICK o \in Org : o = syncer[w].org
  BY <1>1, SyncerTyped
<1> DEFINE read == connections[o]
           new == [syncer[w] EXCEPT !.step = "read", !.bound = Null, !.read = read]
<1>3. /\ syncer[w].step = "bound" /\ ~Rotated(w)
      /\ UNCHANGED <<connections, index, bindings, live, issued, inserted, admin, lost>>
  BY DEF ReadConnection, Rotated
<1>4. CASE read.id # syncer[w].bound
  <2>1. syncer' = [syncer EXCEPT ![w] = IdleSyncer]
    BY <1>2, <1>4 DEF ReadConnection
  <2> QED
    BY <1>3, <2>1, IdleTyped, SyncerEnds
<1>5. CASE read.id = syncer[w].bound
  <2>1. Connected(o)
    BY <1>1, <1>3, <1>5 DEF LooksForOne, Connected
  <2>2. /\ new \in SyncerState
        /\ new.step = "read" /\ new.org = o /\ new.read = read
    <3>1. syncer[w] \in SyncerState /\ read \in Connection
      BY <1>1, <1>2, SyncerTyped, ConnectionTyped
    <3>2. Null \in Int
      BY DEF Null
    <3> HIDE DEF read
    <3>3. PICK s \in SyncerState, null \in Int, c \in Connection :
            s = syncer[w] /\ null = Null /\ c = read
      BY <3>1, <3>2
    <3> DEFINE given == [s EXCEPT !.step = "read", !.bound = null, !.read = c]
    <3>4. given \in SyncerState /\ given.step = "read" /\ given.org = s.org /\ given.read = c
      BY DEF SyncerState
    <3>5. new = given
      BY <3>3
    <3> HIDE DEF given, new
    <3> QED
      BY <1>2, <3>3, <3>4, <3>5
  <2>3. syncer' = [syncer EXCEPT ![w] = new]
    BY <1>1, <1>2, <1>5 DEF ReadConnection, CredentialTypeOK
  <2>4. \A t \in Nat : t = read.token => HasStored(o, t)
    BY <2>1 DEF HasStored
  <2> HIDE DEF new
  <2>5. /\ syncer' \in [Syncer -> SyncerState]
        /\ syncer'[w] = new
        /\ \A v \in Syncer \ {w} : syncer'[v] = syncer[v]
        /\ \A v \in Syncer \ {w} : Rotated(v) => Rotated(v)'
        /\ \A v \in Syncer \ {w}, t \in Nat : HasRead(v, t)' => HasRead(v, t)
        /\ \A v \in Syncer \ {w}, t \in Nat : HasRead(v, t) => HasRead(v, t)'
        /\ \A v \in Syncer \ {w}, t \in Nat : HasNext(v, t)' => HasNext(v, t)
    BY <1>1, <2>2, <2>3, SyncerChanged
  <2>6. \A t \in Nat : HasRead(w, t)' => HasStored(o, t)
    BY <2>2, <2>4, <2>5 DEF HasRead
  <2>7. \A t \in Nat : ~HasNext(w, t)'
    BY <2>2, <2>5 DEF HasNext, Rotated
  <2>8. \A p \in Org, t \in Nat : HasStored(p, t)' => HasStored(p, t)
    BY <1>3, SameStored
  <2>9. \A a \in Admin, t \in Nat : HasRedeemed(a, t)' => HasRedeemed(a, t)
    BY <1>3, SameRedeemed
  <2>10. \A v \in Syncer, t \in Nat : HasNext(v, t)' => HasNext(v, t)
    BY <2>5, <2>7
  <2>11. \A v \in Syncer, t \in Nat :
           HasRead(v, t)' => HasRead(v, t) \/ (v = w /\ HasStored(o, t))
    BY <2>5, <2>6
  <2>12. Issued /\ StoredOnce /\ ReadOfOwn /\ RedeemedAlone /\ NextAlone
    BY <1>1 DEF TokensOwned
  <2>13. Issued'
    BY <1>3, <2>8, <2>9, <2>10, <2>11, <2>12 DEF Issued
  <2>14. StoredOnce'
    BY <2>8, <2>12 DEF StoredOnce
  <2>15. ReadOfOwn'
    <3> SUFFICES ASSUME NEW v \in Syncer, NEW p \in Org, NEW t \in Nat,
                        HasRead(v, t)', HasStored(p, t)'
                 PROVE  syncer'[v].org = p
      BY DEF ReadOfOwn
    <3>1. CASE v = w
      BY <2>2, <2>5, <2>6, <2>8, <2>12, <3>1 DEF StoredOnce
    <3>2. CASE v # w
      BY <2>5, <2>8, <2>12, <3>2 DEF ReadOfOwn
    <3> QED
      BY <3>1, <3>2
  <2>16. RedeemedAlone' /\ NextAlone'
    BY <1>3, <2>8, <2>9, <2>10, <2>11, <2>12 DEF RedeemedAlone, NextAlone
  <2>17. StoredAlive'
    <3>1. \A v \in Syncer : Rotated(v) => v # w
      BY <1>3
    <3> QED
      BY <1>1, <1>3, <2>5, <2>8, <3>1 DEF StoredAlive
  <2>18. CredentialTypeOK'
    BY <1>1, <1>3, <2>5 DEF CredentialTypeOK
  <2>19. LooksForOne'
    BY <1>1, <2>2, <2>5 DEF LooksForOne
  <2>20. IdsAreOwn' /\ IndexNamesOwner' /\ BoundToCurrent'
    BY <1>3, ConnectionsKept
  <2> QED
    BY <2>13, <2>14, <2>15, <2>16, <2>17, <2>18, <2>19, <2>20 DEF CredentialInv, TokensOwned
<1> QED
  BY <1>4, <1>5

\* The tracker takes a token and keeps it.
LEMMA TokenTaken ==
  ASSUME CredentialInv, NEW w \in Syncer, syncer[w].step = "read",
         syncer' = [syncer EXCEPT ![w].step = "posted", ![w].next = syncer[w].read.token],
         UNCHANGED <<connections, index, bindings, live, issued, inserted, admin, lost>>
  PROVE  CredentialInv'
<1>1. CredentialTypeOK /\ LooksForOne /\ TokensOwned /\ StoredAlive
  BY DEF CredentialInv
<1>2. PICK s \in SyncerState, next \in 0..MaxToken : s = syncer[w] /\ next = s.read.token
  BY <1>1, SyncerTyped
<1> DEFINE new == [s EXCEPT !.step = "posted", !.next = next]
<1>3. /\ new \in SyncerState
      /\ new.step = "posted" /\ new.org = s.org /\ new.read = s.read /\ new.next = next
  BY <1>2, WithNext
<1>4. syncer' = [syncer EXCEPT ![w] = new]
  BY <1>1, <1>2 DEF CredentialTypeOK
<1> HIDE DEF new
<1>5. /\ syncer' \in [Syncer -> SyncerState]
      /\ syncer'[w] = new
      /\ \A v \in Syncer \ {w} : syncer'[v] = syncer[v]
      /\ \A v \in Syncer \ {w} : Rotated(v) => Rotated(v)'
      /\ \A v \in Syncer \ {w}, t \in Nat : HasRead(v, t)' => HasRead(v, t)
      /\ \A v \in Syncer \ {w}, t \in Nat : HasRead(v, t) => HasRead(v, t)'
      /\ \A v \in Syncer \ {w}, t \in Nat : HasNext(v, t)' => HasNext(v, t)
  BY <1>1, <1>3, <1>4, SyncerChanged
<1>6. ~Rotated(w) /\ ~Rotated(w)'
  BY <1>2, <1>3, <1>5 DEF Rotated
<1>7. \A t \in Nat : HasRead(w, t)' => HasRead(w, t) /\ syncer'[w].org = syncer[w].org
  BY <1>2, <1>3, <1>5 DEF HasRead
<1>8. \A v \in Syncer, t \in Nat : HasRead(v, t)' => HasRead(v, t) /\ syncer'[v].org = syncer[v].org
  BY <1>5, <1>7
<1>9. \A v \in Syncer, t \in Nat : HasNext(v, t)' => HasNext(v, t)
  BY <1>5, <1>6 DEF HasNext
<1>10. TokensOwned'
  BY <1>1, <1>8, <1>9, SameStored, SameRedeemed, TokensLeft
<1>11. StoredAlive'
  <2>1. \A v \in Syncer : Rotated(v) => v # w
    BY <1>6
  <2> QED
    BY <1>1, <1>5, <2>1, SameStored DEF StoredAlive
<1>12. CredentialTypeOK'
  BY <1>1, <1>5 DEF CredentialTypeOK
<1>13. LooksForOne'
  BY <1>1, <1>3, <1>5 DEF LooksForOne
<1>14. IdsAreOwn' /\ IndexNamesOwner' /\ BoundToCurrent'
  BY ConnectionsKept
<1> QED
  BY <1>10, <1>11, <1>12, <1>13, <1>14 DEF CredentialInv

\* The tracker takes a token and puts a new one in its place: whoever has the
\* old one, stored or read, is of the organization of the write-back that
\* holds the new one.
LEMMA TokenReplaced ==
  ASSUME CredentialInv, NEW w \in Syncer, syncer[w].step = "read", issued < MaxToken,
         issued' = issued + 1,
         live' = (live \ {syncer[w].read.token}) \cup {issued + 1},
         syncer' = [syncer EXCEPT ![w].step = "posted", ![w].next = issued + 1],
         UNCHANGED <<connections, index, bindings, inserted, admin, lost>>
  PROVE  CredentialInv'
<1>1. CredentialTypeOK /\ LooksForOne /\ StoredAlive
  BY DEF CredentialInv
<1>2. Issued /\ StoredOnce /\ ReadOfOwn /\ RedeemedAlone /\ NextAlone
  BY DEF CredentialInv, TokensOwned
<1>3. issued \in Nat
  BY <1>1 DEF CredentialTypeOK
<1>4. PICK s \in SyncerState, r \in Nat, t0 \in 0..MaxToken :
        s = syncer[w] /\ r = s.read.token /\ t0 = issued + 1 /\ t0 \in Nat
  BY <1>1, <1>3, SyncerTyped, CredentialAssumption
<1>5. /\ \A o \in Org : ~HasStored(o, t0)
      /\ \A a \in Admin : ~HasRedeemed(a, t0)
      /\ \A v \in Syncer : ~HasRead(v, t0) /\ ~HasNext(v, t0)
  BY <1>4, NewToken
<1>6. HasRead(w, r)
  BY <1>4 DEF HasRead
<1>7. r # t0
  BY <1>5, <1>6
<1> DEFINE new == [s EXCEPT !.step = "posted", !.next = t0]
<1>8. /\ new \in SyncerState
      /\ new.step = "posted" /\ new.org = s.org /\ new.read = s.read /\ new.next = t0
  BY WithNext
<1>9. syncer' = [syncer EXCEPT ![w] = new]
  BY <1>1, <1>4 DEF CredentialTypeOK
<1> HIDE DEF new
<1>10. /\ syncer' \in [Syncer -> SyncerState]
       /\ syncer'[w] = new
       /\ \A v \in Syncer \ {w} : syncer'[v] = syncer[v]
       /\ \A v \in Syncer \ {w} : Rotated(v) => Rotated(v)'
       /\ \A v \in Syncer \ {w}, t \in Nat : HasRead(v, t)' => HasRead(v, t)
       /\ \A v \in Syncer \ {w}, t \in Nat : HasRead(v, t) => HasRead(v, t)'
       /\ \A v \in Syncer \ {w}, t \in Nat : HasNext(v, t)' => HasNext(v, t)
  BY <1>1, <1>8, <1>9, SyncerChanged
<1>11. /\ Rotated(w)' /\ ~Rotated(w)
       /\ \A t \in Nat : HasRead(w, t)' => HasRead(w, t)
       /\ \A t \in Nat : HasRead(w, t) => HasRead(w, t)'
       /\ \A t \in Nat : HasNext(w, t)' => t = t0
       /\ syncer'[w].org = syncer[w].org
  BY <1>4, <1>7, <1>8, <1>10 DEF HasRead, HasNext, Rotated
<1>12. \A v \in Syncer, t \in Nat :
         HasRead(v, t)' => HasRead(v, t) /\ syncer'[v].org = syncer[v].org
  BY <1>10, <1>11
<1>13. \A v \in Syncer, t \in Nat : HasNext(v, t)' => HasNext(v, t) \/ (v = w /\ t = t0)
  BY <1>10, <1>11
<1>14. \A o \in Org, t \in Nat : HasStored(o, t)' => HasStored(o, t)
  BY SameStored
<1>15. \A a \in Admin, t \in Nat : HasRedeemed(a, t)' => HasRedeemed(a, t)
  BY SameRedeemed
<1>16. /\ t0 \in live' /\ issued' = t0
       /\ \A t \in live : t # r => t \in live'
       /\ \A t \in live' : t \in live \/ t = t0
  BY <1>4
<1>17. Issued'
  <2>1. \A t \in Nat : t <= issued => t <= t0
    BY <1>3, <1>4
  <2>2. \A t \in live' : t <= t0
    BY <1>1, <1>2, <1>4, <1>16, <2>1 DEF CredentialTypeOK, Issued
  <2>3. /\ \A o \in Org, t \in Nat : HasStored(o, t)' => t <= t0
        /\ \A a \in Admin, t \in Nat : HasRedeemed(a, t)' => t <= t0
    BY <1>2, <1>14, <1>15, <2>1 DEF Issued
  <2>4. \A v \in Syncer, t \in Nat : HasRead(v, t)' => t <= t0
    BY <1>2, <1>12, <2>1 DEF Issued
  <2>5. \A v \in Syncer, t \in Nat : HasNext(v, t)' => t <= t0
    <3>1. t0 <= t0
      BY <1>4
    <3>2. \A v \in Syncer, t \in Nat : HasNext(v, t) => t <= t0
      BY <1>2, <2>1 DEF Issued
    <3> QED
      BY <1>13, <3>1, <3>2
  <2> QED
    BY <1>16, <2>2, <2>3, <2>4, <2>5 DEF Issued
<1>18. StoredOnce' /\ ReadOfOwn'
  BY <1>2, <1>12, <1>14 DEF StoredOnce, ReadOfOwn
<1>19. RedeemedAlone'
  <2> SUFFICES ASSUME NEW a \in Admin, NEW t \in Nat, HasRedeemed(a, t)'
               PROVE  /\ t \in live'
                      /\ \A o \in Org : ~HasStored(o, t)'
                      /\ \A v \in Syncer : ~HasRead(v, t)' /\ ~HasNext(v, t)'
                      /\ \A b \in Admin : HasRedeemed(b, t)' => b = a
    BY DEF RedeemedAlone
  <2>1. HasRedeemed(a, t) /\ t # t0
    BY <1>5, <1>15
  <2>2. /\ t \in live
        /\ \A o \in Org : ~HasStored(o, t)
        /\ \A v \in Syncer : ~HasRead(v, t) /\ ~HasNext(v, t)
        /\ \A b \in Admin : HasRedeemed(b, t) => b = a
    BY <1>2, <2>1 DEF RedeemedAlone
  <2>3. t # r
    BY <1>6, <2>2
  <2> QED
    BY <1>12, <1>13, <1>14, <1>15, <1>16, <2>1, <2>2, <2>3
<1>20. NextAlone'
  <2> SUFFICES ASSUME NEW v \in Syncer, NEW t \in Nat, HasNext(v, t)'
               PROVE  /\ t \in live'
                      /\ \A o \in Org : ~HasStored(o, t)'
                      /\ \A u \in Syncer : ~HasRead(u, t)' /\ (HasNext(u, t)' => u = v)
    BY DEF NextAlone
  <2>1. CASE v = w /\ t = t0
    BY <1>5, <1>12, <1>13, <1>14, <1>16, <2>1
  <2>2. CASE ~(v = w /\ t = t0)
    <3>1. HasNext(v, t) /\ t # t0
      BY <1>5, <1>13, <2>2
    <3>2. /\ t \in live
          /\ \A o \in Org : ~HasStored(o, t)
          /\ \A u \in Syncer : ~HasRead(u, t) /\ (HasNext(u, t) => u = v)
      BY <1>2, <3>1 DEF NextAlone
    <3>3. t # r
      BY <1>6, <3>2
    <3> QED
      BY <1>12, <1>13, <1>14, <1>16, <3>1, <3>2, <3>3
  <2> QED
    BY <2>1, <2>2
<1>21. StoredAlive'
  <2> SUFFICES ASSUME NEW o \in Org, NEW t \in Nat, HasStored(o, t)'
               PROVE  \/ t \in live' \/ t \in lost'
                      \/ \E v \in Syncer : HasRead(v, t)' /\ Rotated(v)' /\ syncer'[v].org = o
    BY DEF StoredAlive
  <2>1. HasStored(o, t)
    BY <1>14
  <2>2. CASE t = r
    <3>1. syncer[w].org = o
      BY <1>2, <1>6, <2>1, <2>2 DEF ReadOfOwn
    <3> QED
      BY <1>6, <1>11, <2>2, <3>1
  <2>3. CASE t # r
    <3>1. \A v \in Syncer : Rotated(v) => v # w
      BY <1>11
    <3> QED
      BY <1>1, <1>10, <1>16, <2>1, <2>3, <3>1 DEF StoredAlive
  <2> QED
    BY <2>2, <2>3
<1>22. CredentialTypeOK'
  BY <1>1, <1>3, <1>10, <1>16, <1>4 DEF CredentialTypeOK
<1>23. LooksForOne'
  BY <1>1, <1>8, <1>10 DEF LooksForOne
<1>24. IdsAreOwn' /\ IndexNamesOwner' /\ BoundToCurrent'
  BY ConnectionsKept
<1> QED
  BY <1>17, <1>18, <1>19, <1>20, <1>21, <1>22, <1>23, <1>24 DEF CredentialInv, TokensOwned

LEMMA RefreshKeeps ==
  ASSUME CredentialInv, NEW w \in Syncer, RefreshToken(w)
  PROVE  CredentialInv'
<1>1. /\ syncer[w].step = "read"
      /\ UNCHANGED <<connections, index, bindings, inserted, admin, lost>>
  BY DEF RefreshToken
<1>2. CASE /\ syncer' = [syncer EXCEPT ![w].step = "posted", ![w].next = syncer[w].read.token]
           /\ UNCHANGED <<live, issued>>
  BY <1>1, <1>2, TokenTaken
<1>3. CASE /\ issued < MaxToken
           /\ issued' = issued + 1
           /\ live' = (live \ {syncer[w].read.token}) \cup {issued + 1}
           /\ syncer' = [syncer EXCEPT ![w].step = "posted", ![w].next = issued + 1]
  BY <1>1, <1>3, TokenReplaced
<1> QED
  BY <1>2, <1>3 DEF RefreshToken

\* A write-back that has a new token in hand ends: it is stored over whatever
\* its organization has by now, or the site is taken and the old one is lost.
LEMMA FinishKeeps ==
  ASSUME CredentialInv, NEW w \in Syncer, FinishSync(w)
  PROVE  CredentialInv'
<1>1. /\ syncer[w].step = "posted"
      /\ StoreRotated(w)
      /\ lost' = IF Rotated(w) /\ Taken(syncer[w].org, syncer[w].read.site)
                 THEN lost \cup {syncer[w].read.token} ELSE lost
      /\ syncer' = [syncer EXCEPT ![w] = IdleSyncer]
      /\ UNCHANGED <<bindings, live, issued, admin>>
  BY DEF FinishSync
<1>2. CredentialTypeOK /\ IdsAreOwn /\ LooksForOne /\ IndexNamesOwner /\ BoundToCurrent
  BY DEF CredentialInv
<1>3. CASE ~Rotated(w)
  <2>1. UNCHANGED <<connections, index, inserted>> /\ lost' = lost
    BY <1>1, <1>3 DEF StoreRotated
  <2> QED
    BY <1>1, <1>3, <2>1, IdleTyped, SyncerEnds
<1>4. CASE Rotated(w)
  <2>1. PICK o \in Org, site \in Site, t0 \in 0..MaxToken :
          o = syncer[w].org /\ site = syncer[w].read.site /\ t0 = syncer[w].next /\ t0 \in Nat
    BY <1>2, SyncerTyped, CredentialAssumption
  <2>2. Upsert(o, site, t0)
    BY <1>1, <1>4, <2>1 DEF StoreRotated
  <2>3. /\ connections' \in [Org -> Connection]
        /\ index' \subseteq [site: Site, org: Org, id: 0..MaxConnectionId]
        /\ inserted' \in Nat
        /\ IdsAreOwn' /\ IndexNamesOwner' /\ BoundToCurrent'
        /\ \A p \in Org \ {o} : connections'[p] = connections[p]
        /\ \/ ~MayIndex(o, IdFor(o), site) /\ UNCHANGED <<connections, index, inserted>>
           \/ connections'[o].id # 0 /\ connections'[o].token = t0
    BY <1>1, <1>2, <2>2, UpsertKeeps
  <2>4. CASE ~MayIndex(o, IdFor(o), site) /\ UNCHANGED <<connections, index, inserted>>
    <3>1. PICK row \in index : row.site = site /\ ~(row.org = o /\ row.id = IdFor(o))
      BY <2>4 DEF MayIndex
    <3>2. row.org = o => Connected(o)
      BY <1>2, IndexRows
    <3>3. ~(row.org = o /\ row.id = connections[o].id)
      BY <3>1, <3>2 DEF IdFor
    <3>4. Taken(o, site)
      BY <3>1, <3>3 DEF Taken, MayIndex
    <3>5. syncer[w].read.token \in lost' /\ lost \subseteq lost'
      BY <1>1, <1>4, <2>1, <3>4
    <3> QED
      BY <1>1, <2>4, <3>5, IdleTyped, SyncerEnds
  <2>5. CASE connections'[o].id # 0 /\ connections'[o].token = t0
    <3>1. /\ syncer' \in [Syncer -> SyncerState]
          /\ syncer'[w] = IdleSyncer
          /\ \A v \in Syncer \ {w} : syncer'[v] = syncer[v]
          /\ \A v \in Syncer \ {w} : Rotated(v) => Rotated(v)'
          /\ \A v \in Syncer \ {w}, t \in Nat : HasRead(v, t) => HasRead(v, t)'
          /\ \A v \in Syncer, t \in Nat : HasRead(v, t)' => HasRead(v, t) /\ syncer'[v].org = syncer[v].org
          /\ \A v \in Syncer, t \in Nat : HasNext(v, t)' => HasNext(v, t)
          /\ \A t \in Nat : ~HasNext(w, t)'
      BY <1>1, <1>2, IdleTyped, SyncerWithout
    <3>2. Issued /\ RedeemedAlone /\ NextAlone /\ TokensOwned /\ StoredAlive
      BY DEF CredentialInv, TokensOwned
    <3>3. HasNext(w, t0)
      BY <1>4, <2>1 DEF HasNext
    <3>4. /\ t0 \in live
          /\ \A p \in Org : ~HasStored(p, t0)
          /\ \A v \in Syncer : ~HasRead(v, t0) /\ (HasNext(v, t0) => v = w)
      BY <2>1, <3>2, <3>3 DEF NextAlone
    <3>5. t0 <= issued
      BY <2>1, <3>2, <3>3 DEF Issued
    <3>6. \A v \in Syncer : ~HasNext(v, t0)'
      BY <2>1, <3>1, <3>4
    <3>7. \A a \in Admin, t \in Nat : HasRedeemed(a, t)' => HasRedeemed(a, t)
      BY <1>1, SameRedeemed
    <3>8. \A a \in Admin : ~HasRedeemed(a, t0)'
      BY <2>1, <3>2, <3>3, <3>7 DEF RedeemedAlone
    <3>9. \A p \in Org \ {o}, t \in Nat : HasStored(p, t)' => HasStored(p, t)
      BY <2>3 DEF HasStored, Connected
    <3>10. \A t \in Nat : HasStored(o, t)' => t = t0
      BY <2>5 DEF HasStored
    <3>11. UNCHANGED live /\ UNCHANGED issued
      BY <1>1
    <3>12. \A v \in Syncer : ~HasRead(v, t0)
      BY <3>4
    <3>13. TokensOwned'
      BY <2>1, <3>1, <3>2, <3>4, <3>5, <3>6, <3>7, <3>8, <3>9, <3>10, <3>11, <3>12, TokenStored
    <3>14. StoredAlive'
      <4> SUFFICES ASSUME NEW p \in Org, NEW t \in Nat, HasStored(p, t)'
                   PROVE  \/ t \in live' \/ t \in lost'
                          \/ \E v \in Syncer : HasRead(v, t)' /\ Rotated(v)' /\ syncer'[v].org = p
        BY DEF StoredAlive
      <4>1. CASE p = o
        BY <3>4, <3>10, <3>11, <4>1
      <4>2. CASE p # o
        <5>1. HasStored(p, t)
          BY <3>9, <4>2
        <5>2. lost \subseteq lost'
          BY <1>1
        <5>3. \A v \in Syncer : syncer[v].org = p => v # w
          BY <2>1, <4>2
        <5> QED
          BY <3>1, <3>2, <3>11, <5>1, <5>2, <5>3 DEF StoredAlive
      <4> QED
        BY <4>1, <4>2
    <3>15. CredentialTypeOK'
      BY <1>1, <1>2, <2>3, <3>1 DEF CredentialTypeOK
    <3>16. LooksForOne'
      BY <1>2, <3>1, IdleTyped DEF LooksForOne
    <3> QED
      BY <2>3, <3>13, <3>14, <3>15, <3>16 DEF CredentialInv
  <2> QED
    BY <2>3, <2>4, <2>5
<1> QED
  BY <1>3, <1>4

LEMMA FailAdminKeeps ==
  ASSUME CredentialInv, NEW a \in Admin, FailAdmin(a)
  PROVE  CredentialInv'
<1>1. /\ admin' = [admin EXCEPT ![a] = IdleAdmin]
      /\ UNCHANGED <<connections, index, bindings, live, issued, inserted, syncer, lost>>
  BY DEF FailAdmin
<1>2. bindings' \in [Org -> Int] /\ BoundToCurrent'
  BY <1>1, ConnectionsKept DEF CredentialInv, CredentialTypeOK
<1> QED
  BY <1>1, <1>2, IdleTyped, AdminKeeps

LEMMA StutterKeeps ==
  ASSUME CredentialInv, UNCHANGED credentialVars
  PROVE  CredentialInv'
<1>1. UNCHANGED <<connections, index, bindings, live, issued, inserted, admin, syncer, lost>>
  BY DEF credentialVars
<1>2. CredentialTypeOK' /\ LooksForOne'
  BY <1>1 DEF CredentialInv, CredentialTypeOK, LooksForOne
<1>3. IdsAreOwn' /\ IndexNamesOwner' /\ BoundToCurrent'
  BY <1>1, ConnectionsKept
<1>4. TokensOwned'
  BY <1>1, SameStored, SameRedeemed, SameRead, TokensLeft DEF CredentialInv
<1>5. StoredAlive'
  BY <1>1, SameStored, SameRead DEF CredentialInv, StoredAlive
<1> QED
  BY <1>2, <1>3, <1>4, <1>5 DEF CredentialInv

-----------------------------------------------------------------------------

LEMMA CredentialKept ==
  CredentialInv /\ [CredentialNext]_credentialVars => CredentialInv'
<1> SUFFICES ASSUME CredentialInv, [CredentialNext]_credentialVars
             PROVE  CredentialInv'
  OBVIOUS
<1>1. ASSUME NEW a \in Admin, NEW o \in Org, NEW s \in Site, RedeemCode(a, o, s)
      PROVE  CredentialInv'
  BY <1>1, RedeemKeeps
<1>2. ASSUME NEW a \in Admin, NEW o \in Org, LookUp(a, o)
      PROVE  CredentialInv'
  BY <1>2, LookUpKeeps
<1>3. ASSUME NEW a \in Admin, ConnectTracker(a) \/ BindRepo(a) \/ FailAdmin(a)
      PROVE  CredentialInv'
  BY <1>3, ConnectKeeps, BindKeeps, FailAdminKeeps
<1>4. ASSUME NEW o \in Org, DisconnectTracker(o) \/ UnbindRepo(o)
      PROVE  CredentialInv'
  BY <1>4, DisconnectStepKeeps, UnbindKeeps
<1>5. ASSUME NEW w \in Syncer, NEW o \in Org, ReadBinding(w, o)
      PROVE  CredentialInv'
  BY <1>5, ReadBindingKeeps
<1>6. ASSUME NEW w \in Syncer,
             ReadConnection(w) \/ RefreshToken(w) \/ FinishSync(w) \/ FailSync(w)
      PROVE  CredentialInv'
  BY <1>6, ReadConnectionKeeps, RefreshKeeps, FinishKeeps, FailSyncKeeps
<1>7. CASE UNCHANGED credentialVars
  BY <1>7, StutterKeeps
<1> QED
  BY <1>1, <1>2, <1>3, <1>4, <1>5, <1>6, <1>7 DEF CredentialNext

LEMMA CredentialInvAlways == CredentialSpec => []CredentialInv
BY CredentialInitially, CredentialKept, PTL DEF CredentialSpec

\* Every variable keeps its range: no id and no token past the ones issued, no
\* request in a step the code does not have.
THEOREM CredentialTypeCorrect == CredentialSpec => []CredentialTypeOK
<1>1. CredentialInv => CredentialTypeOK
  BY DEF CredentialInv
<1> QED
  BY <1>1, CredentialInvAlways, PTL

\* upsert_connection, its index row and disconnect_tracker, however they
\* interleave with write-backs that store over them, leave one index row per
\* connection, with the connection's own site, organization and id.
THEOREM IndexIsRight == CredentialSpec => []IndexNamesOwner
<1>1. CredentialInv => IndexNamesOwner
  BY DEF CredentialInv
<1> QED
  BY <1>1, CredentialInvAlways, PTL

\* bind_repo, which looked its connection up in an earlier transaction, never
\* names one that is gone: require_connection_in_org looks again.
THEOREM BindingsAreCurrent == CredentialSpec => []BoundToCurrent
<1>1. CredentialInv => BoundToCurrent
  BY DEF CredentialInv
<1> QED
  BY <1>1, CredentialInvAlways, PTL

\* A stored refresh token the tracker no longer takes is one whose replacement
\* a write-back of the organization still has in hand, or failed to store: no
\* interleaving of connecting, disconnecting and overlapping write-backs kills
\* it in another way.
THEOREM TokensStayAlive == CredentialSpec => []TokenAlive
<1>1. CredentialInv => TokenAlive
  <2> SUFFICES ASSUME CredentialInv, NEW o \in Org, Connected(o)
               PROVE  \/ connections[o].token \in live
                      \/ \E w \in Syncer :
                           Rotated(w) /\ syncer[w].org = o /\ syncer[w].read.token = connections[o].token
                      \/ connections[o].token \in lost
    BY DEF TokenAlive
  <2>1. PICK t \in Nat : t = connections[o].token
    BY ConnectionTyped, CredentialAssumption DEF CredentialInv
  <2>2. HasStored(o, t)
    BY <2>1 DEF HasStored
  <2> QED
    BY <2>1, <2>2 DEF CredentialInv, StoredAlive, HasRead
<1> QED
  BY <1>1, CredentialInvAlways, PTL

-----------------------------------------------------------------------------

\* The event a delivery carries is later than the revision it read, or cannot be
\* told to be.
LaterThanRead(d) ==
  delivery[d].event.revision = 0 \/ delivery[d].stored < delivery[d].event.revision

\* A delivery that is to write to a job has read it.
DeliveriesRead ==
  \A d \in Delivery :
    /\ delivery[d].doing \in {"idle", "create", "asking"} => delivery[d].job = 0
    /\ delivery[d].doing \in {"update", "completed", "failed"} =>
         /\ delivery[d].job \in DOMAIN jobs
         /\ LaterThanRead(d)

WriteBacksName ==
  \A a \in Agent : agent[a].step # "idle" => agent[a].job \in DOMAIN jobs

TicketInv == TicketTypeOK /\ DeliveriesRead /\ WriteBacksName /\ OneOpenJob /\ BilledAsJudged

\* What a step does to the jobs and the completion rows.
Quiet == UNCHANGED <<jobs, completions>>

OnlyRow(j) ==
  /\ jobs' \in Seq(TicketJob)
  /\ DOMAIN jobs' = DOMAIN jobs
  /\ \A k \in DOMAIN jobs \ {j} : jobs'[k] = jobs[k]

Written ==
  \E j \in DOMAIN jobs :
    /\ OnlyRow(j)
    /\ ~(jobs[j].status \in Live /\ jobs'[j].status = "completed")
    /\ jobs'[j].linked /\ jobs'[j].status \in Live => j \in OpenJobs \/ OpenJobs \subseteq {j}
    /\ completions' = completions

Closed ==
  \E j \in DOMAIN jobs, worked \in BOOLEAN, standing \in Standing :
    /\ OnlyRow(j)
    /\ jobs[j].status \in Live /\ jobs'[j].status = "completed"
    /\ worked => standing # "unasked"
    /\ completions' = Append(completions, TicketCompletion(j, worked, standing))

Added ==
  \E row \in TicketJob :
    /\ OpenJobs = {}
    /\ row.status = "pending"
    /\ jobs' = Append(jobs, row)
    /\ completions' = completions

-----------------------------------------------------------------------------
(* Rows and records. *)

\* Writing one row of jobs.
LEMMA RowWritten ==
  ASSUME jobs \in Seq(TicketJob), NEW j \in DOMAIN jobs, NEW row \in TicketJob,
         jobs' = [jobs EXCEPT ![j] = row]
  PROVE  OnlyRow(j) /\ jobs'[j] = row
  <1>1. DOMAIN jobs = 1..Len(jobs)
    OBVIOUS
  <1>2. jobs' \in Seq(TicketJob)
    BY <1>1, ExceptSeq
  <1>3. QED
    BY <1>1, <1>2 DEF OnlyRow

\* The job a delivery reads is a job, or none.
LEMMA RowTyped ==
  ASSUME TicketTypeOK, NEW j \in {0} \cup DOMAIN jobs
  PROVE  Row(j) \in TicketJob
  <1>1. NoTicketJob \in TicketJob
    BY TicketAssumption DEF NoTicketJob, TicketJob
  <1>2. 0 \notin DOMAIN jobs /\ \A k \in DOMAIN jobs : jobs[k] \in TicketJob
    BY DEF TicketTypeOK
  <1>3. QED
    BY <1>1, <1>2 DEF Row

LEMMA NoDeliveryTyped ==
  /\ NoDelivery \in Delivering
  /\ NoDelivery.doing = "idle" /\ NoDelivery.job = 0
  <1>1. [revision |-> 1, closes |-> "open"] \in TicketEvent
    BY TicketAssumption DEF TicketEvent, Outcome
  <1>2. "unasked" \in Standing /\ 0 \in 0..MaxRevision
    BY TicketAssumption DEF Standing
  <1>3. QED
    BY <1>1, <1>2 DEF NoDelivery, Delivering

LEMMA NoWriteBackTyped ==
  /\ NoWriteBack \in WritingBack
  /\ NoWriteBack.step = "idle"
  BY TicketAssumption DEF NoWriteBack, WritingBack, Plan

\* A completion row says what it was made of.
LEMMA CompletionTyped ==
  ASSUME NEW j \in Nat, NEW worked \in BOOLEAN, NEW standing \in Standing
  PROVE  LET c == TicketCompletion(j, worked, standing) IN
         /\ c \in Completion
         /\ c.job = j
         /\ c.worked = worked
         /\ c.standing = standing
         /\ c.billed = (worked /\ standing # "blocked")
  <1>1. PICK billed \in BOOLEAN : billed = (worked /\ standing # "blocked")
    OBVIOUS
  <1>2. TicketCompletion(j, worked, standing) =
          [job |-> j, worked |-> worked, standing |-> standing, billed |-> billed]
    BY <1>1, Zenon DEF TicketCompletion
  <1>3. QED
    BY <1>1, <1>2 DEF Completion

\* An event of the tracker is one.
LEMMA SnapshotTyped ==
  ASSUME NEW t \in TicketEvent, NEW closing \in BOOLEAN
  PROVE  Snapshot(t, closing) \in TicketEvent
  <1>1. t.revision \in 0..MaxRevision /\ t.closes \in Outcome /\ "open" \in Outcome
    BY DEF TicketEvent, Outcome
  <1>2. QED
    BY <1>1 DEF Snapshot, TicketEvent

LEMMA AnnounceTyped ==
  ASSUME sent \subseteq TicketEvent, NEW e \in TicketEvent, Announce(e) \/ UNCHANGED sent
  PROVE  sent' \subseteq TicketEvent
  <1>1. Undated(e) \in TicketEvent
    BY TicketAssumption DEF Undated, TicketEvent
  <1>2. QED
    BY <1>1 DEF Announce

LEMMA WriteTyped ==
  ASSUME TicketTypeOK, NEW to \in Outcome, Write(to)
  PROVE  ticket' \in TicketEvent
  <1>1. ticket.revision \in 0..MaxRevision
    BY DEF TicketTypeOK, TicketEvent
  <1>2. QED
    BY <1>1, TicketAssumption DEF Write, TicketEvent

-----------------------------------------------------------------------------
(* Every step does one of four things to the jobs. *)

\* A job that stays as linked as it was is open after a step only if it was
\* before.
LEMMA Rewritten ==
  ASSUME TicketTypeOK, NEW j \in DOMAIN jobs, NEW row \in TicketJob,
         jobs' = [jobs EXCEPT ![j] = row], completions' = completions,
         row.status = "completed" => jobs[j].status \notin Live,
         row.linked /\ row.status \in Live =>
           (jobs[j].linked /\ jobs[j].status \in Live) \/ OpenJobs \subseteq {j}
  PROVE  Written
  <1>1. OnlyRow(j) /\ jobs'[j] = row
    BY RowWritten DEF TicketTypeOK
  <1>2. jobs[j].linked /\ jobs[j].status \in Live => j \in OpenJobs
    BY DEF OpenJobs, LinkedJobs
  <1>3. QED
    BY <1>1, <1>2 DEF Written

\* What a delivery stamps the job with is a revision.
LEMMA StampTyped ==
  ASSUME TicketTypeOK, NEW d \in Delivery, NEW stored \in 0..MaxRevision
  PROVE  Stamp(d, stored) \in 0..MaxRevision
  <1>1. delivery[d].event.revision \in 0..MaxRevision
    BY DEF TicketTypeOK, Delivering, TicketEvent
  <1>2. QED
    BY <1>1 DEF Stamp

LEMMA DeliveryKinds ==
  ASSUME TicketInv, NEW d \in Delivery,
         CreateFromTicket(d) \/ UpdateFromTicket(d) \/ \E to \in {"completed", "failed"} : CloseFromTicket(d, to)
  PROVE  Quiet \/ Written \/ Closed \/ Added
  <1> USE DEF TicketInv
  <1>0. /\ delivery[d].event.revision \in 0..MaxRevision
        /\ delivery[d].worked \in BOOLEAN /\ delivery[d].standing \in Standing
        /\ \A k \in DOMAIN jobs : jobs[k] \in TicketJob
    BY DEF TicketTypeOK, TicketEvent, Delivering
  <1>1. CASE CreateFromTicket(d)
    <2>1. CASE OpenJobs # {}
      BY <1>1, <2>1 DEF CreateFromTicket, Quiet
    <2>2. CASE OpenJobs = {}
      <3>1. PICK row : row = [status |-> "pending", worked |-> FALSE, linked |-> TRUE,
                              revision |-> delivery[d].event.revision]
        OBVIOUS
      <3>2. row \in TicketJob /\ row.status = "pending"
        BY <1>0, <3>1 DEF TicketJob, Live
      <3>3. QED
        BY <1>1, <2>2, <3>1, <3>2 DEF CreateFromTicket, Added
    <2>3. QED
      BY <2>1, <2>2
  <1>2. CASE UpdateFromTicket(d)
    <2>1. PICK j \in DOMAIN jobs : j = delivery[d].job
      BY <1>2 DEF UpdateFromTicket, DeliveriesRead
    <2>0. PICK stamp \in 0..MaxRevision : stamp = Stamp(d, jobs[j].revision)
      BY <1>0, StampTyped DEF TicketJob
    <2>2. PICK row : row = [jobs[j] EXCEPT !.revision = stamp]
      OBVIOUS
    <2>3. /\ row \in TicketJob /\ row.status = jobs[j].status /\ row.linked = jobs[j].linked
      BY <1>0, <2>1, <2>2 DEF TicketJob
    <2>4. jobs' = [jobs EXCEPT ![j] = row] /\ completions' = completions
      BY <1>2, <2>0, <2>1, <2>2 DEF UpdateFromTicket
    <2>5. QED
      BY <2>3, <2>4, Rewritten DEF Live
  <1>3. CASE \E to \in {"completed", "failed"} : CloseFromTicket(d, to)
    <2>1. PICK to \in {"completed", "failed"} : CloseFromTicket(d, to)
      BY <1>3
    <2>2. PICK j \in DOMAIN jobs : j = delivery[d].job
      BY <2>1 DEF CloseFromTicket, DeliveriesRead
    <2>0. PICK stamp \in 0..MaxRevision : stamp = Stamp(d, jobs[j].revision)
      BY <1>0, StampTyped DEF TicketJob
    <2>3. PICK row : row = [jobs[j] EXCEPT !.status = to, !.revision = stamp]
      OBVIOUS
    <2>4. row \in TicketJob /\ row.status = to
      <3>1. PICK closed : closed = [jobs[j] EXCEPT !.status = to]
        OBVIOUS
      <3>2. closed \in TicketJob /\ closed.status = to
        BY <1>0, <3>1 DEF TicketJob
      <3>3. row = [closed EXCEPT !.revision = stamp]
        BY <2>3, <3>1
      <3>4. QED
        BY <1>0, <3>2, <3>3 DEF TicketJob
    <2>5. jobs' = [jobs EXCEPT ![j] = row]
      <3>1. jobs' = [jobs EXCEPT ![j].status = to, ![j].revision = Stamp(d, jobs[j].revision)]
        BY <2>1, <2>2 DEF CloseFromTicket, TicketTypeOK
      <3>2. QED
        BY <2>0, <2>2, <2>3, <3>1 DEF TicketTypeOK
    <2>6. CASE to = "failed"
      <3>1. completions' = completions
        BY <2>1, <2>6 DEF CloseFromTicket
      <3>2. QED
        BY <2>4, <2>5, <2>6, <3>1, Rewritten DEF Live
    <2>7. CASE to = "completed"
      <3>1. OnlyRow(j) /\ jobs'[j] = row
        BY <2>4, <2>5, RowWritten DEF TicketTypeOK
      <3>2. PICK worked \in BOOLEAN, standing \in Standing :
              worked = jobs[j].worked /\ standing = delivery[d].standing
        BY <1>0 DEF TicketJob
      <3>3. worked => standing # "unasked"
        BY <2>1, <2>2, <2>7, <3>2 DEF CloseFromTicket, NeedsStanding
      <3>4. completions' = Append(completions, TicketCompletion(j, worked, standing))
        BY <2>1, <2>2, <2>7, <3>2 DEF CloseFromTicket
      <3>5. jobs[j].status \in Live
        BY <2>1, <2>2 DEF CloseFromTicket, Closable
      <3>6. QED
        BY <2>4, <2>7, <3>1, <3>3, <3>4, <3>5 DEF Closed
    <2>8. QED
      BY <2>6, <2>7
  <1>4. QED
    BY <1>1, <1>2, <1>3

LEMMA AgentKinds ==
  ASSUME TicketInv, NEW a \in Agent, NEW j \in DOMAIN jobs,
         \/ ClaimTicketJob(a, j)
         \/ \E standing \in Standing \ {"unasked"} : CompleteTicketJob(a, j, standing)
         \/ \E to \in {"failed", "cancelled"} : EndTicketJob(a, j, to)
  PROVE  Written \/ Closed
  <1> USE DEF TicketInv
  <1>0. jobs[j] \in TicketJob
    BY DEF TicketTypeOK
  <1>1. CASE ClaimTicketJob(a, j)
    <2>1. PICK row : row = [jobs[j] EXCEPT !.status = "claimed", !.worked = TRUE]
      OBVIOUS
    <2>2. row \in TicketJob /\ row.status = "claimed" /\ row.linked = jobs[j].linked
      <3>1. PICK claimed : claimed = [jobs[j] EXCEPT !.status = "claimed"]
        OBVIOUS
      <3>2. claimed \in TicketJob /\ claimed.status = "claimed" /\ claimed.linked = jobs[j].linked
        BY <1>0, <3>1 DEF TicketJob, Live
      <3>3. row = [claimed EXCEPT !.worked = TRUE]
        BY <2>1, <3>1
      <3>4. QED
        BY <3>2, <3>3 DEF TicketJob
    <2>3. jobs' = [jobs EXCEPT ![j] = row] /\ completions' = completions
      BY <1>1, <2>1 DEF ClaimTicketJob, TicketTypeOK
    <2>4. jobs[j].status \in Live
      BY <1>1 DEF ClaimTicketJob, Live
    <2>5. QED
      BY <2>2, <2>3, <2>4, Rewritten
  <1>2. CASE \E standing \in Standing \ {"unasked"} : CompleteTicketJob(a, j, standing)
    <2>1. PICK standing \in Standing \ {"unasked"} : CompleteTicketJob(a, j, standing)
      BY <1>2
    <2>2. PICK row : row = [jobs[j] EXCEPT !.status = "completed"]
      OBVIOUS
    <2>3. row \in TicketJob /\ row.status = "completed"
      BY <1>0, <2>2 DEF TicketJob
    <2>4. jobs' = [jobs EXCEPT ![j] = row]
      BY <2>1, <2>2 DEF CompleteTicketJob
    <2>5. OnlyRow(j) /\ jobs'[j] = row
      BY <2>3, <2>4, RowWritten DEF TicketTypeOK
    <2>6. completions' = Append(completions, TicketCompletion(j, TRUE, standing))
      BY <2>1 DEF CompleteTicketJob
    <2>7. QED
      BY <2>1, <2>3, <2>5, <2>6 DEF Closed, CompleteTicketJob, Live
  <1>3. CASE \E to \in {"failed", "cancelled"} : EndTicketJob(a, j, to)
    <2>1. PICK to \in {"failed", "cancelled"} : EndTicketJob(a, j, to)
      BY <1>3
    <2>2. PICK row : row = [jobs[j] EXCEPT !.status = to]
      OBVIOUS
    <2>3. row \in TicketJob /\ row.status = to
      BY <1>0, <2>2 DEF TicketJob
    <2>4. jobs' = [jobs EXCEPT ![j] = row] /\ completions' = completions
      BY <2>1, <2>2 DEF EndTicketJob
    <2>5. QED
      BY <2>3, <2>4, Rewritten DEF Live
  <1>4. QED
    BY <1>1, <1>2, <1>3

LEMMA PersonKinds ==
  ASSUME TicketInv, NEW j \in DOMAIN jobs,
         RependTicketJob(j) \/ LinkTicket(j) \/ LinkElsewhere(j)
  PROVE  Written
  <1> USE DEF TicketInv
  <1>0. jobs[j] \in TicketJob
    BY DEF TicketTypeOK
  <1>1. CASE RependTicketJob(j)
    <2>1. PICK row : row = [jobs[j] EXCEPT !.status = "pending"]
      OBVIOUS
    <2>2. row \in TicketJob /\ row.status = "pending" /\ row.linked = jobs[j].linked
      BY <1>0, <2>1 DEF TicketJob, Live
    <2>3. jobs' = [jobs EXCEPT ![j] = row] /\ completions' = completions
      BY <1>1, <2>1 DEF RependTicketJob
    <2>4. QED
      BY <1>1, <2>2, <2>3, Rewritten DEF RependTicketJob
  <1>2. CASE LinkTicket(j)
    <2>1. PICK row : row = [jobs[j] EXCEPT !.linked = TRUE, !.revision = 0]
      OBVIOUS
    <2>2. row \in TicketJob /\ row.status = jobs[j].status
      <3>1. PICK linked : linked = [jobs[j] EXCEPT !.linked = TRUE]
        OBVIOUS
      <3>2. linked \in TicketJob /\ linked.status = jobs[j].status
        BY <1>0, <3>1 DEF TicketJob
      <3>3. row = [linked EXCEPT !.revision = 0]
        BY <2>1, <3>1
      <3>4. QED
        BY <3>2, <3>3, TicketAssumption DEF TicketJob
    <2>3. jobs' = [jobs EXCEPT ![j] = row] /\ completions' = completions
      BY <1>2, <2>1 DEF LinkTicket, TicketTypeOK
    <2>4. QED
      BY <1>2, <2>2, <2>3, Rewritten DEF LinkTicket, Live
  <1>3. CASE LinkElsewhere(j)
    <2>1. PICK row : row = [jobs[j] EXCEPT !.linked = FALSE, !.revision = 0]
      OBVIOUS
    <2>2. row \in TicketJob /\ row.status = jobs[j].status /\ ~row.linked
      <3>1. PICK unlinked : unlinked = [jobs[j] EXCEPT !.linked = FALSE]
        OBVIOUS
      <3>2. unlinked \in TicketJob /\ unlinked.status = jobs[j].status /\ ~unlinked.linked
        BY <1>0, <3>1 DEF TicketJob
      <3>3. row = [unlinked EXCEPT !.revision = 0]
        BY <2>1, <3>1
      <3>4. QED
        BY <3>2, <3>3, TicketAssumption DEF TicketJob
    <2>3. jobs' = [jobs EXCEPT ![j] = row] /\ completions' = completions
      BY <1>3, <2>1 DEF LinkElsewhere, TicketTypeOK
    <2>4. QED
      BY <2>2, <2>3, Rewritten DEF Live
  <1>4. QED
    BY <1>1, <1>2, <1>3

LEMMA StoreKinds ==
  ASSUME TicketInv, NEW a \in Agent, StoreRevision(a)
  PROVE  Written
  <1> USE DEF TicketInv
  <1>1. PICK j \in DOMAIN jobs : j = agent[a].job
    BY DEF StoreRevision, WriteBacksName
  <1>2. jobs[j] \in TicketJob /\ agent[a].revision \in 0..MaxRevision
    BY DEF TicketTypeOK, WritingBack
  <1>3. PICK row : row = [jobs[j] EXCEPT !.revision = agent[a].revision]
    OBVIOUS
  <1>4. row \in TicketJob /\ row.status = jobs[j].status /\ row.linked = jobs[j].linked
    BY <1>2, <1>3 DEF TicketJob
  <1>5. jobs' = [jobs EXCEPT ![j] = row] /\ completions' = completions
    BY <1>1, <1>3 DEF StoreRevision
  <1>6. QED
    BY <1>4, <1>5, Rewritten DEF Live

LEMMA StepKinds ==
  ASSUME TicketInv, TicketNext
  PROVE  Quiet \/ Written \/ Closed \/ Added
  <1>1. CASE EditTicket \/ ReopenTicket \/ \E to \in {"completed", "failed"} : CloseTicket(to)
    BY <1>1 DEF EditTicket, ReopenTicket, CloseTicket, Quiet
  <1>2. ASSUME NEW d \in Delivery,
               \/ \E e \in sent : Receive(d, e)
               \/ AskStanding(d) \/ AbandonDelivery(d)
               \/ \E standing \in Standing \ {"unasked"} : Reopen(d, standing)
        PROVE  Quiet
    BY <1>2 DEF Receive, AskStanding, AbandonDelivery, Reopen, Quiet
  <1>3. ASSUME NEW a \in Agent,
               \/ \E j \in DOMAIN jobs : SyncTicket(a, j)
               \/ PostComment(a) \/ NoTransition(a) \/ ReadRevision(a) \/ GiveUp(a)
               \/ \E to \in Outcome : MoveTicket(a, to)
        PROVE  Quiet
    BY <1>3 DEF SyncTicket, PostComment, NoTransition, ReadRevision, GiveUp, MoveTicket, Quiet
  <1>4. QED
    BY <1>1, <1>2, <1>3, DeliveryKinds, AgentKinds, PersonKinds, StoreKinds DEF TicketNext

-----------------------------------------------------------------------------
(* What the four leave in place. *)

\* Jobs are never removed; one of them at most is open; completions are judged.
LEMMA KindsKeep ==
  ASSUME TicketInv, Quiet \/ Written \/ Closed \/ Added
  PROVE  /\ jobs' \in Seq(TicketJob)
         /\ DOMAIN jobs \subseteq DOMAIN jobs'
         /\ completions' \in Seq(Completion)
         /\ OneOpenJob'
         /\ BilledAsJudged'
  <1> USE DEF TicketInv
  <1>0. /\ jobs \in Seq(TicketJob) /\ completions \in Seq(Completion)
        /\ OneOpenJob /\ BilledAsJudged
    BY DEF TicketTypeOK
  <1>1. CASE Quiet
    BY <1>0, <1>1 DEF Quiet, OneOpenJob, BilledAsJudged
  <1>2. CASE Written
    <2>1. PICK j \in DOMAIN jobs :
            /\ OnlyRow(j)
            /\ jobs'[j].linked /\ jobs'[j].status \in Live => j \in OpenJobs \/ OpenJobs \subseteq {j}
            /\ completions' = completions
      BY <1>2 DEF Written
    <2>2. OneOpenJob'
      BY <1>0, <2>1 DEF OneOpenJob, OnlyRow, OpenJobs, LinkedJobs
    <2>3. QED
      BY <1>0, <2>1, <2>2 DEF OnlyRow, BilledAsJudged
  <1>3. CASE Closed
    <2>1. PICK j \in DOMAIN jobs, worked \in BOOLEAN, standing \in Standing :
            /\ OnlyRow(j)
            /\ jobs'[j].status = "completed"
            /\ worked => standing # "unasked"
            /\ completions' = Append(completions, TicketCompletion(j, worked, standing))
      BY <1>3 DEF Closed
    <2>2. OneOpenJob'
      BY <1>0, <2>1 DEF OneOpenJob, OnlyRow, Live
    <2>3. PICK c : c = TicketCompletion(j, worked, standing)
      OBVIOUS
    <2>4. /\ c \in Completion
          /\ c.worked = worked /\ c.standing = standing
          /\ c.billed = (worked /\ standing # "blocked")
      BY <1>0, <2>3, CompletionTyped
    <2>5. /\ c.worked => c.standing # "unasked"
          /\ c.billed <=> c.worked /\ c.standing # "blocked"
      BY <2>1, <2>4
    <2>6. /\ completions' \in Seq(Completion)
          /\ DOMAIN completions' = DOMAIN completions \cup {Len(completions) + 1}
          /\ \A i \in DOMAIN completions : completions'[i] = completions[i]
          /\ completions'[Len(completions) + 1] = c
      BY <1>0, <2>1, <2>3, <2>4, AppendProperties
    <2>7. BilledAsJudged'
      BY <1>0, <2>5, <2>6 DEF BilledAsJudged
    <2>8. QED
      BY <2>1, <2>2, <2>6, <2>7 DEF OnlyRow
  <1>4. CASE Added
    <2>1. PICK row \in TicketJob :
            /\ OpenJobs = {}
            /\ jobs' = Append(jobs, row)
            /\ completions' = completions
      BY <1>4 DEF Added
    <2>2. /\ jobs' \in Seq(TicketJob)
          /\ DOMAIN jobs' = DOMAIN jobs \cup {Len(jobs) + 1}
          /\ \A k \in DOMAIN jobs : jobs'[k] = jobs[k]
      BY <1>0, <2>1, AppendProperties
    <2>3. OneOpenJob'
      BY <2>1, <2>2 DEF OneOpenJob, OpenJobs, LinkedJobs
    <2>4. QED
      BY <1>0, <2>1, <2>2, <2>3 DEF BilledAsJudged
  <1>5. QED
    BY <1>1, <1>2, <1>3, <1>4

\* And a completion row appears exactly when an open job is completed.
LEMMA KindsPair ==
  ASSUME TicketInv, Quiet \/ Written \/ Closed \/ Added
  PROVE  LET done == {j \in DOMAIN jobs : jobs[j].status \in Live /\ jobs'[j].status = "completed"} IN
         \/ done = {} /\ completions' = completions
         \/ \E j \in done : /\ done = {j}
                            /\ Len(completions') = Len(completions) + 1
                            /\ completions'[Len(completions')].job = j
  <1> DEFINE done == {j \in DOMAIN jobs : jobs[j].status \in Live /\ jobs'[j].status = "completed"}
  <1>0. jobs \in Seq(TicketJob) /\ completions \in Seq(Completion)
    BY DEF TicketInv, TicketTypeOK
  <1>1. CASE Quiet
    BY <1>1 DEF Quiet, Live
  <1>2. CASE Written
    <2>1. PICK j \in DOMAIN jobs :
            /\ OnlyRow(j)
            /\ ~(jobs[j].status \in Live /\ jobs'[j].status = "completed")
            /\ completions' = completions
      BY <1>2 DEF Written
    <2>2. done = {}
      BY <2>1 DEF OnlyRow, Live
    <2>3. QED
      BY <2>1, <2>2
  <1>3. CASE Closed
    <2>1. PICK j \in DOMAIN jobs, worked \in BOOLEAN, standing \in Standing :
            /\ OnlyRow(j)
            /\ jobs[j].status \in Live /\ jobs'[j].status = "completed"
            /\ completions' = Append(completions, TicketCompletion(j, worked, standing))
      BY <1>3 DEF Closed
    <2>2. done = {j}
      BY <2>1 DEF OnlyRow, Live
    <2>3. PICK c : c = TicketCompletion(j, worked, standing)
      OBVIOUS
    <2>5. c \in Completion /\ c.job = j
      BY <1>0, <2>3, CompletionTyped
    <2>6. Len(completions') = Len(completions) + 1 /\ completions'[Len(completions) + 1] = c
      BY <1>0, <2>1, <2>3, <2>5, AppendProperties
    <2>7. QED
      BY <2>2, <2>5, <2>6
  <1>4. CASE Added
    <2>1. PICK row \in TicketJob : jobs' = Append(jobs, row) /\ completions' = completions
      BY <1>4 DEF Added
    <2>2. \A k \in DOMAIN jobs : jobs'[k] = jobs[k]
      BY <1>0, <2>1, AppendProperties
    <2>3. done = {}
      BY <2>2 DEF Live
    <2>4. QED
      BY <2>1, <2>3
  <1>5. QED
    BY <1>1, <1>2, <1>3, <1>4

-----------------------------------------------------------------------------
(* Deliveries and write-backs. *)

\* What a delivery read, and decided.
LEMMA DecideTyped ==
  ASSUME TicketInv, NEW d \in Delivery, NEW e \in TicketEvent, NEW standing \in Standing,
         Decide(d, e, standing)
  PROVE  /\ delivery' \in [Delivery -> Delivering]
         /\ \/ delivery'[d].doing = "create" /\ delivery'[d].job = 0
            \/ /\ delivery'[d].doing \in {"update", "completed", "failed"}
               /\ delivery'[d].job \in DOMAIN jobs
               /\ LaterThanRead(d)'
         /\ \A other \in Delivery \ {d} : delivery'[other] = delivery[other]
  <1>1. PICK j \in {0} \cup DOMAIN jobs :
          /\ Decision(e, j, Row(j)) # "drop"
          /\ delivery' = [delivery EXCEPT ![d] =
               [doing |-> Decision(e, j, Row(j)), event |-> e, job |-> j,
                worked |-> Row(j).worked, stored |-> Row(j).revision, standing |-> standing]]
    BY DEF Decide
  <1>2. PICK row \in TicketJob : row = Row(j)
    BY RowTyped DEF TicketInv
  <1>3. PICK plan : plan = Decision(e, j, row)
    OBVIOUS
  <1>4. PICK v : v = [doing |-> plan, event |-> e, job |-> j, worked |-> row.worked,
                      stored |-> row.revision, standing |-> standing]
    OBVIOUS
  <1>5. /\ row.worked \in BOOLEAN /\ row.revision \in 0..MaxRevision /\ j \in Nat
        /\ e.revision \in 0..MaxRevision /\ e.closes \in Outcome
    BY DEF TicketJob, TicketEvent, TicketInv, TicketTypeOK
  <1>6. \/ plan = "create" /\ j = 0
        \/ /\ plan \in {"update", "completed", "failed"}
           /\ j # 0 /\ (e.revision = 0 \/ row.revision < e.revision)
    <2>1. plan # "drop"
      BY <1>1, <1>2, <1>3
    <2>2. CASE j = 0 /\ e.closes = "open"
      BY <1>3, <2>2 DEF Decision
    <2>3. CASE j # 0 /\ ~IsStale(row.revision, e.revision) /\ row.status \in Live
      <3>1. plan = IF e.closes = "open" THEN "update" ELSE e.closes
        BY <1>3, <2>3 DEF Decision
      <3>2. e.revision = 0 \/ row.revision < e.revision
        BY <1>5, <2>3, TicketAssumption DEF IsStale
      <3>3. QED
        BY <1>5, <2>3, <3>1, <3>2 DEF Outcome
    <2>4. CASE ~(j = 0 /\ e.closes = "open")
               /\ ~(j # 0 /\ ~IsStale(row.revision, e.revision) /\ row.status \in Live)
      BY <1>3, <2>1, <2>4 DEF Decision
    <2>5. QED
      BY <2>2, <2>3, <2>4
  <1>7. v \in Delivering
    BY <1>4, <1>5, <1>6 DEF Delivering
  <1>8. delivery' = [delivery EXCEPT ![d] = v]
    BY <1>1, <1>2, <1>3, <1>4
  <1>9. delivery'[d] = v /\ \A other \in Delivery \ {d} : delivery'[other] = delivery[other]
    BY <1>8 DEF TicketInv, TicketTypeOK
  <1>10. QED
    BY <1>4, <1>6, <1>7, <1>8, <1>9 DEF TicketInv, TicketTypeOK, LaterThanRead

\* A delivery that is forgotten has no job.
LEMMA ForgetTyped ==
  ASSUME TicketTypeOK, NEW d \in Delivery, Forget(d)
  PROVE  /\ delivery' \in [Delivery -> Delivering]
         /\ delivery'[d].doing = "idle" /\ delivery'[d].job = 0
         /\ \A other \in Delivery \ {d} : delivery'[other] = delivery[other]
  BY NoDeliveryTyped DEF Forget, TicketTypeOK

\* A delivery's step leaves the others where they are, and DeliveriesRead with it.
LEMMA DeliveryStep ==
  ASSUME TicketInv, NEW d \in Delivery,
         \/ \E e \in sent : Receive(d, e)
         \/ CreateFromTicket(d) \/ UpdateFromTicket(d) \/ AskStanding(d) \/ AbandonDelivery(d)
         \/ \E to \in {"completed", "failed"} : CloseFromTicket(d, to)
         \/ \E standing \in Standing \ {"unasked"} : Reopen(d, standing)
  PROVE  /\ delivery' \in [Delivery -> Delivering]
         /\ delivery'[d].doing \in {"idle", "create", "asking"} => delivery'[d].job = 0
         /\ delivery'[d].doing \in {"update", "completed", "failed"} =>
              /\ delivery'[d].job \in DOMAIN jobs
              /\ LaterThanRead(d)'
         /\ \A other \in Delivery \ {d} : delivery'[other] = delivery[other]
  <1> USE DEF TicketInv
  <1>1. CASE \E e \in sent : Receive(d, e)
    <2>1. PICK e \in TicketEvent : Receive(d, e)
      BY <1>1 DEF TicketTypeOK
    <2>2. "unasked" \in Standing
      BY DEF Standing
    <2>3. QED
      BY <2>1, <2>2, DecideTyped DEF Receive
  <1>2. CASE \E standing \in Standing \ {"unasked"} : Reopen(d, standing)
    <2>1. PICK standing \in Standing : Reopen(d, standing)
      BY <1>2
    <2>2. delivery[d].event \in TicketEvent
      BY DEF TicketTypeOK, Delivering
    <2>3. QED
      BY <2>1, <2>2, DecideTyped DEF Reopen
  <1>3. CASE AskStanding(d)
    <2>1. PICK v : v = [NoDelivery EXCEPT !.doing = "asking", !.event = delivery[d].event]
      OBVIOUS
    <2>2. PICK asking : asking = [NoDelivery EXCEPT !.doing = "asking"]
      OBVIOUS
    <2>3. /\ asking \in Delivering
          /\ asking.doing = "asking" /\ asking.job = 0
      BY <2>2, NoDeliveryTyped DEF Delivering
    <2>4. v = [asking EXCEPT !.event = delivery[d].event] /\ delivery[d].event \in TicketEvent
      BY <2>1, <2>2 DEF TicketTypeOK, Delivering
    <2>5. /\ v \in Delivering
          /\ v.doing = "asking" /\ v.job = 0
      BY <2>3, <2>4 DEF Delivering
    <2>6. delivery' = [delivery EXCEPT ![d] = v]
      BY <1>3, <2>1 DEF AskStanding
    <2>7. QED
      BY <2>5, <2>6 DEF TicketTypeOK
  <1>4. CASE CreateFromTicket(d) \/ UpdateFromTicket(d) \/ AbandonDelivery(d)
             \/ \E to \in {"completed", "failed"} : CloseFromTicket(d, to)
    <2>1. Forget(d)
      BY <1>4 DEF CreateFromTicket, UpdateFromTicket, AbandonDelivery, CloseFromTicket
    <2>2. QED
      BY <2>1, ForgetTyped
  <1>5. QED
    BY <1>1, <1>2, <1>3, <1>4

\* A write-back is about a job, from its beginning to its end.
LEMMA WriteBackTyped ==
  ASSUME TicketInv, NEW a \in Agent, NEW j \in DOMAIN jobs,
         NEW plan \in Plan,
         WriteBack(a, j, plan)
  PROVE  /\ agent' \in [Agent -> WritingBack]
         /\ \A b \in Agent : agent'[b].step # "idle" => agent'[b].job \in DOMAIN jobs
  <1> USE DEF TicketInv
  <1>1. CASE ~jobs[j].linked
    BY <1>1 DEF WriteBack, TicketTypeOK, WriteBacksName
  <1>2. CASE jobs[j].linked
    <2>1. PICK v : v = [step |-> "posting", job |-> j, plan |-> plan, revision |-> 0]
      OBVIOUS
    <2>2. j \in Nat /\ 0 \in 0..MaxRevision
      BY TicketAssumption DEF TicketTypeOK
    <2>3. v \in WritingBack
      BY <2>1, <2>2 DEF WritingBack, Plan
    <2>4. agent' = [agent EXCEPT ![a] = v]
      BY <1>2, <2>1 DEF WriteBack
    <2>5. QED
      BY <2>1, <2>3, <2>4 DEF TicketTypeOK, WriteBacksName
  <1>3. QED
    BY <1>1, <1>2

\* An agent's record after a step of its write-back.
LEMMA AgentAdvances ==
  ASSUME TicketInv, NEW a \in Agent, agent[a].step # "idle",
         NEW step \in {"posting", "moving", "reading", "storing"},
         NEW revision \in 0..MaxRevision,
         agent' = [agent EXCEPT ![a].step = step, ![a].revision = revision]
  PROVE  /\ agent' \in [Agent -> WritingBack]
         /\ \A b \in Agent : agent'[b].step # "idle" => agent'[b].job \in DOMAIN jobs
  <1> USE DEF TicketInv
  <1>1. PICK stepped : stepped = [agent[a] EXCEPT !.step = step]
    OBVIOUS
  <1>2. /\ stepped \in WritingBack
        /\ stepped.job = agent[a].job
    BY <1>1 DEF TicketTypeOK, WritingBack, Plan
  <1>3. PICK v : v = [stepped EXCEPT !.revision = revision]
    OBVIOUS
  <1>4. /\ v \in WritingBack
        /\ v.job = agent[a].job
    BY <1>2, <1>3 DEF WritingBack, Plan
  <1>5. agent' = [agent EXCEPT ![a] = v]
    BY <1>1, <1>3 DEF TicketTypeOK
  <1>6. QED
    BY <1>4, <1>5 DEF TicketTypeOK, WriteBacksName

\* The same for a step that leaves the revision alone.
LEMMA AgentSteps ==
  ASSUME TicketInv, NEW a \in Agent, agent[a].step # "idle",
         NEW step \in {"posting", "moving", "reading", "storing"},
         agent' = [agent EXCEPT ![a].step = step]
  PROVE  /\ agent' \in [Agent -> WritingBack]
         /\ \A b \in Agent : agent'[b].step # "idle" => agent'[b].job \in DOMAIN jobs
  <1> USE DEF TicketInv
  <1>1. PICK v : v = [agent[a] EXCEPT !.step = step]
    OBVIOUS
  <1>2. /\ v \in WritingBack
        /\ v.job = agent[a].job
    BY <1>1 DEF TicketTypeOK, WritingBack, Plan
  <1>3. agent' = [agent EXCEPT ![a] = v]
    BY <1>1
  <1>4. QED
    BY <1>2, <1>3 DEF TicketTypeOK, WriteBacksName

\* What agents do keeps their records about jobs.
LEMMA AgentStep ==
  ASSUME TicketInv, NEW a \in Agent,
         \/ \E j \in DOMAIN jobs :
              \/ ClaimTicketJob(a, j) \/ SyncTicket(a, j)
              \/ \E standing \in Standing \ {"unasked"} : CompleteTicketJob(a, j, standing)
              \/ \E to \in {"failed", "cancelled"} : EndTicketJob(a, j, to)
         \/ PostComment(a) \/ NoTransition(a) \/ ReadRevision(a) \/ StoreRevision(a) \/ GiveUp(a)
         \/ \E to \in Outcome : MoveTicket(a, to)
  PROVE  /\ agent' \in [Agent -> WritingBack]
         /\ \A b \in Agent : agent'[b].step # "idle" => agent'[b].job \in DOMAIN jobs
         /\ UNCHANGED <<tracker, delivery>>
         /\ ticket' \in TicketEvent
         /\ sent' \subseteq TicketEvent
  <1> USE DEF TicketInv
  <1>0. ticket \in TicketEvent /\ sent \subseteq TicketEvent /\ ticket.revision \in 0..MaxRevision
    BY DEF TicketTypeOK, TicketEvent
  <1>1. CASE \E j \in DOMAIN jobs : ClaimTicketJob(a, j)
    BY <1>0, <1>1, WriteBackTyped DEF ClaimTicketJob, Plan
  <1>2. CASE \E j \in DOMAIN jobs : SyncTicket(a, j)
    <2>1. PICK j \in DOMAIN jobs : SyncTicket(a, j)
      BY <1>2
    <2>2. jobs[j].status \in Plan
      <3>1. jobs[j] \in TicketJob /\ jobs[j].status # "pending"
        BY <2>1 DEF SyncTicket, TicketTypeOK
      <3>2. QED
        BY <3>1 DEF TicketJob, Live, Plan
    <2>3. QED
      BY <1>0, <2>1, <2>2, WriteBackTyped DEF SyncTicket
  <1>3. CASE \E j \in DOMAIN jobs, standing \in Standing \ {"unasked"} : CompleteTicketJob(a, j, standing)
    BY <1>0, <1>3, WriteBackTyped DEF CompleteTicketJob, Plan
  <1>4. CASE \E j \in DOMAIN jobs, to \in {"failed", "cancelled"} : EndTicketJob(a, j, to)
    BY <1>0, <1>4, WriteBackTyped DEF EndTicketJob, Plan
  <1>5. CASE PostComment(a)
    <2>1. ticket.closes \in Outcome
      BY <1>0 DEF TicketEvent
    <2>2. ticket' \in TicketEvent
      BY <1>5, <2>1, WriteTyped DEF PostComment
    <2>3. PICK step \in {"posting", "moving", "reading", "storing"} :
            step = IF Target(agent[a].plan) = {} THEN "reading" ELSE "moving"
      OBVIOUS
    <2>4. agent' = [agent EXCEPT ![a].step = step] /\ agent[a].step # "idle"
      BY <1>5, <2>3 DEF PostComment
    <2>5. QED
      BY <1>0, <1>5, <2>2, <2>4, AgentSteps DEF PostComment
  <1>6. CASE NoTransition(a)
    <2>1. agent' = [agent EXCEPT ![a].step = "reading"] /\ agent[a].step # "idle"
      BY <1>6 DEF NoTransition
    <2>2. QED
      BY <1>0, <1>6, <2>1, AgentSteps DEF NoTransition
  <1>7. CASE ReadRevision(a)
    <2>1. /\ agent' = [agent EXCEPT ![a].step = "storing", ![a].revision = ticket.revision]
          /\ agent[a].step # "idle"
      BY <1>7 DEF ReadRevision
    <2>2. QED
      BY <1>0, <1>7, <2>1, AgentAdvances DEF ReadRevision
  <1>8. CASE StoreRevision(a) \/ GiveUp(a)
    <2>1. agent' = [agent EXCEPT ![a] = NoWriteBack]
      BY <1>8 DEF StoreRevision, GiveUp
    <2>2. /\ agent' \in [Agent -> WritingBack]
          /\ \A b \in Agent : agent'[b].step # "idle" => agent'[b].job \in DOMAIN jobs
      BY <2>1, NoWriteBackTyped DEF TicketTypeOK, WriteBacksName
    <2>3. QED
      BY <1>0, <1>8, <2>2 DEF StoreRevision, GiveUp
  <1>9. CASE \E to \in Outcome : MoveTicket(a, to)
    <2>1. PICK to \in Outcome : MoveTicket(a, to)
      BY <1>9
    <2>2. ticket' \in TicketEvent
      BY <2>1, WriteTyped DEF MoveTicket
    <2>3. sent' \subseteq TicketEvent
      BY <1>0, <2>1, <2>2, SnapshotTyped, AnnounceTyped DEF MoveTicket
    <2>4. PICK step \in {"posting", "moving", "reading", "storing"} :
            step = IF tracker = "github" THEN "storing" ELSE "reading"
      OBVIOUS
    <2>5. PICK revision \in 0..MaxRevision :
            revision = IF tracker = "github" THEN ticket'.revision ELSE 0
      BY <2>2, TicketAssumption DEF TicketEvent
    <2>6. /\ agent' = [agent EXCEPT ![a].step = step, ![a].revision = revision]
          /\ agent[a].step # "idle"
      BY <2>1, <2>4, <2>5 DEF MoveTicket
    <2>7. QED
      BY <2>1, <2>2, <2>3, <2>6, AgentAdvances DEF MoveTicket
  <1>10. QED
    BY <1>1, <1>2, <1>3, <1>4, <1>5, <1>6, <1>7, <1>8, <1>9

-----------------------------------------------------------------------------
(* The invariant. *)

LEMMA TicketInitially == TicketInit => TicketInv
  <1> SUFFICES ASSUME TicketInit PROVE TicketInv
    OBVIOUS
  <1>1. ticket \in TicketEvent
    BY TicketAssumption DEF TicketInit, TicketEvent, Outcome
  <1>2. sent \subseteq TicketEvent
    <2>1. PICK e \in TicketEvent : e = Snapshot(ticket, FALSE)
      BY <1>1, SnapshotTyped
    <2>2. Undated(e) \in TicketEvent
      BY TicketAssumption DEF Undated, TicketEvent
    <2>3. QED
      BY <2>1, <2>2 DEF TicketInit
  <1>3. HandQueued \in TicketJob
    <2>1. NoTicketJob \in TicketJob
      BY TicketAssumption DEF NoTicketJob, TicketJob
    <2>2. QED
      BY <2>1 DEF HandQueued, TicketJob, Live
  <1>4. jobs \in Seq(TicketJob) /\ DOMAIN jobs \subseteq {1}
    <2>1. CASE jobs = <<>>
      BY <2>1
    <2>2. CASE jobs = <<HandQueued>>
      BY <1>3, <2>2
    <2>3. QED
      BY <2>1, <2>2 DEF TicketInit
  <1>5. completions \in Seq(Completion) /\ DOMAIN completions = {}
    BY DEF TicketInit
  <1>6. delivery \in [Delivery -> Delivering] /\ agent \in [Agent -> WritingBack]
    BY NoDeliveryTyped, NoWriteBackTyped DEF TicketInit
  <1>7. TicketTypeOK
    BY <1>1, <1>2, <1>4, <1>5, <1>6 DEF TicketInit, TicketTypeOK
  <1>8. DeliveriesRead /\ WriteBacksName
    BY NoDeliveryTyped, NoWriteBackTyped DEF TicketInit, DeliveriesRead, WriteBacksName
  <1>9. OneOpenJob /\ BilledAsJudged
    BY <1>4, <1>5 DEF OneOpenJob, BilledAsJudged
  <1>10. QED
    BY <1>7, <1>8, <1>9 DEF TicketInv

LEMMA TicketKept == TicketInv /\ [TicketNext]_ticketVars => TicketInv'
  <1> SUFFICES ASSUME TicketInv, [TicketNext]_ticketVars PROVE TicketInv'
    OBVIOUS
  <1> USE DEF TicketInv
  <1>1. CASE UNCHANGED ticketVars
    BY <1>1 DEF ticketVars, TicketTypeOK, DeliveriesRead, LaterThanRead, WriteBacksName, OneOpenJob, BilledAsJudged
  <1>2. CASE TicketNext
    <2>1. /\ jobs' \in Seq(TicketJob) /\ completions' \in Seq(Completion)
          /\ DOMAIN jobs \subseteq DOMAIN jobs'
          /\ OneOpenJob' /\ BilledAsJudged'
      BY <1>2, StepKinds, KindsKeep
    <2>2. ASSUME UNCHANGED <<tracker, delivery, agent>>, ticket' \in TicketEvent, sent' \subseteq TicketEvent
          PROVE  TicketInv'
      BY <2>1, <2>2 DEF TicketTypeOK, DeliveriesRead, LaterThanRead, WriteBacksName
    <2>3. CASE EditTicket \/ ReopenTicket \/ \E to \in {"completed", "failed"} : CloseTicket(to)
      <3>1. ticket.closes \in Outcome /\ {"open", "completed", "failed"} \subseteq Outcome
        BY DEF TicketTypeOK, TicketEvent, Outcome
      <3>2. ticket' \in TicketEvent
        BY <2>3, <3>1, WriteTyped DEF EditTicket, ReopenTicket, CloseTicket
      <3>3. sent' \subseteq TicketEvent
        <4>1. \A closing \in BOOLEAN : Snapshot(ticket', closing) \in TicketEvent
          BY <3>2, SnapshotTyped
        <4>2. UNCHANGED sent \/ \E closing \in BOOLEAN : Announce(Snapshot(ticket', closing))
          BY <2>3 DEF EditTicket, ReopenTicket, CloseTicket
        <4>3. QED
          BY <4>1, <4>2, AnnounceTyped DEF TicketTypeOK
      <3>4. UNCHANGED <<tracker, delivery, agent>>
        BY <2>3 DEF EditTicket, ReopenTicket, CloseTicket
      <3>5. QED
        BY <2>2, <3>2, <3>3, <3>4
    <2>4. CASE \E j \in DOMAIN jobs : RependTicketJob(j) \/ LinkTicket(j) \/ LinkElsewhere(j)
      <3>1. UNCHANGED <<tracker, ticket, sent, delivery, agent>>
        BY <2>4 DEF RependTicketJob, LinkTicket, LinkElsewhere
      <3>2. QED
        BY <2>2, <3>1 DEF TicketTypeOK
    <2>5. ASSUME NEW d \in Delivery,
                 \/ \E e \in sent : Receive(d, e)
                 \/ CreateFromTicket(d) \/ UpdateFromTicket(d) \/ AskStanding(d) \/ AbandonDelivery(d)
                 \/ \E to \in {"completed", "failed"} : CloseFromTicket(d, to)
                 \/ \E standing \in Standing \ {"unasked"} : Reopen(d, standing)
          PROVE  TicketInv'
      <3>1. UNCHANGED <<tracker, ticket, sent, agent>>
        BY <2>5 DEF Receive, CreateFromTicket, UpdateFromTicket, AskStanding, AbandonDelivery,
                    CloseFromTicket, Reopen
      <3>2. delivery' \in [Delivery -> Delivering]
        BY <2>5, DeliveryStep
      <3>3. DeliveriesRead'
        <4>1. ASSUME NEW other \in Delivery
              PROVE  /\ delivery'[other].doing \in {"idle", "create", "asking"} => delivery'[other].job = 0
                     /\ delivery'[other].doing \in {"update", "completed", "failed"} =>
                          /\ delivery'[other].job \in DOMAIN jobs
                          /\ LaterThanRead(other)'
          BY <2>5, DeliveryStep DEF DeliveriesRead, LaterThanRead
        <4>2. QED
          BY <2>1, <4>1 DEF DeliveriesRead
      <3>4. QED
        BY <2>1, <3>1, <3>2, <3>3 DEF TicketTypeOK, WriteBacksName
    <2>6. ASSUME NEW a \in Agent,
                 \/ \E j \in DOMAIN jobs :
                      \/ ClaimTicketJob(a, j) \/ SyncTicket(a, j)
                      \/ \E standing \in Standing \ {"unasked"} : CompleteTicketJob(a, j, standing)
                      \/ \E to \in {"failed", "cancelled"} : EndTicketJob(a, j, to)
                 \/ PostComment(a) \/ NoTransition(a) \/ ReadRevision(a) \/ StoreRevision(a) \/ GiveUp(a)
                 \/ \E to \in Outcome : MoveTicket(a, to)
          PROVE  TicketInv'
      <3>1. /\ agent' \in [Agent -> WritingBack]
            /\ \A b \in Agent : agent'[b].step # "idle" => agent'[b].job \in DOMAIN jobs
            /\ UNCHANGED <<tracker, delivery>>
            /\ ticket' \in TicketEvent
            /\ sent' \subseteq TicketEvent
        BY <2>6, AgentStep
      <3>2. QED
        BY <2>1, <3>1 DEF TicketTypeOK, DeliveriesRead, LaterThanRead, WriteBacksName
    <2>7. QED
      BY <1>2, <2>3, <2>4, <2>5, <2>6 DEF TicketNext
  <1>3. QED
    BY <1>1, <1>2

-----------------------------------------------------------------------------
(* The theorems. *)

LEMMA TicketsSound == TicketSpec => []TicketInv
  BY TicketInitially, TicketKept, PTL DEF TicketSpec

\* Every variable keeps its range.
THEOREM TicketTypeCorrect == TicketSpec => []TicketTypeOK
  <1>1. TicketInv => TicketTypeOK
    BY DEF TicketInv
  <1>2. QED
    BY <1>1, TicketsSound, PTL

\* However deliveries, tools and people overlap, a ticket has one open job.
THEOREM OneJobIsOpen == TicketSpec => []OneOpenJob
  <1>1. TicketInv => OneOpenJob
    BY DEF TicketInv
  <1>2. QED
    BY <1>1, TicketsSound, PTL

\* A completed job that was worked on is judged by a standing that was asked for.
THEOREM BilledRight == TicketSpec => []BilledAsJudged
  <1>1. TicketInv => BilledAsJudged
    BY DEF TicketInv
  <1>2. QED
    BY <1>1, TicketsSound, PTL

\* Whoever completes a job writes its completion row, and nobody else one.
THEOREM CompletionsPair == TicketSpec => OneRowPerCompletion
  <1> DEFINE done == {j \in DOMAIN jobs : jobs[j].status \in Live /\ jobs'[j].status = "completed"}
             Paired == \/ done = {} /\ completions' = completions
                       \/ \E j \in done : /\ done = {j}
                                          /\ Len(completions') = Len(completions) + 1
                                          /\ completions'[Len(completions')].job = j
  <1>1. TicketInv /\ [TicketNext]_ticketVars => [Paired]_ticketVars
    BY StepKinds, KindsPair
  <1>2. QED
    BY <1>1, TicketsSound, PTL DEF TicketSpec, OneRowPerCompletion

\* A delivery's write carries a later revision than the one it read, or none.
LEMMA NewerIsWritten ==
  ASSUME TicketInv, TicketNext, NEW d \in Delivery,
         delivery[d].job # 0, delivery[d].stored = jobs[delivery[d].job].revision,
         delivery'[d].doing = "idle", jobs' # jobs
  PROVE  IF delivery[d].event.revision = 0
         THEN jobs'[delivery[d].job].revision = jobs[delivery[d].job].revision
         ELSE jobs'[delivery[d].job].revision > jobs[delivery[d].job].revision
  <1> USE DEF TicketInv
  <1>1. /\ delivery[d].doing \in {"update", "completed", "failed"}
        /\ delivery[d].job \in DOMAIN jobs
        /\ LaterThanRead(d)
    <2>1. delivery[d].doing \in {"idle", "create", "update", "completed", "failed", "asking"}
      BY DEF TicketTypeOK, Delivering
    <2>2. QED
      BY <2>1 DEF DeliveriesRead
  <1>2. delivery' # delivery
    BY <1>1
  <1>3. PICK other \in Delivery :
          \/ \E e \in sent : Receive(other, e)
          \/ CreateFromTicket(other) \/ UpdateFromTicket(other) \/ AskStanding(other)
          \/ AbandonDelivery(other)
          \/ \E to \in {"completed", "failed"} : CloseFromTicket(other, to)
          \/ \E standing \in Standing \ {"unasked"} : Reopen(other, standing)
    <2>1. ASSUME NEW a \in Agent,
                 \/ \E j \in DOMAIN jobs :
                      \/ ClaimTicketJob(a, j) \/ SyncTicket(a, j)
                      \/ \E standing \in Standing \ {"unasked"} : CompleteTicketJob(a, j, standing)
                      \/ \E to \in {"failed", "cancelled"} : EndTicketJob(a, j, to)
                 \/ PostComment(a) \/ NoTransition(a) \/ ReadRevision(a) \/ StoreRevision(a) \/ GiveUp(a)
                 \/ \E to \in Outcome : MoveTicket(a, to)
          PROVE  FALSE
      BY <1>2, <2>1, AgentStep
    <2>2. ~(EditTicket \/ ReopenTicket \/ \E to \in {"completed", "failed"} : CloseTicket(to))
      BY <1>2 DEF EditTicket, ReopenTicket, CloseTicket
    <2>3. ~\E j \in DOMAIN jobs : RependTicketJob(j) \/ LinkTicket(j) \/ LinkElsewhere(j)
      BY <1>2 DEF RependTicketJob, LinkTicket, LinkElsewhere
    <2>4. QED
      BY <2>1, <2>2, <2>3 DEF TicketNext
  <1>4. other = d
    BY <1>1, <1>3, DeliveryStep
  <1>5. UpdateFromTicket(d) \/ \E to \in {"completed", "failed"} : CloseFromTicket(d, to)
    <2>1. ~CreateFromTicket(d)
      BY <1>1 DEF CreateFromTicket
    <2>2. ~((\E e \in sent : Receive(d, e)) \/ AskStanding(d) \/ AbandonDelivery(d)
            \/ \E standing \in Standing \ {"unasked"} : Reopen(d, standing))
      BY DEF Receive, AskStanding, AbandonDelivery, Reopen
    <2>3. QED
      BY <1>3, <1>4, <2>1, <2>2
  <1>6. PICK j \in DOMAIN jobs : j = delivery[d].job
    BY <1>1
  <1>7. jobs'[j].revision = Stamp(d, jobs[j].revision)
    <2>1. jobs[j] \in TicketJob
      BY DEF TicketTypeOK
    <2>2. PICK stamp : stamp = Stamp(d, jobs[j].revision)
      OBVIOUS
    <2>3. CASE UpdateFromTicket(d)
      <3>1. jobs'[j] = [jobs[j] EXCEPT !.revision = stamp]
        BY <1>6, <2>2, <2>3 DEF UpdateFromTicket
      <3>2. QED
        BY <2>1, <2>2, <3>1 DEF TicketJob
    <2>4. CASE \E to \in {"completed", "failed"} : CloseFromTicket(d, to)
      <3>1. PICK to \in {"completed", "failed"} : CloseFromTicket(d, to)
        BY <2>4
      <3>2. jobs'[j] = [jobs[j] EXCEPT !.status = to, !.revision = stamp]
        BY <1>6, <2>2, <3>1 DEF CloseFromTicket
      <3>3. QED
        BY <2>1, <2>2, <3>2 DEF TicketJob
    <2>5. QED
      BY <1>5, <2>3, <2>4
  <1>8. delivery[d].stored \in Nat /\ delivery[d].event.revision \in Nat
    BY DEF TicketTypeOK, Delivering, TicketEvent
  <1>9. QED
    BY <1>1, <1>6, <1>7, <1>8 DEF Stamp, LaterThanRead

\* A delivery never takes a job back to an earlier revision, unless somebody wrote
\* between its read and its write: an event that has a revision leaves the job
\* with a later one, an event that has none leaves the revision alone.
THEOREM RevisionsGrow == TicketSpec => OlderNeverWins
  <1> DEFINE Grows == \A d \in Delivery : LET j == delivery[d].job IN
               (/\ j # 0
                /\ delivery[d].stored = jobs[j].revision
                /\ delivery'[d].doing = "idle"
                /\ jobs' # jobs)
               => IF delivery[d].event.revision = 0
                  THEN jobs'[j].revision = jobs[j].revision
                  ELSE jobs'[j].revision > jobs[j].revision
  <1>1. TicketInv /\ [TicketNext]_ticketVars => [Grows]_ticketVars
    BY NewerIsWritten
  <1>2. QED
    BY <1>1, TicketsSound, PTL DEF TicketSpec, OlderNeverWins
=============================================================================
