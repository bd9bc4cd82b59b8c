--------------------------- MODULE PlatformProofs ---------------------------
(***************************************************************************)
(* The two modules about the platform that knows the members. Their proofs *)
(* stand in one module and have nothing in common: PlatformEvents comes    *)
(* first, ConsoleSession second.                                           *)
(*                                                                         *)
(* PlatformEvents: the safety of the platform's lifecycle webhooks, for    *)
(* any number of requests, deliveries and events.                          *)
(*                                                                         *)
(* ConsoleSession: refreshes, sign-outs and the ends of sessions are safe, *)
(* for any visits, logins and keys. The platform's live pair is in the     *)
(* login's row, or in the hands of the one visit that has the row locked;  *)
(* what that visit knows of the row is what the row holds; and whoever is  *)
(* about to delete a row has learned why.                                  *)
(***************************************************************************)
EXTENDS PlatformEvents, ConsoleSession, TLAPS

\* A delivery's event was sent.
HandlesSent == \A h \in Handler : handler[h] # NoHandler => handler[h].event \in sent

\* Deliveries of h's kind that have waited for the requests, and not ended.
Cleaning(h) == AtStep(h, "excluded") \/ AtStep(h, "marked")

\* The lifecycle lock: who cleans up is alone.
CleansAlone ==
  \A h \in Handler : Cleaning(h) /\ KindAt(h) # "team.deleted" =>
    /\ InTransaction = {}
    /\ \A other \in Excluding : other = h

\* A clean-up follows its tombstone, which is still there.
TombstoneStands ==
  \A h \in Handler : AtStep(h, "tombstoned") \/ Cleaning(h) =>
    /\ KindAt(h) = "org.deleted" => deleted_org
    /\ KindAt(h) = "member.removed" => removed

\* Between the two commits of org.deleted no request writes.
AuditWiped ==
  \A h \in Handler : Cleaning(h) /\ KindAt(h) = "org.deleted" => audit["request"] = 0

\* A member who was removed and has not come back is kept out by the tombstone,
\* and by the platform once the tombstone has aged.
ReleasedIsShut ==
  released =>
    /\ ~at_platform.member /\ ~held
    /\ \A r \in Request : request[r] # "live"
    /\ ~removed => ~vouched /\ \A r \in Request : request[r] # "authenticated"

PurgedIsShut ==
  purged =>
    /\ deleted_org /\ InTransaction = {}
    /\ ~held /\ ~rows /\ audit["request"] = 0

\* One delivery of an event is between its marker and its commit.
MarksOnce ==
  \A h, other \in Handler :
    AtStep(h, "marked") /\ AtStep(other, "marked") /\ handler[h].event = handler[other].event
      => h = other

\* What was audited is marked, and who is first finds no marker.
MarkedIfAudited == \A e \in Event \ forgotten : audit[e] >= 1 => e \in markers /\ audit[e] = 1
FirstIsFirst == \A h \in Handler : AtStep(h, "marked") /\ handler[h].first => handler[h].event \notin markers

Shut == CleansAlone /\ TombstoneStands /\ AuditWiped /\ ReleasedIsShut /\ PurgedIsShut
Marks == MarksOnce /\ MarkedIfAudited /\ FirstIsFirst
EventInv == EventTypeOK /\ HandlesSent /\ Shut /\ Marks

-----------------------------------------------------------------------------
(* What a delivery is, and how it goes on. *)

\* A delivery under way has an event, and an event a kind.
LEMMA DeliveryTyped ==
  ASSUME EventTypeOK, NEW h \in Handler, handler[h] # NoHandler
  PROVE  /\ handler[h] \in Handling
         /\ handler[h].event \in Event /\ handler[h].first \in BOOLEAN
         /\ KindAt(h) \in EventKind
  BY EventAssumption DEF EventTypeOK, Handling, KindAt

\* A delivery that goes on keeps its event, and the others stay where they are.
LEMMA Advanced ==
  ASSUME EventTypeOK, NEW h \in Handler, handler[h] # NoHandler,
         NEW step \in {"received", "tombstoned", "excluded", "marked"},
         NEW first \in BOOLEAN,
         handler' = [handler EXCEPT ![h].step = step, ![h].first = first]
  PROVE  /\ handler' \in [Handler -> Handling \cup {NoHandler}]
         /\ handler'[h].step = step
         /\ handler'[h].event = handler[h].event
         /\ handler'[h].first = first
         /\ \A other \in Handler \ {h} : handler'[other] = handler[other]
  <1>1. handler[h] \in Handling
    BY DeliveryTyped
  <1>2. PICK t : t = [handler[h] EXCEPT !.step = step]
    OBVIOUS
  <1>3. t \in Handling /\ t.step = step /\ t.event = handler[h].event
    BY <1>1, <1>2 DEF Handling
  <1>4. PICK s : s = [t EXCEPT !.first = first]
    OBVIOUS
  <1>5. s \in Handling /\ s.step = step /\ s.event = handler[h].event /\ s.first = first
    BY <1>3, <1>4 DEF Handling
  <1>6. handler' = [handler EXCEPT ![h] = s]
    BY <1>2, <1>4 DEF EventTypeOK
  <1>7. handler'[h] = s /\ \A other \in Handler \ {h} : handler'[other] = handler[other]
    BY <1>6 DEF EventTypeOK
  <1>8. handler' \in [Handler -> Handling \cup {NoHandler}]
    BY <1>5, <1>6 DEF EventTypeOK
  <1>9. QED
    BY <1>5, <1>7, <1>8

\* The same for a step that leaves first alone.
LEMMA AdvancedOnly ==
  ASSUME EventTypeOK, NEW h \in Handler, handler[h] # NoHandler,
         NEW step \in {"received", "tombstoned", "excluded", "marked"},
         Advance(h, step)
  PROVE  /\ handler' \in [Handler -> Handling \cup {NoHandler}]
         /\ handler'[h].step = step
         /\ handler'[h].event = handler[h].event
         /\ handler'[h].first = handler[h].first
         /\ \A other \in Handler \ {h} : handler'[other] = handler[other]
  <1>1. handler[h] \in Handling
    BY DeliveryTyped
  <1>2. handler'[h] = [handler[h] EXCEPT !.step = step]
    BY DEF EventTypeOK, Advance
  <1>3. handler'[h] \in Handling
    BY <1>1, <1>2 DEF Handling
  <1>4. QED
    BY <1>1, <1>2, <1>3 DEF EventTypeOK, Handling, Advance

\* A delivery that ends leaves the others where they are.
LEMMA Ended ==
  ASSUME EventTypeOK, NEW h \in Handler,
         handler' = [handler EXCEPT ![h] = NoHandler]
  PROVE  /\ handler' \in [Handler -> Handling \cup {NoHandler}]
         /\ handler'[h] = NoHandler
         /\ \A other \in Handler \ {h} : handler'[other] = handler[other]
  BY DEF EventTypeOK

-----------------------------------------------------------------------------
(* The initial state and the steps. *)

LEMMA EventInitially == EventInit => EventInv
  <1> SUFFICES ASSUME EventInit PROVE EventInv
    OBVIOUS
  <1>1. EventTypeOK
    <2>1. audit \in [Event \cup {"request"} -> 0..2]
      BY DEF EventInit
    <2>2. at_platform \in [org: BOOLEAN, member: BOOLEAN]
      BY DEF EventInit
    <2>3. QED
      BY <2>1, <2>2 DEF EventInit, EventTypeOK
  <1>2. HandlesSent
    BY DEF EventInit, HandlesSent
  <1>3. Shut
    BY DEF EventInit, Shut, CleansAlone, TombstoneStands, AuditWiped, ReleasedIsShut,
           PurgedIsShut, Cleaning, AtStep
  <1>4. MarksOnce /\ FirstIsFirst
    BY DEF EventInit, MarksOnce, FirstIsFirst, AtStep
  <1>5. MarkedIfAudited
    BY DEF EventInit, MarkedIfAudited
  <1>6. QED
    BY <1>1, <1>2, <1>3, <1>4, <1>5 DEF EventInv, Marks

\* What the platform does reaches the database only through deliveries; a member
\* who returns is no longer a removed one.
LEMMA PlatformKeeps ==
  ASSUME EventInv, (\E e \in Event : Happens(e)) \/ Return \/ CacheExpires
  PROVE  EventInv'
  <1> USE DEF EventInv, platform_side, tombstones, data, history
  <1>1. EventTypeOK'
    <2>1. CASE \E e \in Event : Happens(e)
      BY <2>1 DEF EventTypeOK, Happens
    <2>2. CASE Return
      BY <2>2 DEF EventTypeOK, Return
    <2>3. CASE CacheExpires
      BY <2>3 DEF EventTypeOK, CacheExpires
    <2>4. QED
      BY <2>1, <2>2, <2>3
  <1>2. /\ UNCHANGED <<tombstones, request, handler, markers, data, purged, forgotten>>
        /\ sent \subseteq sent'
    BY DEF Happens, Return, CacheExpires
  <1>3. HandlesSent' /\ Marks'
    BY <1>2 DEF HandlesSent, Marks, MarksOnce, MarkedIfAudited, FirstIsFirst, AtStep
  <1>4. CleansAlone' /\ TombstoneStands' /\ AuditWiped' /\ PurgedIsShut'
    BY <1>2 DEF Shut, CleansAlone, TombstoneStands, AuditWiped, PurgedIsShut, Cleaning,
                AtStep, KindAt, InTransaction, Excluding
  <1>5. ReleasedIsShut'
    <2>1. CASE \E e \in Event : Happens(e)
      BY <1>2, <2>1 DEF Shut, ReleasedIsShut, Happens, EventTypeOK
    <2>2. CASE Return
      BY <2>2 DEF Return, ReleasedIsShut
    <2>3. CASE CacheExpires
      BY <1>2, <2>3 DEF Shut, ReleasedIsShut, CacheExpires
    <2>4. QED
      BY <2>1, <2>2, <2>3
  <1>6. QED
    BY <1>1, <1>3, <1>4, <1>5 DEF Shut

\* A tombstone ages when nothing it was for is under way; a marker is forgotten.
LEMMA AgingKeeps ==
  ASSUME EventInv, RemovalAges \/ Sweep
  PROVE  EventInv'
  <1> USE DEF EventInv, platform_side, tombstones, data, history
  <1>1. CASE RemovalAges
    <2>1. \A h \in Handler : handler'[h] = NoHandler
      BY <1>1 DEF RemovalAges
    <2>2. EventTypeOK' /\ HandlesSent'
      BY <1>1 DEF RemovalAges, EventTypeOK, HandlesSent
    <2>3. Marks'
      BY <1>1 DEF RemovalAges, Marks, MarksOnce, MarkedIfAudited, FirstIsFirst, AtStep
    <2>4. CleansAlone' /\ TombstoneStands' /\ AuditWiped'
      BY <2>1 DEF CleansAlone, TombstoneStands, AuditWiped, Cleaning, AtStep
    <2>5. ReleasedIsShut' /\ PurgedIsShut'
      BY <1>1 DEF RemovalAges, Shut, ReleasedIsShut, PurgedIsShut, InTransaction
    <2>6. QED
      BY <2>2, <2>3, <2>4, <2>5 DEF Shut
  <1>2. CASE Sweep
    <2>1. EventTypeOK' /\ HandlesSent'
      BY <1>2 DEF Sweep, EventTypeOK, HandlesSent
    <2>2. Shut'
      BY <1>2 DEF Sweep, Shut, CleansAlone, TombstoneStands, AuditWiped, ReleasedIsShut,
                  PurgedIsShut, Cleaning, AtStep, KindAt, InTransaction, Excluding
    <2>3. MarksOnce' /\ FirstIsFirst'
      BY <1>2 DEF Sweep, Marks, MarksOnce, FirstIsFirst, AtStep
    <2>4. MarkedIfAudited'
      BY <1>2 DEF Sweep, Marks, MarkedIfAudited
    <2>5. QED
      BY <2>1, <2>2, <2>3, <2>4 DEF Marks
  <1>3. QED
    BY <1>1, <1>2

\* What a request does, under the lock or kept out.
LEMMA RequestKeeps ==
  ASSUME EventInv, NEW r \in Request,
         \/ Authenticate(r) \/ BeginLive(r) \/ BeginBackground(r)
         \/ CommitRequest(r) \/ AbortRequest(r)
  PROVE  EventInv'
  <1> USE DEF EventInv, platform_side, tombstones, data, history
  <1>1. /\ UNCHANGED <<platform_side, tombstones, handler, markers, history>>
        /\ \A other \in Request \ {r} : request'[other] = request[other]
    BY DEF Authenticate, BeginLive, BeginBackground, CommitRequest, AbortRequest, EventTypeOK
  <1>2. audit' = audit \/ audit' = [audit EXCEPT !["request"] = 1]
    BY DEF Authenticate, BeginLive, BeginBackground, CommitRequest, AbortRequest
  <1>3. EventTypeOK'
    <2>1. audit' \in [Event \cup {"request"} -> 0..2]
      BY <1>2 DEF EventTypeOK
    <2>2. request' \in [Request -> {"idle", "authenticated", "live", "background"}]
      BY DEF Authenticate, BeginLive, BeginBackground, CommitRequest, AbortRequest, EventTypeOK
    <2>3. held' \in BOOLEAN /\ rows' \in BOOLEAN
      BY DEF Authenticate, BeginLive, BeginBackground, CommitRequest, AbortRequest, EventTypeOK
    <2>4. QED
      BY <1>1, <2>1, <2>2, <2>3 DEF EventTypeOK
  <1>4. HandlesSent' /\ MarksOnce' /\ FirstIsFirst'
    BY <1>1 DEF HandlesSent, Marks, MarksOnce, FirstIsFirst, AtStep
  <1>5. MarkedIfAudited'
    <2>1. \A e \in Event : audit'[e] = audit[e]
      BY <1>2, EventAssumption DEF EventTypeOK
    <2>2. QED
      BY <1>1, <2>1 DEF Marks, MarkedIfAudited
  <1>6. TombstoneStands'
    BY <1>1 DEF Shut, TombstoneStands, Cleaning, AtStep, KindAt
  <1>7. ASSUME NEW h \in Handler, Cleaning(h), KindAt(h) # "team.deleted"
        PROVE  h \in Excluding
    BY <1>7 DEF Cleaning, AtStep, KindAt, Excluding
  <1>8. CASE Authenticate(r)
    <2>1. request' = [request EXCEPT ![r] = "authenticated"] /\ UNCHANGED data
      BY <1>8 DEF Authenticate
    <2>2. InTransaction' = InTransaction
      BY <1>8, <2>1 DEF Authenticate, InTransaction, EventTypeOK
    <2>3. CleansAlone' /\ AuditWiped' /\ PurgedIsShut'
      BY <1>1, <2>1, <2>2 DEF Shut, CleansAlone, AuditWiped, PurgedIsShut, Cleaning, AtStep,
                              KindAt, Excluding
    <2>4. ReleasedIsShut'
      BY <1>1, <1>8, <2>1 DEF Authenticate, Revoked, Shut, ReleasedIsShut, EventTypeOK
    <2>5. QED
      BY <1>3, <1>4, <1>5, <1>6, <2>3, <2>4 DEF Shut, Marks
  <1>9. CASE BeginLive(r)
    <2>1. Excluding = {} /\ UNCHANGED data
      BY <1>9 DEF BeginLive
    <2>2. CleansAlone' /\ AuditWiped'
      BY <1>1, <1>7, <2>1 DEF Shut, CleansAlone, AuditWiped, Cleaning, AtStep, KindAt
    <2>3. ReleasedIsShut'
      BY <1>1, <1>9, <2>1 DEF BeginLive, StillLive, Shut, ReleasedIsShut, EventTypeOK
    <2>4. PurgedIsShut'
      BY <1>1, <1>9, <2>1 DEF BeginLive, StillLive, Shut, PurgedIsShut, InTransaction, EventTypeOK
    <2>5. QED
      BY <1>3, <1>4, <1>5, <1>6, <2>2, <2>3, <2>4 DEF Shut, Marks
  <1>10. CASE BeginBackground(r)
    <2>1. Excluding = {} /\ UNCHANGED data
      BY <1>10 DEF BeginBackground
    <2>2. CleansAlone' /\ AuditWiped'
      BY <1>1, <1>7, <2>1 DEF Shut, CleansAlone, AuditWiped, Cleaning, AtStep, KindAt
    <2>3. ReleasedIsShut'
      BY <1>1, <1>10, <2>1 DEF BeginBackground, Shut, ReleasedIsShut, EventTypeOK
    <2>4. PurgedIsShut'
      BY <1>1, <1>10, <2>1 DEF BeginBackground, StillLive, Shut, PurgedIsShut
    <2>5. QED
      BY <1>3, <1>4, <1>5, <1>6, <2>2, <2>3, <2>4 DEF Shut, Marks
  <1>11. CASE CommitRequest(r)
    <2>1. r \in InTransaction
      BY <1>11 DEF CommitRequest
    <2>2. \A h \in Handler : ~(Cleaning(h) /\ KindAt(h) # "team.deleted")
      BY <2>1 DEF Shut, CleansAlone
    <2>3. CleansAlone' /\ AuditWiped'
      BY <1>1, <2>2 DEF CleansAlone, AuditWiped, Cleaning, AtStep, KindAt
    <2>4. ~purged
      BY <2>1 DEF Shut, PurgedIsShut
    <2>5. ReleasedIsShut'
      BY <1>1, <1>11 DEF CommitRequest, Shut, ReleasedIsShut, EventTypeOK
    <2>6. PurgedIsShut'
      BY <1>1, <2>4 DEF PurgedIsShut
    <2>7. QED
      BY <1>3, <1>4, <1>5, <1>6, <2>3, <2>5, <2>6 DEF Shut, Marks
  <1>12. CASE AbortRequest(r)
    <2>1. InTransaction' \subseteq InTransaction /\ UNCHANGED data
      BY <1>1, <1>12 DEF AbortRequest, InTransaction, EventTypeOK
    <2>2. CleansAlone' /\ AuditWiped' /\ PurgedIsShut'
      BY <1>1, <2>1 DEF Shut, CleansAlone, AuditWiped, PurgedIsShut, Cleaning, AtStep,
                        KindAt, Excluding
    <2>3. ReleasedIsShut'
      BY <1>1, <1>12, <2>1 DEF AbortRequest, Shut, ReleasedIsShut, EventTypeOK
    <2>4. QED
      BY <1>3, <1>4, <1>5, <1>6, <2>2, <2>3 DEF Shut, Marks
  <1>13. QED
    BY <1>8, <1>9, <1>10, <1>11, <1>12

\* A delivery arrives, fails, or commits its tombstone.
LEMMA DeliveryBegins ==
  ASSUME EventInv, NEW h \in Handler,
         (\E e \in Event : Receive(h, e)) \/ Tombstone(h) \/ FailDelivery(h)
  PROVE  EventInv'
  <1> USE DEF EventInv, platform_side, tombstones, data, history
  <1>1. UNCHANGED <<platform_side, request, markers, data, history>>
    BY DEF Receive, Tombstone, FailDelivery
  <1>2. /\ handler' \in [Handler -> Handling \cup {NoHandler}]
        /\ \A other \in Handler \ {h} : handler'[other] = handler[other]
        /\ handler'[h] = NoHandler \/ handler'[h].step \in {"received", "tombstoned"}
        /\ handler'[h] # NoHandler => handler'[h].event \in sent
    <2>1. CASE \E e \in Event : Receive(h, e)
      <3>1. PICK e \in Event : Receive(h, e)
        BY <2>1
      <3>2. handler'[h] = [step |-> "received", event |-> e, first |-> FALSE]
        BY <3>1 DEF Receive, EventTypeOK
      <3>3. handler'[h] \in Handling
        BY <3>2 DEF Handling
      <3>4. QED
        BY <3>1, <3>2, <3>3 DEF Receive, EventTypeOK
    <2>2. CASE Tombstone(h)
      BY <2>2, AdvancedOnly DEF Tombstone, AtStep, HandlesSent
    <2>3. CASE FailDelivery(h)
      BY <2>3, Ended DEF FailDelivery
    <2>4. QED
      BY <2>1, <2>2, <2>3
  <1>3. ~Cleaning(h)'
    BY <1>2 DEF Cleaning, AtStep, NoHandler
  <1>4. /\ deleted_org' \in BOOLEAN /\ removed' \in BOOLEAN
        /\ deleted_org => deleted_org'
        /\ removed => removed'
    BY DEF Receive, Tombstone, FailDelivery, EventTypeOK
  <1>5. EventTypeOK' /\ HandlesSent'
    BY <1>1, <1>2, <1>4 DEF EventTypeOK, HandlesSent
  <1>6. Marks'
    BY <1>1, <1>2, <1>3 DEF Marks, MarksOnce, MarkedIfAudited, FirstIsFirst, Cleaning, AtStep
  <1>7. CleansAlone' /\ AuditWiped'
    <2>1. Excluding' \subseteq Excluding /\ InTransaction' = InTransaction
      BY <1>1, <1>2 DEF Excluding, InTransaction, NoHandler
    <2>2. QED
      BY <1>1, <1>2, <1>3, <2>1 DEF Shut, CleansAlone, AuditWiped, Cleaning, AtStep, KindAt
  <1>8. TombstoneStands'
    <2>1. ASSUME AtStep(h, "tombstoned")'
          PROVE  /\ KindAt(h)' = "org.deleted" => deleted_org'
                 /\ KindAt(h)' = "member.removed" => removed'
      <3>1. Tombstone(h)
        BY <2>1 DEF Receive, FailDelivery, AtStep, EventTypeOK, NoHandler
      <3>2. handler'[h].event = handler[h].event
        BY <3>1, AdvancedOnly DEF Tombstone, AtStep
      <3>3. QED
        BY <3>1, <3>2 DEF Tombstone, KindAt
    <2>2. QED
      BY <1>2, <1>3, <1>4, <2>1 DEF Shut, TombstoneStands, Cleaning, AtStep, KindAt
  <1>9. ReleasedIsShut' /\ PurgedIsShut'
    BY <1>1, <1>4 DEF Shut, ReleasedIsShut, PurgedIsShut, InTransaction
  <1>10. QED
    BY <1>5, <1>6, <1>7, <1>8, <1>9 DEF Shut

\* A delivery takes the lifecycle lock, or goes on without it.
LEMMA ExcludeKeeps ==
  ASSUME EventInv, NEW h \in Handler, ExcludeRequests(h)
  PROVE  EventInv'
  <1> USE DEF EventInv, platform_side, tombstones, data, history
  <1>1. UNCHANGED <<platform_side, tombstones, request, markers, held, rows, history>>
    BY DEF ExcludeRequests
  <1>2. /\ handler' \in [Handler -> Handling \cup {NoHandler}]
        /\ handler'[h].step = "excluded"
        /\ handler'[h].event = handler[h].event
        /\ \A other \in Handler \ {h} : handler'[other] = handler[other]
        /\ handler[h] # NoHandler
    BY AdvancedOnly DEF ExcludeRequests, AtStep
  <1>3. /\ audit' \in [Event \cup {"request"} -> 0..2]
        /\ \A a \in Event \cup {"request"} : audit'[a] = audit[a] \/ audit'[a] = 0
        /\ KindAt(h) = "org.deleted" => audit'["request"] = 0
    BY DEF ExcludeRequests, EventTypeOK
  <1>4. EventTypeOK' /\ HandlesSent'
    BY <1>1, <1>2, <1>3 DEF EventTypeOK, HandlesSent
  <1>5. MarksOnce' /\ FirstIsFirst'
    BY <1>1, <1>2 DEF Marks, MarksOnce, FirstIsFirst, AtStep
  <1>6. MarkedIfAudited'
    BY <1>1, <1>3 DEF Marks, MarkedIfAudited
  <1>7. CleansAlone'
    <2>1. KindAt(h) # "team.deleted" => InTransaction = {} /\ Excluding = {}
      BY DEF ExcludeRequests, MayClean
    <2>2. InTransaction' = InTransaction
      BY <1>1 DEF InTransaction
    <2>3. Excluding' \subseteq Excluding \cup {h}
      BY <1>2 DEF Excluding
    <2>4. KindAt(h) = "team.deleted" => Excluding' \subseteq Excluding
      BY <1>2 DEF Excluding, KindAt
    <2>5. \A other \in Handler \ {h} :
            Cleaning(other)' /\ KindAt(other)' # "team.deleted" => other \in Excluding
      BY <1>2 DEF Cleaning, AtStep, KindAt, Excluding
    <2>6. \A other \in Handler \ {h} :
            Cleaning(other)' /\ KindAt(other)' # "team.deleted" =>
              Cleaning(other) /\ KindAt(other) # "team.deleted"
      BY <1>2 DEF Cleaning, AtStep, KindAt
    <2>7. KindAt(h)' = KindAt(h)
      BY <1>2 DEF KindAt
    <2>8. QED
      BY <2>1, <2>2, <2>3, <2>4, <2>5, <2>6, <2>7 DEF Shut, CleansAlone
  <1>8. TombstoneStands'
    BY <1>1, <1>2 DEF ExcludeRequests, Shut, TombstoneStands, Cleaning, AtStep, KindAt
  <1>9. AuditWiped'
    BY <1>2, <1>3 DEF Shut, AuditWiped, Cleaning, AtStep, KindAt
  <1>10. ReleasedIsShut' /\ PurgedIsShut'
    BY <1>1, <1>3 DEF Shut, ReleasedIsShut, PurgedIsShut, InTransaction
  <1>11. QED
    BY <1>4, <1>5, <1>6, <1>7, <1>8, <1>9, <1>10 DEF Shut, Marks

\* A delivery inserts its marker, or finds it there.
LEMMA MarkKeeps ==
  ASSUME EventInv, NEW h \in Handler, FirstDelivery(h)
  PROVE  EventInv'
  <1> USE DEF EventInv, platform_side, tombstones, data, history
  <1>1. UNCHANGED <<platform_side, tombstones, request, markers, data, history>>
    BY DEF FirstDelivery
  <1>2. /\ handler' \in [Handler -> Handling \cup {NoHandler}]
        /\ handler'[h].step = "marked"
        /\ handler'[h].event = handler[h].event
        /\ handler'[h].first <=> handler[h].event \notin markers
        /\ \A other \in Handler \ {h} : handler'[other] = handler[other]
        /\ handler[h] # NoHandler
    BY Advanced DEF FirstDelivery, AtStep
  <1>3. EventTypeOK' /\ HandlesSent' /\ MarkedIfAudited'
    BY <1>1, <1>2 DEF EventTypeOK, HandlesSent, Marks, MarkedIfAudited
  <1>4. MarksOnce'
    BY <1>2 DEF FirstDelivery, MarkerFree, Marks, MarksOnce, AtStep
  <1>5. FirstIsFirst'
    BY <1>1, <1>2 DEF Marks, FirstIsFirst, AtStep
  <1>6. AtStep(h, "excluded")
    BY DEF FirstDelivery
  <1>7. \A other \in Handler : Cleaning(other)' => Cleaning(other) /\ KindAt(other)' = KindAt(other)
    BY <1>2, <1>6 DEF Cleaning, AtStep, KindAt
  <1>8. Excluding' \subseteq Excluding /\ InTransaction' = InTransaction
    BY <1>1, <1>2, <1>6 DEF Excluding, InTransaction, AtStep
  <1>9. CleansAlone' /\ AuditWiped'
    BY <1>1, <1>7, <1>8 DEF Shut, CleansAlone, AuditWiped
  <1>10. TombstoneStands'
    BY <1>1, <1>2, <1>7 DEF Shut, TombstoneStands, AtStep, KindAt
  <1>11. ReleasedIsShut' /\ PurgedIsShut'
    BY <1>1 DEF Shut, ReleasedIsShut, PurgedIsShut, InTransaction
  <1>12. QED
    BY <1>3, <1>4, <1>5, <1>9, <1>10, <1>11 DEF Shut, Marks

\* The clean-up commits: its locks kept every request out since it began, and its
\* tombstone keeps out who comes later.
LEMMA CommitKeeps ==
  ASSUME EventInv, NEW h \in Handler, CommitCleanUp(h)
  PROVE  EventInv'
  <1> USE DEF EventInv, platform_side, tombstones, data, history
  <1>1. UNCHANGED <<platform_side, tombstones, request, forgotten>>
    BY DEF CommitCleanUp
  <1>2. /\ handler' \in [Handler -> Handling \cup {NoHandler}]
        /\ handler'[h] = NoHandler
        /\ \A other \in Handler \ {h} : handler'[other] = handler[other]
    BY Ended DEF CommitCleanUp
  <1>3. AtStep(h, "marked") /\ handler[h] # NoHandler /\ Cleaning(h)
    BY DEF CommitCleanUp, AtStep, Cleaning
  <1>4. PICK e \in Event : e = handler[h].event
    BY <1>3, DeliveryTyped
  <1>5. e \in sent /\ KindOf[e] = KindAt(h) /\ KindOf[e] \in EventKind /\ e # "request"
    BY <1>3, <1>4, DeliveryTyped, EventAssumption DEF HandlesSent, KindAt
  <1>6. /\ markers' = markers \cup {e}
        /\ held' = (held /\ KindOf[e] = "team.deleted")
        /\ rows' = (rows /\ KindOf[e] # "org.deleted")
        /\ released' = (released \/ (KindOf[e] = "member.removed" /\ ~at_platform.member))
        /\ purged' = (purged \/ KindOf[e] = "org.deleted")
    BY <1>4 DEF CommitCleanUp
  <1>7. \/ audit' = audit /\ ~(handler[h].first /\ audit[e] < 1 /\ KindOf[e] # "org.deleted")
        \/ handler[h].first /\ audit[e] < 2 /\ audit' = [audit EXCEPT ![e] = @ + 1]
    BY <1>4 DEF CommitCleanUp, EventTypeOK
  <1>8. audit[e] \in 0..2
    BY DEF EventTypeOK
  <1>9. /\ audit' \in [Event \cup {"request"} -> 0..2]
        /\ \A a \in (Event \cup {"request"}) \ {e} : audit'[a] = audit[a]
    BY <1>7, <1>8 DEF EventTypeOK
  <1>10. EventTypeOK' /\ HandlesSent'
    <2>1. /\ held' \in BOOLEAN /\ rows' \in BOOLEAN
          /\ released' \in BOOLEAN /\ purged' \in BOOLEAN
      BY <1>6 DEF EventTypeOK
    <2>2. QED
      BY <1>1, <1>2, <1>5, <1>6, <1>9, <2>1 DEF EventTypeOK, HandlesSent
  <1>11. \A other \in Handler : \A step \in {"tombstoned", "excluded", "marked"} :
           AtStep(other, step)' => /\ other # h
                                   /\ AtStep(other, step)
                                   /\ KindAt(other)' = KindAt(other)
    BY <1>2 DEF AtStep, KindAt
  <1>12. MarksOnce'
    BY <1>2, <1>11 DEF Marks, MarksOnce
  <1>13. FirstIsFirst'
    <2>1. ASSUME NEW other \in Handler, AtStep(other, "marked")', handler'[other].first
          PROVE  handler'[other].event \notin markers'
      <3>1. /\ other # h /\ AtStep(other, "marked")
            /\ handler'[other] = handler[other]
        BY <1>2, <1>11, <2>1
      <3>2. handler[other].event # e
        BY <1>3, <1>4, <3>1 DEF Marks, MarksOnce
      <3>3. QED
        BY <1>6, <2>1, <3>1, <3>2 DEF Marks, FirstIsFirst
    <2>2. QED
      BY <2>1 DEF FirstIsFirst
  <1>14. MarkedIfAudited'
    <2>1. ASSUME NEW d \in Event \ forgotten, audit'[d] >= 1
          PROVE  d \in markers' /\ audit'[d] = 1
      <3>1. CASE d # e
        BY <1>6, <1>9, <2>1, <3>1 DEF Marks, MarkedIfAudited
      <3>2. CASE d = e /\ audit' = audit
        BY <1>6, <2>1, <3>2 DEF Marks, MarkedIfAudited
      <3>3. CASE d = e /\ handler[h].first /\ audit' = [audit EXCEPT ![e] = @ + 1]
        <4>1. e \notin markers
          BY <1>3, <1>4, <3>3 DEF Marks, FirstIsFirst
        <4>2. audit[e] = 0
          BY <1>8, <2>1, <3>3, <4>1 DEF Marks, MarkedIfAudited
        <4>3. audit'[e] = 1
          BY <3>3, <4>2 DEF EventTypeOK
        <4>4. QED
          BY <1>6, <3>3, <4>3
      <3>4. QED
        BY <1>7, <3>1, <3>2, <3>3
    <2>2. QED
      BY <1>1, <2>1 DEF MarkedIfAudited
  <1>15. CleansAlone' /\ TombstoneStands' /\ AuditWiped'
    <2>1. Excluding' \subseteq Excluding /\ InTransaction' = InTransaction
      BY <1>1, <1>2 DEF Excluding, InTransaction
    <2>2. audit'["request"] = audit["request"]
      BY <1>5, <1>9
    <2>3. \A other \in Handler : Cleaning(other)' => Cleaning(other) /\ KindAt(other)' = KindAt(other)
      BY <1>11 DEF Cleaning
    <2>4. CleansAlone' /\ AuditWiped'
      BY <2>1, <2>2, <2>3 DEF Shut, CleansAlone, AuditWiped
    <2>5. TombstoneStands'
      BY <1>1, <1>11, <2>3 DEF Shut, TombstoneStands
    <2>6. QED
      BY <2>4, <2>5
  <1>16. ReleasedIsShut'
    <2>1. CASE released
      BY <1>1, <1>6, <2>1 DEF Shut, ReleasedIsShut
    <2>2. CASE KindOf[e] = "member.removed" /\ ~at_platform.member
      <3>1. removed /\ InTransaction = {}
        BY <1>3, <1>5, <2>2 DEF Shut, TombstoneStands, CleansAlone
      <3>2. \A r \in Request : request[r] # "live"
        BY <3>1 DEF InTransaction
      <3>3. QED
        BY <1>1, <1>6, <2>2, <3>1, <3>2 DEF ReleasedIsShut
    <2>3. QED
      BY <1>6, <2>1, <2>2 DEF ReleasedIsShut
  <1>17. PurgedIsShut'
    <2>0. audit'["request"] = audit["request"] /\ InTransaction' = InTransaction
      BY <1>1, <1>5, <1>9 DEF InTransaction
    <2>1. CASE purged
      BY <1>1, <1>6, <2>0, <2>1 DEF Shut, PurgedIsShut
    <2>2. CASE KindOf[e] = "org.deleted"
      BY <1>1, <1>3, <1>5, <1>6, <2>0, <2>2
      DEF Shut, TombstoneStands, CleansAlone, AuditWiped, PurgedIsShut
    <2>3. QED
      BY <1>6, <2>1, <2>2 DEF PurgedIsShut
  <1>18. QED
    BY <1>10, <1>12, <1>13, <1>14, <1>15, <1>16, <1>17 DEF Shut, Marks

LEMMA EventKept == EventInv /\ [EventNext]_eventVars => EventInv'
  <1> SUFFICES ASSUME EventInv, [EventNext]_eventVars PROVE EventInv'
    OBVIOUS
  <1>1. CASE UNCHANGED eventVars
    BY <1>1 DEF eventVars, EventInv, EventTypeOK, HandlesSent, Shut, Marks, CleansAlone,
                TombstoneStands, AuditWiped, ReleasedIsShut, PurgedIsShut, MarksOnce,
                MarkedIfAudited, FirstIsFirst, Cleaning, AtStep, KindAt, InTransaction, Excluding
  <1>2. CASE EventNext
    BY <1>2, PlatformKeeps, AgingKeeps, RequestKeeps, DeliveryBegins, ExcludeKeeps,
       MarkKeeps, CommitKeeps DEF EventNext
  <1>3. QED
    BY <1>1, <1>2

-----------------------------------------------------------------------------
(* The theorems. *)

LEMMA EventsSound == EventSpec => []EventInv
  BY EventInitially, EventKept, PTL DEF EventSpec

\* Every variable keeps its range.
THEOREM EventTypeCorrect == EventSpec => []EventTypeOK
  <1>1. EventInv => EventTypeOK
    BY DEF EventInv
  <1>2. QED
    BY <1>1, EventsSound, PTL

\* A member who is gone holds nothing once member_removed has committed, whatever
\* request of theirs had passed authentication.
THEOREM RemovalHolds == EventSpec => []RemovedHoldsNothing
  <1>1. EventInv => RemovedHoldsNothing
    BY DEF EventInv, Shut, ReleasedIsShut, RemovedHoldsNothing
  <1>2. QED
    BY <1>1, EventsSound, PTL

\* No request brings a row back into an org that org_deleted has purged.
THEOREM PurgeHolds == EventSpec => []PurgedStaysEmpty
  <1>1. EventInv => PurgedStaysEmpty
    BY DEF EventInv, Shut, PurgedIsShut, PurgedStaysEmpty
  <1>2. QED
    BY <1>1, EventsSound, PTL

\* However many deliveries of an event overlap, one of them audits it, as long as
\* its marker is kept.
THEOREM AuditsOnce == EventSpec => []AuditedOnce
  <1>1. EventInv => AuditedOnce
    BY DEF EventInv, EventTypeOK, Marks, MarkedIfAudited, AuditedOnce
  <1>2. QED
    BY <1>1, EventsSound, PTL

-----------------------------------------------------------------------------
(* ConsoleSession. *)

Begun(l) == family[l].state \notin {"none", "started"}
On(v, l) == visit[v] # NoVisit /\ visit[v].login = l
At(v, step) == visit[v] # NoVisit /\ visit[v].step = step
Holds(v) == visit[v] # NoVisit /\ visit[v].holds

\* A row or a visit is of a login whose code was redeemed.
OnlyBegun ==
  /\ \A v \in Visitor, l \in Login : On(v, l) => Begun(l)
  /\ \A l \in Login : stored[l] # NoRow => Begun(l)

\* While a callback has yet to store its row, nobody else can know of the login.
ExchangedAlone ==
  \A v \in Visitor, l \in Login : At(v, "exchanged") /\ On(v, l) =>
    /\ stored[l] = NoRow
    /\ visit[v].row.pair = 1 /\ ~visit[v].row.stale /\ ~visit[v].row.expired
    /\ family[l].live = 1 \/ l \in lost
    /\ \A w \in Visitor \ {v} : ~On(w, l)

\* Who is past the lock holds it, and who holds it sees the row as it is.
Locking == {"locked", "posted", "rotated", "refused", "unavailable", "signing_out"}

LocksShown ==
  \A v \in Visitor :
    /\ visit[v].step \in Locking => Holds(v)
    /\ Holds(v) => /\ visit[v].step \in Locking \cup {"dropping"}
                   /\ stored[visit[v].login] = visit[v].row
                   /\ ~visit[v].row.expired
    /\ visit[v].step \in {"posted", "rotated"} => visit[v].kind = "request" /\ visit[v].row.stale
    /\ At(v, "rotated") => visit[v].pair # 0

LocksApart ==
  \A v, w \in Visitor, l \in Login : Holds(v) /\ On(v, l) /\ Holds(w) /\ On(w, l) => v = w

\* A row is stale only while its login may still rotate.
StaleRotates == \A l \in Login : stored[l] # NoRow /\ stored[l].stale => stored[l].pair < MaxPair

AbandonedIsLost == \A l \in Login, pair \in 1..MaxPair :
  <<l, pair>> \in abandoned => l \in lost /\ pair < MaxPair

\* The row of a login has the pair that is live at the platform, or a visit that
\* has the row locked has it in hand.
RowIsLive ==
  \A l \in Login : stored[l] # NoRow /\ family[l].state = "live" /\ l \notin lost =>
    \/ stored[l].pair = family[l].live
    \/ \E v \in Visitor : At(v, "rotated") /\ On(v, l)

RotatedIsLive ==
  \A v \in Visitor, l \in Login :
    At(v, "rotated") /\ On(v, l) /\ family[l].state = "live" /\ l \notin lost =>
      visit[v].pair = family[l].live

\* Why a visit is about to end the session.
Cause ==
  \A v \in Visitor, l \in Login :
    On(v, l) /\ visit[v].step \in {"refused", "dropping"} =>
      family[l].state # "live" \/ ~CanOpen(v)

ConsoleInv ==
  /\ ConsoleTypeOK /\ OnlyBegun /\ ExchangedAlone /\ LocksShown /\ LocksApart
  /\ StaleRotates /\ AbandonedIsLost /\ RowIsLive /\ RotatedIsLive /\ Cause
  /\ ReusedOnlyAfterLoss

-----------------------------------------------------------------------------
(* What a visit is. *)

LEMMA VisitTyped ==
  ASSUME ConsoleTypeOK, NEW v \in Visitor, visit[v].step # "idle" \/ visit[v] # NoVisit
  PROVE  /\ visit[v] # NoVisit /\ visit[v] \in Visit
         /\ visit[v].login \in Login /\ visit[v].row \in Row
         /\ visit[v].holds \in BOOLEAN /\ visit[v].pair \in 0..MaxPair
  <1>1. visit[v] # NoVisit
    BY DEF NoVisit
  <1>2. visit[v] \in Visit
    BY <1>1 DEF ConsoleTypeOK
  <1>3. QED
    BY <1>1, <1>2 DEF Visit

\* No row is taken for one.
LEMMA NoRowIsNone ==
  ASSUME NEW row \in Row
  PROVE  /\ row # NoRow
         /\ row.pair \in 1..MaxPair /\ row.key \in ServerKey
         /\ row.stale \in BOOLEAN /\ row.expired \in BOOLEAN
  BY ConsoleAssumption DEF Row, NoRow

\* Single fields of a visit.
Steps == {"exchanged", "found", "queued", "locked", "posted", "rotated", "refused",
          "unavailable", "dropping", "introspect", "signing_out"}

LEMMA StepSet ==
  ASSUME NEW t \in Visit, NEW step \in Steps, NEW s, s = [t EXCEPT !.step = step]
  PROVE  /\ s \in Visit /\ s.step = step /\ s.kind = t.kind /\ s.login = t.login
         /\ s.row = t.row /\ s.pair = t.pair /\ s.holds = t.holds
  BY DEF Visit, Steps

LEMMA RowSet ==
  ASSUME NEW t \in Visit, NEW row \in Row, NEW s, s = [t EXCEPT !.row = row]
  PROVE  /\ s \in Visit /\ s.step = t.step /\ s.kind = t.kind /\ s.login = t.login
         /\ s.row = row /\ s.pair = t.pair /\ s.holds = t.holds
  BY DEF Visit

LEMMA PairSet ==
  ASSUME NEW t \in Visit, NEW pair \in 0..MaxPair, NEW s, s = [t EXCEPT !.pair = pair]
  PROVE  /\ s \in Visit /\ s.step = t.step /\ s.kind = t.kind /\ s.login = t.login
         /\ s.row = t.row /\ s.pair = pair /\ s.holds = t.holds
  BY DEF Visit

LEMMA HoldsSet ==
  ASSUME NEW t \in Visit, NEW holds \in BOOLEAN, NEW s, s = [t EXCEPT !.holds = holds]
  PROVE  /\ s \in Visit /\ s.step = t.step /\ s.kind = t.kind /\ s.login = t.login
         /\ s.row = t.row /\ s.pair = t.pair /\ s.holds = holds
  BY DEF Visit

-----------------------------------------------------------------------------
(* Steps of one visit that leave the rows alone. *)

\* What the platform may do to a login meanwhile.
FamilyMay(l, s) ==
  /\ Begun(l) => Begun(l)' /\ (family'[l].state = "live" => family[l].state = "live")
  /\ family'[l].state = "reused" => family[l].state = "reused" \/ l \in lost'
  /\ \/ family'[l].live = family[l].live
     \/ l \in lost'
     \/ s # NoVisit /\ s.step = "rotated" /\ s.login = l

\* What a visit may come to.
VisitMay(v, s) ==
  /\ s \in Visit /\ Begun(s.login)
  /\ s.step # "exchanged"
  /\ \A w \in Visitor \ {v} : At(w, "exchanged") => ~On(w, s.login)
  /\ s.step \in Locking => s.holds
  /\ s.holds =>
       /\ s.step \in Locking \cup {"dropping"}
       /\ stored[s.login] = s.row /\ ~s.row.expired
       /\ \A w \in Visitor \ {v} : Holds(w) => ~On(w, s.login)
  /\ s.step \in {"posted", "rotated"} => s.kind = "request" /\ s.row.stale
  /\ s.step = "rotated" =>
       /\ s.pair # 0
       /\ family'[s.login].state = "live" /\ s.login \notin lost' => s.pair = family'[s.login].live
  /\ s.step \in {"refused", "dropping"} =>
       family'[s.login].state # "live" \/ s.row.key # replica_key[v]

LEMMA VisitMoves ==
  ASSUME ConsoleInv, NEW v \in Visitor, NEW s,
         visit' = [visit EXCEPT ![v] = s], s = NoVisit \/ VisitMay(v, s),
         UNCHANGED <<stored, replica_key, reported>>,
         family' \in [Login -> Family], \A l \in Login : FamilyMay(l, s),
         lost \subseteq lost', lost' \subseteq Login,
         abandoned' \subseteq Login \X (1..MaxPair), AbandonedIsLost',
         At(v, "rotated") => visit[v].login \in lost'
  PROVE  ConsoleInv'
  <1> USE DEF ConsoleInv
  <1>1. visit'[v] = s /\ \A w \in Visitor \ {v} : visit'[w] = visit[w]
    BY DEF ConsoleTypeOK
  <1>2. \A w \in Visitor \ {v} :
          /\ \A l : On(w, l)' <=> On(w, l)
          /\ \A step : At(w, step)' <=> At(w, step)
          /\ Holds(w)' <=> Holds(w)
          /\ CanOpen(w)' <=> CanOpen(w)
    BY <1>1 DEF On, At, Holds, CanOpen
  <1>3. /\ \A l : On(v, l)' <=> s # NoVisit /\ s.login = l
        /\ \A step : At(v, step)' <=> s # NoVisit /\ s.step = step
        /\ Holds(v)' <=> s # NoVisit /\ s.holds
        /\ CanOpen(v)' <=> s.row.key = replica_key[v]
    BY <1>1 DEF On, At, Holds, CanOpen
  <1>4. NoVisit.step = "idle"
    BY DEF NoVisit
  <1>5. \A l \in Login : Begun(l) => Begun(l)'
    BY DEF FamilyMay
  <1>6. \A w \in Visitor, l \in Login : On(w, l) => Begun(l)
    BY DEF OnlyBegun
  <1>7. s # NoVisit => s.login \in Login
    BY DEF VisitMay, Visit
  <1>8. ConsoleTypeOK'
    <2>1. visit' \in [Visitor -> Visit \cup {NoVisit}]
      BY DEF ConsoleTypeOK, VisitMay
    <2>2. QED
      BY <2>1 DEF ConsoleTypeOK
  <1>9. OnlyBegun'
    <2>1. \A w \in Visitor, l \in Login : On(w, l)' => Begun(l)'
      BY <1>2, <1>3, <1>5, <1>6 DEF VisitMay
    <2>2. \A l \in Login : stored'[l] # NoRow => Begun(l)'
      BY <1>5 DEF OnlyBegun
    <2>3. QED
      BY <2>1, <2>2 DEF OnlyBegun
  <1>10. ExchangedAlone'
    <2>1. SUFFICES ASSUME NEW w \in Visitor, NEW l \in Login, At(w, "exchanged")', On(w, l)'
                   PROVE  /\ stored[l] = NoRow
                          /\ visit'[w].row.pair = 1 /\ ~visit'[w].row.stale /\ ~visit'[w].row.expired
                          /\ family'[l].live = 1 \/ l \in lost'
                          /\ \A x \in Visitor \ {w} : ~On(x, l)'
      BY DEF ExchangedAlone
    <2>2. w # v
      BY <1>3, <2>1 DEF VisitMay
    <2>3. /\ stored[l] = NoRow
          /\ visit[w].row.pair = 1 /\ ~visit[w].row.stale /\ ~visit[w].row.expired
          /\ family[l].live = 1 \/ l \in lost
          /\ \A x \in Visitor \ {w} : ~On(x, l)
          /\ At(w, "exchanged") /\ On(w, l)
      BY <1>2, <2>1, <2>2 DEF ExchangedAlone
    <2>4. ~(s # NoVisit /\ s.login = l)
      BY <2>2, <2>3 DEF VisitMay
    <2>5. family'[l].live = 1 \/ l \in lost'
      BY <2>3, <2>4 DEF FamilyMay
    <2>6. \A x \in Visitor \ {w} : ~On(x, l)'
      BY <1>2, <1>3, <2>3, <2>4
    <2>7. QED
      BY <1>1, <2>2, <2>3, <2>5, <2>6
  <1>11. LocksShown'
    <2>1. SUFFICES ASSUME NEW w \in Visitor
                   PROVE  /\ visit'[w].step \in Locking => Holds(w)'
                          /\ Holds(w)' => /\ visit'[w].step \in Locking \cup {"dropping"}
                                          /\ stored[visit'[w].login] = visit'[w].row
                                          /\ ~visit'[w].row.expired
                          /\ visit'[w].step \in {"posted", "rotated"} =>
                               visit'[w].kind = "request" /\ visit'[w].row.stale
                          /\ At(w, "rotated")' => visit'[w].pair # 0
      BY DEF LocksShown, Locking
    <2>2. CASE w # v
      BY <1>1, <1>2, <2>2 DEF LocksShown
    <2>3. CASE w = v
      <3>1. CASE s = NoVisit
        BY <1>1, <1>3, <1>4, <2>3, <3>1 DEF Locking
      <3>2. CASE s # NoVisit
        BY <1>1, <1>3, <2>3, <3>2 DEF VisitMay
      <3>3. QED
        BY <3>1, <3>2
    <2>4. QED
      BY <2>2, <2>3
  <1>12. LocksApart'
    BY <1>2, <1>3 DEF LocksApart, VisitMay
  <1>13. StaleRotates'
    BY DEF StaleRotates
  <1>14. RowIsLive'
    <2>1. SUFFICES ASSUME NEW l \in Login, stored[l] # NoRow, family'[l].state = "live", l \notin lost'
                   PROVE  \/ stored[l].pair = family'[l].live
                          \/ \E w \in Visitor : At(w, "rotated")' /\ On(w, l)'
      BY DEF RowIsLive
    <2>2. family[l].state = "live" /\ l \notin lost
      BY <2>1 DEF FamilyMay, OnlyBegun
    <2>3. CASE \E w \in Visitor : At(w, "rotated") /\ On(w, l)
      <3>1. PICK w \in Visitor : At(w, "rotated") /\ On(w, l)
        BY <2>3
      <3>2. w # v
        BY <2>1, <3>1 DEF On
      <3>3. QED
        BY <1>2, <3>1, <3>2
    <2>4. CASE s # NoVisit /\ s.step = "rotated" /\ s.login = l
      BY <1>3, <2>4
    <2>5. CASE /\ ~\E w \in Visitor : At(w, "rotated") /\ On(w, l)
               /\ ~(s # NoVisit /\ s.step = "rotated" /\ s.login = l)
      <3>1. stored[l].pair = family[l].live
        BY <2>1, <2>2, <2>5 DEF RowIsLive
      <3>2. family'[l].live = family[l].live
        BY <2>1, <2>5 DEF FamilyMay
      <3>3. QED
        BY <3>1, <3>2
    <2>6. QED
      BY <2>3, <2>4, <2>5
  <1>15. RotatedIsLive'
    <2>1. SUFFICES ASSUME NEW w \in Visitor, NEW l \in Login, At(w, "rotated")', On(w, l)',
                          family'[l].state = "live", l \notin lost'
                   PROVE  visit'[w].pair = family'[l].live
      BY DEF RotatedIsLive
    <2>2. CASE w = v
      BY <1>1, <1>3, <2>1, <2>2 DEF VisitMay
    <2>3. CASE w # v
      <3>1. At(w, "rotated") /\ On(w, l) /\ visit'[w] = visit[w]
        BY <1>1, <1>2, <2>1, <2>3
      <3>2. family[l].state = "live" /\ l \notin lost
        BY <1>6, <2>1, <3>1 DEF FamilyMay
      <3>3. visit[w].pair = family[l].live
        BY <3>1, <3>2 DEF RotatedIsLive
      <3>4. Holds(w)
        BY <3>1 DEF LocksShown, Locking, At
      <3>5. ~(s # NoVisit /\ s.step = "rotated" /\ s.login = l)
        BY <2>3, <3>1, <3>4 DEF VisitMay, Locking
      <3>6. QED
        BY <2>1, <3>1, <3>3, <3>5 DEF FamilyMay
    <2>4. QED
      BY <2>2, <2>3
  <1>16. Cause'
    <2>1. SUFFICES ASSUME NEW w \in Visitor, NEW l \in Login, On(w, l)',
                          visit'[w].step \in {"refused", "dropping"}
                   PROVE  family'[l].state # "live" \/ ~CanOpen(w)'
      BY DEF Cause
    <2>2. CASE w = v
      BY <1>1, <1>3, <1>4, <2>1, <2>2 DEF VisitMay
    <2>3. CASE w # v
      <3>1. On(w, l) /\ visit[w].step \in {"refused", "dropping"} /\ Begun(l)
        BY <1>1, <1>2, <1>6, <2>1, <2>3
      <3>2. family[l].state # "live" \/ ~CanOpen(w)
        BY <3>1 DEF Cause
      <3>3. QED
        BY <1>2, <2>3, <3>1, <3>2 DEF FamilyMay
    <2>4. QED
      BY <2>2, <2>3
  <1>17. ReusedOnlyAfterLoss'
    BY DEF ReusedOnlyAfterLoss, FamilyMay
  <1>18. QED
    BY <1>8, <1>9, <1>10, <1>11, <1>12, <1>13, <1>14, <1>15, <1>16, <1>17

\* The same where the platform does nothing.
LEMMA QuietMove ==
  ASSUME ConsoleInv, NEW v \in Visitor, NEW s,
         visit' = [visit EXCEPT ![v] = s], s = NoVisit \/ VisitMay(v, s),
         UNCHANGED <<family, stored, replica_key, abandoned, lost, reported>>,
         ~At(v, "rotated")
  PROVE  ConsoleInv'
  <1>1. \A l \in Login : FamilyMay(l, s)
    BY DEF FamilyMay, Begun
  <1>2. /\ family' \in [Login -> Family]
        /\ lost \subseteq lost' /\ lost' \subseteq Login
        /\ abandoned' \subseteq Login \X (1..MaxPair) /\ AbandonedIsLost'
    BY DEF ConsoleInv, ConsoleTypeOK, AbandonedIsLost
  <1>3. QED
    BY <1>1, <1>2, VisitMoves

\* A visit knows its login, and others do not have its lock.
LEMMA Continues ==
  ASSUME ConsoleInv, NEW v \in Visitor, visit[v].step # "idle"
  PROVE  /\ visit[v] # NoVisit /\ visit[v] \in Visit
         /\ visit[v].login \in Login /\ visit[v].row \in Row
         /\ visit[v].pair \in 0..MaxPair /\ visit[v].holds \in BOOLEAN
         /\ Begun(visit[v].login)
         /\ \A w \in Visitor \ {v} : At(w, "exchanged") => ~On(w, visit[v].login)
         /\ visit[v].holds => /\ visit[v].step \in Locking \cup {"dropping"}
                              /\ stored[visit[v].login] = visit[v].row
                              /\ ~visit[v].row.expired
                              /\ \A w \in Visitor \ {v} : Holds(w) => ~On(w, visit[v].login)
  <1> USE DEF ConsoleInv
  <1>1. /\ visit[v] # NoVisit /\ visit[v] \in Visit
        /\ visit[v].login \in Login /\ visit[v].row \in Row
        /\ visit[v].pair \in 0..MaxPair /\ visit[v].holds \in BOOLEAN
    BY VisitTyped
  <1>2. On(v, visit[v].login)
    BY <1>1 DEF On
  <1>3. Begun(visit[v].login) /\ \A w \in Visitor \ {v} : At(w, "exchanged") => ~On(w, visit[v].login)
    BY <1>1, <1>2 DEF OnlyBegun, ExchangedAlone
  <1>4. visit[v].holds => Holds(v)
    BY <1>1 DEF Holds
  <1>5. QED
    BY <1>1, <1>2, <1>3, <1>4 DEF LocksShown, LocksApart

LEMMA FindKeeps ==
  ASSUME ConsoleInv, NEW v \in Visitor, NEW l \in Login, NEW kind \in {"request", "logout"},
         Find(v, l, kind)
  PROVE  ConsoleInv'
  <1>1. PICK s : s = [step |-> "found", kind |-> kind, login |-> l, row |-> stored[l],
                      pair |-> 0, holds |-> FALSE]
    OBVIOUS
  <1>2. stored[l] \in Row /\ stored[l] # NoRow
    BY DEF Find, Exists, ConsoleInv, ConsoleTypeOK
  <1>3. s \in Visit /\ s.step = "found" /\ s.login = l /\ ~s.holds
    BY <1>1, <1>2, ConsoleAssumption DEF Visit
  <1>4. Begun(l) /\ \A w \in Visitor \ {v} : At(w, "exchanged") => ~On(w, l)
    BY <1>2 DEF ConsoleInv, OnlyBegun, ExchangedAlone
  <1>5. VisitMay(v, s)
    BY <1>3, <1>4 DEF VisitMay, Locking
  <1>6. ~At(v, "rotated")
    BY DEF Find, At
  <1>7. visit' = [visit EXCEPT ![v] = s] /\ UNCHANGED <<family, stored, replica_key, abandoned, lost, reported>>
    BY <1>1 DEF Find
  <1>8. QED
    BY <1>5, <1>6, <1>7, QuietMove

\* A visit that takes one more step as it is.
LEMMA StepKeeps ==
  ASSUME ConsoleInv, NEW v \in Visitor, visit[v].step # "idle", visit[v].step # "rotated",
         NEW step \in Steps, Step(v, step),
         step \notin {"exchanged", "rotated"},
         visit[v].holds => step \in Locking \cup {"dropping"},
         step \in Locking => visit[v].holds,
         step = "posted" => visit[v].kind = "request" /\ visit[v].row.stale,
         step \in {"refused", "dropping"} => family[visit[v].login].state # "live" \/ ~CanOpen(v),
         UNCHANGED <<family, stored, replica_key, abandoned, lost, reported>>
  PROVE  ConsoleInv'
  <1>1. PICK s : s = [visit[v] EXCEPT !.step = step]
    OBVIOUS
  <1>2. /\ s \in Visit /\ s.step = step /\ s.kind = visit[v].kind /\ s.login = visit[v].login
        /\ s.row = visit[v].row /\ s.holds = visit[v].holds
    BY <1>1, Continues, StepSet
  <1>3. VisitMay(v, s)
    BY <1>2, Continues DEF VisitMay, CanOpen
  <1>4. visit' = [visit EXCEPT ![v] = s] /\ ~At(v, "rotated")
    BY <1>1 DEF Step, At, ConsoleInv, ConsoleTypeOK
  <1>5. QED
    BY <1>3, <1>4, QuietMove

\* The access token is opened, or cannot be.
LEMMA OpenKeeps ==
  ASSUME ConsoleInv, NEW v \in Visitor, visit[v].step # "idle", visit[v].step # "rotated",
         OpenAccess(v), UNCHANGED <<family, stored, replica_key, abandoned, lost, reported>>
  PROVE  ConsoleInv'
  <1>1. PICK open \in BOOLEAN : open <=> CanOpen(v)
    OBVIOUS
  <1>2. PICK holds \in BOOLEAN : holds <=> visit[v].holds /\ ~open
    OBVIOUS
  <1>3. PICK step \in {"introspect", "dropping"} : step = IF open THEN "introspect" ELSE "dropping"
    OBVIOUS
  <1>4. PICK t : t = [visit[v] EXCEPT !.step = step]
    OBVIOUS
  <1>5. PICK s : s = [t EXCEPT !.holds = holds]
    OBVIOUS
  <1>6. step \in Steps
    BY DEF Steps
  <1>7. /\ t \in Visit /\ t.step = step /\ t.login = visit[v].login
        /\ t.row = visit[v].row /\ t.holds = visit[v].holds
    BY <1>4, <1>6, Continues, StepSet
  <1>8. /\ s \in Visit /\ s.step = step /\ s.login = visit[v].login
        /\ s.row = visit[v].row /\ s.holds = holds
    BY <1>5, <1>7, HoldsSet
  <1>9. holds => visit[v].holds /\ step = "dropping"
    BY <1>2, <1>3
  <1>10. step = "dropping" => ~CanOpen(v)
    BY <1>1, <1>3
  <1>11. VisitMay(v, s)
    BY <1>8, <1>9, <1>10, Continues DEF VisitMay, CanOpen, Locking
  <1>12. visit' = [visit EXCEPT ![v] = s]
    <2>1. (visit[v].holds /\ ~CanOpen(v)) = holds
      BY <1>1, <1>2, Continues
    <2>2. visit' = [visit EXCEPT ![v].step = step, ![v].holds = @ /\ ~CanOpen(v)]
      BY <1>1, <1>3 DEF OpenAccess
    <2>3. visit' = [visit EXCEPT ![v] = [t EXCEPT !.holds = visit[v].holds /\ ~CanOpen(v)]]
      BY <1>4, <1>7, <2>2 DEF ConsoleInv, ConsoleTypeOK
    <2>4. QED
      BY <1>5, <2>1, <2>3
  <1>13. ~At(v, "rotated")
    BY DEF At
  <1>14. QED
    BY <1>11, <1>12, <1>13, QuietMove

LEMMA UseFoundKeeps ==
  ASSUME ConsoleInv, NEW v \in Visitor, UseFound(v)
  PROVE  ConsoleInv'
  <1>1. visit[v].step = "found" /\ ~visit[v].holds
    BY Continues DEF UseFound, Locking
  <1>2. UNCHANGED <<family, stored, replica_key, abandoned, lost, reported>>
    BY DEF UseFound
  <1>3. CASE OpenAccess(v)
    BY <1>1, <1>2, <1>3, OpenKeeps
  <1>4. CASE Step(v, "queued")
    BY <1>1, <1>2, <1>4, StepKeeps DEF Steps, Locking
  <1>5. QED
    BY <1>3, <1>4 DEF UseFound

\* Who gets the lock reads the row again.
LEMMA LockKeeps ==
  ASSUME ConsoleInv, NEW v \in Visitor, LockSession(v)
  PROVE  ConsoleInv'
  <1>1. PICK l \in Login : l = visit[v].login
    BY Continues DEF LockSession
  <1>2. /\ visit[v].step = "queued" /\ ~At(v, "rotated")
        /\ UNCHANGED <<family, stored, replica_key, abandoned, lost, reported>>
    BY DEF LockSession, At
  <1>3. CASE ~Exists(l)
    BY <1>1, <1>2, <1>3, QuietMove DEF LockSession, End
  <1>4. CASE Exists(l)
    <2>1. PICK s1 : s1 = [visit[v] EXCEPT !.step = "locked"]
      OBVIOUS
    <2>2. PICK s2 : s2 = [s1 EXCEPT !.row = stored[l]]
      OBVIOUS
    <2>0. PICK holds \in BOOLEAN : holds = TRUE
      OBVIOUS
    <2>3. PICK s : s = [s2 EXCEPT !.holds = holds]
      OBVIOUS
    <2>4. stored[l] \in Row /\ ~stored[l].expired
      BY <1>4 DEF Exists, ConsoleInv, ConsoleTypeOK
    <2>5. s1 \in Visit /\ s1.step = "locked" /\ s1.login = l
      BY <1>1, <1>2, <2>1, Continues, StepSet DEF Steps
    <2>6. s2 \in Visit /\ s2.step = "locked" /\ s2.login = l /\ s2.row = stored[l]
      BY <2>2, <2>4, <2>5, RowSet
    <2>7. s \in Visit /\ s.step = "locked" /\ s.login = l /\ s.row = stored[l] /\ s.holds = holds
      <3>1. holds \in BOOLEAN
        BY <2>0
      <3>2. QED
        BY <2>3, <2>6, <3>1, HoldsSet
    <2>8. visit' = [visit EXCEPT ![v] = s]
      <3>1. visit' = [visit EXCEPT ![v].step = "locked", ![v].row = stored[l], ![v].holds = TRUE]
        BY <1>1, <1>4 DEF LockSession, Reread
      <3>2. visit' = [visit EXCEPT ![v] = [s2 EXCEPT !.holds = TRUE]]
        BY <2>1, <2>2, <3>1 DEF ConsoleInv, ConsoleTypeOK
      <3>3. QED
        BY <2>0, <2>3, <3>2
    <2>9. \A w \in Visitor \ {v} : Holds(w) => ~On(w, l)
      BY <1>1 DEF LockSession, Unlocked, Holds, On
    <2>10. VisitMay(v, s)
      <3>1. s.holds
        BY <2>0, <2>7
      <3>2. QED
        BY <1>1, <1>2, <2>4, <2>7, <2>9, <3>1, Continues DEF VisitMay, Locking
    <2>11. QED
      BY <1>2, <2>8, <2>10, QuietMove
  <1>5. QED
    BY <1>3, <1>4

LEMMA RefreshKeeps ==
  ASSUME ConsoleInv, NEW v \in Visitor, Refresh(v)
  PROVE  ConsoleInv'
  <1>1. /\ visit[v].step = "locked" /\ visit[v].kind = "request" /\ visit[v].holds
        /\ UNCHANGED <<family, stored, replica_key, abandoned, lost, reported>>
    BY DEF Refresh, ConsoleInv, LocksShown, Locking, Holds
  <1>2. CASE ~NeedsRefresh(v)
    BY <1>1, <1>2, OpenKeeps DEF Refresh
  <1>3. CASE NeedsRefresh(v) /\ CanOpen(v)
    <2>1. Step(v, "posted") /\ visit[v].row.stale
      BY <1>3 DEF Refresh, NeedsRefresh
    <2>2. QED
      BY <1>1, <2>1, StepKeeps DEF Steps, Locking
  <1>4. CASE NeedsRefresh(v) /\ ~CanOpen(v)
    <2>1. Step(v, "refused")
      BY <1>4 DEF Refresh
    <2>2. QED
      BY <1>1, <1>4, <2>1, StepKeeps DEF Steps, Locking
  <1>5. QED
    BY <1>2, <1>3, <1>4

LEMMA KeepKeeps ==
  ASSUME ConsoleInv, NEW v \in Visitor, KeepSession(v)
  PROVE  ConsoleInv'
  BY QuietMove DEF KeepSession, End, At

LEMMA IntrospectKeeps ==
  ASSUME ConsoleInv, NEW v \in Visitor, Introspect(v)
  PROVE  ConsoleInv'
  <1>1. /\ visit[v].step = "introspect" /\ ~visit[v].holds /\ ~At(v, "rotated")
        /\ UNCHANGED <<family, stored, replica_key, abandoned, lost, reported>>
    BY Continues DEF Introspect, Locking, At
  <1>2. CASE family[visit[v].login].state = "live"
    BY <1>1, <1>2, QuietMove DEF Introspect, End
  <1>3. CASE family[visit[v].login].state # "live"
    <2>1. Step(v, "dropping")
      BY <1>3 DEF Introspect
    <2>2. QED
      BY <1>1, <1>3, <2>1, StepKeeps DEF Steps, Locking
  <1>4. QED
    BY <1>2, <1>3

LEMMA DisconnectKeeps ==
  ASSUME ConsoleInv, NEW v \in Visitor, Disconnect(v)
  PROVE  ConsoleInv'
  <1>1. ~At(v, "rotated")
    BY DEF Disconnect, DroppedWithRequest, At, ConsoleInv, LocksShown, Locking, Holds
  <1>2. QED
    BY <1>1, QuietMove DEF Disconnect, End

\* A visit that is cut short while the platform may still act on its post.
LEMMA CutShort ==
  ASSUME ConsoleInv, NEW v \in Visitor, NEW s,
         visit' = [visit EXCEPT ![v] = s], s = NoVisit \/ VisitMay(v, s),
         UNCHANGED <<family, stored, replica_key, reported>>,
         visit[v].step # "idle",
         lost' \in {lost, lost \cup {visit[v].login}},
         visit[v].step = "rotated" => lost' = lost \cup {visit[v].login},
         \/ abandoned' = abandoned
         \/ /\ visit[v].step = "posted"
            /\ abandoned' = abandoned \cup {<<visit[v].login, visit[v].row.pair>>}
            /\ lost' = lost \cup {visit[v].login}
  PROVE  ConsoleInv'
  <1> USE DEF ConsoleInv
  <1>1. visit[v].login \in Login /\ visit[v].row \in Row
    BY Continues
  <1>2. \A l \in Login : FamilyMay(l, s)
    BY DEF FamilyMay, Begun
  <1>3. family' \in [Login -> Family] /\ lost \subseteq lost' /\ lost' \subseteq Login
    BY <1>1 DEF ConsoleTypeOK
  <1>4. visit[v].row.pair \in 1..MaxPair
    BY <1>1, NoRowIsNone
  <1>5. abandoned' \subseteq Login \X (1..MaxPair)
    BY <1>1, <1>4 DEF ConsoleTypeOK
  <1>6. visit[v].step = "posted" => visit[v].row.pair < MaxPair
    <2>1. SUFFICES ASSUME visit[v].step = "posted"
                   PROVE  visit[v].row.pair < MaxPair
      OBVIOUS
    <2>2. Holds(v) /\ stored[visit[v].login] = visit[v].row /\ visit[v].row.stale
      BY <2>1 DEF LocksShown, Locking
    <2>3. QED
      BY <1>1, <2>2, NoRowIsNone DEF StaleRotates
  <1>7. AbandonedIsLost'
    BY <1>3, <1>6 DEF AbandonedIsLost
  <1>8. At(v, "rotated") => visit[v].login \in lost'
    BY DEF At
  <1>9. QED
    BY <1>2, <1>3, <1>5, <1>7, <1>8, VisitMoves

LEMMA NoAnswerKeeps ==
  ASSUME ConsoleInv, NEW v \in Visitor, NoAnswer(v)
  PROVE  ConsoleInv'
  <1>1. PICK s : s = [visit[v] EXCEPT !.step = "unavailable"]
    OBVIOUS
  <1>2. /\ visit[v].step = "posted" /\ visit[v].holds
        /\ UNCHANGED <<family, stored, replica_key, reported>>
        /\ visit' = [visit EXCEPT ![v] = s]
    <2>1. visit[v].step = "posted" /\ UNCHANGED <<family, stored, replica_key, reported>>
      BY DEF NoAnswer
    <2>2. visit[v].holds
      BY <2>1 DEF ConsoleInv, LocksShown, Locking, Holds
    <2>3. visit' = [visit EXCEPT ![v] = s]
      BY <1>1 DEF NoAnswer, Step, ConsoleInv, ConsoleTypeOK
    <2>4. QED
      BY <2>1, <2>2, <2>3
  <1>3. /\ s \in Visit /\ s.step = "unavailable" /\ s.login = visit[v].login
        /\ s.row = visit[v].row /\ s.holds = visit[v].holds
    <2>1. visit[v] \in Visit /\ "unavailable" \in Steps
      BY <1>2, Continues DEF Steps
    <2>2. QED
      BY <1>1, <2>1, StepSet
  <1>4. VisitMay(v, s)
    BY <1>2, <1>3, Continues DEF VisitMay, Locking
  <1>5. \/ abandoned' = abandoned /\ lost' = lost
        \/ /\ abandoned' = abandoned \cup {<<visit[v].login, visit[v].row.pair>>}
           /\ lost' = lost \cup {visit[v].login}
    BY DEF NoAnswer
  <1>6. QED
    BY <1>2, <1>4, <1>5, CutShort

LEMMA KilledKeeps ==
  ASSUME ConsoleInv, NEW v \in Visitor, Killed(v)
  PROVE  ConsoleInv'
  <1>1. visit[v].step # "idle"
    BY DEF Killed, ConsoleInv, ConsoleTypeOK, Visit
  <1>2. visit' = [visit EXCEPT ![v] = NoVisit] /\ UNCHANGED <<family, stored, replica_key, reported>>
    BY DEF Killed, End
  <1>3. /\ lost' = IF visit[v].step \in {"posted", "rotated"} THEN lost \cup {visit[v].login} ELSE lost
        /\ abandoned' = IF visit[v].step = "posted"
                        THEN abandoned \cup {<<visit[v].login, visit[v].row.pair>>} ELSE abandoned
    BY DEF Killed
  <1>4. QED
    BY <1>1, <1>2, <1>3, CutShort

-----------------------------------------------------------------------------
(* The platform. *)

\* A stale row that is locked has the pair that is live, or the login has lost one.
LEMMA LockedIsLive ==
  ASSUME ConsoleInv, NEW v \in Visitor, visit[v].step \in Locking \ {"rotated"},
         NEW l \in Login, l = visit[v].login,
         family[l].state = "live", l \notin lost
  PROVE  visit[v].row.pair = family[l].live
  <1> USE DEF ConsoleInv
  <1>1. visit[v] # NoVisit /\ visit[v].row \in Row /\ visit[v].holds
    BY Continues DEF LocksShown, Locking, Holds, NoVisit
  <1>2. Holds(v) /\ On(v, l) /\ stored[l] = visit[v].row
    BY <1>1 DEF Holds, On, LocksShown
  <1>3. stored[l] # NoRow
    BY <1>1, <1>2, NoRowIsNone
  <1>4. ~\E w \in Visitor : At(w, "rotated") /\ On(w, l)
    <2>1. SUFFICES ASSUME NEW w \in Visitor, At(w, "rotated"), On(w, l)
                   PROVE  FALSE
      OBVIOUS
    <2>2. Holds(w) /\ w # v
      BY <2>1 DEF LocksShown, Locking, At
    <2>3. QED
      BY <1>2, <2>1, <2>2 DEF LocksApart
  <1>5. QED
    BY <1>2, <1>3, <1>4 DEF RowIsLive

\* The platform's record of a login, after a refresh token of it was presented.
LEMMA PresentedTyped ==
  ASSUME ConsoleTypeOK, NEW l \in Login, NEW pair \in 1..MaxPair, pair < MaxPair, Presented(l, pair)
  PROVE  /\ family' \in [Login -> Family]
         /\ \A k \in Login \ {l} : family'[k] = family[k]
         /\ family[l].state # "live" => family'[l] = family[l]
         /\ family[l].state = "live" /\ family[l].live = pair =>
              family'[l].state = "live" /\ family'[l].live = pair + 1
         /\ family[l].state = "live" /\ family[l].live # pair =>
              family'[l].state = "reused" /\ family'[l].live = family[l].live
  <1>1. family[l] \in Family /\ pair + 1 \in 0..MaxPair
    BY ConsoleAssumption DEF ConsoleTypeOK
  <1>2. CASE family[l].state # "live"
    <2>1. family' = [family EXCEPT ![l] = family[l]]
      BY <1>2 DEF Presented
    <2>2. QED
      BY <1>1, <1>2, <2>1 DEF ConsoleTypeOK
  <1>3. CASE family[l].state = "live" /\ family[l].live = pair
    <2>1. PICK f : f = [family[l] EXCEPT !.live = pair + 1]
      OBVIOUS
    <2>2. f \in Family /\ f.state = "live" /\ f.live = pair + 1
      BY <1>1, <1>3, <2>1 DEF Family
    <2>3. family' = [family EXCEPT ![l] = f]
      BY <1>3, <2>1 DEF Presented
    <2>4. QED
      BY <1>3, <2>2, <2>3 DEF ConsoleTypeOK
  <1>4. CASE family[l].state = "live" /\ family[l].live # pair
    <2>1. PICK f : f = [family[l] EXCEPT !.state = "reused"]
      OBVIOUS
    <2>2. f \in Family /\ f.state = "reused" /\ f.live = family[l].live
      BY <1>1, <2>1 DEF Family
    <2>3. family' = [family EXCEPT ![l] = f]
      BY <1>4, <2>1 DEF Presented
    <2>4. QED
      BY <1>4, <2>2, <2>3 DEF ConsoleTypeOK
  <1>5. QED
    BY <1>2, <1>3, <1>4

\* The lock has kept the row's pair the live one, so the platform rotates it,
\* unless the login is over or has lost a rotation.
LEMMA AnswerKeeps ==
  ASSUME ConsoleInv, NEW v \in Visitor, AnswerRefresh(v)
  PROVE  ConsoleInv'
  <1> USE DEF ConsoleInv
  <1>1. PICK l \in Login : l = visit[v].login
    BY Continues DEF AnswerRefresh
  <1>2. PICK pair \in 1..MaxPair : pair = visit[v].row.pair
    BY Continues, NoRowIsNone DEF AnswerRefresh
  <1>3. /\ visit[v].step = "posted" /\ Holds(v)
        /\ visit[v].kind = "request" /\ visit[v].row.stale
        /\ stored[l] = visit[v].row
    BY <1>1 DEF AnswerRefresh, LocksShown, Locking
  <1>4. visit[v].holds /\ visit[v].row \in Row
    BY <1>3, Continues DEF Holds
  <1>5. pair < MaxPair
    BY <1>2, <1>3, <1>4, NoRowIsNone DEF StaleRotates
  <1>6. Presented(l, pair) /\ UNCHANGED <<stored, replica_key, abandoned, lost, reported>>
    BY <1>1, <1>2 DEF AnswerRefresh
  <1>7. /\ family' \in [Login -> Family]
        /\ \A k \in Login \ {l} : family'[k] = family[k]
        /\ family[l].state # "live" => family'[l] = family[l]
        /\ family[l].state = "live" /\ family[l].live = pair =>
             family'[l].state = "live" /\ family'[l].live = pair + 1
        /\ family[l].state = "live" /\ family[l].live # pair =>
             family'[l].state = "reused" /\ family'[l].live = family[l].live
    BY <1>5, <1>6, PresentedTyped
  <1>8. Begun(l)
    BY <1>1, <1>3, Continues
  <1>9. family[l].state = "live" /\ l \notin lost => family[l].live = pair
    BY <1>1, <1>2, <1>3, LockedIsLive DEF Locking
  <1>10. PICK rotated \in BOOLEAN : rotated <=> family[l].state = "live" /\ family[l].live = pair
    OBVIOUS
  <1>11. PICK step \in {"rotated", "refused"} : step = IF rotated THEN "rotated" ELSE "refused"
    OBVIOUS
  <1>12. PICK next \in 0..MaxPair : next = IF rotated THEN pair + 1 ELSE 0
    BY <1>5, ConsoleAssumption
  <1>13. PICK t : t = [visit[v] EXCEPT !.step = step]
    OBVIOUS
  <1>14. PICK s : s = [t EXCEPT !.pair = next]
    OBVIOUS
  <1>15. /\ t \in Visit /\ t.step = step /\ t.kind = visit[v].kind /\ t.login = l
         /\ t.row = visit[v].row /\ t.holds = visit[v].holds
    BY <1>1, <1>3, <1>13, Continues, StepSet DEF Steps
  <1>16. /\ s \in Visit /\ s.step = step /\ s.kind = visit[v].kind /\ s.login = l
         /\ s.row = visit[v].row /\ s.holds = visit[v].holds /\ s.pair = next
    BY <1>14, <1>15, PairSet
  <1>17. visit' = [visit EXCEPT ![v] = s]
    <2>1. visit' = [visit EXCEPT ![v].step = step, ![v].pair = next]
      BY <1>1, <1>2, <1>10, <1>11, <1>12 DEF AnswerRefresh
    <2>2. visit' = [visit EXCEPT ![v] = [t EXCEPT !.pair = next]]
      BY <1>13, <2>1 DEF ConsoleTypeOK
    <2>3. QED
      BY <1>14, <2>2
  <1>18. step = "rotated" => next # 0 /\ family'[l].live = next
    BY <1>7, <1>10, <1>11, <1>12
  <1>19. step = "refused" => family'[l].state # "live"
    BY <1>7, <1>10, <1>11
  <1>20. VisitMay(v, s)
    BY <1>1, <1>3, <1>4, <1>8, <1>16, <1>18, <1>19, Continues DEF VisitMay, Locking
  <1>21. \A k \in Login : FamilyMay(k, s)
    <2>1. FamilyMay(l, s)
      <3>1. Begun(l)' /\ (family'[l].state = "live" => family[l].state = "live")
        BY <1>7, <1>8 DEF Begun
      <3>2. family'[l].state = "reused" => family[l].state = "reused" \/ l \in lost'
        BY <1>6, <1>7, <1>9
      <3>3. family'[l].live = family[l].live \/ (s # NoVisit /\ s.step = "rotated" /\ s.login = l)
        BY <1>7, <1>10, <1>11, <1>16 DEF NoVisit
      <3>4. QED
        BY <3>1, <3>2, <3>3 DEF FamilyMay
    <2>2. \A k \in Login \ {l} : FamilyMay(k, s)
      BY <1>7 DEF FamilyMay, Begun
    <2>3. QED
      BY <2>1, <2>2
  <1>22. /\ lost \subseteq lost' /\ lost' \subseteq Login
         /\ abandoned' \subseteq Login \X (1..MaxPair) /\ AbandonedIsLost'
    BY <1>6 DEF ConsoleTypeOK, AbandonedIsLost
  <1>23. ~At(v, "rotated")
    BY <1>3 DEF At
  <1>24. QED
    BY <1>6, <1>7, <1>17, <1>20, <1>21, <1>22, <1>23, VisitMoves

LEMMA RevokeKeeps ==
  ASSUME ConsoleInv, NEW v \in Visitor, RevokeToken(v)
  PROVE  ConsoleInv'
  <1> USE DEF ConsoleInv
  <1>1. PICK l \in Login : l = visit[v].login
    BY Continues DEF RevokeToken
  <1>2. /\ visit[v].step = "locked" /\ Holds(v)
        /\ UNCHANGED <<stored, replica_key, abandoned, lost, reported>>
    BY DEF RevokeToken, LocksShown, Locking
  <1>3. PICK s : s = [visit[v] EXCEPT !.step = "signing_out"]
    OBVIOUS
  <1>4. /\ s \in Visit /\ s.step = "signing_out" /\ s.login = l
        /\ s.row = visit[v].row /\ s.holds = visit[v].holds
    BY <1>1, <1>2, <1>3, Continues, StepSet DEF Steps
  <1>5. visit' = [visit EXCEPT ![v] = s]
    BY <1>3 DEF RevokeToken, Step, ConsoleTypeOK
  <1>6. Begun(l)
    BY <1>1, <1>2, Continues
  <1>7. VisitMay(v, s)
    BY <1>1, <1>2, <1>4, <1>6, Continues DEF VisitMay, Locking, Holds
  <1>8. family' = family \/ family' = [family EXCEPT ![l].state = IF @ = "live" THEN "revoked" ELSE @]
    BY <1>1 DEF RevokeToken
  <1>9. /\ family' \in [Login -> Family]
        /\ \A k \in Login \ {l} : family'[k] = family[k]
        /\ family'[l].live = family[l].live
        /\ family'[l].state \in {family[l].state, "revoked"}
    <2>1. PICK f : f = [family[l] EXCEPT !.state = "revoked"]
      OBVIOUS
    <2>2. family[l] \in Family
      BY DEF ConsoleTypeOK
    <2>3. f \in Family /\ f.live = family[l].live /\ f.state = "revoked"
      BY <2>1, <2>2 DEF Family
    <2>4. [family[l] EXCEPT !.state = family[l].state] = family[l]
      BY <2>2 DEF Family
    <2>5. family' = family \/ family' = [family EXCEPT ![l] = f]
      BY <1>8, <2>1, <2>4 DEF ConsoleTypeOK
    <2>6. QED
      BY <2>3, <2>5 DEF ConsoleTypeOK
  <1>10. \A k \in Login : FamilyMay(k, s)
    BY <1>9 DEF FamilyMay, Begun
  <1>11. /\ lost \subseteq lost' /\ lost' \subseteq Login
         /\ abandoned' \subseteq Login \X (1..MaxPair) /\ AbandonedIsLost'
    BY <1>2 DEF ConsoleTypeOK, AbandonedIsLost
  <1>12. ~At(v, "rotated")
    BY <1>2 DEF At
  <1>13. QED
    BY <1>2, <1>5, <1>7, <1>9, <1>10, <1>11, <1>12, VisitMoves

\* The platform changes its record of one login, and nothing happens here.
LEMMA FamilyMoves ==
  ASSUME ConsoleInv, NEW l \in Login, family' \in [Login -> Family],
         \A k \in Login \ {l} : family'[k] = family[k],
         UNCHANGED <<stored, visit, replica_key, lost, reported>>, abandoned' \subseteq abandoned,
         Begun(l) => Begun(l)',
         family'[l].state = "live" => family[l].state = "live",
         family'[l].state = "reused" => family[l].state = "reused" \/ l \in lost,
         family'[l].live = family[l].live \/ l \in lost
  PROVE  ConsoleInv'
  <1> USE DEF ConsoleInv
  <1>1. /\ \A v, k : On(v, k)' <=> On(v, k)
        /\ \A v, step : At(v, step)' <=> At(v, step)
        /\ \A v : (Holds(v)' <=> Holds(v)) /\ (CanOpen(v)' <=> CanOpen(v))
    BY DEF On, At, Holds, CanOpen
  <1>2. \A k \in Login : Begun(k) => Begun(k)'
    BY DEF Begun
  <1>3. ConsoleTypeOK' /\ AbandonedIsLost'
    BY DEF ConsoleTypeOK, AbandonedIsLost
  <1>4. OnlyBegun'
    BY <1>1, <1>2 DEF OnlyBegun
  <1>5. ExchangedAlone'
    BY <1>1 DEF ExchangedAlone
  <1>6. LocksShown' /\ LocksApart' /\ StaleRotates'
    BY <1>1 DEF LocksShown, LocksApart, StaleRotates
  <1>7. RowIsLive' /\ RotatedIsLive'
    BY <1>1 DEF RowIsLive, RotatedIsLive
  <1>8. Cause'
    BY <1>1 DEF Cause
  <1>9. ReusedOnlyAfterLoss'
    BY DEF ReusedOnlyAfterLoss
  <1>10. QED
    BY <1>3, <1>4, <1>5, <1>6, <1>7, <1>8, <1>9

LEMMA StateSet ==
  ASSUME ConsoleTypeOK, NEW l \in Login,
         NEW state \in {"none", "started", "live", "revoked", "reused"},
         family' = [family EXCEPT ![l].state = state]
  PROVE  /\ family' \in [Login -> Family]
         /\ \A k \in Login \ {l} : family'[k] = family[k]
         /\ family'[l].state = state /\ family'[l].live = family[l].live
  <1>1. PICK f : f = [family[l] EXCEPT !.state = state]
    OBVIOUS
  <1>2. f \in Family /\ f.state = state /\ f.live = family[l].live
    BY <1>1 DEF ConsoleTypeOK, Family
  <1>3. family' = [family EXCEPT ![l] = f]
    BY <1>1 DEF ConsoleTypeOK
  <1>4. QED
    BY <1>2, <1>3 DEF ConsoleTypeOK

LEMMA PlatformKeepsLogins ==
  ASSUME ConsoleInv, NEW l \in Login, StartLogin(l) \/ FlowExpires(l) \/ PlatformRevokes(l)
  PROVE  ConsoleInv'
  <1>1. UNCHANGED <<stored, visit, replica_key, abandoned, lost, reported>>
    BY DEF StartLogin, FlowExpires, PlatformRevokes
  <1>2. CASE StartLogin(l)
    BY <1>1, <1>2, StateSet, FamilyMoves DEF StartLogin, Begun, ConsoleInv
  <1>3. CASE FlowExpires(l)
    BY <1>1, <1>3, StateSet, FamilyMoves DEF FlowExpires, Begun, ConsoleInv
  <1>4. CASE PlatformRevokes(l)
    BY <1>1, <1>4, StateSet, FamilyMoves DEF PlatformRevokes, Begun, ConsoleInv
  <1>5. QED
    BY <1>2, <1>3, <1>4

LEMMA LateKeeps ==
  ASSUME ConsoleInv, NEW l \in Login, NEW pair \in 1..MaxPair, LateRefresh(l, pair)
  PROVE  ConsoleInv'
  <1>1. /\ l \in lost /\ pair < MaxPair
        /\ Presented(l, pair) /\ abandoned' \subseteq abandoned
        /\ UNCHANGED <<stored, visit, replica_key, lost, reported>>
    BY DEF LateRefresh, ConsoleInv, AbandonedIsLost
  <1>2. /\ family' \in [Login -> Family]
        /\ \A k \in Login \ {l} : family'[k] = family[k]
        /\ family[l].state # "live" => family'[l] = family[l]
        /\ family[l].state = "live" => family'[l].state \in {"live", "reused"}
    BY <1>1, PresentedTyped DEF ConsoleInv
  <1>3. Begun(l) => Begun(l)'
    BY <1>2 DEF Begun
  <1>4. QED
    BY <1>1, <1>2, <1>3, FamilyMoves

-----------------------------------------------------------------------------
(* Signing in. *)

LEMMA ExchangeKeeps ==
  ASSUME ConsoleInv, NEW v \in Visitor, NEW l \in Login, ExchangeCode(v, l)
  PROVE  ConsoleInv'
  <1> USE DEF ConsoleInv
  <1>1. PICK row : row = [pair |-> 1, key |-> replica_key[v], stale |-> FALSE, expired |-> FALSE]
    OBVIOUS
  <1>2. row \in Row /\ row.pair = 1 /\ ~row.stale /\ ~row.expired
    BY <1>1, ConsoleAssumption DEF Row, ConsoleTypeOK
  <1>3. PICK s : s = [step |-> "exchanged", kind |-> "callback", login |-> l, pair |-> 1,
                      holds |-> FALSE, row |-> row]
    OBVIOUS
  <1>4. s \in Visit /\ s.step = "exchanged" /\ s.login = l /\ s.row = row /\ ~s.holds
    BY <1>2, <1>3, ConsoleAssumption DEF Visit
  <1>5. s # NoVisit
    BY <1>4 DEF NoVisit
  <1>6. /\ visit' = [visit EXCEPT ![v] = s] /\ visit[v] = NoVisit
        /\ family' = [family EXCEPT ![l] = [state |-> "live", live |-> 1]]
        /\ family[l].state = "started"
        /\ UNCHANGED <<stored, replica_key, abandoned, lost, reported>>
    BY <1>1, <1>3 DEF ExchangeCode
  <1>7. /\ family' \in [Login -> Family]
        /\ family'[l].state = "live" /\ family'[l].live = 1
        /\ \A k \in Login \ {l} : family'[k] = family[k]
    BY <1>6, ConsoleAssumption DEF ConsoleTypeOK, Family
  <1>8. visit'[v] = s /\ \A w \in Visitor \ {v} : visit'[w] = visit[w]
    BY <1>6 DEF ConsoleTypeOK
  <1>9. /\ \A w \in Visitor \ {v} : /\ \A k : On(w, k)' <=> On(w, k)
                                    /\ \A step : At(w, step)' <=> At(w, step)
                                    /\ Holds(w)' <=> Holds(w)
                                    /\ CanOpen(w)' <=> CanOpen(w)
        /\ \A k : On(v, k)' <=> k = l
        /\ \A step : At(v, step)' <=> step = "exchanged"
        /\ ~Holds(v)'
    BY <1>4, <1>5, <1>6, <1>8 DEF On, At, Holds, CanOpen
  <1>10. ~Begun(l) /\ Begun(l)' /\ \A k \in Login \ {l} : Begun(k)' <=> Begun(k)
    BY <1>6, <1>7 DEF Begun
  <1>11. stored[l] = NoRow /\ \A w \in Visitor : ~On(w, l)
    BY <1>10 DEF OnlyBegun
  <1>12. ConsoleTypeOK' /\ AbandonedIsLost'
    BY <1>4, <1>6, <1>7 DEF ConsoleTypeOK, AbandonedIsLost
  <1>13. OnlyBegun'
    BY <1>6, <1>9, <1>10 DEF OnlyBegun
  <1>14. ExchangedAlone'
    <2>1. SUFFICES ASSUME NEW w \in Visitor, NEW k \in Login, At(w, "exchanged")', On(w, k)'
                   PROVE  /\ stored[k] = NoRow
                          /\ visit'[w].row.pair = 1 /\ ~visit'[w].row.stale /\ ~visit'[w].row.expired
                          /\ family'[k].live = 1 \/ k \in lost
                          /\ \A x \in Visitor \ {w} : ~On(x, k)'
      BY <1>6 DEF ExchangedAlone
    <2>2. CASE w = v
      BY <1>2, <1>4, <1>7, <1>8, <1>9, <1>11, <2>1, <2>2
    <2>3. CASE w # v
      <3>1. At(w, "exchanged") /\ On(w, k) /\ visit'[w] = visit[w]
        BY <1>8, <1>9, <2>1, <2>3
      <3>2. k # l
        BY <1>11, <3>1
      <3>3. QED
        BY <1>7, <1>9, <3>1, <3>2 DEF ExchangedAlone
    <2>4. QED
      BY <2>2, <2>3
  <1>15. LocksShown'
    <2>1. SUFFICES ASSUME NEW w \in Visitor
                   PROVE  /\ visit'[w].step \in Locking => Holds(w)'
                          /\ Holds(w)' => /\ visit'[w].step \in Locking \cup {"dropping"}
                                          /\ stored[visit'[w].login] = visit'[w].row
                                          /\ ~visit'[w].row.expired
                          /\ visit'[w].step \in {"posted", "rotated"} =>
                               visit'[w].kind = "request" /\ visit'[w].row.stale
                          /\ At(w, "rotated")' => visit'[w].pair # 0
      BY <1>6 DEF LocksShown, Locking
    <2>2. CASE w = v
      BY <1>4, <1>8, <1>9, <2>2 DEF Locking
    <2>3. CASE w # v
      BY <1>8, <1>9, <2>3 DEF LocksShown
    <2>4. QED
      BY <2>2, <2>3
  <1>16. LocksApart' /\ StaleRotates'
    BY <1>6, <1>9 DEF LocksApart, StaleRotates
  <1>17. RowIsLive'
    <2>1. SUFFICES ASSUME NEW k \in Login, stored[k] # NoRow, family'[k].state = "live", k \notin lost
                   PROVE  \/ stored[k].pair = family'[k].live
                          \/ \E w \in Visitor : At(w, "rotated")' /\ On(w, k)'
      BY <1>6 DEF RowIsLive
    <2>2. k # l /\ family'[k] = family[k]
      BY <1>7, <1>11, <2>1
    <2>3. CASE \E w \in Visitor : At(w, "rotated") /\ On(w, k)
      <3>1. PICK w \in Visitor : At(w, "rotated") /\ On(w, k)
        BY <2>3
      <3>2. w # v
        BY <1>6, <3>1 DEF On
      <3>3. QED
        BY <1>9, <3>1, <3>2
    <2>4. QED
      BY <2>1, <2>2, <2>3 DEF RowIsLive
  <1>18. RotatedIsLive'
    <2>1. SUFFICES ASSUME NEW w \in Visitor, NEW k \in Login, At(w, "rotated")', On(w, k)',
                          family'[k].state = "live", k \notin lost
                   PROVE  visit'[w].pair = family'[k].live
      BY <1>6 DEF RotatedIsLive
    <2>2. w # v
      BY <1>9, <2>1
    <2>3. At(w, "rotated") /\ On(w, k) /\ visit'[w] = visit[w]
      BY <1>8, <1>9, <2>1, <2>2
    <2>4. k # l
      BY <1>11, <2>3
    <2>5. QED
      BY <1>7, <2>1, <2>3, <2>4 DEF RotatedIsLive
  <1>19. Cause'
    <2>1. SUFFICES ASSUME NEW w \in Visitor, NEW k \in Login, On(w, k)',
                          visit'[w].step \in {"refused", "dropping"}
                   PROVE  family'[k].state # "live" \/ ~CanOpen(w)'
      BY DEF Cause
    <2>2. w # v
      BY <1>4, <1>8, <2>1
    <2>3. On(w, k) /\ visit'[w] = visit[w]
      BY <1>8, <1>9, <2>1, <2>2
    <2>4. k # l
      BY <1>11, <2>3
    <2>5. QED
      BY <1>7, <1>9, <2>1, <2>2, <2>3, <2>4 DEF Cause
  <1>20. ReusedOnlyAfterLoss'
    BY <1>6, <1>7 DEF ReusedOnlyAfterLoss
  <1>21. QED
    BY <1>12, <1>13, <1>14, <1>15, <1>16, <1>17, <1>18, <1>19, <1>20

-----------------------------------------------------------------------------
(* Steps that write a row. *)

\* A visit is answered, or has stored the pair it had in hand.
Answered(w, l) ==
  \/ visit'[w] = NoVisit /\ ~At(w, "rotated")
  \/ /\ On(w, l) /\ visit'[w] \in Visit /\ visit'[w].login = l
     /\ visit'[w].step = "introspect" /\ ~visit'[w].holds

LEMMA RowChanges ==
  ASSUME ConsoleInv, NEW l \in Login, NEW r \in Row \cup {NoRow},
         stored' = [stored EXCEPT ![l] = r],
         UNCHANGED <<family, replica_key, abandoned, lost, reported>>,
         visit' \in [Visitor -> Visit \cup {NoVisit}],
         \A w \in Visitor :
           \/ visit'[w] = visit[w] /\ (On(w, l) => ~Holds(w) /\ ~At(w, "exchanged"))
           \/ Answered(w, l),
         r # NoRow =>
           /\ Begun(l)
           /\ r.stale => r.pair < MaxPair
           /\ \/ /\ stored[l] # NoRow /\ r.pair = stored[l].pair
                 /\ \A w \in Visitor : ~(At(w, "rotated") /\ On(w, l))
              \/ family[l].state = "live" /\ l \notin lost => r.pair = family[l].live
  PROVE  ConsoleInv'
  <1> USE DEF ConsoleInv
  <1>1. stored'[l] = r /\ \A k \in Login \ {l} : stored'[k] = stored[k]
    BY DEF ConsoleTypeOK
  <1>2. \A w \in Visitor, k \in Login : On(w, k)' => On(w, k)
    BY DEF Answered, On
  <1>3. \A w \in Visitor : visit'[w].step # "introspect" /\ visit'[w] # NoVisit => visit'[w] = visit[w]
    BY DEF Answered
  <1>4. \A w \in Visitor :
          visit'[w] = visit[w] => /\ \A k : On(w, k)' <=> On(w, k)
                                  /\ \A step : At(w, step)' <=> At(w, step)
                                  /\ Holds(w)' <=> Holds(w)
    BY DEF On, At, Holds
  <1>5. \A w \in Visitor : Holds(w)' =>
          visit'[w] = visit[w] /\ Holds(w) /\ ~On(w, l)
    BY DEF Holds, Answered
  <1>6. \A w \in Visitor : CanOpen(w)' /\ visit'[w] = visit[w] => CanOpen(w)
    BY DEF CanOpen
  <1>7. NoVisit.step = "idle"
    BY DEF NoVisit
  <1>8. ConsoleTypeOK' /\ AbandonedIsLost'
    BY DEF ConsoleTypeOK, AbandonedIsLost
  <1>9. OnlyBegun'
    BY <1>1, <1>2 DEF OnlyBegun, Begun
  <1>10. ExchangedAlone'
    <2>1. SUFFICES ASSUME NEW w \in Visitor, NEW k \in Login, At(w, "exchanged")', On(w, k)'
                   PROVE  /\ stored'[k] = NoRow
                          /\ visit'[w].row.pair = 1 /\ ~visit'[w].row.stale /\ ~visit'[w].row.expired
                          /\ family[k].live = 1 \/ k \in lost
                          /\ \A x \in Visitor \ {w} : ~On(x, k)'
      BY DEF ExchangedAlone
    <2>2. visit'[w] = visit[w] /\ At(w, "exchanged") /\ On(w, k)
      BY <1>3, <1>4, <2>1 DEF At
    <2>3. k # l
      BY <2>1, <2>2 DEF Answered, At
    <2>4. QED
      BY <1>1, <1>2, <2>2, <2>3 DEF ExchangedAlone
  <1>11. LocksShown'
    <2>1. SUFFICES ASSUME NEW w \in Visitor
                   PROVE  /\ visit'[w].step \in Locking => Holds(w)'
                          /\ Holds(w)' => /\ visit'[w].step \in Locking \cup {"dropping"}
                                          /\ stored'[visit'[w].login] = visit'[w].row
                                          /\ ~visit'[w].row.expired
                          /\ visit'[w].step \in {"posted", "rotated"} =>
                               visit'[w].kind = "request" /\ visit'[w].row.stale
                          /\ At(w, "rotated")' => visit'[w].pair # 0
      BY DEF LocksShown, Locking
    <2>2. CASE visit'[w] # visit[w]
      BY <1>5, <1>7, <2>2 DEF Answered, Locking, At
    <2>3. CASE visit'[w] = visit[w]
      <3>1. Holds(w)' => stored'[visit'[w].login] = stored[visit'[w].login]
        <4>1. SUFFICES ASSUME Holds(w)'
                       PROVE  stored'[visit'[w].login] = stored[visit'[w].login]
          OBVIOUS
        <4>2. Holds(w) /\ ~On(w, l)
          BY <1>5, <4>1
        <4>3. visit[w].login \in Login \ {l}
          BY <4>2 DEF Holds, On, ConsoleTypeOK, Visit
        <4>4. QED
          BY <1>1, <2>3, <4>3
      <3>2. QED
        BY <1>4, <2>3, <3>1 DEF LocksShown
    <2>4. QED
      BY <2>2, <2>3
  <1>12. LocksApart'
    BY <1>2, <1>5 DEF LocksApart
  <1>13. StaleRotates'
    BY <1>1 DEF StaleRotates
  <1>14. RowIsLive'
    <2>1. SUFFICES ASSUME NEW k \in Login, stored'[k] # NoRow, family[k].state = "live", k \notin lost
                   PROVE  \/ stored'[k].pair = family[k].live
                          \/ \E w \in Visitor : At(w, "rotated")' /\ On(w, k)'
      BY DEF RowIsLive
    <2>2. CASE k = l
      BY <1>1, <2>1, <2>2 DEF RowIsLive
    <2>3. CASE k # l
      <3>1. stored'[k] = stored[k]
        BY <1>1, <2>3
      <3>2. \A w \in Visitor : At(w, "rotated") /\ On(w, k) => visit'[w] = visit[w]
        BY <2>3 DEF Answered, On
      <3>3. QED
        BY <1>4, <2>1, <3>1, <3>2 DEF RowIsLive
    <2>4. QED
      BY <2>2, <2>3
  <1>15. RotatedIsLive'
    <2>1. SUFFICES ASSUME NEW w \in Visitor, NEW k \in Login, At(w, "rotated")', On(w, k)',
                          family[k].state = "live", k \notin lost
                   PROVE  visit'[w].pair = family[k].live
      BY DEF RotatedIsLive
    <2>2. visit'[w] = visit[w] /\ At(w, "rotated") /\ On(w, k)
      BY <1>3, <1>4, <2>1 DEF At
    <2>3. QED
      BY <2>1, <2>2 DEF RotatedIsLive
  <1>16. Cause'
    <2>1. SUFFICES ASSUME NEW w \in Visitor, NEW k \in Login, On(w, k)',
                          visit'[w].step \in {"refused", "dropping"}
                   PROVE  family[k].state # "live" \/ ~CanOpen(w)'
      BY DEF Cause
    <2>2. visit'[w] = visit[w] /\ On(w, k)
      BY <1>2, <1>3, <1>7, <2>1
    <2>3. QED
      BY <1>6, <2>1, <2>2 DEF Cause
  <1>17. ReusedOnlyAfterLoss'
    BY DEF ReusedOnlyAfterLoss
  <1>18. QED
    BY <1>8, <1>9, <1>10, <1>11, <1>12, <1>13, <1>14, <1>15, <1>16, <1>17

\* A row goes, and with it the visit that ends the session, if one does.
LEMMA RowGone ==
  ASSUME ConsoleInv, NEW v \in Visitor, visit[v].step \notin {"idle", "rotated"},
         stored' = [stored EXCEPT ![visit[v].login] = NoRow], End(v),
         visit[v].holds \/ \A w \in Visitor : On(w, visit[v].login) => ~Holds(w),
         UNCHANGED <<family, replica_key, abandoned, lost, reported>>
  PROVE  ConsoleInv'
  <1>1. PICK l \in Login : l = visit[v].login
    BY Continues
  <1>2. visit' = [visit EXCEPT ![v] = NoVisit]
    BY DEF End
  <1>3. visit'[v] = NoVisit /\ \A w \in Visitor \ {v} : visit'[w] = visit[w]
    BY <1>2 DEF ConsoleInv, ConsoleTypeOK
  <1>4. visit' \in [Visitor -> Visit \cup {NoVisit}]
    BY <1>2 DEF ConsoleInv, ConsoleTypeOK
  <1>5. \A w \in Visitor \ {v} : On(w, l) => ~Holds(w) /\ ~At(w, "exchanged")
    BY <1>1, Continues
  <1>6. Answered(v, l)
    BY <1>3 DEF Answered, At
  <1>7. QED
    BY <1>1, <1>3, <1>4, <1>5, <1>6, RowChanges

LEMMA DropKeeps ==
  ASSUME ConsoleInv, NEW v \in Visitor,
         DeleteLocked(v) \/ DropSession(v) \/ DeleteOnLogout(v)
  PROVE  ConsoleInv'
  <1>1. /\ stored' = [stored EXCEPT ![visit[v].login] = NoRow] /\ End(v)
        /\ UNCHANGED <<family, replica_key, abandoned, lost, reported>>
        /\ visit[v].step \in {"refused", "dropping", "signing_out"}
    BY DEF DeleteLocked, InvalidGrant, DropSession, DeleteOnLogout
  <1>2. CASE visit[v].step \in {"refused", "signing_out"}
    <2>1. visit[v].holds
      BY <1>2 DEF ConsoleInv, LocksShown, Locking, Holds
    <2>2. QED
      BY <1>1, <2>1, RowGone
  <1>3. CASE visit[v].step = "dropping"
    <2>1. PICK l \in Login : l = visit[v].login
      BY <1>3, Continues
    <2>2. stored[l] = NoRow \/ Unlocked(l)
      BY <1>3, <2>1 DEF DeleteLocked, InvalidGrant, DropSession, DeleteOnLogout
    <2>3. ASSUME NEW w \in Visitor, On(w, l), Holds(w)
          PROVE  FALSE
      <3>1. CASE stored[l] = NoRow
        <4>1. stored[l] = visit[w].row /\ visit[w] # NoVisit
          BY <2>3 DEF ConsoleInv, LocksShown, On
        <4>2. visit[w].row \in Row
          BY <4>1, VisitTyped DEF ConsoleInv
        <4>3. QED
          BY <3>1, <4>1, <4>2, NoRowIsNone
      <3>2. CASE Unlocked(l)
        BY <2>3, <3>2 DEF Unlocked, On, Holds
      <3>3. QED
        BY <2>2, <3>1, <3>2
    <2>4. QED
      BY <1>1, <1>3, <2>1, <2>3, RowGone
  <1>4. QED
    BY <1>1, <1>2, <1>3

\* A row that nobody has locked ages, expires, is purged or cleaned up.
LEMMA AgeKeeps ==
  ASSUME ConsoleInv, NEW l \in Login,
         AccessAges(l) \/ SessionExpires(l) \/ PurgeExpired(l) \/ CleanUpSessions(l)
  PROVE  ConsoleInv'
  <1> USE DEF ConsoleInv
  <1>1. /\ stored[l] # NoRow /\ stored[l] \in Row
        /\ UNCHANGED <<family, visit, replica_key, abandoned, lost, reported>>
    BY DEF AccessAges, SessionExpires, PurgeExpired, CleanUpSessions, Exists, ConsoleTypeOK
  <1>2. \A w \in Visitor : On(w, l) => ~Holds(w)
    <2>1. CASE Unlocked(l)
      BY <2>1 DEF Unlocked, On, Holds
    <2>2. CASE stored[l].expired
      BY <2>2 DEF LocksShown, On
    <2>3. QED
      BY <2>1, <2>2 DEF AccessAges, SessionExpires, PurgeExpired, CleanUpSessions
  <1>3. \A w \in Visitor : On(w, l) => ~At(w, "exchanged") /\ ~At(w, "rotated")
    BY <1>1, <1>2 DEF ExchangedAlone, LocksShown, Locking, At
  <1>4. visit' \in [Visitor -> Visit \cup {NoVisit}] /\ Begun(l)
    BY <1>1 DEF ConsoleTypeOK, OnlyBegun
  <1>5. \A r \in Row \cup {NoRow} :
          /\ stored' = [stored EXCEPT ![l] = r]
          /\ r # NoRow => r.pair = stored[l].pair /\ (r.stale => r.pair < MaxPair)
          => ConsoleInv'
    BY <1>1, <1>2, <1>3, <1>4, RowChanges
  <1>6. CASE PurgeExpired(l) \/ CleanUpSessions(l)
    BY <1>5, <1>6 DEF PurgeExpired, CleanUpSessions
  <1>7. CASE AccessAges(l)
    <2>1. PICK r : r = [stored[l] EXCEPT !.stale = TRUE]
      OBVIOUS
    <2>2. r \in Row /\ r.pair = stored[l].pair
      BY <1>1, <2>1 DEF Row
    <2>3. stored' = [stored EXCEPT ![l] = r] /\ r.pair < MaxPair
      BY <1>7, <2>1, <2>2 DEF AccessAges, ConsoleTypeOK
    <2>4. QED
      BY <1>5, <2>2, <2>3
  <1>8. CASE SessionExpires(l)
    <2>1. PICK r : r = [stored[l] EXCEPT !.expired = TRUE]
      OBVIOUS
    <2>2. r \in Row /\ r.pair = stored[l].pair /\ r.stale = stored[l].stale
      BY <1>1, <2>1 DEF Row
    <2>3. stored' = [stored EXCEPT ![l] = r]
      BY <1>8, <2>1 DEF SessionExpires, ConsoleTypeOK
    <2>4. r.stale => r.pair < MaxPair
      BY <1>1, <2>2 DEF StaleRotates
    <2>5. QED
      BY <1>5, <2>2, <2>3, <2>4
  <1>9. QED
    BY <1>6, <1>7, <1>8

LEMMA CreateKeeps ==
  ASSUME ConsoleInv, NEW v \in Visitor, CreateSession(v)
  PROVE  ConsoleInv'
  <1> USE DEF ConsoleInv
  <1>1. PICK l \in Login : l = visit[v].login
    BY Continues DEF CreateSession
  <1>2. /\ visit[v].step = "exchanged" /\ ~At(v, "rotated")
        /\ visit' = [visit EXCEPT ![v] = NoVisit]
        /\ UNCHANGED <<family, replica_key, abandoned, lost, reported>>
    BY DEF CreateSession, End, At
  <1>3. CASE UNCHANGED stored
    BY <1>2, <1>3, QuietMove
  <1>4. CASE stored' = [stored EXCEPT ![l] = visit[v].row]
    <2>1. visit[v] # NoVisit /\ visit[v].row \in Row /\ Begun(l)
      BY <1>1, <1>2, Continues
    <2>2. At(v, "exchanged") /\ On(v, l)
      BY <1>1, <1>2, <2>1 DEF At, On
    <2>3. /\ visit[v].row.pair = 1 /\ ~visit[v].row.stale
          /\ family[l].live = 1 \/ l \in lost
          /\ \A w \in Visitor \ {v} : ~On(w, l)
      BY <2>2 DEF ExchangedAlone
    <2>4. visit'[v] = NoVisit /\ \A w \in Visitor \ {v} : visit'[w] = visit[w]
      BY <1>2 DEF ConsoleTypeOK
    <2>5. visit' \in [Visitor -> Visit \cup {NoVisit}]
      BY <1>2 DEF ConsoleTypeOK
    <2>6. \A w \in Visitor :
            \/ visit'[w] = visit[w] /\ (On(w, l) => ~Holds(w) /\ ~At(w, "exchanged"))
            \/ Answered(w, l)
      BY <1>2, <2>3, <2>4 DEF Answered
    <2>7. QED
      BY <1>2, <1>4, <2>1, <2>3, <2>5, <2>6, RowChanges
  <1>5. QED
    BY <1>1, <1>3, <1>4 DEF CreateSession

LEMMA StoreKeeps ==
  ASSUME ConsoleInv, NEW v \in Visitor, StoreRotated(v)
  PROVE  ConsoleInv'
  <1> USE DEF ConsoleInv
  <1>1. PICK l \in Login : l = visit[v].login
    BY Continues DEF StoreRotated
  <1>2. /\ visit[v].step = "rotated" /\ UNCHANGED <<family, replica_key, abandoned, reported>>
    BY DEF StoreRotated
  <1>3. visit[v] # NoVisit /\ visit[v] \in Visit /\ visit[v].pair \in 0..MaxPair /\ Begun(l)
    BY <1>1, <1>2, Continues
  <1>4. At(v, "rotated") /\ On(v, l) /\ Holds(v) /\ visit[v].pair # 0
    BY <1>1, <1>2, <1>3 DEF At, On, LocksShown, Locking
  <1>5. CASE End(v) /\ lost' = lost \cup {l} /\ UNCHANGED stored
    <2>1. visit' = [visit EXCEPT ![v] = NoVisit] /\ visit[v].step # "idle"
      BY <1>2, <1>5 DEF End
    <2>2. QED
      BY <1>1, <1>2, <1>5, <2>1, CutShort
  <1>6. CASE /\ stored' = [stored EXCEPT ![l] =
                  [pair |-> visit[v].pair, key |-> replica_key[v], stale |-> FALSE, expired |-> FALSE]]
             /\ visit' = [visit EXCEPT ![v].step = "introspect", ![v].holds = FALSE,
                                       ![v].row = stored'[l]]
             /\ UNCHANGED lost
    <2>1. PICK r : r = [pair |-> visit[v].pair, key |-> replica_key[v], stale |-> FALSE, expired |-> FALSE]
      OBVIOUS
    <2>2. r \in Row /\ ~r.stale /\ r.pair = visit[v].pair
      BY <1>3, <1>4, <2>1, ConsoleAssumption DEF Row, ConsoleTypeOK
    <2>3. stored' = [stored EXCEPT ![l] = r] /\ stored'[l] = r
      BY <1>6, <2>1 DEF ConsoleTypeOK
    <2>4. PICK holds \in BOOLEAN : holds = FALSE
      OBVIOUS
    <2>5. PICK t1 : t1 = [visit[v] EXCEPT !.step = "introspect"]
      OBVIOUS
    <2>6. PICK t2 : t2 = [t1 EXCEPT !.holds = holds]
      OBVIOUS
    <2>7. PICK s : s = [t2 EXCEPT !.row = r]
      OBVIOUS
    <2>8. t1 \in Visit /\ t1.step = "introspect" /\ t1.login = l
      BY <1>1, <1>3, <2>5, StepSet DEF Steps
    <2>9. t2 \in Visit /\ t2.step = "introspect" /\ t2.login = l /\ t2.holds = holds
      <3>1. holds \in BOOLEAN
        BY <2>4
      <3>2. QED
        BY <2>6, <2>8, <3>1, HoldsSet
    <2>10. s \in Visit /\ s.step = "introspect" /\ s.login = l /\ s.holds = holds
      BY <2>2, <2>7, <2>9, RowSet
    <2>11. visit' = [visit EXCEPT ![v] = s]
      <3>1. visit' = [visit EXCEPT ![v] = [t2 EXCEPT !.row = r]]
        BY <1>6, <2>3, <2>4, <2>5, <2>6 DEF ConsoleTypeOK
      <3>2. QED
        BY <2>7, <3>1
    <2>12. visit'[v] = s /\ \A w \in Visitor \ {v} : visit'[w] = visit[w]
      BY <2>11 DEF ConsoleTypeOK
    <2>13. visit' \in [Visitor -> Visit \cup {NoVisit}]
      BY <2>10, <2>11 DEF ConsoleTypeOK
    <2>14. ~s.holds
      BY <2>4, <2>10
    <2>15. Answered(v, l)
      BY <1>4, <2>10, <2>12, <2>14 DEF Answered
    <2>16. \A w \in Visitor \ {v} : On(w, l) => ~Holds(w) /\ ~At(w, "exchanged")
      BY <1>1, <1>4, <1>2, Continues DEF LocksApart
    <2>17. family[l].state = "live" /\ l \notin lost => r.pair = family[l].live
      BY <1>4, <2>2 DEF RotatedIsLive
    <2>18. \A w \in Visitor :
             \/ visit'[w] = visit[w] /\ (On(w, l) => ~Holds(w) /\ ~At(w, "exchanged"))
             \/ Answered(w, l)
      BY <2>12, <2>15, <2>16
    <2>19. UNCHANGED <<family, replica_key, abandoned, lost, reported>>
      BY <1>2, <1>6
    <2>20. \A q \in Row :
             /\ stored' = [stored EXCEPT ![l] = q]
             /\ ~q.stale
             /\ family[l].state = "live" /\ l \notin lost => q.pair = family[l].live
             => ConsoleInv'
      BY <1>3, <2>13, <2>18, <2>19, RowChanges
    <2>21. QED
      BY <2>2, <2>3, <2>17, <2>20
  <1>7. QED
    BY <1>1, <1>5, <1>6 DEF StoreRotated

LEMMA RedeployKeeps ==
  ASSUME ConsoleInv, NEW v \in Visitor, NEW k \in ServerKey, Redeploy(v, k)
  PROVE  ConsoleInv'
  <1> USE DEF ConsoleInv
  <1>1. /\ UNCHANGED <<family, stored, visit, abandoned, lost, reported>> /\ visit[v] = NoVisit
        /\ replica_key' = [replica_key EXCEPT ![v] = k]
    BY DEF Redeploy
  <1>2. /\ \A w, l : On(w, l)' <=> On(w, l)
        /\ \A w, step : At(w, step)' <=> At(w, step)
        /\ \A w : Holds(w)' <=> Holds(w)
        /\ \A l : Begun(l)' <=> Begun(l)
    BY <1>1 DEF On, At, Holds, Begun
  <1>3. \A w \in Visitor : \A l : On(w, l) => (CanOpen(w)' <=> CanOpen(w))
    BY <1>1 DEF On, CanOpen, ConsoleTypeOK
  <1>4. ConsoleTypeOK'
    BY <1>1 DEF ConsoleTypeOK
  <1>5. OnlyBegun' /\ ExchangedAlone' /\ LocksShown' /\ LocksApart'
    BY <1>1, <1>2 DEF OnlyBegun, ExchangedAlone, LocksShown, LocksApart
  <1>6. StaleRotates' /\ AbandonedIsLost' /\ RowIsLive' /\ RotatedIsLive' /\ ReusedOnlyAfterLoss'
    BY <1>1, <1>2 DEF StaleRotates, AbandonedIsLost, RowIsLive, RotatedIsLive, ReusedOnlyAfterLoss
  <1>7. Cause'
    BY <1>1, <1>2, <1>3 DEF Cause
  <1>8. QED
    BY <1>4, <1>5, <1>6, <1>7

\* An event is sent, or nothing happens.
LEMMA UnchangedKeeps ==
  ASSUME ConsoleInv, UNCHANGED <<family, stored, visit, replica_key, abandoned, lost>>,
         reported' \subseteq Login
  PROVE  ConsoleInv'
  <1> USE DEF ConsoleInv
  <1>1. /\ \A w, l : On(w, l)' <=> On(w, l)
        /\ \A w, step : At(w, step)' <=> At(w, step)
        /\ \A w : (Holds(w)' <=> Holds(w)) /\ (CanOpen(w)' <=> CanOpen(w))
        /\ \A l : Begun(l)' <=> Begun(l)
    BY DEF On, At, Holds, Begun, CanOpen
  <1>2. ConsoleTypeOK' /\ OnlyBegun' /\ ExchangedAlone' /\ LocksShown' /\ LocksApart'
    BY <1>1 DEF ConsoleTypeOK, OnlyBegun, ExchangedAlone, LocksShown, LocksApart
  <1>3. StaleRotates' /\ AbandonedIsLost' /\ RowIsLive' /\ RotatedIsLive' /\ ReusedOnlyAfterLoss'
    BY <1>1 DEF StaleRotates, AbandonedIsLost, RowIsLive, RotatedIsLive, ReusedOnlyAfterLoss
  <1>4. Cause'
    BY <1>1 DEF Cause
  <1>5. QED
    BY <1>2, <1>3, <1>4

-----------------------------------------------------------------------------
(* The theorems. *)

LEMMA ConsoleInitially == ConsoleInit => ConsoleInv
  <1>1. SUFFICES ASSUME ConsoleInit
                 PROVE  ConsoleInv
    OBVIOUS
  <1>2. /\ \A v \in Visitor : visit[v] = NoVisit
        /\ \A l \in Login : stored[l] = NoRow /\ family[l].state = "none"
        /\ abandoned = {} /\ lost = {}
    BY <1>1 DEF ConsoleInit
  <1>3. \A v \in Visitor : ~Holds(v) /\ visit[v].step = "idle"
    BY <1>2 DEF Holds, NoVisit
  <1>4. \A v \in Visitor : /\ \A l : ~On(v, l)
                           /\ \A step : ~At(v, step)
    BY <1>2 DEF On, At
  <1>5. ConsoleTypeOK
    BY <1>1, ConsoleAssumption DEF ConsoleInit, ConsoleTypeOK, Family
  <1>6. OnlyBegun /\ ExchangedAlone /\ LocksShown /\ LocksApart
    BY <1>2, <1>3, <1>4 DEF OnlyBegun, ExchangedAlone, LocksShown, LocksApart, Locking
  <1>7. StaleRotates /\ AbandonedIsLost /\ RowIsLive /\ RotatedIsLive /\ Cause /\ ReusedOnlyAfterLoss
    BY <1>2, <1>4 DEF StaleRotates, AbandonedIsLost, RowIsLive, RotatedIsLive, Cause, ReusedOnlyAfterLoss
  <1>8. QED
    BY <1>5, <1>6, <1>7 DEF ConsoleInv

LEMMA VisitStepKeeps ==
  ASSUME ConsoleInv, NEW v \in Visitor, VisitStep(v)
  PROVE  ConsoleInv'
  <1>1. CASE CreateSession(v) \/ UseFound(v) \/ LockSession(v) \/ Refresh(v)
    BY <1>1, CreateKeeps, UseFoundKeeps, LockKeeps, RefreshKeeps
  <1>2. CASE AnswerRefresh(v) \/ NoAnswer(v) \/ StoreRotated(v)
    BY <1>2, AnswerKeeps, NoAnswerKeeps, StoreKeeps
  <1>3. CASE DeleteLocked(v) \/ DropSession(v) \/ DeleteOnLogout(v)
    BY <1>3, DropKeeps
  <1>4. CASE KeepSession(v) \/ Introspect(v) \/ RevokeToken(v)
    BY <1>4, KeepKeeps, IntrospectKeeps, RevokeKeeps
  <1>5. QED
    BY <1>1, <1>2, <1>3, <1>4 DEF VisitStep

LEMMA ConsoleKept == ConsoleInv /\ [ConsoleNext]_consoleVars => ConsoleInv'
  <1>1. SUFFICES ASSUME ConsoleInv, [ConsoleNext]_consoleVars
                 PROVE  ConsoleInv'
    OBVIOUS
  <1>2. CASE \E l \in Login : \/ StartLogin(l) \/ FlowExpires(l) \/ PlatformRevokes(l)
                              \/ AccessAges(l) \/ SessionExpires(l) \/ PurgeExpired(l)
                              \/ CleanUpSessions(l)
    BY <1>1, <1>2, PlatformKeepsLogins, AgeKeeps
  <1>3. CASE \E v \in Visitor, l \in Login : ExchangeCode(v, l)
    BY <1>1, <1>3, ExchangeKeeps
  <1>4. CASE \E v \in Visitor, l \in Login, kind \in {"request", "logout"} : Find(v, l, kind)
    BY <1>1, <1>4, FindKeeps
  <1>5. CASE \E l \in Login, pair \in 1..MaxPair : LateRefresh(l, pair)
    BY <1>1, <1>5, LateKeeps
  <1>6. CASE \E v \in Visitor, k \in ServerKey : Redeploy(v, k)
    BY <1>1, <1>6, RedeployKeeps
  <1>7. CASE \E v \in Visitor : VisitStep(v) \/ Disconnect(v) \/ Killed(v)
    BY <1>1, <1>7, VisitStepKeeps, DisconnectKeeps, KilledKeeps
  <1>8. CASE (\E l \in Login : Report(l)) \/ UNCHANGED consoleVars
    BY <1>1, <1>8, UnchangedKeeps DEF Report, consoleVars, ConsoleInv, ConsoleTypeOK
  <1>9. QED
    BY <1>1, <1>2, <1>3, <1>4, <1>5, <1>6, <1>7, <1>8 DEF ConsoleNext

LEMMA SessionsSound == ConsoleSpec => []ConsoleInv
  BY ConsoleInitially, ConsoleKept, PTL DEF ConsoleSpec

\* Logins, rows and visits keep their shape.
THEOREM ConsoleTypeCorrect == ConsoleSpec => []ConsoleTypeOK
  <1>1. ConsoleInv => ConsoleTypeOK
    BY DEF ConsoleInv
  <1>2. QED
    BY <1>1, SessionsSound, PTL

\* access_token_for refreshes behind the row's lock, after it has read the row
\* again: the platform sees a consumed refresh token only of a login of which a
\* rotation was lost, for any number of visits, logins and replicas.
THEOREM RefreshesAreSafe == ConsoleSpec => []ReusedOnlyAfterLoss
  <1>1. ConsoleInv => ReusedOnlyAfterLoss
    BY DEF ConsoleInv
  <1>2. QED
    BY <1>1, SessionsSound, PTL

\* The logout handler reads the row behind its lock too: it revokes the token
\* that is live.
THEOREM LogoutsRevoke == ConsoleSpec => []LogoutRevokesLive
  <1>1. ASSUME ConsoleInv
        PROVE  LogoutRevokesLive
    <2>1. SUFFICES ASSUME NEW v \in Visitor, visit[v] # NoVisit,
                          visit[v].kind = "logout", visit[v].step = "locked"
                   PROVE  LET l == visit[v].login IN
                          family[l].state # "live" \/ l \in lost \/ visit[v].row.pair = family[l].live
      BY DEF LogoutRevokesLive
    <2>2. PICK l \in Login : l = visit[v].login
      BY <1>1, <2>1, Continues
    <2>3. QED
      BY <1>1, <2>1, <2>2, LockedIsLive DEF Locking
  <1>2. QED
    BY <1>1, SessionsSound, PTL

\* A row that is written is there.
LEMMA RowsWritten ==
  ASSUME ConsoleInv, NEW l \in Login, NEW k \in Login, stored[l] # NoRow,
         \/ AccessAges(k) \/ SessionExpires(k)
         \/ \E v \in Visitor : CreateSession(v) \/ StoreRotated(v)
  PROVE  stored'[l] # NoRow
  <1> USE DEF ConsoleInv
  <1>1. CASE AccessAges(k) \/ SessionExpires(k)
    <2>1. stored[l] \in Row /\ stored \in [Login -> Row \cup {NoRow}]
      BY DEF ConsoleTypeOK
    <2>2. CASE stored'[l] = stored[l]
      BY <2>2
    <2>3. CASE stored'[l] # stored[l]
      <3>1. \/ stored'[l] = [stored[l] EXCEPT !.stale = TRUE]
            \/ stored'[l] = [stored[l] EXCEPT !.expired = TRUE]
        BY <1>1, <2>1, <2>3 DEF AccessAges, SessionExpires
      <3>2. stored'[l].pair = stored[l].pair
        BY <2>1, <3>1 DEF Row
      <3>3. stored[l].pair # 0 /\ NoRow.pair = 0
        BY <2>1, NoRowIsNone, ConsoleAssumption DEF NoRow
      <3>4. QED
        BY <3>2, <3>3
    <2>4. QED
      BY <2>2, <2>3
  <1>2. CASE \E v \in Visitor : CreateSession(v)
    <2>1. PICK v \in Visitor : CreateSession(v)
      BY <1>2
    <2>2. visit[v].row \in Row
      BY <2>1, Continues DEF CreateSession
    <2>3. QED
      BY <2>1, <2>2, NoRowIsNone DEF CreateSession, ConsoleTypeOK
  <1>3. CASE \E v \in Visitor : StoreRotated(v)
    <2>1. PICK v \in Visitor : StoreRotated(v)
      BY <1>3
    <2>2. visit[v].step = "rotated"
      BY <2>1 DEF StoreRotated
    <2>3. visit[v] # NoVisit
      BY <2>2, Continues
    <2>4. visit[v].pair # 0
      BY <2>2, <2>3 DEF LocksShown, At
    <2>5. \/ stored'[l] = stored[l]
          \/ stored'[l] = [pair |-> visit[v].pair, key |-> replica_key[v],
                           stale |-> FALSE, expired |-> FALSE]
      BY <2>1 DEF StoreRotated, ConsoleTypeOK
    <2>6. QED
      BY <2>4, <2>5 DEF NoRow
  <1>4. QED
    BY <1>1, <1>2, <1>3

\* A row goes with a purge of what has expired, with the clean-up behind an event,
\* with a logout, or with a visit that has cause to end the session.
LEMMA EndedOnce ==
  ASSUME ConsoleInv, [ConsoleNext]_consoleVars, NEW l \in Login,
         stored[l] # NoRow, stored'[l] = NoRow
  PROVE  \/ family[l].state # "live"
         \/ stored[l].expired
         \/ l \in reported
         \/ \E v \in Visitor :
              /\ visit[v] # NoVisit /\ visit[v].login = l
              /\ visit[v].step = "signing_out" \/ ~CanOpen(v)
  <1> USE DEF ConsoleInv
  <1>1. ASSUME NEW v \in Visitor, DeleteLocked(v) \/ DropSession(v) \/ DeleteOnLogout(v)
        PROVE  \/ family[l].state # "live"
               \/ \E w \in Visitor :
                    /\ visit[w] # NoVisit /\ visit[w].login = l
                    /\ visit[w].step = "signing_out" \/ ~CanOpen(w)
    <2>1. /\ stored' = [stored EXCEPT ![visit[v].login] = NoRow]
          /\ visit[v].step \in {"refused", "dropping", "signing_out"}
      BY <1>1 DEF DeleteLocked, InvalidGrant, DropSession, DeleteOnLogout
    <2>2. visit[v] # NoVisit
      BY <2>1, Continues
    <2>3. visit[v].login = l
      BY <2>1 DEF ConsoleTypeOK
    <2>4. CASE visit[v].step = "signing_out"
      BY <2>2, <2>3, <2>4
    <2>5. CASE visit[v].step \in {"refused", "dropping"}
      <3>1. family[l].state # "live" \/ ~CanOpen(v)
        BY <2>2, <2>3, <2>5 DEF Cause, On
      <3>2. QED
        BY <2>2, <2>3, <3>1
    <2>6. QED
      BY <2>1, <2>4, <2>5
  <1>2. ASSUME NEW k \in Login, PurgeExpired(k) \/ CleanUpSessions(k)
        PROVE  stored[l].expired \/ l \in reported
    BY <1>2 DEF PurgeExpired, CleanUpSessions, ConsoleTypeOK
  <1>3. CASE \E v \in Visitor : DeleteLocked(v) \/ DropSession(v) \/ DeleteOnLogout(v)
    BY <1>1, <1>3
  <1>4. CASE \E k \in Login : PurgeExpired(k) \/ CleanUpSessions(k)
    BY <1>2, <1>4
  <1>5. CASE \/ \E k \in Login : AccessAges(k) \/ SessionExpires(k)
            \/ \E v \in Visitor : CreateSession(v) \/ StoreRotated(v)
    BY <1>5, RowsWritten
  <1>6. stored' # stored
    OBVIOUS
  <1>7. ASSUME NEW v \in Visitor, VisitStep(v)
        PROVE  \/ CreateSession(v) \/ StoreRotated(v)
               \/ DeleteLocked(v) \/ DropSession(v) \/ DeleteOnLogout(v)
    BY <1>6, <1>7 DEF VisitStep, UseFound, LockSession, Refresh, AnswerRefresh, NoAnswer,
       KeepSession, Introspect, RevokeToken
  <1>8. ASSUME NEW v \in Visitor
        PROVE  /\ ~Disconnect(v) /\ ~Killed(v)
               /\ \A k \in Login : ~ExchangeCode(v, k)
               /\ \A k \in Login : \A kind : ~Find(v, k, kind)
               /\ \A k \in ServerKey : ~Redeploy(v, k)
    BY <1>6 DEF Disconnect, Killed, ExchangeCode, Find, Redeploy
  <1>9. ASSUME NEW k \in Login
        PROVE  /\ ~StartLogin(k) /\ ~FlowExpires(k) /\ ~PlatformRevokes(k)
               /\ ~Report(k) /\ \A pair : ~LateRefresh(k, pair)
    BY <1>6 DEF StartLogin, FlowExpires, PlatformRevokes, Report, LateRefresh
  <1>10. ConsoleNext
    BY <1>6 DEF consoleVars
  <1>11. CASE \E k \in Login : \/ AccessAges(k) \/ SessionExpires(k)
                               \/ PurgeExpired(k) \/ CleanUpSessions(k)
    BY <1>4, <1>5, <1>11
  <1>12. CASE \E v \in Visitor : VisitStep(v)
    BY <1>3, <1>5, <1>7, <1>12
  <1>13. QED
    BY <1>8, <1>9, <1>10, <1>11, <1>12 DEF ConsoleNext

\* Whatever fails or overlaps, a session's row is deleted for one of the reasons
\* that open_access, refresh, drop_session, logout, purge_expired and the handlers
\* of member.removed and org.deleted have.
THEOREM EndsForCause == ConsoleSpec => EndedForCause
  <1>1. ConsoleInv /\ [ConsoleNext]_consoleVars =>
          [\A l \in Login :
             stored[l] # NoRow /\ stored'[l] = NoRow =>
               \/ family[l].state # "live"
               \/ stored[l].expired
               \/ l \in reported
               \/ \E v \in Visitor :
                    /\ visit[v] # NoVisit /\ visit[v].login = l
                    /\ visit[v].step = "signing_out" \/ ~CanOpen(v)]_consoleVars
    BY EndedOnce
  <1>2. QED
    BY <1>1, SessionsSound, PTL DEF ConsoleSpec, EndedForCause

-----------------------------------------------------------------------------
(* What VisitsEnd rests on, beside fairness: a visit comes closer to its end *)
(* with every step of its own, and who waits for a row waits for a visit that *)
(* need not wait.                                                             *)

\* How many steps a visit has left at most.
Left == [exchanged |-> 1, found |-> 7, queued |-> 6, locked |-> 5, posted |-> 4, rotated |-> 3,
         introspect |-> 2, refused |-> 1, unavailable |-> 1, signing_out |-> 1, dropping |-> 1]

\* No visit goes back: it locks, posts and drops once, whatever others do.
VisitsShorten ==
  [][\A v \in Visitor : visit[v] # NoVisit =>
       \/ visit'[v] = NoVisit
       \/ visit'[v] = visit[v]
       \/ /\ visit'[v].login = visit[v].login
          /\ Left[visit'[v].step] < Left[visit[v].step]]_consoleVars

\* The lock of l's row is somebody else's, or the visit's own.
WaitsFor(v, l) ==
  /\ On(v, l)
  /\ ~Unlocked(l)
  /\ visit[v].step = "queued" \/ (visit[v].step = "dropping" /\ stored[l] # NoRow)

\* Visits wait one deep, but for the one that waits for itself, which takes a
\* replica that cannot read what another one has just stored.
HoldersGoOn ==
  \A v \in Visitor, l \in Login : WaitsFor(v, l) =>
    \E w \in Visitor : /\ On(w, l) /\ Holds(w)
                       /\ WaitsFor(w, l) => WaitsForItself(w) /\ ~CanOpen(w)

\* Who keeps the lock to drop the session cannot open its tokens.
KeptUnopened == \A v \in Visitor : Holds(v) /\ visit[v].step = "dropping" => ~CanOpen(v)

\* A step of a visit.
LEMMA StepMoves ==
  ASSUME ConsoleTypeOK, NEW v \in Visitor, visit[v] \in Visit, NEW step \in Steps, Step(v, step)
  PROVE  /\ \A w \in Visitor \ {v} : visit'[w] = visit[w]
         /\ visit'[v].step = step /\ visit'[v].login = visit[v].login
         /\ visit'[v].row = visit[v].row /\ visit'[v].holds = visit[v].holds
  <1>1. PICK t : t = [visit[v] EXCEPT !.step = step]
    OBVIOUS
  <1>2. /\ t.step = step /\ t.login = visit[v].login
        /\ t.row = visit[v].row /\ t.holds = visit[v].holds
    BY <1>1, StepSet
  <1>3. visit' = [visit EXCEPT ![v] = t]
    BY <1>1 DEF Step, ConsoleTypeOK
  <1>4. QED
    BY <1>2, <1>3 DEF ConsoleTypeOK

\* What a step of a visit does to it.
Goes(v) ==
  /\ visit[v] # NoVisit /\ UNCHANGED replica_key
  /\ \A w \in Visitor \ {v} : visit'[w] = visit[w]
  /\ \/ visit'[v] = NoVisit
     \/ /\ visit'[v].login = visit[v].login
        /\ Left[visit'[v].step] < Left[visit[v].step]
        /\ visit'[v].step = "dropping" =>
             visit'[v].row = visit[v].row /\ (visit'[v].holds => ~CanOpen(v))

LEMMA EndGoes ==
  ASSUME ConsoleInv, NEW v \in Visitor, visit[v].step # "idle", End(v), UNCHANGED replica_key
  PROVE  Goes(v)
  <1>1. visit[v] # NoVisit /\ visit \in [Visitor -> Visit \cup {NoVisit}]
    BY Continues DEF ConsoleInv, ConsoleTypeOK
  <1>2. visit'[v] = NoVisit /\ \A w \in Visitor \ {v} : visit'[w] = visit[w]
    BY <1>1 DEF End
  <1>3. QED
    BY <1>1, <1>2 DEF Goes

LEMMA StepGoes ==
  ASSUME ConsoleInv, NEW v \in Visitor, visit[v].step # "idle", UNCHANGED replica_key,
         NEW step \in Steps, Step(v, step), Left[step] < Left[visit[v].step],
         step = "dropping" => ~visit[v].holds
  PROVE  Goes(v)
  <1>1. visit[v] # NoVisit /\ visit[v] \in Visit
    BY Continues
  <1>2. /\ \A w \in Visitor \ {v} : visit'[w] = visit[w]
        /\ visit'[v].step = step /\ visit'[v].login = visit[v].login
        /\ visit'[v].row = visit[v].row /\ visit'[v].holds = visit[v].holds
    BY <1>1, StepMoves DEF ConsoleInv
  <1>3. QED
    BY <1>1, <1>2 DEF Goes

LEMMA OpenGoes ==
  ASSUME ConsoleInv, NEW v \in Visitor, visit[v].step \in {"found", "locked"},
         OpenAccess(v), UNCHANGED replica_key
  PROVE  Goes(v)
  <1>1. visit[v] # NoVisit /\ visit[v] \in Visit
    BY Continues
  <1>2. PICK step \in {"introspect", "dropping"} :
               step = IF CanOpen(v) THEN "introspect" ELSE "dropping"
    OBVIOUS
  <1>3. PICK b : b = (visit[v].holds /\ ~CanOpen(v))
    OBVIOUS
  <1>4. PICK t : t = [[visit[v] EXCEPT !.step = step] EXCEPT !.holds = b]
    OBVIOUS
  <1>5. /\ \A w \in Visitor \ {v} : visit'[w] = visit[w]
        /\ visit'[v].step = step /\ visit'[v].login = visit[v].login
        /\ visit'[v].row = visit[v].row /\ visit'[v].holds = b
    <2>1. visit \in [Visitor -> Visit \cup {NoVisit}]
      BY DEF ConsoleInv, ConsoleTypeOK
    <2>2. t.step = step /\ t.login = visit[v].login /\ t.row = visit[v].row /\ t.holds = b
      BY <1>1, <1>4 DEF Visit
    <2>3. visit' = [visit EXCEPT ![v] = t]
      BY <1>2, <1>3, <1>4, <2>1 DEF OpenAccess
    <2>4. QED
      BY <2>1, <2>2, <2>3
  <1>6. Left[step] < Left[visit[v].step]
    BY <1>2 DEF Left
  <1>7. step = "dropping" => ~CanOpen(v)
    BY <1>2
  <1>8. QED
    BY <1>1, <1>5, <1>6, <1>7 DEF Goes

LEMMA LockGoes ==
  ASSUME ConsoleInv, NEW v \in Visitor, LockSession(v)
  PROVE  Goes(v)
  <1>1. visit[v].step = "queued" /\ UNCHANGED replica_key
    BY DEF LockSession
  <1>2. visit[v] # NoVisit /\ visit[v] \in Visit /\ visit \in [Visitor -> Visit \cup {NoVisit}]
    BY <1>1, Continues DEF ConsoleInv, ConsoleTypeOK
  <1>3. CASE ~Exists(visit[v].login)
    BY <1>1, <1>3, EndGoes DEF LockSession
  <1>4. CASE Exists(visit[v].login)
    <2>1. PICK t : t = [[[visit[v] EXCEPT !.step = "locked"] EXCEPT !.row = Reread(v)]
                           EXCEPT !.holds = TRUE]
      OBVIOUS
    <2>2. t.step = "locked" /\ t.login = visit[v].login
      BY <1>2, <2>1 DEF Visit
    <2>3. visit' = [visit EXCEPT ![v] = t]
      BY <1>2, <1>4, <2>1 DEF LockSession
    <2>4. QED
      BY <1>1, <1>2, <2>2, <2>3 DEF Goes, Left
  <1>5. QED
    BY <1>3, <1>4

LEMMA AnswerGoes ==
  ASSUME ConsoleInv, NEW v \in Visitor, AnswerRefresh(v)
  PROVE  Goes(v)
  <1>1. visit[v].step = "posted" /\ UNCHANGED replica_key
    BY DEF AnswerRefresh
  <1>2. visit[v] # NoVisit /\ visit[v] \in Visit /\ visit \in [Visitor -> Visit \cup {NoVisit}]
    BY <1>1, Continues DEF ConsoleInv, ConsoleTypeOK
  <1> DEFINE rotated == /\ family[visit[v].login].state = "live"
                        /\ family[visit[v].login].live = visit[v].row.pair
  <1>a. visit' = [visit EXCEPT ![v].step = IF rotated THEN "rotated" ELSE "refused",
                               ![v].pair = IF rotated THEN visit[v].row.pair + 1 ELSE 0]
    BY DEF AnswerRefresh
  <1> HIDE DEF rotated
  <1>b. PICK step \in {"rotated", "refused"} : step = IF rotated THEN "rotated" ELSE "refused"
    OBVIOUS
  <1>c. PICK n : n = IF rotated THEN visit[v].row.pair + 1 ELSE 0
    OBVIOUS
  <1>3. visit' = [visit EXCEPT ![v].step = step, ![v].pair = n]
    BY <1>a, <1>b, <1>c
  <1>4. PICK t : t = [[visit[v] EXCEPT !.step = step] EXCEPT !.pair = n]
    OBVIOUS
  <1>5. t.step = step /\ t.login = visit[v].login
    BY <1>2, <1>4 DEF Visit
  <1>6. visit' = [visit EXCEPT ![v] = t]
    BY <1>2, <1>3, <1>4
  <1>7. QED
    BY <1>1, <1>2, <1>5, <1>6 DEF Goes, Left

LEMMA StoreGoes ==
  ASSUME ConsoleInv, NEW v \in Visitor, StoreRotated(v)
  PROVE  Goes(v)
  <1>1. visit[v].step = "rotated" /\ UNCHANGED replica_key
    BY DEF StoreRotated
  <1>2. visit[v] # NoVisit /\ visit[v] \in Visit /\ visit \in [Visitor -> Visit \cup {NoVisit}]
    BY <1>1, Continues DEF ConsoleInv, ConsoleTypeOK
  <1>3. CASE End(v)
    BY <1>1, <1>3, EndGoes
  <1>4. ASSUME NEW r, visit' = [visit EXCEPT ![v].step = "introspect", ![v].holds = FALSE,
                                             ![v].row = r]
        PROVE  Goes(v)
    <2>1. PICK t : t = [[[visit[v] EXCEPT !.step = "introspect"] EXCEPT !.holds = FALSE]
                           EXCEPT !.row = r]
      OBVIOUS
    <2>2. t.step = "introspect" /\ t.login = visit[v].login
      BY <1>2, <2>1 DEF Visit
    <2>3. visit' = [visit EXCEPT ![v] = t]
      BY <1>2, <1>4, <2>1
    <2>4. QED
      BY <1>1, <1>2, <2>2, <2>3 DEF Goes, Left
  <1>5. QED
    BY <1>3, <1>4 DEF StoreRotated

LEMMA VisitGoes ==
  ASSUME ConsoleInv, NEW v \in Visitor, VisitStep(v)
  PROVE  Goes(v)
  <1>1. CASE CreateSession(v) \/ DeleteLocked(v) \/ KeepSession(v) \/ DropSession(v) \/ DeleteOnLogout(v)
    <2>1. visit[v].step # "idle" /\ End(v) /\ UNCHANGED replica_key
      BY <1>1 DEF CreateSession, DeleteLocked, InvalidGrant, KeepSession, DropSession, DeleteOnLogout
    <2>2. QED
      BY <2>1, EndGoes
  <1>2. CASE UseFound(v)
    <2>1. visit[v].step = "found" /\ UNCHANGED replica_key /\ (OpenAccess(v) \/ Step(v, "queued"))
      BY <1>2 DEF UseFound
    <2>2. QED
      BY <2>1, OpenGoes, StepGoes DEF Left, Steps
  <1>3. CASE LockSession(v)
    BY <1>3, LockGoes
  <1>4. CASE Refresh(v)
    <2>1. /\ visit[v].step = "locked" /\ UNCHANGED replica_key
          /\ OpenAccess(v) \/ Step(v, "posted") \/ Step(v, "refused")
      BY <1>4 DEF Refresh
    <2>2. QED
      BY <2>1, OpenGoes, StepGoes DEF Left, Steps
  <1>5. CASE AnswerRefresh(v) \/ StoreRotated(v)
    BY <1>5, AnswerGoes, StoreGoes
  <1>6. CASE NoAnswer(v)
    <2>1. visit[v].step = "posted" /\ UNCHANGED replica_key /\ Step(v, "unavailable")
      BY <1>6 DEF NoAnswer
    <2>2. QED
      BY <2>1, StepGoes DEF Left, Steps
  <1>7. CASE Introspect(v)
    <2>1. /\ visit[v].step = "introspect" /\ ~visit[v].holds /\ UNCHANGED replica_key
          /\ End(v) \/ Step(v, "dropping")
      BY <1>7, Continues DEF Introspect, Locking
    <2>2. QED
      BY <2>1, EndGoes, StepGoes DEF Left, Steps
  <1>8. CASE RevokeToken(v)
    <2>1. visit[v].step = "locked" /\ UNCHANGED replica_key /\ Step(v, "signing_out")
      BY <1>8 DEF RevokeToken
    <2>2. QED
      BY <2>1, StepGoes DEF Left, Steps
  <1>9. QED
    BY <1>1, <1>2, <1>3, <1>4, <1>5, <1>6, <1>7, <1>8 DEF VisitStep

\* A step that is not a visit's own leaves it alone, ends it or begins it.
OthersMay(v) ==
  \/ visit'[v] = NoVisit
  \/ visit'[v] = visit[v] /\ (visit[v] # NoVisit => replica_key'[v] = replica_key[v])
  \/ visit[v] = NoVisit /\ visit'[v].step \in {"exchanged", "found"}

LEMMA OthersLeave ==
  ASSUME ConsoleInv, [ConsoleNext]_consoleVars, NEW v \in Visitor, ~VisitStep(v)
  PROVE  OthersMay(v)
  <1>0. /\ visit \in [Visitor -> Visit \cup {NoVisit}]
        /\ replica_key \in [Visitor -> ServerKey]
    BY DEF ConsoleInv, ConsoleTypeOK
  <1>1. CASE UNCHANGED <<visit, replica_key>>
    BY <1>1 DEF OthersMay
  <1>2. ASSUME NEW w \in Visitor, NEW l \in Login, ExchangeCode(w, l)
        PROVE  OthersMay(v)
    <2>1. PICK t : t = [step |-> "exchanged", kind |-> "callback", login |-> l, pair |-> 1,
                        holds |-> FALSE,
                        row |-> [pair |-> 1, key |-> replica_key[w], stale |-> FALSE, expired |-> FALSE]]
      OBVIOUS
    <2>2. visit[w] = NoVisit /\ visit' = [visit EXCEPT ![w] = t] /\ UNCHANGED replica_key
      BY <1>2, <2>1 DEF ExchangeCode
    <2>3. t.step = "exchanged"
      BY <2>1
    <2>4. QED
      BY <1>0, <2>2, <2>3 DEF OthersMay
  <1>3. ASSUME NEW w \in Visitor, NEW l \in Login, NEW kind \in {"request", "logout"}, Find(w, l, kind)
        PROVE  OthersMay(v)
    <2>1. PICK t : t = [step |-> "found", kind |-> kind, login |-> l, row |-> stored[l],
                        pair |-> 0, holds |-> FALSE]
      OBVIOUS
    <2>2. visit[w] = NoVisit /\ visit' = [visit EXCEPT ![w] = t] /\ UNCHANGED replica_key
      BY <1>3, <2>1 DEF Find
    <2>3. t.step = "found"
      BY <2>1
    <2>4. QED
      BY <1>0, <2>2, <2>3 DEF OthersMay
  <1>4. ASSUME NEW w \in Visitor, NEW k \in ServerKey, Redeploy(w, k)
        PROVE  OthersMay(v)
    BY <1>0, <1>4 DEF Redeploy, OthersMay
  <1>5. ASSUME NEW w \in Visitor, VisitStep(w)
        PROVE  OthersMay(v)
    <2>1. w # v /\ Goes(w)
      BY <1>5, VisitGoes
    <2>2. visit'[v] = visit[v] /\ UNCHANGED replica_key
      BY <2>1 DEF Goes
    <2>3. QED
      BY <2>2 DEF OthersMay
  <1>6. ASSUME NEW w \in Visitor, Disconnect(w) \/ Killed(w)
        PROVE  OthersMay(v)
    BY <1>0, <1>6 DEF Disconnect, Killed, End, OthersMay
  <1>7. CASE \/ \E l \in Login : \/ StartLogin(l) \/ FlowExpires(l) \/ PlatformRevokes(l)
                                 \/ AccessAges(l) \/ SessionExpires(l) \/ PurgeExpired(l)
                                 \/ Report(l) \/ CleanUpSessions(l)
             \/ \E l \in Login, pair \in 1..MaxPair : LateRefresh(l, pair)
             \/ UNCHANGED consoleVars
    <2>1. UNCHANGED <<visit, replica_key>>
      BY <1>7 DEF StartLogin, FlowExpires, PlatformRevokes, AccessAges, SessionExpires, PurgeExpired,
         Report, CleanUpSessions, LateRefresh, consoleVars
    <2>2. QED
      BY <1>1, <2>1
  <1>8. QED
    BY <1>2, <1>3, <1>4, <1>5, <1>6, <1>7 DEF ConsoleNext

\* The refresh is a chain of statements and one request: no visit, whatever
\* fails and whoever else acts, takes more than seven steps.
THEOREM VisitsGetShorter == ConsoleSpec => VisitsShorten
  <1>1. ConsoleInv /\ [ConsoleNext]_consoleVars =>
          [\A v \in Visitor : visit[v] # NoVisit =>
             \/ visit'[v] = NoVisit
             \/ visit'[v] = visit[v]
             \/ /\ visit'[v].login = visit[v].login
                /\ Left[visit'[v].step] < Left[visit[v].step]]_consoleVars
    <2>1. SUFFICES ASSUME ConsoleInv, [ConsoleNext]_consoleVars, NEW v \in Visitor, visit[v] # NoVisit
                   PROVE  \/ visit'[v] = NoVisit
                          \/ visit'[v] = visit[v]
                          \/ /\ visit'[v].login = visit[v].login
                             /\ Left[visit'[v].step] < Left[visit[v].step]
      OBVIOUS
    <2>2. CASE VisitStep(v)
      BY <2>1, <2>2, VisitGoes DEF Goes
    <2>3. CASE ~VisitStep(v)
      BY <2>1, <2>3, OthersLeave DEF OthersMay
    <2>4. QED
      BY <2>2, <2>3
  <1>2. QED
    BY <1>1, SessionsSound, PTL DEF ConsoleSpec, VisitsShorten

LEMMA UnopenedKept == ConsoleInv /\ KeptUnopened /\ [ConsoleNext]_consoleVars => KeptUnopened'
  <1>1. SUFFICES ASSUME ConsoleInv, KeptUnopened, [ConsoleNext]_consoleVars, NEW v \in Visitor,
                        visit'[v] # NoVisit, visit'[v].holds, visit'[v].step = "dropping"
                 PROVE  visit'[v].row.key # replica_key'[v]
    BY DEF KeptUnopened, Holds, CanOpen
  <1>2. CASE VisitStep(v)
    BY <1>1, <1>2, VisitGoes DEF Goes, CanOpen
  <1>3. CASE ~VisitStep(v)
    BY <1>1, <1>3, OthersLeave DEF OthersMay, KeptUnopened, Holds, CanOpen
  <1>4. QED
    BY <1>2, <1>3

\* Whoever a visit waits for can go on by itself: no two visits wait for each
\* other, and the one that waits for itself has the row of another key.
THEOREM LocksAreLetGo == ConsoleSpec => []HoldersGoOn
  <1>1. ConsoleInit => KeptUnopened
    BY DEF ConsoleInit, KeptUnopened, Holds
  <1>2. ConsoleInv /\ KeptUnopened => HoldersGoOn
    <2>1. SUFFICES ASSUME ConsoleInv, KeptUnopened, NEW v \in Visitor, NEW l \in Login, WaitsFor(v, l)
                   PROVE  \E w \in Visitor : /\ On(w, l) /\ Holds(w)
                                             /\ WaitsFor(w, l) => WaitsForItself(w) /\ ~CanOpen(w)
      BY DEF HoldersGoOn
    <2>2. PICK w \in Visitor : On(w, l) /\ Holds(w)
      BY <2>1 DEF WaitsFor, Unlocked, On, Holds
    <2>3. visit[w].step # "queued"
      BY <2>1, <2>2 DEF ConsoleInv, LocksShown, Locking
    <2>4. visit[w].step = "dropping" => WaitsForItself(w) /\ ~CanOpen(w)
      BY <2>1, <2>2 DEF KeptUnopened, WaitsForItself, Holds
    <2>5. QED
      BY <2>2, <2>3, <2>4 DEF WaitsFor
  <1>3. QED
    BY <1>1, <1>2, UnopenedKept, SessionsSound, PTL DEF ConsoleSpec
=============================================================================
