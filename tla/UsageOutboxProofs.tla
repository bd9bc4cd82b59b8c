------------------------- MODULE UsageOutboxProofs -------------------------
(***************************************************************************)
(* Theorems about UsageOutbox, for any replicas, events, orgs, meters and  *)
(* batch size: nothing is lost, only final refusals become dead letters,   *)
(* and the outbox implements UsageLedger.                                  *)
(*                                                                         *)
(* NothingLost alone is not inductive: it says nothing of what a replica   *)
(* carries from the platform's answer to the transaction that acts on it.  *)
(* PassesSound does: whatever has happened to the tables since, an event   *)
(* of the answered batch that is not held was counted or was refused for   *)
(* good, and a refused event that was not copied had already left the      *)
(* outbox, which no event enters twice.                                    *)
(***************************************************************************)
EXTENDS UsageOutbox, FiniteSetTheorems, TLAPS

-----------------------------------------------------------------------------
(* The inductive invariant. *)

\* Everything that moves was recorded, and a dead letter has left the outbox.
OnlyRecorded ==
  /\ outbox \subseteq recorded
  /\ counted \subseteq recorded
  /\ late \subseteq recorded
  /\ \A e \in Event : dead[e] > 0 => e \in recorded /\ e \notin outbox

\* An org is purged after the platform has deleted it, and stays empty.
PurgedStayEmpty ==
  /\ purged \subseteq gone
  /\ \A e \in outbox : OrgOf[e] \notin purged

\* What a receipt says of the batch it answers for.
Receipt(s) ==
  /\ s.refused \subseteq s.batch \ s.held
  /\ \A e \in s.refused : OrgOf[e] \in gone
  /\ s.batch \ s.held \subseteq counted \cup s.refused

\* What is in a replica's hands between the claim and the settlement.
PassSound(s) ==
  /\ s.batch \subseteq recorded
  /\ s.step \in {"answered", "copied"} => Receipt(s)
  /\ s.step = "copied" =>
       /\ s.copies \subseteq s.refused
       /\ \A e \in s.refused \ s.copies : e \notin outbox

PassesSound == \A r \in Replica : PassSound(shipper[r])

IInv ==
  /\ TypeOK
  /\ OnlyRecorded
  /\ PurgedStayEmpty
  /\ PassesSound
  /\ NothingLost
  /\ OnlyFinalRefusalsDie

-----------------------------------------------------------------------------
(* Small facts. *)

\* A receipt whose count is the batch's answers for the whole batch.
LEMMA FullReceipt ==
  ASSUME TypeOK, NEW r \in Replica, NEW P \in SUBSET shipper[r].batch,
         AddsUp(P, shipper[r].batch)
  PROVE  P = shipper[r].batch
<1>1. shipper[r].batch \subseteq Event
  BY DEF TypeOK, Shipper
<1>2. IsFiniteSet(shipper[r].batch)
  BY <1>1, FS_Subset, EventAssumption
<1> QED
  BY <1>2, FS_Subset DEF AddsUp

LEMMA OffIsShipper == Off \in Shipper
BY DEF Off, Shipper

\* The task after a pass: nothing in hand.
LEMMA AfterPassIdle ==
  ASSUME NEW s \in Shipper, NEW redeclare \in BOOLEAN
  PROVE  /\ AfterPass(s, redeclare) \in Shipper
         /\ AfterPass(s, redeclare).batch = {}
         /\ AfterPass(s, redeclare).step \in {"off", "ready", "declaring"}
BY DEF AfterPass, Off, Shipper

\* A post ends with an answer or fails.
LEMMA IngestEnds ==
  ASSUME TypeOK, NEW r \in Replica, NEW P \in SUBSET shipper[r].batch,
         NEW replied \in BOOLEAN, Ingest(r, P, replied)
  PROVE  shipper'[r].step = "failed" \/ shipper'[r].step = "answered"
<1>1. shipper[r] \in Shipper
  BY DEF TypeOK
<1>2. CASE replied /\ AddsUp(P, shipper[r].batch)
  BY <1>1, <1>2 DEF Ingest, TypeOK, Shipper
<1>3. CASE ~(replied /\ AddsUp(P, shipper[r].batch))
  BY <1>1, <1>3 DEF Ingest, TypeOK, Shipper
<1> QED
  BY <1>2, <1>3

\* What Ingest makes of the shipper: a receipt for the whole batch, or a retry.
LEMMA IngestStep ==
  ASSUME TypeOK, NEW r \in Replica, NEW P \in SUBSET shipper[r].batch,
         NEW replied \in BOOLEAN, Ingest(r, P, replied)
  PROVE  /\ shipper' \in [Replica -> Shipper]
         /\ \A q \in Replica \ {r} : shipper'[q] = shipper[q]
         /\ shipper'[r].batch = shipper[r].batch
         /\ \/ shipper'[r].step = "failed"
            \/ /\ P = shipper[r].batch
               /\ shipper'[r].step = "answered"
               /\ shipper'[r].held = {e \in P : IsUnknownMeter(Reason(e))}
               /\ shipper'[r].refused =
                    {e \in P : Reason(e) # "none" /\ ~IsUnknownMeter(Reason(e))}
<1> DEFINE H == {e \in P : IsUnknownMeter(Reason(e))}
           F == {e \in P : Reason(e) # "none" /\ ~IsUnknownMeter(Reason(e))}
<1>1. H \in SUBSET Event /\ F \in SUBSET Event
  BY DEF TypeOK, Shipper
<1>2. CASE replied /\ AddsUp(P, shipper[r].batch)
  <2> DEFINE new == [step |-> "answered", stopping |-> shipper[r].stopping,
                     batch |-> shipper[r].batch, held |-> H, refused |-> F, copies |-> {}]
  <2>1. shipper' = [shipper EXCEPT ![r] = new]
    BY <1>2 DEF Ingest
  <2>2. P = shipper[r].batch
    BY <1>2, FullReceipt
  <2> HIDE DEF H, F
  <2>3. shipper' \in [Replica -> Shipper]
    <3>1. new \in Shipper
      BY <1>1 DEF TypeOK, Shipper
    <3> QED
      BY <2>1, <3>1 DEF TypeOK
  <2>4. /\ \A q \in Replica \ {r} : shipper'[q] = shipper[q]
        /\ shipper'[r].batch = shipper[r].batch
        /\ shipper'[r].step = "answered"
        /\ shipper'[r].held = H
        /\ shipper'[r].refused = F
    BY <2>1 DEF TypeOK, Shipper
  <2> QED
    BY <2>2, <2>3, <2>4 DEF H, F
<1>3. CASE ~(replied /\ AddsUp(P, shipper[r].batch))
  <2>1. shipper' = [shipper EXCEPT ![r].step = "failed"]
    BY <1>3 DEF Ingest
  <2> QED
    BY <2>1 DEF TypeOK, Shipper
<1> QED
  BY <1>2, <1>3

-----------------------------------------------------------------------------
(* Type correctness. *)

LEMMA InitTypeOK == Init => TypeOK
BY OffIsShipper DEF Init, TypeOK, Shipper, Meter

\* Replacing one replica's task by a well-formed one keeps the shippers typed.
LEMMA OneTaskTyped ==
  ASSUME TypeOK, NEW r \in Replica, NEW s \in Shipper, shipper' = [shipper EXCEPT ![r] = s]
  PROVE  shipper' \in [Replica -> Shipper]
BY DEF TypeOK

\* A field at a time, a task stays well-formed.
LEMMA TaskFieldsTyped ==
  ASSUME TypeOK, NEW r \in Replica,
         NEW step \in {"off", "declaring", "ready", "posted", "answered", "copied", "failed"},
         NEW S \in SUBSET Event
  PROVE  /\ [shipper EXCEPT ![r].step = step] \in [Replica -> Shipper]
         /\ [shipper EXCEPT ![r].step = step, ![r].batch = S] \in [Replica -> Shipper]
         /\ [shipper EXCEPT ![r].step = step, ![r].copies = S] \in [Replica -> Shipper]
         /\ [shipper EXCEPT ![r].stopping = TRUE] \in [Replica -> Shipper]
<1>0. shipper \in [Replica -> Shipper]
  BY DEF TypeOK
<1>1. [shipper EXCEPT ![r].step = step] \in [Replica -> Shipper]
  BY <1>0 DEF Shipper
<1>a. PICK t : t = [shipper[r] EXCEPT !.step = step]
  OBVIOUS
<1>b. t \in Shipper
  BY <1>0, <1>a DEF Shipper
<1>c. [t EXCEPT !.batch = S] \in Shipper /\ [t EXCEPT !.copies = S] \in Shipper
  BY <1>b DEF Shipper
<1>2. [shipper EXCEPT ![r].step = step, ![r].batch = S] \in [Replica -> Shipper]
  <2>1. [shipper EXCEPT ![r].step = step, ![r].batch = S]
          = [shipper EXCEPT ![r] = [t EXCEPT !.batch = S]]
    BY <1>0, <1>a
  <2> QED
    BY <1>0, <1>c, <2>1
<1>3. [shipper EXCEPT ![r].step = step, ![r].copies = S] \in [Replica -> Shipper]
  <2>1. [shipper EXCEPT ![r].step = step, ![r].copies = S]
          = [shipper EXCEPT ![r] = [t EXCEPT !.copies = S]]
    BY <1>0, <1>a
  <2> QED
    BY <1>0, <1>c, <2>1
<1>4. [shipper EXCEPT ![r].stopping = TRUE] \in [Replica -> Shipper]
  BY <1>0 DEF Shipper
<1> QED
  BY <1>1, <1>2, <1>3, <1>4

\* What a step of a shipper leaves typed, once its task is.
LEMMA ShipperTypeOK ==
  ASSUME TypeOK, NEW r \in Replica, ShipperStep(r)
  PROVE  TypeOK'
<1>1. CASE Start(r)
  <2>1. shipper' \in [Replica -> Shipper]
    BY <1>1, TaskFieldsTyped DEF Start
  <2> QED
    BY <1>1, <2>1 DEF Start, TypeOK, platform
<1>2. CASE Declare(r)
  <2>1. shipper' \in [Replica -> Shipper]
    BY <1>2, TaskFieldsTyped DEF Declare
  <2>2. declared' \subseteq Meter
    BY <1>2 DEF Declare, TypeOK, Meter
  <2> QED
    BY <1>2, <2>1, <2>2 DEF Declare, TypeOK
<1>3. CASE Claim(r)
  <2>1. Oldest \subseteq Event
    BY DEF Oldest, TypeOK
  <2>2. shipper' \in [Replica -> Shipper]
    BY <1>3, <2>1, TaskFieldsTyped DEF Claim
  <2>3. due' \subseteq outbox'
    BY <1>3 DEF Claim, TypeOK
  <2> QED
    BY <1>3, <2>2, <2>3 DEF Claim, TypeOK, platform
<1>4. CASE Post(r)
  <2> PICK P \in SUBSET shipper[r].batch, replied \in BOOLEAN : Ingest(r, P, replied)
    BY <1>4 DEF Post
  <2>1. shipper[r].batch \subseteq Event
    BY DEF TypeOK, Shipper
  <2>2. shipper' \in [Replica -> Shipper]
    BY IngestStep
  <2>3. late' \subseteq Event
    BY <2>1 DEF Ingest, TypeOK
  <2>4. counted' \subseteq Event
    BY <2>1 DEF Ingest, TypeOK
  <2> QED
    BY <2>2, <2>3, <2>4 DEF Ingest, TypeOK
<1>5. CASE Reschedule(r)
  <2>1. due' \subseteq outbox
    BY <1>5 DEF Reschedule, TypeOK
  <2>2. AfterPass(shipper[r], FALSE) \in Shipper
    BY AfterPassIdle DEF TypeOK
  <2>3. shipper' \in [Replica -> Shipper]
    BY <1>5, <2>2, OneTaskTyped DEF Reschedule
  <2> QED
    BY <1>5, <2>1, <2>3 DEF Reschedule, TypeOK, platform
<1>6. CASE CopyRefused(r)
  <2>1. shipper[r].refused \cap outbox \in SUBSET Event
    BY DEF TypeOK
  <2>2. shipper' \in [Replica -> Shipper]
    BY <1>6, <2>1, TaskFieldsTyped DEF CopyRefused
  <2> QED
    BY <1>6, <2>2 DEF CopyRefused, TypeOK, platform
<1>7. CASE Settle(r)
  <2>1. AfterPass(shipper[r], shipper[r].held # {}) \in Shipper
    BY AfterPassIdle DEF TypeOK
  <2>2. due' \subseteq outbox'
    BY <1>7 DEF Settle, TypeOK
  <2>3. dead' \in [Event -> Nat]
    BY <1>7 DEF Settle, TypeOK
  <2>4. outbox' \subseteq Event
    BY <1>7 DEF Settle, TypeOK
  <2>5. shipper' \in [Replica -> Shipper]
    BY <1>7, <2>1, OneTaskTyped DEF Settle
  <2> QED
    BY <1>7, <2>2, <2>3, <2>4, <2>5 DEF Settle, TypeOK, platform
<1>8. CASE RollBack(r)
  <2>1. AfterPass(shipper[r], FALSE) \in Shipper
    BY AfterPassIdle DEF TypeOK
  <2>2. shipper' \in [Replica -> Shipper]
    BY <1>8, <2>1, OneTaskTyped DEF RollBack
  <2> QED
    BY <1>8, <2>2 DEF RollBack, TypeOK, platform
<1>9. CASE Shutdown(r)
  <2>1. shipper' \in [Replica -> Shipper]
    BY <1>9, TaskFieldsTyped DEF Shutdown
  <2>2. disruptions' \in Nat
    BY <1>9 DEF Shutdown, TypeOK
  <2> QED
    BY <1>9, <2>1, <2>2 DEF Shutdown, TypeOK, platform
<1>10. CASE FlushNothing(r)
  <2>1. shipper' \in [Replica -> Shipper]
    BY <1>10, OffIsShipper, OneTaskTyped DEF FlushNothing
  <2> QED
    BY <1>10, <2>1 DEF FlushNothing, TypeOK, platform
<1>11. CASE Stop(r)
  <2>1. late' \subseteq Event
    BY <1>11 DEF Stop, TypeOK, Shipper
  <2>2. disruptions' \in Nat
    BY <1>11 DEF Stop, TypeOK
  <2>3. shipper' \in [Replica -> Shipper]
    BY <1>11, OffIsShipper, OneTaskTyped DEF Stop
  <2> QED
    BY <1>11, <2>1, <2>2, <2>3 DEF Stop, TypeOK, platform
<1> QED
  BY <1>1, <1>2, <1>3, <1>4, <1>5, <1>6, <1>7, <1>8, <1>9, <1>10, <1>11 DEF ShipperStep

LEMMA NextTypeOK ==
  ASSUME TypeOK, [Next]_vars
  PROVE  TypeOK'
<1>1. CASE \E r \in Replica : ShipperStep(r)
  BY <1>1, ShipperTypeOK
<1>2. ASSUME NEW e \in Event, Record(e) \/ ComeDue(e) \/ ArriveLate(e)
      PROVE  TypeOK'
  BY <1>2 DEF TypeOK, Record, ComeDue, ArriveLate, platform
<1>3. ASSUME NEW o \in Org, Purge(o) \/ DeleteOrg(o)
      PROVE  TypeOK'
  BY <1>3 DEF TypeOK, Purge, DeleteOrg, platform
<1>4. CASE LoseDeclarations
  BY <1>4 DEF TypeOK, LoseDeclarations, platform
<1>5. CASE UNCHANGED vars
  BY <1>5 DEF TypeOK, vars
<1> QED
  BY <1>1, <1>2, <1>3, <1>4, <1>5 DEF Next

\* Every variable of the outbox keeps its type.
THEOREM TypeCorrect == Spec => []TypeOK
<1> QED
  BY InitTypeOK, NextTypeOK, PTL DEF Spec

-----------------------------------------------------------------------------
(* The invariant is inductive. *)

LEMMA InitIInv == Init => IInv
<1> SUFFICES ASSUME Init PROVE IInv
  OBVIOUS
<1>1. TypeOK
  BY InitTypeOK
<1>2. OnlyRecorded /\ PurgedStayEmpty /\ NothingLost /\ OnlyFinalRefusalsDie
  BY DEF Init, OnlyRecorded, PurgedStayEmpty, NothingLost, OnlyFinalRefusalsDie
<1>3. PassesSound
  BY DEF Init, PassesSound, PassSound, Off
<1> QED
  BY <1>1, <1>2, <1>3 DEF IInv

\* A pass stays sound whatever the others do, for what it relies on is stable:
\* a count and a deletion are final, and no event enters the outbox twice.
LEMMA PassStands ==
  ASSUME IInv, NEW q \in Replica, shipper'[q] = shipper[q],
         recorded \subseteq recorded', counted \subseteq counted', gone \subseteq gone',
         outbox' \cap recorded \subseteq outbox
  PROVE  PassSound(shipper[q])'
<1>1. PassSound(shipper[q])
  BY DEF IInv, PassesSound
<1>2. shipper[q].batch \subseteq recorded'
  BY <1>1 DEF PassSound
<1>3. ASSUME shipper[q].step \in {"answered", "copied"}
      PROVE  /\ shipper[q].refused \subseteq shipper[q].batch \ shipper[q].held
             /\ \A e \in shipper[q].refused : OrgOf[e] \in gone'
             /\ shipper[q].batch \ shipper[q].held \subseteq counted' \cup shipper[q].refused
  BY <1>1, <1>3 DEF PassSound, Receipt
<1>4. ASSUME shipper[q].step = "copied"
      PROVE  /\ shipper[q].copies \subseteq shipper[q].refused
             /\ \A e \in shipper[q].refused \ shipper[q].copies : e \notin outbox'
  BY <1>1, <1>4 DEF PassSound, Receipt
<1> QED
  BY <1>2, <1>3, <1>4 DEF PassSound, Receipt

\* A pass that holds no receipt has nothing to be sound about but its batch.
LEMMA PassWithoutReceipt ==
  ASSUME NEW q \in Replica, shipper'[q].step \notin {"answered", "copied"},
         shipper'[q].batch \subseteq recorded'
  PROVE  PassSound(shipper[q])'
BY DEF PassSound

\* The steps that leave the tables alone, but for what the platform counts and
\* what is on its way to it.
LEMMA TablesStand ==
  ASSUME IInv, TypeOK', UNCHANGED <<recorded, outbox, dead, purged, gone>>,
         counted \subseteq counted', counted' \subseteq recorded, late' \subseteq recorded,
         \A q \in Replica : shipper'[q] = shipper[q] \/ PassSound(shipper[q])'
  PROVE  IInv'
<1> USE DEF IInv
<1>1. OnlyRecorded' /\ PurgedStayEmpty'
  BY DEF OnlyRecorded, PurgedStayEmpty
<1>2. NothingLost' /\ OnlyFinalRefusalsDie'
  BY DEF NothingLost, OnlyFinalRefusalsDie
<1>3. PassesSound'
  BY PassStands DEF PassesSound
<1> QED
  BY <1>1, <1>2, <1>3

\* The platform processes a post: what it does not refuse it counts.
LEMMA IngestIInv ==
  ASSUME IInv, TypeOK', NEW r \in Replica, Post(r)
  PROVE  IInv'
<1> USE DEF IInv
<1> PICK P \in SUBSET shipper[r].batch, replied \in BOOLEAN : Ingest(r, P, replied)
  BY DEF Post
<1>1. /\ shipper[r].batch \subseteq recorded
      /\ UNCHANGED <<recorded, outbox, dead, purged, gone>>
      /\ counted' = counted \cup {e \in P : Reason(e) = "none"}
  BY DEF Ingest, PassesSound, PassSound, platform
<1>2. counted \subseteq counted' /\ counted' \subseteq recorded /\ late' \subseteq recorded
  BY <1>1 DEF Ingest, OnlyRecorded
<1>3. PassSound(shipper[r])'
  <2>1. /\ shipper'[r].batch = shipper[r].batch
        /\ \/ shipper'[r].step = "failed"
           \/ /\ P = shipper[r].batch
              /\ shipper'[r].step = "answered"
              /\ shipper'[r].held = {e \in P : IsUnknownMeter(Reason(e))}
              /\ shipper'[r].refused =
                   {e \in P : Reason(e) # "none" /\ ~IsUnknownMeter(Reason(e))}
    BY IngestStep
  <2>2. CASE shipper'[r].step = "failed"
    BY <1>1, <2>1, <2>2, PassWithoutReceipt
  <2>3. CASE shipper'[r].step # "failed"
    <3>1. \A e \in shipper'[r].refused : OrgOf[e] \in gone'
      BY <1>1, <2>1, <2>3 DEF IsUnknownMeter, Reason
    <3>2. shipper'[r].batch \ shipper'[r].held \subseteq counted' \cup shipper'[r].refused
      BY <1>1, <2>1, <2>3 DEF IsUnknownMeter
    <3>3. shipper'[r].refused \subseteq shipper'[r].batch \ shipper'[r].held
      BY <2>1, <2>3
    <3> QED
      BY <1>1, <2>1, <2>3, <3>1, <3>2, <3>3 DEF PassSound, Receipt
  <2> QED
    BY <2>2, <2>3
<1>4. \A q \in Replica \ {r} : shipper'[q] = shipper[q]
  BY IngestStep
<1> QED
  BY <1>1, <1>2, <1>3, <1>4, TablesStand

\* The settling transaction commits: every event it deletes was counted, or is
\* among the dead letters it copied, or had left the outbox before the copy.
LEMMA SettleIInv ==
  ASSUME IInv, TypeOK', NEW r \in Replica, Settle(r)
  PROVE  IInv'
<1> USE DEF IInv
<1>1. /\ shipper[r].copies \subseteq shipper[r].refused
      /\ shipper[r].batch \subseteq recorded
      /\ \A e \in shipper[r].refused \ shipper[r].copies : e \notin outbox
      /\ shipper[r].refused \subseteq shipper[r].batch \ shipper[r].held
      /\ \A e \in shipper[r].refused : OrgOf[e] \in gone
      /\ shipper[r].batch \ shipper[r].held \subseteq counted \cup shipper[r].refused
  BY DEF Settle, PassesSound, PassSound, Receipt
<1>2. /\ UNCHANGED <<recorded, purged, counted, gone, late>>
      /\ outbox' = outbox \ (shipper[r].batch \ shipper[r].held)
  BY DEF Settle, platform
<1>3. /\ dead \in [Event -> Nat]
      /\ \A e \in Event : dead'[e] = dead[e] + (IF e \in shipper[r].copies THEN 1 ELSE 0)
  BY DEF Settle, TypeOK
<1>4. \A e \in Event : dead'[e] > 0 <=> dead[e] > 0 \/ e \in shipper[r].copies
  BY <1>3
<1>5. OnlyRecorded'
  BY <1>1, <1>2, <1>4 DEF OnlyRecorded
<1>6. PurgedStayEmpty'
  BY <1>2 DEF PurgedStayEmpty
<1>7. NothingLost'
  <2> SUFFICES ASSUME NEW e \in recorded
               PROVE  e \in outbox' \/ e \in counted \/ dead'[e] > 0 \/ OrgOf[e] \in purged
    BY <1>2 DEF NothingLost
  <2>1. e \in Event /\ (e \in outbox \/ e \in counted \/ dead[e] > 0 \/ OrgOf[e] \in purged)
    BY DEF NothingLost, TypeOK
  <2> QED
    BY <1>1, <1>2, <1>4, <2>1
<1>8. OnlyFinalRefusalsDie'
  BY <1>1, <1>2, <1>4 DEF OnlyFinalRefusalsDie
<1>9. PassesSound'
  <2>1. ASSUME NEW q \in Replica, q # r
        PROVE  PassSound(shipper[q])'
    BY <1>2, <2>1, PassStands DEF Settle
  <2>2. PassSound(shipper[r])'
    <3>1. shipper[r] \in Shipper /\ shipper'[r] = AfterPass(shipper[r], shipper[r].held # {})
      BY DEF Settle, TypeOK
    <3> QED
      BY <3>1, AfterPassIdle, PassWithoutReceipt
  <2> QED
    BY <2>1, <2>2 DEF PassesSound
<1> QED
  BY <1>5, <1>6, <1>7, <1>8, <1>9

LEMMA ShipperIInv ==
  ASSUME IInv, TypeOK', NEW r \in Replica, ShipperStep(r)
  PROVE  IInv'
<1> USE DEF IInv
<1>1. /\ shipper \in [Replica -> Shipper]
      /\ PassSound(shipper[r])
      /\ shipper[r].batch \subseteq recorded
      /\ counted \subseteq recorded /\ late \subseteq recorded /\ due \subseteq recorded
  BY DEF TypeOK, PassesSound, PassSound, OnlyRecorded
<1>2. CASE Start(r) \/ Declare(r) \/ Shutdown(r)
  <2>1. /\ UNCHANGED <<recorded, outbox, dead, purged, counted, gone, late>>
        /\ \A q \in Replica \ {r} : shipper'[q] = shipper[q]
        /\ shipper'[r].step \in {"declaring", "ready"}
        /\ shipper'[r].batch = shipper[r].batch
    BY <1>1, <1>2 DEF Start, Declare, Shutdown, platform, Shipper
  <2>2. PassSound(shipper[r])'
    BY <1>1, <2>1, PassWithoutReceipt
  <2> QED
    BY <1>1, <2>1, <2>2, TablesStand
<1>3. CASE Claim(r)
  <2>1. /\ UNCHANGED <<recorded, outbox, dead, purged, counted, gone, late>>
        /\ \A q \in Replica \ {r} : shipper'[q] = shipper[q]
        /\ shipper'[r].step = "posted"
        /\ shipper'[r].batch = Oldest
    BY <1>1, <1>3 DEF Claim, platform, Shipper
  <2>2. PassSound(shipper[r])'
    BY <1>1, <2>1, PassWithoutReceipt DEF Oldest
  <2> QED
    BY <1>1, <2>1, <2>2, TablesStand
<1>4. CASE Post(r)
  BY <1>4, IngestIInv
<1>5. CASE Reschedule(r) \/ RollBack(r)
  <2>1. /\ UNCHANGED <<recorded, outbox, dead, purged, counted, gone, late>>
        /\ \A q \in Replica \ {r} : shipper'[q] = shipper[q]
        /\ shipper'[r] = AfterPass(shipper[r], FALSE)
    BY <1>1, <1>5 DEF Reschedule, RollBack, platform
  <2>2. PassSound(shipper[r])'
    BY <1>1, <2>1, AfterPassIdle, PassWithoutReceipt
  <2> QED
    BY <1>1, <2>1, <2>2, TablesStand
<1>6. CASE CopyRefused(r)
  <2>1. /\ UNCHANGED <<recorded, outbox, dead, purged, counted, gone, late>>
        /\ \A q \in Replica \ {r} : shipper'[q] = shipper[q]
        /\ shipper'[r].step = "copied"
        /\ shipper'[r].copies = shipper[r].refused \cap outbox
        /\ shipper'[r].batch = shipper[r].batch
        /\ shipper'[r].held = shipper[r].held
        /\ shipper'[r].refused = shipper[r].refused
    BY <1>1, <1>6 DEF CopyRefused, platform, Shipper
  <2>2. Receipt(shipper[r])
    BY <1>1, <1>6 DEF CopyRefused, PassSound
  <2>3. PassSound(shipper[r])'
    BY <1>1, <2>1, <2>2 DEF PassSound, Receipt
  <2> QED
    BY <1>1, <2>1, <2>3, TablesStand
<1>7. CASE Settle(r)
  BY <1>7, SettleIInv
<1>8. CASE FlushNothing(r) \/ Stop(r)
  <2>1. /\ UNCHANGED <<recorded, outbox, dead, purged, counted, gone>>
        /\ \A q \in Replica \ {r} : shipper'[q] = shipper[q]
        /\ shipper'[r] = Off
        /\ late' \subseteq recorded
    BY <1>1, <1>8 DEF FlushNothing, Stop, platform
  <2>2. PassSound(shipper[r])'
    BY <2>1, PassWithoutReceipt DEF Off
  <2> QED
    BY <1>1, <2>1, <2>2, TablesStand
<1> QED
  BY <1>2, <1>3, <1>4, <1>5, <1>6, <1>7, <1>8 DEF ShipperStep

LEMMA NextIInv ==
  ASSUME IInv, [Next]_vars
  PROVE  IInv'
<1> USE DEF IInv
<1>0. TypeOK'
  BY NextTypeOK
<1>1. CASE \E r \in Replica : ShipperStep(r)
  BY <1>0, <1>1, ShipperIInv
<1>2. ASSUME NEW e \in Event, Record(e)
      PROVE  IInv'
  <2>1. /\ e \notin recorded /\ OrgOf[e] \notin purged
        /\ recorded' = recorded \cup {e} /\ outbox' = outbox \cup {e}
        /\ UNCHANGED <<dead, purged, shipper, counted, gone, late>>
    BY <1>2 DEF Record, platform
  <2>2. OnlyRecorded'
    BY <2>1 DEF OnlyRecorded
  <2>3. PurgedStayEmpty' /\ NothingLost' /\ OnlyFinalRefusalsDie'
    BY <2>1 DEF PurgedStayEmpty, NothingLost, OnlyFinalRefusalsDie
  <2>4. PassesSound'
    BY <2>1, PassStands DEF PassesSound
  <2> QED
    BY <1>0, <2>2, <2>3, <2>4
<1>3. ASSUME NEW e \in Event, ComeDue(e) \/ ArriveLate(e)
      PROVE  IInv'
  <2>1. /\ UNCHANGED <<recorded, outbox, dead, purged, gone, shipper>>
        /\ counted \subseteq counted' /\ counted' \subseteq counted \cup late /\ late' \subseteq late
    BY <1>3 DEF ComeDue, ArriveLate, platform
  <2> QED
    BY <1>0, <2>1, TablesStand DEF OnlyRecorded
<1>4. ASSUME NEW o \in Org, Purge(o)
      PROVE  IInv'
  <2>1. /\ o \in gone /\ purged' = purged \cup {o}
        /\ outbox' = {e \in outbox : OrgOf[e] # o}
        /\ UNCHANGED <<recorded, dead, shipper, counted, gone, late>>
    BY <1>4 DEF Purge, platform
  <2>2. OnlyRecorded' /\ PurgedStayEmpty'
    BY <2>1 DEF OnlyRecorded, PurgedStayEmpty
  <2>3. NothingLost' /\ OnlyFinalRefusalsDie'
    BY <2>1 DEF NothingLost, OnlyFinalRefusalsDie
  <2>4. PassesSound'
    BY <2>1, PassStands DEF PassesSound
  <2> QED
    BY <1>0, <2>2, <2>3, <2>4
<1>5. ASSUME gone \subseteq gone', UNCHANGED <<recorded, outbox, dead, purged, counted, late, shipper>>
      PROVE  IInv'
  <2>1. OnlyRecorded' /\ PurgedStayEmpty'
    BY <1>5 DEF OnlyRecorded, PurgedStayEmpty
  <2>2. NothingLost' /\ OnlyFinalRefusalsDie'
    BY <1>5 DEF NothingLost, OnlyFinalRefusalsDie
  <2>3. PassesSound'
    BY <1>5, PassStands DEF PassesSound
  <2> QED
    BY <1>0, <2>1, <2>2, <2>3
<1>6. ASSUME NEW o \in Org, DeleteOrg(o)
      PROVE  IInv'
  BY <1>5, <1>6 DEF DeleteOrg
<1>7. CASE LoseDeclarations \/ UNCHANGED vars
  BY <1>5, <1>7 DEF LoseDeclarations, vars
<1> QED
  BY <1>1, <1>2, <1>3, <1>4, <1>6, <1>7 DEF Next

LEMMA Inductive == Spec => []IInv
<1> QED
  BY InitIInv, NextIInv, PTL DEF Spec

\* A recorded event is queued, counted, a dead letter, or deleted with its org:
\* for any number of replicas, crashes, lost replies and deleted orgs.
THEOREM NothingIsLost == Spec => []NothingLost
<1>1. IInv => NothingLost
  BY DEF IInv
<1> QED
  BY <1>1, Inductive, PTL

\* A dead letter belongs to an org the platform has deleted.
THEOREM DeadLettersAreFinal == Spec => []OnlyFinalRefusalsDie
<1>1. IInv => OnlyFinalRefusalsDie
  BY DEF IInv
<1> QED
  BY <1>1, Inductive, PTL

\* What is true of the doc's "every row is deleted": an org's queue is empty from
\* its purge on, also against calls and settlements that were under way.
THEOREM PurgedQueuesStayEmpty == Spec => []PurgedStayEmpty
<1>1. IInv => PurgedStayEmpty
  BY DEF IInv
<1> QED
  BY <1>1, Inductive, PTL

-----------------------------------------------------------------------------
(* Dead letters.  OneLetterPerReplica is not inductive: a copy that has     *)
(* been made and not committed counts too.  No copy is begun once the first *)
(* letter is kept, and then every commit uses up a copy.                    *)

\* The replicas that have copied e in an open transaction.
Copying(e) == {r \in Replica : shipper[r].step = "copied" /\ e \in shipper[r].copies}

LettersBounded == \A e \in Event : dead[e] + Cardinality(Copying(e)) <= Cardinality(Replica)

LEMMA CopyingFinite ==
  ASSUME NEW S \in SUBSET Replica
  PROVE  /\ IsFiniteSet(S)
         /\ Cardinality(S) \in Nat
         /\ Cardinality(Replica) \in Nat
         /\ Cardinality(S) <= Cardinality(Replica)
  BY ReplicaAssumption, FS_Subset, FS_CardinalityType

\* Copies that are given up, and letters that are not kept, leave room.
LEMMA FewerCopies ==
  ASSUME IInv, LettersBounded, UNCHANGED dead, \A e \in Event : Copying(e)' \subseteq Copying(e)
  PROVE  LettersBounded'
<1> SUFFICES ASSUME NEW e \in Event
             PROVE  dead[e] + Cardinality(Copying(e)') <= Cardinality(Replica)
  BY DEF LettersBounded
<1>1. Copying(e) \in SUBSET Replica /\ Copying(e)' \in SUBSET Copying(e)
  BY DEF Copying
<1>2. /\ Cardinality(Copying(e)) \in Nat
      /\ Cardinality(Copying(e)') \in Nat
      /\ Cardinality(Replica) \in Nat
      /\ dead[e] \in Nat
  BY <1>1, CopyingFinite DEF IInv, TypeOK
<1>3. Cardinality(Copying(e)') <= Cardinality(Copying(e))
  BY <1>1, CopyingFinite, FS_Subset
<1> QED
  BY <1>2, <1>3 DEF LettersBounded

\* A copy takes what is in the outbox, of which there is no letter yet.
LEMMA CopyBounded ==
  ASSUME IInv, LettersBounded, NEW r \in Replica, CopyRefused(r)
  PROVE  LettersBounded'
<1>1. /\ UNCHANGED dead
      /\ shipper'[r].copies = shipper[r].refused \cap outbox
      /\ \A q \in Replica \ {r} : shipper'[q] = shipper[q]
  BY DEF CopyRefused, IInv, TypeOK, Shipper
<1> SUFFICES ASSUME NEW e \in Event
             PROVE  dead[e] + Cardinality(Copying(e)') <= Cardinality(Replica)
  BY <1>1 DEF LettersBounded
<1>2. Copying(e) \in SUBSET Replica /\ Copying(e)' \in SUBSET Replica
  BY DEF Copying
<1>3. /\ Cardinality(Copying(e)) \in Nat
      /\ Cardinality(Copying(e)') \in Nat
      /\ Cardinality(Copying(e)') <= Cardinality(Replica)
      /\ Cardinality(Replica) \in Nat
      /\ dead[e] \in Nat
  BY <1>2, CopyingFinite DEF IInv, TypeOK
<1>4. CASE e \in outbox
  <2>1. dead[e] = 0
    BY <1>3, <1>4 DEF IInv, OnlyRecorded
  <2> QED
    BY <1>3, <2>1
<1>5. CASE e \notin outbox
  <2>1. Copying(e)' \in SUBSET Copying(e)
    BY <1>1, <1>5 DEF Copying
  <2>2. Cardinality(Copying(e)') <= Cardinality(Copying(e))
    BY <1>2, <2>1, CopyingFinite, FS_Subset
  <2> QED
    BY <1>3, <2>2 DEF LettersBounded
<1> QED
  BY <1>4, <1>5

\* A settlement turns its copies into letters, one for one.
LEMMA SettleBounded ==
  ASSUME IInv, LettersBounded, NEW r \in Replica, Settle(r)
  PROVE  LettersBounded'
<1>1. /\ shipper[r].step = "copied"
      /\ shipper'[r] = AfterPass(shipper[r], shipper[r].held # {})
      /\ \A q \in Replica \ {r} : shipper'[q] = shipper[q]
      /\ shipper[r] \in Shipper
  BY DEF Settle, IInv, TypeOK
<1>2. shipper'[r].step # "copied"
  BY <1>1, AfterPassIdle
<1> SUFFICES ASSUME NEW e \in Event
             PROVE  dead'[e] + Cardinality(Copying(e)') <= Cardinality(Replica)
  BY DEF LettersBounded
<1>3. dead'[e] = dead[e] + (IF e \in shipper[r].copies THEN 1 ELSE 0) /\ dead[e] \in Nat
  BY DEF Settle, IInv, TypeOK
<1>4. Copying(e)' = Copying(e) \ {r}
  BY <1>1, <1>2 DEF Copying
<1>5. r \in Copying(e) <=> e \in shipper[r].copies
  BY <1>1 DEF Copying
<1>6. Copying(e) \in SUBSET Replica
  BY DEF Copying
<1>7. /\ IsFiniteSet(Copying(e))
      /\ Cardinality(Copying(e)) \in Nat
      /\ Cardinality(Replica) \in Nat
  BY <1>6, CopyingFinite
<1>8. Cardinality(Copying(e) \ {r}) =
        IF r \in Copying(e) THEN Cardinality(Copying(e)) - 1 ELSE Cardinality(Copying(e))
  BY <1>7, FS_RemoveElement
<1> QED
  BY <1>3, <1>4, <1>5, <1>7, <1>8 DEF LettersBounded

LEMMA NextLetters == IInv /\ LettersBounded /\ [Next]_vars => LettersBounded'
<1> SUFFICES ASSUME IInv, LettersBounded, [Next]_vars PROVE LettersBounded'
  OBVIOUS
<1>0. shipper \in [Replica -> Shipper]
  BY DEF IInv, TypeOK
<1>1. ASSUME NEW r \in Replica, ShipperStep(r), ~CopyRefused(r), ~Settle(r)
      PROVE  LettersBounded'
  <2>0. shipper[r] \in Shipper
    BY <1>0
  <2>1. /\ UNCHANGED dead
        /\ \A q \in Replica \ {r} : shipper'[q] = shipper[q]
        /\ shipper'[r].step # "copied"
    <3>1. CASE Start(r) \/ Declare(r) \/ Claim(r) \/ Shutdown(r)
      BY <1>0, <2>0, <3>1 DEF Start, Declare, Claim, Shutdown, Shipper
    <3>2. CASE Post(r)
      <4> PICK P \in SUBSET shipper[r].batch, replied \in BOOLEAN : Ingest(r, P, replied)
        BY <3>2 DEF Post
      <4>1. UNCHANGED dead
        BY DEF Ingest
      <4>2. /\ \A q \in Replica \ {r} : shipper'[q] = shipper[q]
            /\ shipper'[r].step = "failed" \/ shipper'[r].step = "answered"
        <5>1. TypeOK
          BY DEF IInv
        <5>2. \A q \in Replica \ {r} : shipper'[q] = shipper[q]
          BY <5>1, IngestStep
        <5>3. shipper'[r].step = "failed" \/ shipper'[r].step = "answered"
          BY <5>1, IngestEnds
        <5> QED
          BY <5>2, <5>3
      <4> QED
        BY <4>1, <4>2
    <3>3. CASE Reschedule(r) \/ RollBack(r)
      <4>1. /\ UNCHANGED dead
            /\ shipper' = [shipper EXCEPT ![r] = AfterPass(shipper[r], FALSE)]
        BY <3>3 DEF Reschedule, RollBack
      <4>2. AfterPass(shipper[r], FALSE).step # "copied"
        BY <2>0, AfterPassIdle
      <4> QED
        BY <1>0, <4>1, <4>2
    <3>4. CASE FlushNothing(r) \/ Stop(r)
      BY <1>0, <3>4 DEF FlushNothing, Stop, Off
    <3> QED
      BY <1>1, <3>1, <3>2, <3>3, <3>4 DEF ShipperStep
  <2>2. \A e \in Event : Copying(e)' \subseteq Copying(e)
    BY <2>1 DEF Copying
  <2> QED
    BY <2>1, <2>2, FewerCopies
<1>2. CASE UNCHANGED <<dead, shipper>>
  <2>1. \A e \in Event : Copying(e)' = Copying(e)
    BY <1>2 DEF Copying
  <2> QED
    BY <1>2, <2>1, FewerCopies
<1> QED
  BY <1>1, <1>2, CopyBounded, SettleBounded
     DEF Next, Record, ComeDue, ArriveLate, Purge, DeleteOrg, LoseDeclarations, vars

\* However often posts and settlements are repeated, a refused event leaves one
\* dead letter per replica at most.
THEOREM LettersAreFew == Spec => []OneLetterPerReplica
<1>1. Init => LettersBounded
  <2> SUFFICES ASSUME Init, NEW e \in Event
               PROVE  dead[e] + Cardinality(Copying(e)) <= Cardinality(Replica)
    BY DEF LettersBounded
  <2>1. dead[e] = 0 /\ Copying(e) \in SUBSET Replica
    BY DEF Init, Copying
  <2> QED
    BY <2>1, CopyingFinite
<1>2. IInv /\ LettersBounded => OneLetterPerReplica
  <2> SUFFICES ASSUME IInv, LettersBounded, NEW e \in Event
               PROVE  dead[e] <= Cardinality(Replica)
    BY DEF OneLetterPerReplica
  <2>1. Copying(e) \in SUBSET Replica /\ dead[e] \in Nat
    BY DEF Copying, IInv, TypeOK
  <2>2. Cardinality(Copying(e)) \in Nat /\ Cardinality(Replica) \in Nat
    BY <2>1, CopyingFinite
  <2> QED
    BY <2>1, <2>2 DEF LettersBounded
<1> QED
  BY <1>1, <1>2, NextLetters, Inductive, PTL DEF Spec

-----------------------------------------------------------------------------
(* What is written off. *)

\* What was written off as a dead letter is not billed afterwards, though posts
\* made before the org was deleted may still arrive.
WrittenOffUnbilled ==
  [][\A e \in Event : dead[e] > 0 /\ e \in counted' => e \in counted]_vars

\* What the platform newly counts was still owed.
LEMMA CountsWhatIsOwed ==
  ASSUME IInv, NEW e \in recorded, Reason(e) = "none"
  PROVE  e \in outbox \cup counted
<1>1. e \in Event /\ OrgOf[e] \notin gone
  BY DEF IInv, TypeOK, Reason
<1> QED
  BY <1>1 DEF IInv, NothingLost, OnlyFinalRefusalsDie, PurgedStayEmpty

LEMMA CountedAreOwed ==
  ASSUME IInv, [Next]_vars, NEW e \in counted' \ counted
  PROVE  e \in outbox
<1>1. ASSUME NEW r \in Replica, Post(r)
      PROVE  e \in recorded /\ Reason(e) = "none"
  <2> PICK P \in SUBSET shipper[r].batch, replied \in BOOLEAN : Ingest(r, P, replied)
    BY <1>1 DEF Post
  <2>1. e \in P /\ Reason(e) = "none"
    BY DEF Ingest
  <2> QED
    BY <2>1 DEF IInv, PassesSound, PassSound
<1>2. ASSUME NEW d \in Event, ArriveLate(d)
      PROVE  e \in recorded /\ Reason(e) = "none"
  BY <1>2 DEF ArriveLate, IInv, OnlyRecorded
<1>3. (\E r \in Replica : Post(r)) \/ (\E d \in Event : ArriveLate(d))
  BY DEF Next, ShipperStep, Start, Declare, Claim, Reschedule, CopyRefused, Settle, RollBack,
         Shutdown, FlushNothing, Stop, Record, ComeDue, Purge, DeleteOrg, LoseDeclarations,
         platform, vars
<1>4. e \in recorded /\ Reason(e) = "none"
  BY <1>1, <1>2, <1>3
<1> QED
  BY <1>4, CountsWhatIsOwed

THEOREM WrittenOffIsNotBilled == Spec => WrittenOffUnbilled
<1>1. IInv /\ [Next]_vars => [\A e \in Event : dead[e] > 0 /\ e \in counted' => e \in counted]_vars
  <2> SUFFICES ASSUME IInv, [Next]_vars, NEW e \in Event, dead[e] > 0, e \in counted' \ counted
               PROVE  FALSE
    OBVIOUS
  <2>1. e \in outbox
    BY CountedAreOwed
  <2> QED
    BY <2>1 DEF IInv, OnlyRecorded
<1> QED
  BY <1>1, Inductive, PTL DEF Spec, WrittenOffUnbilled

-----------------------------------------------------------------------------
(* The outbox implements the ledger. *)

WrittenOff == {e \in Event : dead[e] > 0}

LEMMA CountStep ==
  ASSUME IInv, UNCHANGED <<outbox, dead, purged>>,
         NEW P \in SUBSET recorded,
         counted' = counted \cup {e \in P : Reason(e) = "none"}
  PROVE  Ledger!Next
<1> DEFINE N == {e \in P : Reason(e) = "none"} \ counted
<1>1. N \subseteq outbox /\ counted' = counted \cup N
  BY CountsWhatIsOwed
<1>2. PICK S \in SUBSET Event : S = N
  BY <1>1 DEF IInv, TypeOK
<1>3. Ledger!Count(S)
  BY <1>1, <1>2 DEF Ledger!Count
<1> QED
  BY <1>3 DEF Ledger!Next

LEMMA SettleStep ==
  ASSUME IInv, NEW r \in Replica, Settle(r)
  PROVE  Ledger!Next
<1> DEFINE answeredFor == (shipper[r].batch \ shipper[r].held) \cap outbox
           letters == shipper[r].copies \ WrittenOff
<1>1. /\ shipper[r].copies \subseteq shipper[r].refused
      /\ shipper[r].batch \subseteq recorded /\ recorded \subseteq Event
      /\ \A e \in shipper[r].refused \ shipper[r].copies : e \notin outbox
      /\ shipper[r].refused \subseteq shipper[r].batch \ shipper[r].held
      /\ shipper[r].batch \ shipper[r].held \subseteq counted \cup shipper[r].refused
  BY DEF IInv, Settle, PassesSound, PassSound, Receipt, TypeOK
<1>2. /\ UNCHANGED <<purged, counted>>
      /\ outbox' = outbox \ answeredFor
  BY DEF Settle, platform
<1>3. WrittenOff' = WrittenOff \cup letters
  <2>1. /\ dead \in [Event -> Nat]
        /\ \A e \in Event : dead'[e] = dead[e] + (IF e \in shipper[r].copies THEN 1 ELSE 0)
    BY DEF Settle, IInv, TypeOK
  <2>2. \A e \in Event : dead'[e] > 0 <=> dead[e] > 0 \/ e \in shipper[r].copies
    BY <2>1
  <2>3. shipper[r].copies \subseteq Event
    BY <1>1
  <2> QED
    BY <2>2, <2>3 DEF WrittenOff
<1>4. answeredFor \subseteq counted \cup letters
  BY <1>1 DEF IInv, OnlyRecorded, WrittenOff
<1>5. letters \subseteq answeredFor \cup counted \cup {e \in Event : OrgOf[e] \in purged}
  BY <1>1 DEF IInv, NothingLost, WrittenOff
<1>6. PICK S \in SUBSET Event, R \in SUBSET Event : S = answeredFor /\ R = letters
  BY <1>1
<1>7. Ledger!Settle(S, R)
  <2> HIDE DEF answeredFor, letters
  <2>1. S \subseteq outbox
    BY <1>6 DEF answeredFor
  <2> QED
    BY <1>2, <1>3, <1>4, <1>5, <1>6, <2>1 DEF Ledger!Settle, WrittenOff
<1> QED
  BY <1>7 DEF Ledger!Next

LEMMA LedgerStep ==
  ASSUME IInv, [Next]_vars
  PROVE  [Ledger!Next]_(Ledger!ledger)
<1>1. ASSUME UNCHANGED <<outbox, dead, purged, counted>>
      PROVE  UNCHANGED Ledger!ledger
  BY <1>1 DEF Ledger!ledger
<1>2. ASSUME NEW r \in Replica, ShipperStep(r)
      PROVE  [Ledger!Next]_(Ledger!ledger)
  <2>1. CASE Post(r)
    <3> PICK P \in SUBSET shipper[r].batch, replied \in BOOLEAN : Ingest(r, P, replied)
      BY <2>1 DEF Post
    <3>1. P \in SUBSET recorded
      BY DEF IInv, PassesSound, PassSound
    <3> QED
      BY <3>1, CountStep DEF Ingest
  <2>2. CASE Settle(r)
    BY <2>2, SettleStep
  <2>3. CASE ~Post(r) /\ ~Settle(r)
    <3>1. UNCHANGED <<outbox, dead, purged, counted>>
      BY <1>2, <2>3 DEF ShipperStep, Start, Declare, Claim, Reschedule, CopyRefused,
                         RollBack, Shutdown, FlushNothing, Stop, platform
    <3> QED
      BY <1>1, <3>1
  <2> QED
    BY <2>1, <2>2, <2>3
<1>3. ASSUME NEW e \in Event, Record(e)
      PROVE  Ledger!Next
  <2>1. e \notin outbox \cup counted \cup WrittenOff
    BY <1>3 DEF Record, IInv, OnlyRecorded, WrittenOff
  <2>2. Ledger!Record(e)
    BY <1>3, <2>1 DEF Record, platform, Ledger!Record, WrittenOff
  <2> QED
    BY <2>2 DEF Ledger!Next
<1>4. ASSUME NEW e \in Event, ArriveLate(e)
      PROVE  Ledger!Next
  <2>1. {e} \in SUBSET recorded
    BY <1>4 DEF ArriveLate, IInv, OnlyRecorded
  <2>2. counted' = counted \cup {d \in {e} : Reason(d) = "none"}
    BY <1>4 DEF ArriveLate
  <2> QED
    BY <1>4, <2>1, <2>2, CountStep DEF ArriveLate
<1>5. ASSUME NEW o \in Org, Purge(o)
      PROVE  Ledger!Next
  <2>1. Ledger!Close(o)
    BY <1>5 DEF Purge, platform, Ledger!Close
  <2> QED
    BY <2>1 DEF Ledger!Next
<1>6. ASSUME NEW e \in Event, ComeDue(e)
      PROVE  UNCHANGED Ledger!ledger
  BY <1>1, <1>6 DEF ComeDue, platform
<1>7. ASSUME NEW o \in Org, DeleteOrg(o)
      PROVE  UNCHANGED Ledger!ledger
  BY <1>1, <1>7 DEF DeleteOrg
<1>8. CASE LoseDeclarations \/ UNCHANGED vars
  BY <1>1, <1>8 DEF LoseDeclarations, vars
<1> QED
  BY <1>2, <1>3, <1>4, <1>5, <1>6, <1>7, <1>8 DEF Next

\* The outbox implements the ledger: usage leaves it only counted, written off
\* or with its org, and a dead letter is not counted afterwards.
THEOREM KeepsTheLedger == Spec => KeepsLedger
<1>1. Init => Ledger!Init
  BY DEF Init, Ledger!Init
<1> QED
  BY <1>1, Inductive, LedgerStep, PTL DEF Spec, KeepsLedger, Ledger!Spec

=============================================================================
