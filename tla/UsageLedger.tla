---------------------------- MODULE UsageLedger ----------------------------
(***************************************************************************)
(* What the outbox promises, without replicas, batches or retries: usage   *)
(* that was recorded is owed to the platform until the platform has        *)
(* counted it, until it is written off because the platform refuses it for *)
(* good, or until its org's account is closed.  UsageOutbox implements     *)
(* this module (UsageOutbox!KeepsLedger).                                  *)
(***************************************************************************)
CONSTANTS Event, Org, OrgOf

VARIABLES owed, counted, writtenOff, closed

ledger == <<owed, counted, writtenOff, closed>>

Init == owed = {} /\ counted = {} /\ writtenOff = {} /\ closed = {}

\* An event is recorded once, and not in a closed account.
Record(e) ==
  /\ e \notin owed \cup counted \cup writtenOff
  /\ OrgOf[e] \notin closed
  /\ owed' = owed \cup {e}
  /\ UNCHANGED <<counted, writtenOff, closed>>

\* The platform counts what it is owed, and nothing else.
Count(S) ==
  /\ S \subseteq owed
  /\ counted' = counted \cup S
  /\ UNCHANGED <<owed, writtenOff, closed>>

\* The debt of S is settled: what was not counted is written off, as part of R.
\* A refusal that comes late may also write off what is no longer owed.
Settle(S, R) ==
  /\ S \subseteq owed
  /\ S \subseteq counted \cup R
  /\ R \subseteq S \cup counted \cup {e \in Event : OrgOf[e] \in closed}
  /\ owed' = owed \ S
  /\ writtenOff' = writtenOff \cup R
  /\ UNCHANGED <<counted, closed>>

Close(o) ==
  /\ closed' = closed \cup {o}
  /\ owed' = {e \in owed : OrgOf[e] # o}
  /\ UNCHANGED <<counted, writtenOff>>

Next ==
  \/ \E e \in Event : Record(e)
  \/ \E S \in SUBSET Event : Count(S) \/ \E R \in SUBSET Event : Settle(S, R)
  \/ \E o \in Org : Close(o)

Spec == Init /\ [][Next]_ledger

=============================================================================
