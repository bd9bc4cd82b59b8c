----------------------------- MODULE ClaimTurns -----------------------------
(***************************************************************************)
(* What the queue promises about claims, without rows, clocks or fences:   *)
(* work on a job happens in numbered turns.  A turn has one holder and     *)
(* starts only when the turn before it has ended or has lapsed; a settled  *)
(* job gets no turn until it is opened again.  A request may start turns   *)
(* on several jobs at once.  JobQueue!TakesTurns implements this module.   *)
(***************************************************************************)
EXTENDS Naturals

CONSTANTS Job, User, Null

VARIABLES
  turn,     \* how many turns each job has had
  holder,   \* whose turn it is, Null between turns
  lapsed,   \* jobs whose current turn has run out of time
  settled   \* jobs that are completed, failed or cancelled

turnVars == <<turn, holder, lapsed, settled>>

Init ==
  /\ turn = [j \in Job |-> 0]
  /\ holder = [j \in Job |-> Null]
  /\ lapsed = {}
  /\ settled = {}

Free(j) == j \notin settled /\ (holder[j] = Null \/ j \in lapsed)

\* u starts a turn on every job of S; some may start out lapsed, when the
\* request waited longer than the time it asked for.
Begin(S, u) ==
  /\ S # {}
  /\ \A j \in S : Free(j)
  /\ turn' = [j \in Job |-> IF j \in S THEN turn[j] + 1 ELSE turn[j]]
  /\ holder' = [j \in Job |-> IF j \in S THEN u ELSE holder[j]]
  /\ lapsed' \in {(lapsed \ S) \cup late : late \in {{}, S}}
  /\ UNCHANGED settled

\* Time ran out, or was given back, on turns that are under way.
Retime(S) ==
  /\ \A j \in S : holder[j] # Null
  /\ lapsed' = S
  /\ UNCHANGED <<turn, holder, settled>>

\* The job is settled, by its holder or by a decision taken elsewhere; either way
\* a turn that is under way is over.
Settle(j) ==
  /\ j \notin settled
  /\ holder' = [holder EXCEPT ![j] = Null]
  /\ lapsed' = lapsed \ {j}
  /\ settled' = settled \cup {j}
  /\ UNCHANGED turn

\* Turns are ended from outside, with the jobs open again.
Release(S) ==
  /\ holder' = [j \in Job |-> IF j \in S THEN Null ELSE holder[j]]
  /\ lapsed' = lapsed \ S
  /\ settled' = settled \ S
  /\ UNCHANGED turn

\* The job is deleted; its number is never used again.
Forget(j) ==
  /\ turn' = [turn EXCEPT ![j] = 0]
  /\ holder' = [holder EXCEPT ![j] = Null]
  /\ lapsed' = lapsed \ {j}
  /\ settled' = settled \ {j}

Next ==
  \/ \E S \in SUBSET Job, u \in User : Begin(S, u)
  \/ \E S \in SUBSET Job : Retime(S) \/ Release(S)
  \/ \E j \in Job : Settle(j) \/ Forget(j)

Spec == Init /\ [][Next]_turnVars

=============================================================================
