----------------------------- MODULE OrgStanding -----------------------------
(***************************************************************************)
(* What one replica knows of an organization's standing with the platform  *)
(* when it judges a completion (crates/of-billing/src/meter.rs).           *)
(*                                                                         *)
(* The standing is looked up before the transaction.  The platform client  *)
(* answers from its cache for a while; a lookup that fails or takes too    *)
(* long lets the call through, and is remembered as leave to let others    *)
(* through.  Lookups of concurrent calls overlap: a slow one may fail      *)
(* after a quicker one has been answered.                                  *)
(***************************************************************************)
EXTENDS Integers

CONSTANTS
  Caller,         \* calls of complete_job, and tracker closes
  CacheTtl,       \* USAGE_STATUS_TTL, in ticks of the clock
  FailOpenFor,    \* FAIL_OPEN_FOR
  LookupTimeout,  \* STATUS_LOOKUP_TIMEOUT
  MaxNow          \* bound: the last tick

ASSUME StandingAssumption ==
  /\ CacheTtl \in Nat \ {0}
  /\ FailOpenFor \in Nat \ {0}
  /\ LookupTimeout \in Nat \ {0}
  /\ MaxNow \in Nat

VARIABLES
  now,         \* the clock
  blocked,     \* whether the platform holds the organization blocked
  cache,       \* the client's cached answer, and the tick it was stored
  failOpen,    \* until when lookups are skipped
  callers,     \* what each call is doing
  lastSeen,    \* history: the last tick at which it was blocked, and not blocked
  lastFailure  \* history: the last tick at which a lookup failed

standingVars == <<now, blocked, cache, failOpen, callers, lastSeen, lastFailure>>

Never == -1 - CacheTtl - FailOpenFor - LookupTimeout

NoCache == [blocked |-> FALSE, at |-> Never]

\* since: when the lookup began.  blocked: what the platform read, or what the
\* call was told.  answered: the platform has read it, and the reply is on its
\* way; or, of a call that was told, that it was told by the platform.
IdleCaller == [step |-> "idle", since |-> Never, answered |-> FALSE, blocked |-> FALSE]

StandingInit ==
  /\ now = 0
  /\ blocked \in BOOLEAN
  /\ cache = NoCache
  /\ failOpen = Never
  /\ callers = [c \in Caller |-> IdleCaller]
  /\ lastSeen = [b \in BOOLEAN |-> IF b = blocked THEN 0 ELSE Never]
  /\ lastFailure = Never

-----------------------------------------------------------------------------
(* The platform and its client. *)

\* No lookup outlives its timeout.
PassTime ==
  /\ now < MaxNow
  /\ \A c \in Caller : callers[c].step = "looking" => now < callers[c].since + LookupTimeout
  /\ now' = now + 1
  /\ lastSeen' = [lastSeen EXCEPT ![blocked] = now + 1]
  /\ UNCHANGED <<blocked, cache, failOpen, callers, lastFailure>>

\* A budget is raised or used up, a card added, a payment missed.
ChangeStanding ==
  /\ blocked' = ~blocked
  /\ lastSeen' = [lastSeen EXCEPT ![blocked'] = now]
  /\ UNCHANGED <<now, cache, failOpen, callers, lastFailure>>

Fresh == now < cache.at + CacheTtl

\* The platform reads the standing, and its reply takes a while.
ServeStatus(c) ==
  /\ callers[c].step = "looking"
  /\ ~callers[c].answered
  /\ callers' = [callers EXCEPT ![c].answered = TRUE, ![c].blocked = blocked]
  /\ UNCHANGED <<now, blocked, cache, failOpen, lastSeen, lastFailure>>

-----------------------------------------------------------------------------
(* Calls. *)

\* Slip: a failure is remembered, and not for how long.
RememberedAtAll == failOpen # Never

\* A failed lookup is remembered as leave.
Remembered == failOpen > now

Told(answer) == [step |-> "told", since |-> Never, answered |-> answer # "none",
                 blocked |-> answer = "blocked"]

\* Meter::warm: a failure that is remembered is not looked up.
SkipLookup(c) ==
  /\ callers[c].step = "idle"
  /\ Remembered
  /\ callers' = [callers EXCEPT ![c] = Told("none")]
  /\ UNCHANGED <<now, blocked, cache, failOpen, lastSeen, lastFailure>>

BeginLookup(c) ==
  /\ callers[c].step = "idle"
  /\ ~Remembered
  /\ callers' = [callers EXCEPT ![c] = [IdleCaller EXCEPT !.step = "looking", !.since = now]]
  /\ UNCHANGED <<now, blocked, cache, failOpen, lastSeen, lastFailure>>

\* An answer ends what was remembered of failures.
AnswerFromCache(c) ==
  /\ callers[c].step = "looking"
  /\ callers[c].since = now
  /\ Fresh
  /\ callers' = [callers EXCEPT ![c] = Told(IF cache.blocked THEN "blocked" ELSE "open")]
  /\ failOpen' = Never
  /\ UNCHANGED <<now, blocked, cache, lastSeen, lastFailure>>

AnswerFromPlatform(c) ==
  /\ callers[c].step = "looking"
  /\ callers[c].answered
  /\ callers' = [callers EXCEPT ![c] = Told(IF callers[c].blocked THEN "blocked" ELSE "open")]
  /\ cache' = [blocked |-> callers[c].blocked, at |-> now]
  /\ failOpen' = Never
  /\ UNCHANGED <<now, blocked, lastSeen, lastFailure>>

\* An error, or the timeout.
FailLookup(c) ==
  /\ callers[c].step = "looking"
  /\ callers' = [callers EXCEPT ![c] = Told("none")]
  /\ failOpen' = now + FailOpenFor
  /\ lastFailure' = now
  /\ UNCHANGED <<now, blocked, cache, lastSeen>>

\* The transaction begins, waits for its locks, and commits or not: what it was
\* told does not change.
EndCaller(c) ==
  /\ callers[c].step # "idle"
  /\ callers' = [callers EXCEPT ![c] = IdleCaller]
  /\ UNCHANGED <<now, blocked, cache, failOpen, lastSeen, lastFailure>>

StandingNext ==
  \/ PassTime
  \/ ChangeStanding
  \/ \E c \in Caller :
       \/ ServeStatus(c)
       \/ SkipLookup(c)
       \/ BeginLookup(c)
       \/ AnswerFromCache(c)
       \/ AnswerFromPlatform(c)
       \/ FailLookup(c)
       \/ EndCaller(c)

StandingSpec == StandingInit /\ [][StandingNext]_standingVars

-----------------------------------------------------------------------------

StandingTypeOK ==
  /\ now \in 0..MaxNow
  /\ blocked \in BOOLEAN
  /\ cache \in [blocked: BOOLEAN, at: Int]
  /\ failOpen \in Int
  /\ callers \in [Caller -> [step: {"idle", "looking", "told"}, since: Int,
                             answered: BOOLEAN, blocked: BOOLEAN]]
  /\ lastSeen \in [BOOLEAN -> Int]
  /\ lastFailure \in Int

\* A call is judged by a standing the organization had within the cache's
\* lifetime and one lookup, in both directions; it is let through without one
\* only while a failed lookup is remembered (the module doc of meter.rs).
JudgedByRecentStanding ==
  [][\A c \in Caller :
       callers[c].step # "told" /\ callers'[c].step = "told" =>
         IF callers'[c].answered
         THEN now - lastSeen[callers'[c].blocked] <= CacheTtl + LookupTimeout
         ELSE now - lastFailure' < FailOpenFor]_standingVars

=============================================================================
