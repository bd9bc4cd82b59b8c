----------------------------- MODULE MCWaiting -----------------------------
(* What a caller waits for, in two parts of the system that share nothing:  *)
(* watching agents read every change, and visits to the console are         *)
(* answered.  A behaviour is one of one part; the other keeps its initial   *)
(* state.                                                                   *)
EXTENDS ChangeWatch, ConsoleSession

CONSTANTS w1, w2, alice, bob, v1, v2, browser, k1, k2

MCWatching == {w1, w2}
MCUser == {alice, bob}
MCUserOf == [w \in MCWatching |-> IF w = w1 THEN alice ELSE bob]
MCVisitor == {v1, v2}
MCLogin == {browser}
MCKeys == {k1, k2}

VARIABLE part

allVars == <<part, watchVars, consoleVars>>

Watch == part = "watch" /\ UNCHANGED <<part, consoleVars>>
Console == part = "console" /\ UNCHANGED <<part, watchVars>>

WaitingInit ==
  /\ part \in {"watch", "console"}
  /\ WatchInit
  /\ ConsoleInit

WaitingNext ==
  \/ \E change \in Change : Commit(change) /\ Watch
  \/ Dispatch /\ Watch
  \/ Gap /\ Watch
  \/ ShutdownWatcher /\ Watch
  \/ Second /\ Watch
  \/ \E w \in Watching : Arrive(w) /\ Watch
  \/ \E w \in Watching : Read(w) /\ Watch
  \/ \E w \in Watching : Subscribe(w) /\ Watch
  \/ \E w \in Watching : Wake(w) /\ Watch
  \/ \E w \in Watching : SkipOwn(w) /\ Watch
  \/ \E w \in Watching : TimeOut(w) /\ Watch
  \/ \E l \in Login : StartLogin(l) /\ Console
  \/ \E l \in Login : FlowExpires(l) /\ Console
  \/ \E v \in Visitor, l \in Login : ExchangeCode(v, l) /\ Console
  \/ \E v \in Visitor : CreateSession(v) /\ Console
  \/ \E v \in Visitor, l \in Login, kind \in {"request", "logout"} : Find(v, l, kind) /\ Console
  \/ \E v \in Visitor : UseFound(v) /\ Console
  \/ \E v \in Visitor : LockSession(v) /\ Console
  \/ \E v \in Visitor : Refresh(v) /\ Console
  \/ \E v \in Visitor : AnswerRefresh(v) /\ Console
  \/ \E v \in Visitor : NoAnswer(v) /\ Console
  \/ \E l \in Login, pair \in 1..MaxPair : LateRefresh(l, pair) /\ Console
  \/ \E l \in Login : PlatformRevokes(l) /\ Console
  \/ \E v \in Visitor : StoreRotated(v) /\ Console
  \/ \E v \in Visitor : DeleteLocked(v) /\ Console
  \/ \E v \in Visitor : KeepSession(v) /\ Console
  \/ \E v \in Visitor : Introspect(v) /\ Console
  \/ \E v \in Visitor : DropSession(v) /\ Console
  \/ \E v \in Visitor : RevokeToken(v) /\ Console
  \/ \E v \in Visitor : DeleteOnLogout(v) /\ Console
  \/ \E v \in Visitor : Disconnect(v) /\ Console
  \/ \E v \in Visitor : Killed(v) /\ Console
  \/ \E v \in Visitor, k \in ServerKey : Redeploy(v, k) /\ Console
  \/ \E l \in Login : AccessAges(l) /\ Console
  \/ \E l \in Login : SessionExpires(l) /\ Console
  \/ \E l \in Login : PurgeExpired(l) /\ Console
  \/ \E l \in Login : Report(l) /\ Console
  \/ \E l \in Login : CleanUpSessions(l) /\ Console

WaitingSpec ==
  WaitingInit /\ [][WaitingNext]_allVars /\ WatchFairness /\ ConsoleFairness

=============================================================================
