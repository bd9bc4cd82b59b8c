----------------------------- MODULE MCJobQueue -----------------------------
(* Small instances of JobQueue.  MCClaims.cfg: one job, two processes of   *)
(* one account and one of another, replies that get lost, transactions     *)
(* that wait for a lock.  MCQueue.cfg: two jobs, a process of each account. *)
EXTENDS JobQueue

CONSTANTS alice1, alice2, bob, Alice, Bob

MCUser == {Alice, Bob}
ThreeProcesses == {alice1, alice2, bob}
TwoProcesses == {alice1, bob}
UserOfThree == [w \in ThreeProcesses |-> IF w = bob THEN Bob ELSE Alice]
UserOfTwo == [w \in TwoProcesses |-> IF w = bob THEN Bob ELSE Alice]
ShortTtl == {1}
Ttls == {1, 2}
NoReplyLost == {TRUE}
AnyReply == BOOLEAN

=============================================================================
