---------------------------- MODULE ChangeWatch ----------------------------
(***************************************************************************)
(* Change notification: crates/of-core/src/watch.rs behind the watch tool  *)
(* of crates/of-mcp/src/tools/coord.rs.                                    *)
(*                                                                         *)
(* A trigger notifies of every committed change; one listener per server   *)
(* hands it to the broadcast channel of its org; a waiter subscribes when  *)
(* its call arrives, which is after the agent has read the queue.  Three   *)
(* things can keep a change from a waiter: it was dispatched before the    *)
(* waiter subscribed, the listener was reconnecting or stopped, or the     *)
(* channel overflowed.                                                     *)
(*                                                                         *)
(* "Agents refetch on every wake and on every timeout boundary": the agent *)
(* reads the queue, calls watch, and reads again whatever the answer.  One *)
(* org: a change of another one finds another channel.                     *)
(***************************************************************************)
EXTENDS Integers, Sequences, FiniteSets

CONSTANTS
  Watching,    \* agents
  UserOf,      \* the account an agent calls with
  User,
  Capacity,    \* CHANNEL_CAPACITY
  WatchTime,   \* seconds a call may wait, after clamping
  MaxChange    \* bound: changes committed

ASSUME WatchAssumption ==
  /\ UserOf \in [Watching -> User]
  /\ Capacity \in Nat \ {0}
  /\ WatchTime \in Nat \ {0}
  /\ MaxChange \in Nat

VARIABLES
  changes,     \* committed changes, in order
  dispatched,  \* how many of them the listener is past
  listening,
  waiter,      \* each agent's call
  seen         \* how many of the changes each agent's last read covered

watchVars == <<changes, dispatched, listening, waiter, seen>>

\* Only a change of a message says who made it.
Change == [kind: {"message"}, sender: User] \cup [kind: {"job", "lease"}]

Waiter == [state: {"away", "reading", "calling", "waiting"},
           queue: Seq(Change),   \* the receiver's part of the channel
           lagged: BOOLEAN,      \* it has lost some of it
           left: 0..WatchTime,   \* seconds until the deadline
           others: BOOLEAN]      \* history: somebody else's change was dispatched to it

Reading == [state |-> "reading", queue |-> <<>>, lagged |-> FALSE, left |-> 0, others |-> FALSE]

WatchInit ==
  /\ changes = <<>>
  /\ dispatched = 0
  /\ listening = TRUE
  /\ waiter = [w \in Watching |-> [Reading EXCEPT !.state = "away"]]
  /\ seen = [w \in Watching |-> 0]

\* Slip: own messages wake like any other.
NeverOwn(w, change) == FALSE

SelfAuthored(w, change) == change.kind = "message" /\ change.sender = UserOf[w]

Commit(change) ==
  /\ Len(changes) < MaxChange
  /\ changes' = Append(changes, change)
  /\ UNCHANGED <<dispatched, listening, waiter, seen>>

\* A slow receiver loses the oldest change it has not taken.
Received(wt, change, own) ==
  [wt EXCEPT !.queue = Append(IF Len(@) < Capacity THEN @ ELSE Tail(@), change),
             !.lagged = @ \/ Len(wt.queue) = Capacity,
             !.others = @ \/ ~own]

Dispatch ==
  /\ listening
  /\ dispatched < Len(changes)
  /\ dispatched' = dispatched + 1
  /\ waiter' = [w \in Watching |->
       IF waiter[w].state = "waiting"
       THEN Received(waiter[w], changes[dispatched + 1],
                     LET change == changes[dispatched + 1] IN
                       change.kind = "message" /\ change.sender = UserOf[w])
       ELSE waiter[w]]
  /\ UNCHANGED <<changes, listening, seen>>

\* The listener reconnects: what was notified meanwhile is gone.
Gap ==
  /\ listening
  /\ dispatched < Len(changes)
  /\ dispatched' = Len(changes)
  /\ UNCHANGED <<changes, listening, waiter, seen>>

\* Watcher::shutdown stops the listener; calls that wait go on waiting.
ShutdownWatcher ==
  /\ listening
  /\ listening' = FALSE
  /\ UNCHANGED <<changes, dispatched, waiter, seen>>

-----------------------------------------------------------------------------
(* The agent and its call. *)

Arrive(w) ==
  /\ waiter[w].state = "away"
  /\ waiter' = [waiter EXCEPT ![w] = Reading]
  /\ UNCHANGED <<changes, dispatched, listening, seen>>

Read(w) ==
  /\ waiter[w].state = "reading"
  /\ seen' = [seen EXCEPT ![w] = Len(changes)]
  /\ waiter' = [waiter EXCEPT ![w].state = "calling"]
  /\ UNCHANGED <<changes, dispatched, listening>>

Subscribe(w) ==
  /\ waiter[w].state = "calling"
  /\ waiter' = [waiter EXCEPT ![w] = [Reading EXCEPT !.state = "waiting", !.left = WatchTime]]
  /\ UNCHANGED <<changes, dispatched, listening, seen>>

Second ==
  /\ \E w \in Watching : waiter[w].left > 0
  /\ waiter' = [w \in Watching |-> [waiter[w] EXCEPT !.left = IF @ > 0 THEN @ - 1 ELSE 0]]
  /\ UNCHANGED <<changes, dispatched, listening, seen>>

Answer(w) ==
  /\ waiter' = [waiter EXCEPT ![w] = Reading]
  /\ UNCHANGED <<changes, dispatched, listening, seen>>

\* "changed": the receiver has lagged, or takes somebody else's change.
Wake(w) ==
  LET wt == waiter[w] IN
  /\ wt.state = "waiting"
  /\ \/ wt.lagged
     \/ wt.queue # <<>> /\ ~SelfAuthored(w, Head(wt.queue))
  /\ Answer(w)

\* The waiter's own message is taken off the queue, and the wait goes on.
SkipOwn(w) ==
  LET wt == waiter[w] IN
  /\ wt.state = "waiting"
  /\ ~wt.lagged
  /\ wt.queue # <<>> /\ SelfAuthored(w, Head(wt.queue))
  /\ waiter' = [waiter EXCEPT ![w].queue = Tail(wt.queue)]
  /\ UNCHANGED <<changes, dispatched, listening, seen>>

\* Slip: the answer is taken at its word ("Call again"), and the agent waits
\* again without reading.
TimeOutUnread(w) ==
  /\ waiter[w].state = "waiting"
  /\ waiter[w].left = 0
  /\ waiter' = [waiter EXCEPT ![w] = [Reading EXCEPT !.state = "calling"]]
  /\ UNCHANGED <<changes, dispatched, listening, seen>>

\* "timeout": nothing was left to receive at the deadline, or it came with the
\* waiter's own message.
TimeOut(w) ==
  /\ waiter[w].state = "waiting"
  /\ waiter[w].left = 0
  /\ Answer(w)

WatchNext ==
  \/ \E change \in Change : Commit(change)
  \/ Dispatch \/ Gap \/ ShutdownWatcher \/ Second
  \/ \E w \in Watching : \/ Arrive(w) \/ Read(w) \/ Subscribe(w)
                         \/ Wake(w) \/ SkipOwn(w) \/ TimeOut(w)

\* Time passes, and an agent that has arrived goes on with its loop; nothing is
\* assumed of the listener.
WatchFairness ==
  /\ WF_watchVars(Second)
  /\ \A w \in Watching :
       /\ WF_watchVars(Read(w))
       /\ WF_watchVars(Subscribe(w))
       /\ WF_watchVars(Wake(w) \/ SkipOwn(w) \/ TimeOut(w))

WatchSpec == WatchInit /\ [][WatchNext]_watchVars /\ WatchFairness

-----------------------------------------------------------------------------
(* Properties. *)

\* An agent's own messages never wake it: a call answers "changed" only when
\* somebody else's change reached it, or when it lost some and cannot know.
WokenByOthers ==
  [][\A w \in Watching :
       waiter[w].state = "waiting" /\ waiter'[w].state = "reading" =>
         waiter[w].others \/ waiter[w].lagged \/ waiter[w].left = 0]_watchVars

\* "Never a missed change permanently": an agent that keeps watching comes to read
\* every change, also one it was not woken for because it subscribed too late, the
\* listener lost it, the listener was stopped, or it was its own message.
EveryChangeIsRead ==
  \A w \in Watching : \A n \in 1..MaxChange :
    (waiter[w].state # "away" /\ Len(changes) >= n) ~> (seen[w] >= n)

WatchTypeOK ==
  /\ changes \in Seq(Change)
  /\ dispatched \in 0..Len(changes)
  /\ listening \in BOOLEAN
  /\ waiter \in [Watching -> Waiter]
  /\ \A w \in Watching : Len(waiter[w].queue) <= Capacity
  /\ seen \in [Watching -> 0..Len(changes)]

=============================================================================
