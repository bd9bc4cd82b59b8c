--------------------------- MODULE MessageCursors ---------------------------
(***************************************************************************)
(* The message channels: crates/of-core/src/messages.rs and idempotency.rs *)
(* behind the message tools of crates/of-mcp/src/tools/coord.rs.           *)
(*                                                                         *)
(* A message's id comes from a sequence when the row is inserted, not when *)
(* its transaction commits, and the number is spent even if it never does. *)
(* A member has one cursor per channel; a message is unread while its id   *)
(* is past the cursor.                                                     *)
(*                                                                         *)
(* A keyed call looks for an earlier call of the same key before it does   *)
(* anything; two calls that both find none meet at the unique index.       *)
(*                                                                         *)
(* Left out: bodies beyond their being equal or not, labels, kinds,        *)
(* metering, and the visibility of what a message is tied to               *)
(* (RepoRegistry).                                                         *)
(***************************************************************************)
EXTENDS Integers, FiniteSets

CONSTANTS
  Member,
  Reader,       \* the members that read
  Channel,
  Key,          \* idempotency keys
  Payload,      \* what the fingerprint of a call tells apart
  Sender,       \* processes that send
  MemberOf,     \* the member a process sends as
  InboxLimit,   \* limits a reader may ask for
  MaxMessage    \* bound: the last id of the sequence

NoKey == "no_key"

ASSUME MessageAssumption ==
  /\ MemberOf \in [Sender -> Member]
  /\ Reader \subseteq Member
  /\ InboxLimit \subseteq Nat \ {0}
  /\ MaxMessage \in Nat
  /\ NoKey \notin Key

VARIABLES
  next_id,      \* the sequence
  messages,     \* committed rows, by id
  send,         \* each process's send_message call
  cursor,       \* message_cursors.last_read_id
  answered,     \* history: what keyed calls were answered
  shown,        \* history: ids each member's reads have returned
  passed_over   \* history: ids that were missing below what a read returned,
                \* or at and below an id the member acknowledged unseen

messageVars == <<next_id, messages, send, cursor, answered, shown, passed_over>>
reading == <<cursor, shown, passed_over>>

MessageRow == [channel: Channel, sender: Member, key: Key \cup {NoKey}, payload: Payload]

NoSend == [step |-> "idle"]
Sending == [step: {"begun", "unique", "inserted"}, id: 0..MaxMessage, row: MessageRow]

MessageInit ==
  /\ next_id = 1
  /\ messages = <<>>
  /\ send = [p \in Sender |-> NoSend]
  /\ cursor = [uc \in Reader \X Channel |-> 0]
  /\ answered = {}
  /\ shown = [u \in Reader |-> {}]
  /\ passed_over = [u \in Reader |-> {}]

Committed == DOMAIN messages

InFlight == {send[p].id : p \in {q \in Sender : send[q].step # "idle"}} \ {0}

-----------------------------------------------------------------------------
(* Sending. *)

\* The call's transaction opens; its arguments name exactly one channel.
SendMessage(p, c, key, payload) ==
  /\ send[p].step = "idle"
  /\ send' = [send EXCEPT ![p] =
       [step |-> "begun", id |-> 0,
        row |-> [channel |-> c, sender |-> MemberOf[p], key |-> key, payload |-> payload]]]
  /\ UNCHANGED <<next_id, messages, answered, reading>>

EndSend(p) == send' = [send EXCEPT ![p] = NoSend]

\* Slip: any call with the key is taken for a replay.
AnyCall(id, row) == TRUE

\* The stored fingerprint, which covers the sender, is the call's own.
SameCall(id, row) ==
  /\ messages[id].sender = row.sender
  /\ messages[id].channel = row.channel
  /\ messages[id].payload = row.payload

WithKey(key) == {id \in Committed : messages[id].key = key /\ key # NoKey}

\* A call finds the message of its key: the original is the answer to a replay;
\* a different call is refused with idempotency_key_conflict.
Converge(p, id) ==
  /\ EndSend(p)
  /\ answered' = IF SameCall(id, send[p].row)
                 THEN answered \cup {[call |-> send[p].row, id |-> id]}
                 ELSE answered
  /\ UNCHANGED <<next_id, messages, reading>>

\* find_replayed_message finds an earlier call.
Replay(p) ==
  /\ send[p].step = "begun"
  /\ \E id \in WithKey(send[p].row.key) : Converge(p, id)

\* The INSERT takes its id, before the unique index is consulted.
DrawId(p) ==
  /\ send[p].step = "begun"
  /\ WithKey(send[p].row.key) = {}
  /\ next_id <= MaxMessage
  /\ next_id' = next_id + 1
  /\ send' = [send EXCEPT ![p].step = "unique", ![p].id = next_id]
  /\ UNCHANGED <<messages, answered, reading>>

\* The index lets the row in once no open transaction has one with its key.
InsertMessage(p) ==
  LET key == send[p].row.key IN
  /\ send[p].step = "unique"
  /\ WithKey(key) = {}
  /\ key # NoKey =>
       \A q \in Sender : send[q].step = "inserted" => send[q].row.key # key
  /\ send' = [send EXCEPT ![p].step = "inserted"]
  /\ UNCHANGED <<next_id, messages, answered, reading>>

\* Another call of the key has committed: back to the savepoint, and on to the
\* winner's row.
LoseKeyRace(p) ==
  /\ send[p].step = "unique"
  /\ \E id \in WithKey(send[p].row.key) : Converge(p, id)

CommitSend(p) ==
  LET s == send[p] IN
  /\ s.step = "inserted"
  /\ messages' = [id \in Committed \cup {s.id} |-> IF id = s.id THEN s.row ELSE messages[id]]
  /\ answered' = IF s.row.key = NoKey THEN answered
                 ELSE answered \cup {[call |-> s.row, id |-> s.id]}
  /\ EndSend(p)
  /\ UNCHANGED <<next_id, reading>>

\* The call fails or its connection dies: an id that was drawn is never used.
AbortSend(p) ==
  /\ send[p].step # "idle"
  /\ EndSend(p)
  /\ UNCHANGED <<next_id, messages, answered, reading>>

-----------------------------------------------------------------------------
(* Reading. *)

InChannel(c) == {id \in Committed : messages[id].channel = c}

\* What unread_count counts and an unread inbox returns.
Unread(u, c) == {id \in InChannel(c) : id > cursor[<<u, c>>] /\ messages[id].sender # u}

\* Slip: a limited read keeps the newest, though oldest first was asked for.
NewestKept(ids, limit) == {id \in ids : Cardinality({other \in ids : other > id}) < limit}

OldestKept(ids, limit) == {id \in ids : Cardinality({other \in ids : other < id}) < limit}

\* inbox.  What it leaves out below the highest id it returns is not committed
\* yet or, newest first, did not fit the limit.
Inbox(u, c, unread_only, newest_first, limit) ==
  LET asked == IF unread_only THEN Unread(u, c) ELSE InChannel(c)
      returned == IF newest_first THEN NewestKept(asked, limit) ELSE OldestKept(asked, limit)
      left_out == InFlight \cup (IF newest_first THEN asked \ returned ELSE {}) IN
  /\ returned # {}
  /\ shown' = [shown EXCEPT ![u] = @ \cup returned]
  /\ passed_over' = [passed_over EXCEPT ![u] =
                       @ \cup {id \in left_out : \E top \in returned : id < top}]
  /\ UNCHANGED <<next_id, messages, send, cursor, answered>>

\* Slip: any message's id moves the cursor.
SomeMessage(c, id) == id \in Committed

Ackable(c, id) == id \in InChannel(c)

\* ack_messages, with an id some inbox showed the member or with another; the
\* cursor never moves backwards.
AckMessages(u, c, id) ==
  /\ Ackable(c, id)
  /\ cursor' = [cursor EXCEPT ![<<u, c>>] = IF id > @ THEN id ELSE @]
  /\ passed_over' = IF id \in shown[u] THEN passed_over
                    ELSE [passed_over EXCEPT ![u] =
                            @ \cup {other \in InFlight \cup InChannel(c) : other <= id}]
  /\ UNCHANGED <<next_id, messages, send, answered, shown>>

\* member_removed, once it has excluded the requests of the organization.
DropCursors(u) ==
  /\ \A p \in Sender : send[p].step = "idle"
  /\ cursor' = [at \in Reader \X Channel |-> IF at[1] = u THEN 0 ELSE cursor[at]]
  /\ UNCHANGED <<next_id, messages, send, answered, shown, passed_over>>

MessageNext ==
  \/ \E p \in Sender, c \in Channel, key \in Key \cup {NoKey}, payload \in Payload :
       SendMessage(p, c, key, payload)
  \/ \E p \in Sender : Replay(p) \/ DrawId(p) \/ InsertMessage(p) \/ LoseKeyRace(p)
                       \/ CommitSend(p) \/ AbortSend(p)
  \/ \E u \in Reader, c \in Channel, unread_only, newest_first \in BOOLEAN,
        limit \in InboxLimit : Inbox(u, c, unread_only, newest_first, limit)
  \/ \E u \in Reader, c \in Channel, id \in 1..MaxMessage : AckMessages(u, c, id)
  \/ \E u \in Reader : DropCursors(u)

MessageSpec == MessageInit /\ [][MessageNext]_messageVars

-----------------------------------------------------------------------------
(* Properties. *)

\* One key, one message: every answer to a keyed call names the only message of
\* that key, and the message is what that very call asked for, whichever of
\* concurrent calls, retries after lost replies and reused keys came first.
KeyNamesOneCall ==
  \A a \in answered :
    /\ WithKey(a.call.key) = {a.id}
    /\ messages[a.id] = a.call

\* A member who acknowledges what was shown loses nothing by it: whatever is no
\* longer unread was shown, or missing from a read that returned something newer
\* (it was not committed, or newest first was asked for), or at or below an id of
\* the channel that the member acknowledged unseen.
ReadBeforePassed ==
  \A u \in Reader, c \in Channel : \A id \in InChannel(c) :
    id <= cursor[<<u, c>>] /\ messages[id].sender # u =>
      id \in shown[u] \cup passed_over[u]

\* An acknowledgement never suppresses a message that is not yet written: what is
\* committed later is unread for everybody but its sender.
NewIsUnread ==
  [][\A id \in Committed' \ Committed : \A u \in Reader \ {messages'[id].sender} :
       id > cursor[<<u, messages'[id].channel>>]]_messageVars

MessageTypeOK ==
  /\ next_id \in 1..(MaxMessage + 1)
  /\ Committed \subseteq 1..(next_id - 1)
  /\ \A id \in Committed : messages[id] \in MessageRow
  /\ send \in [Sender -> Sending \cup {NoSend}]
  /\ cursor \in [Reader \X Channel -> 0..MaxMessage]
  /\ answered \subseteq [call: MessageRow, id: 1..MaxMessage]
  /\ shown \in [Reader -> SUBSET Committed]
  /\ passed_over \in [Reader -> SUBSET (1..MaxMessage)]

=============================================================================
