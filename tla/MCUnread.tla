------------------------------ MODULE MCUnread ------------------------------
(* Two processes send to one channel while one member reads it. *)
EXTENDS MessageCursors

CONSTANTS alice1, alice2, alice, bob, channel, key1, x

TwoSenders == {alice1, alice2}
AliceOf == [p \in TwoSenders |-> alice]
TwoMembers == {alice, bob}
OneReader == {bob}
OneChannel == {channel}
OneKey == {key1}
OnePayload == {x}
OneLimit == {2}

=============================================================================
