--------------------------- MODULE MCCoordination ---------------------------
(* Small instances of the parts of the system that share no rows: repo      *)
(* leases, message channels, lifecycle events, and tracker connections.  A  *)
(* behaviour is one of one part; the others keep their initial state.       *)
EXTENDS RepoLeases, MessageCursors, PlatformEvents, TrackerCredentials, TLC

CONSTANTS alice1, alice2, bob1, alice, bob, resource,
          channel1, channel2, key1, x, y,
          gone_member, gone_org, gone_team, request1, handler1, handler2,
          acme, globex, north, south, admin1, syncer1, syncer2

MCProcess == {alice1, alice2, bob1}
MCAccount == {alice, bob}
MCAccountOf == [p \in MCProcess |-> IF p = bob1 THEN bob ELSE alice]
MCResource == {resource}
TwoLeases == {1, 2}
MCTtl == {2}

\* Two processes send as alice, and bob reads.
MCReader == {bob}
MCChannel == {channel1, channel2}
MCKey == {key1}
MCPayload == {x, y}
MCSender == {alice1, alice2}
MCMemberOf == [p \in MCSender |-> alice]
MCLimit == {1}

MCRequest == {request1}
MCHandler == {handler1, handler2}
MCEvent == {gone_member, gone_org, gone_team}
MCKindOf == gone_member :> "member.removed" @@ gone_org :> "org.deleted" @@ gone_team :> "team.deleted"

MCOrg == {acme, globex}
MCSite == {north, south}
MCAdmin == {admin1}
MCSyncer == {syncer1, syncer2}

\* Which of alice's processes, or of the write-backs, is which makes no
\* difference.
Interchangeable == Permutations({alice1, alice2}) \cup Permutations(MCSyncer)

VARIABLE part

allVars == <<part, leaseVars, messageVars, eventVars, credentialVars>>

Leases == part = "leases" /\ UNCHANGED <<part, messageVars, eventVars, credentialVars>>
Messages == part = "messages" /\ UNCHANGED <<part, leaseVars, eventVars, credentialVars>>
Events == part = "events" /\ UNCHANGED <<part, leaseVars, messageVars, credentialVars>>
Credentials == part = "credentials" /\ UNCHANGED <<part, leaseVars, messageVars, eventVars>>

CoordinationInit ==
  /\ part \in {"leases", "messages", "events", "credentials"}
  /\ LeaseInit
  /\ MessageInit
  /\ EventInit
  /\ CredentialInit

CoordinationNext ==
  \/ Leases /\ LeaseTick
  \/ Leases /\ PurgeLeases
  \/ \E a \in Account : Leases /\ ReleaseMember(a)
  \/ \E p \in Process, r \in Resource, ttl \in Ttl : Leases /\ AcquireLease(p, r, ttl)
  \/ \E p \in Process, i \in LeaseId, ttl \in Ttl : Leases /\ RenewLease(p, i, ttl)
  \/ \E p \in Process, i \in LeaseId : Leases /\ ReleaseLease(p, i)
  \/ \E p \in Process : Leases /\ Reap(p)
  \/ \E p \in Process : Leases /\ Look(p)
  \/ \E p \in Process : Leases /\ LockGranted(p)
  \/ \E p \in Process : Leases /\ InsertLease(p)
  \/ \E p \in Process : Leases /\ UpdateOwn(p)
  \/ \E p \in Process : Leases /\ CommitLease(p)
  \/ \E p \in Process : Leases /\ AbortLease(p)
  \/ \E p \in Sender, c \in Channel, k \in Key \cup {NoKey}, payload \in Payload :
       Messages /\ SendMessage(p, c, k, payload)
  \/ \E p \in Sender : Messages /\ Replay(p)
  \/ \E p \in Sender : Messages /\ DrawId(p)
  \/ \E p \in Sender : Messages /\ InsertMessage(p)
  \/ \E p \in Sender : Messages /\ LoseKeyRace(p)
  \/ \E p \in Sender : Messages /\ CommitSend(p)
  \/ \E p \in Sender : Messages /\ AbortSend(p)
  \/ \E u \in Reader, c \in Channel, unread_only, newest_first \in BOOLEAN,
        limit \in InboxLimit : Messages /\ Inbox(u, c, unread_only, newest_first, limit)
  \/ \E u \in Reader, c \in Channel, id \in 1..MaxMessage : Messages /\ AckMessages(u, c, id)
  \/ \E u \in Reader : Messages /\ DropCursors(u)
  \/ \E e \in Event : Events /\ Happens(e)
  \/ Events /\ Return
  \/ Events /\ CacheExpires
  \/ Events /\ RemovalAges
  \/ Events /\ Sweep
  \/ \E r \in Request : Events /\ Authenticate(r)
  \/ \E r \in Request : Events /\ BeginLive(r)
  \/ \E r \in Request : Events /\ BeginBackground(r)
  \/ \E r \in Request : Events /\ CommitRequest(r)
  \/ \E r \in Request : Events /\ AbortRequest(r)
  \/ \E h \in Handler, e \in Event : Events /\ Receive(h, e)
  \/ \E h \in Handler : Events /\ Tombstone(h)
  \/ \E h \in Handler : Events /\ ExcludeRequests(h)
  \/ \E h \in Handler : Events /\ FirstDelivery(h)
  \/ \E h \in Handler : Events /\ CommitCleanUp(h)
  \/ \E h \in Handler : Events /\ FailDelivery(h)
  \/ \E a \in Admin, o \in Org, s \in Site : Credentials /\ RedeemCode(a, o, s)
  \/ \E a \in Admin : Credentials /\ ConnectTracker(a)
  \/ \E o \in Org : Credentials /\ DisconnectTracker(o)
  \/ \E a \in Admin, o \in Org : Credentials /\ LookUp(a, o)
  \/ \E a \in Admin : Credentials /\ BindRepo(a)
  \/ \E o \in Org : Credentials /\ UnbindRepo(o)
  \/ \E w \in Syncer, o \in Org : Credentials /\ ReadBinding(w, o)
  \/ \E w \in Syncer : Credentials /\ ReadConnection(w)
  \/ \E w \in Syncer : Credentials /\ RefreshToken(w)
  \/ \E w \in Syncer : Credentials /\ FinishSync(w)
  \/ \E w \in Syncer : Credentials /\ FailSync(w)
  \/ \E a \in Admin : Credentials /\ FailAdmin(a)

CoordinationSpec == CoordinationInit /\ [][CoordinationNext]_allVars

=============================================================================
