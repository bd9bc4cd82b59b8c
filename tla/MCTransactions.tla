--------------------------- MODULE MCTransactions ---------------------------
(* Small instances of the parts of the system whose transactions meet on a  *)
(* few rows: dependency edits, a ticket's jobs, and repos; and of what a    *)
(* replica knows of an organization's standing when they begin.  A          *)
(* behaviour is one of one part; the others keep their initial state.       *)
EXTENDS DependencyEdit, TicketSync, OrgStanding, RepoRegistry, TLC

CONSTANTS first, second, j1, j2, j3, agent1, team1, none

\* The parts share no rows and may share names, which keeps the group of
\* permutations small: two sessions, deliveries, callers, calls, repos, remotes.
MCPair == {first, second}

MCJob == {j1, j2, j3}
MCAgent == {agent1}
MCTeam == {team1}

Interchangeable == Permutations(MCPair)

VARIABLE part

transactionVars == <<part, editVars, ticketVars, standingVars, registryVars>>

Edits == part = "edits" /\ UNCHANGED <<part, ticketVars, standingVars, registryVars>>
Tickets == part = "tickets" /\ UNCHANGED <<part, editVars, standingVars, registryVars>>
Standings == part = "standing" /\ UNCHANGED <<part, editVars, ticketVars, registryVars>>
Repos == part = "repos" /\ UNCHANGED <<part, editVars, ticketVars, standingVars>>

TransactionsInit ==
  /\ part \in {"edits", "tickets", "standing", "repos"}
  /\ Init
  /\ TicketInit
  /\ \A e \in sent : e.revision # 0
  /\ part # "tickets" => tracker = "github"
  /\ part # "tickets" \/ tracker = "jira" => jobs = <<>>
  /\ StandingInit
  /\ part # "standing" => ~blocked
  /\ RegistryInit

\* Bound: the first event has a revision, and so has every later one that is not
\* about the last edit of a JIRA ticket.
Dated == \A e \in sent' \ sent : e.revision # 0

LastOfJira == tracker = "jira" /\ ticket'.revision = MaxRevision

\* Bound: of jobs with the ticket, one is linked again, if the ticket is one of
\* GitHub: the first, while it is claimed and two edits are about to reach it.
Relinked(j) ==
  /\ tracker = "github" /\ j = 1 /\ jobs[j].status = "claimed"
  /\ \A d \in Delivery : delivery[d].doing = "update"

TransactionsNext ==
  \/ Edits /\ Next
  \/ Standings /\ StandingNext
  \/ Repos /\ RegistryNext
  \/ Tickets /\ EditTicket /\ (LastOfJira \/ Dated)
  \/ \E to \in {"completed", "failed"} : Tickets /\ CloseTicket(to) /\ Dated
  \/ Tickets /\ ReopenTicket /\ Dated
  \/ \E d \in Delivery, e \in sent : Tickets /\ Receive(d, e)
  \/ \E d \in Delivery : Tickets /\ CreateFromTicket(d)
  \/ \E d \in Delivery : Tickets /\ UpdateFromTicket(d)
  \/ \E d \in Delivery : Tickets /\ AskStanding(d)
  \/ \E d \in Delivery, to \in {"completed", "failed"} : Tickets /\ CloseFromTicket(d, to)
  \/ \E d \in Delivery, s \in Standing \ {"unasked"} : Tickets /\ Reopen(d, s)
  \/ \E d \in Delivery : Tickets /\ AbandonDelivery(d)
  \/ \E a \in Agent, j \in DOMAIN jobs : Tickets /\ ClaimTicketJob(a, j)
  \/ \E a \in Agent, j \in DOMAIN jobs, s \in Standing \ {"unasked"} :
       Tickets /\ CompleteTicketJob(a, j, s)
  \/ \E a \in Agent, j \in DOMAIN jobs, to \in {"failed", "cancelled"} :
       Tickets /\ EndTicketJob(a, j, to)
  \/ \E a \in Agent, j \in DOMAIN jobs : Tickets /\ SyncTicket(a, j)
  \/ \E j \in DOMAIN jobs : Tickets /\ RependTicketJob(j)
  \/ \E j \in DOMAIN jobs : Tickets /\ LinkTicket(j) /\ (jobs[j].linked => Relinked(j))
  \/ \E j \in DOMAIN jobs : Tickets /\ LinkElsewhere(j) /\ Relinked(j)
  \/ \E a \in Agent : Tickets /\ PostComment(a)
  \/ \E a \in Agent, to \in Outcome : Tickets /\ MoveTicket(a, to) /\ Dated
  \/ \E a \in Agent : Tickets /\ NoTransition(a)
  \/ \E a \in Agent : Tickets /\ ReadRevision(a)
  \/ \E a \in Agent : Tickets /\ StoreRevision(a)
  \/ \E a \in Agent : Tickets /\ GiveUp(a)

TransactionsSpec == TransactionsInit /\ [][TransactionsNext]_transactionVars

=============================================================================
