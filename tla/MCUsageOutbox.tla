--------------------------- MODULE MCUsageOutbox ---------------------------
(* Small instances of UsageOutbox, with two events of two orgs.             *)
(* MCUsageOutbox.cfg: safety, two replicas.  MCUsageDrain.cfg: liveness,    *)
(* one replica that is interrupted more often.  MCPurge.cfg: what the purge *)
(* of an org leaves behind.                                                 *)
EXTENDS UsageOutbox

CONSTANTS r1, r2, Acme, Globex

MCReplica == {r1, r2}
OneReplica == {r1}
MCOrg == {Acme, Globex}
TwoEvents == {1, 2}
TwoOrgs == [e \in TwoEvents |-> IF e = 1 THEN Acme ELSE Globex]
TwoMeters == [e \in TwoEvents |-> IF e = 1 THEN "retired" ELSE "none"]
BothMetered == [e \in TwoEvents |-> IF e = 1 THEN "retired" ELSE "current"]

=============================================================================
