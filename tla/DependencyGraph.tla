-------------------------- MODULE DependencyGraph --------------------------
(***************************************************************************)
(* Reachability along "depends on" edges <<job_id, depends_on>>: the       *)
(* recursive query of set_dependencies, as the database runs it and as a   *)
(* statement about closed sets, which is what the specifications use.      *)
(* DependencyGraphProofs shows that the two agree.                         *)
(***************************************************************************)
EXTENDS Naturals

\* S holds what j depends on directly, and all that its own members depend on.
Covers(S, j, edges) == \A e \in edges : e[1] = j \/ e[1] \in S => e[2] \in S

\* "Is this job now reachable from itself?"  The query's result is the least
\* set that covers j, so j is in it when it is in every one.
OnCycle(j, edges) ==
  \A S \in SUBSET {e[2] : e \in edges} : Covers(S, j, edges) => j \in S

Acyclic(edges) == \A e \in edges : ~OnCycle(e[1], edges)

-----------------------------------------------------------------------------
(* WITH RECURSIVE reach ... UNION ...: a round joins the rows the last one  *)
(* has added, and adds what the result does not hold yet.                   *)

\* What the members of S depend on.
Onward(S, edges) == {e[2] : e \in {d \in edges : d[1] \in S}}

QueryStart(j, edges) == [result |-> Onward({j}, edges), added |-> Onward({j}, edges)]

QueryRound(reach, edges) ==
  LET found == Onward(reach.added, edges) \ reach.result
  IN  [result |-> reach.result \cup found, added |-> found]

\* The query after each number of rounds.
Query(j, edges) ==
  LET reach[n \in Nat] ==
        IF n = 0 THEN QueryStart(j, edges) ELSE QueryRound(reach[n - 1], edges)
  IN  reach

=============================================================================
