-------------------------- MODULE MCDependencyEdit --------------------------
(* Two sessions and three jobs: enough for a loop through a third job.     *)
EXTENDS DependencyEdit

CONSTANTS s1, s2, j1, j2, j3

MCSession == {s1, s2}
MCJob == {j1, j2, j3}

=============================================================================
