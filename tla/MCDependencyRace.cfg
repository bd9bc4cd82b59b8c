SPECIFICATION Spec
CONSTANTS
  s1 = s1
  s2 = s2
  j1 = j1
  j2 = j2
  j3 = j3
  Session <- MCSession
  Job <- MCJob
  MaxEdit = 2
INVARIANTS
  ConcurrentEditsStayAcyclic
