----------------------- MODULE DependencyGraphProofs -----------------------
(***************************************************************************)
(* What the specifications say of reachability is what the database        *)
(* computes, and a new edge can close a loop only through its own job.     *)
(***************************************************************************)
EXTENDS DependencyGraph, FiniteSetTheorems, WellFoundedInduction, TLAPS

-----------------------------------------------------------------------------
(* Induction over the rounds of the query, as a statement about sets. *)

LEMMA SetInduction ==
  ASSUME NEW S, 0 \in S, \A n \in Nat : n \in S => n + 1 \in S
  PROVE  \A n \in Nat : n \in S
  <1> SUFFICES ASSUME Nat \ S # {} PROVE FALSE
    OBVIOUS
  <1>1. PICK m \in Nat \ S : \A k \in Nat \ S : ~(<<k, m>> \in OpToRel(<, Nat))
    <2>1. IsWellFoundedOn(OpToRel(<, Nat), Nat)
      BY NatLessThanWellFounded
    <2>2. Nat \ S \subseteq Nat
      OBVIOUS
    <2>3. QED
      BY <2>1, <2>2, WFMin
  <1>2. m # 0 /\ m \in Nat
    OBVIOUS
  <1>3. m - 1 \in Nat /\ m - 1 < m /\ (m - 1) + 1 = m
    BY <1>2
  <1>4. <<m - 1, m>> \in OpToRel(<, Nat)
    BY <1>2, <1>3 DEF OpToRel
  <1>5. m - 1 \in S
    BY <1>1, <1>3, <1>4
  <1>6. QED
    BY <1>1, <1>3, <1>5

\* A start and a step in V determine a sequence in V.
LEMMA Recursion ==
  ASSUME NEW V, NEW start \in V, NEW step \in [V -> V]
  PROVE  \E f \in [Nat -> V] : f[0] = start /\ \A n \in Nat : f[n + 1] = step[f[n]]
  <1> DEFINE Prefix(n) == {g \in [0..n -> V] :
                             g[0] = start /\ \A i \in 0..(n - 1) : g[i + 1] = step[g[i]]}
             Exist == {n \in Nat : Prefix(n) # {}}
             Agree == {i \in Nat : \A n, m \in Nat : i <= n /\ i <= m =>
                         \A g \in Prefix(n), h \in Prefix(m) : g[i] = h[i]}
             f == [n \in Nat |-> (CHOOSE g : g \in Prefix(n))[n]]
  <1>1. \A n \in Nat : n \in Exist
    <2>1. 0 \in Exist
      <3>1. [i \in 0..0 |-> start] \in Prefix(0)
        OBVIOUS
      <3>2. QED
        BY <3>1
    <2>2. ASSUME NEW n \in Nat, n \in Exist
          PROVE  n + 1 \in Exist
      <3>1. PICK g : g \in Prefix(n)
        BY <2>2
      <3> DEFINE h == [i \in 0..(n + 1) |-> IF i = n + 1 THEN step[g[n]] ELSE g[i]]
      <3>2. g \in [0..n -> V] /\ g[0] = start /\ g[n] \in V
        BY <3>1
      <3>3. h \in [0..(n + 1) -> V] /\ h[0] = start
        BY <3>2
      <3>4. ASSUME NEW i \in 0..n PROVE h[i + 1] = step[h[i]]
        <4>1. CASE i = n
          BY <4>1
        <4>2. CASE i # n
          BY <3>1, <4>2
        <4>3. QED
          BY <4>1, <4>2
      <3>5. h \in Prefix(n + 1)
        BY <3>3, <3>4
      <3>6. Prefix(n + 1) # {}
        <4> HIDE DEF Prefix, h
        <4>1. QED
          BY <3>5
      <3>7. QED
        <4> HIDE DEF Prefix
        <4>1. QED
          BY <3>6
    <2>3. QED
      <3> HIDE DEF Exist
      <3>1. QED
        BY <2>1, <2>2, SetInduction
  <1>2. \A i \in Nat : i \in Agree
    <2>1. 0 \in Agree
      OBVIOUS
    <2>2. ASSUME NEW i \in Nat, i \in Agree
          PROVE  i + 1 \in Agree
      <3> SUFFICES ASSUME NEW n \in Nat, NEW m \in Nat, i + 1 <= n, i + 1 <= m,
                          NEW g \in Prefix(n), NEW h \in Prefix(m)
                   PROVE  g[i + 1] = h[i + 1]
        OBVIOUS
      <3>1. i <= n /\ i <= m
        OBVIOUS
      <3>2. g[i] = h[i]
        <4> HIDE DEF Prefix
        <4>1. QED
          BY <2>2, <3>1
      <3>3. i \in 0..(n - 1) /\ i \in 0..(m - 1)
        OBVIOUS
      <3>4. QED
        BY <3>2, <3>3
    <2>3. QED
      <3> HIDE DEF Agree
      <3>1. QED
        BY <2>1, <2>2, SetInduction
  <1>3. ASSUME NEW n \in Nat PROVE \E g \in Prefix(n) : f[n] = g[n]
    <2>1. Prefix(n) # {}
      BY <1>1
    <2>2. PICK p : p = (CHOOSE g : g \in Prefix(n))
      OBVIOUS
    <2> HIDE DEF Prefix
    <2>3. p \in Prefix(n)
      BY <2>1, <2>2
    <2>4. f[n] = p[n]
      BY <2>2
    <2>5. QED
      BY <2>3, <2>4
  <1>4. ASSUME NEW n \in Nat PROVE f[n] \in V
    <2>1. PICK g \in Prefix(n) : f[n] = g[n]
      BY <1>3
    <2>2. n \in 0..n
      OBVIOUS
    <2>3. QED
      BY <2>1, <2>2
  <1>5. f[0] = start
    BY <1>3
  <1>6. ASSUME NEW n \in Nat PROVE f[n + 1] = step[f[n]]
    <2>1. PICK g \in Prefix(n) : f[n] = g[n]
      BY <1>3
    <2>2. PICK h \in Prefix(n + 1) : f[n + 1] = h[n + 1]
      <3>1. n + 1 \in Nat
        OBVIOUS
      <3> HIDE DEF f, Prefix
      <3>2. QED
        BY <1>3, <3>1
    <2>3. g[n] = h[n]
      <3>1. n \in Agree /\ n <= n /\ n <= n + 1 /\ n + 1 \in Nat
        <4> HIDE DEF Agree
        <4>1. QED
          BY <1>2
      <3>2. QED
        <4> HIDE DEF Prefix
        <4>1. QED
          BY <2>1, <2>2, <3>1
    <2>4. h[n + 1] = step[h[n]]
      <3>1. n \in 0..((n + 1) - 1)
        OBVIOUS
      <3>2. QED
        BY <2>2, <3>1
    <2>5. QED
      <3> HIDE DEF f, Prefix
      <3>1. QED
        BY <2>1, <2>2, <2>3, <2>4
  <1>7. f \in [Nat -> V]
    BY <1>4
  <1>8. QED
    BY <1>5, <1>6, <1>7

-----------------------------------------------------------------------------
(* What the query finds. *)

\* The defining equation of the query, for any edges.
LEMMA QueryUnfolds ==
  ASSUME NEW j, NEW edges
  PROVE  /\ Query(j, edges)[0] = QueryStart(j, edges)
         /\ \A n \in Nat : Query(j, edges)[n + 1] = QueryRound(Query(j, edges)[n], edges)
  <1> DEFINE T == {e[2] : e \in edges}
             V == [result: SUBSET T, added: SUBSET T]
             step == [reach \in V |-> QueryRound(reach, edges)]
             start == QueryStart(j, edges)
             IsQuery(q) == q = [n \in Nat |-> IF n = 0 THEN start
                                               ELSE QueryRound(q[n - 1], edges)]
  <1>1. start \in V
    BY DEF QueryStart, Onward
  <1>2. ASSUME NEW reach \in V PROVE QueryRound(reach, edges) \in V
    BY DEF QueryRound, Onward
  <1>3. step \in [V -> V]
    BY <1>2
  <1>4. PICK f \in [Nat -> V] : f[0] = start /\ \A n \in Nat : f[n + 1] = step[f[n]]
    <2> HIDE DEF start, step, V
    <2>1. QED
      BY <1>1, <1>3, Recursion
  <1>5. \A n \in Nat : f[n + 1] = QueryRound(f[n], edges)
    BY <1>4
  <1>6. IsQuery(f)
    <2>1. ASSUME NEW n \in Nat
          PROVE  f[n] = IF n = 0 THEN start ELSE QueryRound(f[n - 1], edges)
      <3>1. CASE n = 0
        BY <1>4, <3>1
      <3>2. CASE n # 0
        <4>1. n - 1 \in Nat /\ (n - 1) + 1 = n
          BY <3>2
        <4>2. f[(n - 1) + 1] = QueryRound(f[n - 1], edges)
          BY <1>5, <4>1
        <4>3. QED
          BY <3>2, <4>1, <4>2
      <3>3. QED
        BY <3>1, <3>2
    <2> HIDE DEF start
    <2>2. QED
      BY <1>4, <2>1
  <1>7. Query(j, edges) = CHOOSE q : IsQuery(q)
    BY DEF Query
  <1>8. IsQuery(Query(j, edges))
    <2> HIDE DEF IsQuery
    <2>1. QED
      BY <1>6, <1>7
  <1>9. PICK q : q = Query(j, edges)
    OBVIOUS
  <1>10. q[0] = start
    BY <1>8, <1>9
  <1>11. ASSUME NEW n \in Nat PROVE q[n + 1] = QueryRound(q[n], edges)
    <2>1. n + 1 \in Nat /\ n + 1 # 0 /\ (n + 1) - 1 = n
      OBVIOUS
    <2>2. q[n + 1] = QueryRound(q[(n + 1) - 1], edges)
      BY <1>8, <1>9, <2>1
    <2>3. QED
      BY <2>1, <2>2
  <1>12. QED
    BY <1>9, <1>10, <1>11

\* After any number of rounds: the result holds nothing that is out of reach,
\* and what it lacks can only be found through the rows added last.
LEMMA QueryShape ==
  ASSUME NEW j, NEW edges, NEW q, q = Query(j, edges), NEW n \in Nat
  PROVE  /\ q[n].result \subseteq {e[2] : e \in edges}
         /\ \A S : Covers(S, j, edges) => q[n].result \subseteq S
         /\ \A e \in edges :
              e[1] = j \/ e[1] \in q[n].result \ q[n].added => e[2] \in q[n].result
  <1> DEFINE T == {e[2] : e \in edges}
             Shape == {m \in Nat :
               /\ q[m].added \subseteq q[m].result
               /\ q[m].result \subseteq T
               /\ \A S \in SUBSET T : Covers(S, j, edges) => q[m].result \subseteq S
               /\ \A e \in edges :
                    e[1] = j \/ e[1] \in q[m].result \ q[m].added => e[2] \in q[m].result}
  <1>1. 0 \in Shape
    <2>1. q[0] = QueryStart(j, edges)
      BY QueryUnfolds
    <2>2. q[0].result = Onward({j}, edges) /\ q[0].added = Onward({j}, edges)
      BY <2>1 DEF QueryStart
    <2>3. QED
      BY <2>2 DEF Onward, Covers
  <1>2. ASSUME NEW m \in Nat, m \in Shape
        PROVE  m + 1 \in Shape
    <2> DEFINE found == Onward(q[m].added, edges) \ q[m].result
    <2>1. q[m + 1] = QueryRound(q[m], edges)
      BY QueryUnfolds
    <2>2. q[m + 1].result = q[m].result \cup found /\ q[m + 1].added = found
      BY <2>1 DEF QueryRound
    <2>3. q[m + 1].result \subseteq T
      BY <1>2, <2>2 DEF Onward
    <2>4. ASSUME NEW S \in SUBSET T, Covers(S, j, edges)
          PROVE  q[m + 1].result \subseteq S
      BY <1>2, <2>2, <2>4 DEF Onward, Covers
    <2>5. ASSUME NEW e \in edges, e[1] = j \/ e[1] \in q[m].result
          PROVE  e[2] \in q[m + 1].result
      <3>1. CASE e[1] \in q[m].added
        BY <2>2, <3>1 DEF Onward
      <3>2. CASE e[1] \notin q[m].added
        BY <1>2, <2>2, <2>5, <3>2
      <3>3. QED
        BY <3>1, <3>2
    <2>6. q[m + 1].result \ q[m + 1].added \subseteq q[m].result
      BY <2>2
    <2>7. QED
      BY <2>2, <2>3, <2>4, <2>5, <2>6
  <1>3. n \in Shape
    <2> HIDE DEF Shape
    <2>1. QED
      BY <1>1, <1>2, SetInduction
  <1>4. ASSUME NEW S, Covers(S, j, edges)
        PROVE  q[n].result \subseteq S
    <2>1. Covers(S \cap T, j, edges)
      BY <1>4 DEF Covers
    <2>2. QED
      BY <1>3, <2>1
  <1>5. QED
    BY <1>3, <1>4

\* When a round adds nothing the query has ended, and it has found its own job
\* exactly when the job is on a cycle: what set_dependencies asks the database
\* is what the specifications ask of its edges.
THEOREM QueryDecides ==
  ASSUME NEW j, NEW edges, NEW n \in Nat, Query(j, edges)[n].added = {}
  PROVE  j \in Query(j, edges)[n].result <=> OnCycle(j, edges)
  <1>1. PICK q : q = Query(j, edges)
    OBVIOUS
  <1>2. Covers(q[n].result, j, edges)
    BY <1>1, QueryShape DEF Covers
  <1>3. q[n].result \in SUBSET {e[2] : e \in edges}
    BY <1>1, QueryShape
  <1>4. \A S : Covers(S, j, edges) => q[n].result \subseteq S
    BY <1>1, QueryShape
  <1>5. QED
    BY <1>1, <1>2, <1>3, <1>4 DEF OnCycle

\* The query ends: no round after as many as there are edges adds a row.
THEOREM QueryEnds ==
  ASSUME NEW j, NEW edges, IsFiniteSet(edges)
  PROVE  Query(j, edges)[Cardinality(edges)].added = {}
  <1>1. PICK q : q = Query(j, edges)
    OBVIOUS
  <1> DEFINE T == {e[2] : e \in edges}
             target == [e \in edges |-> e[2]]
             Grown == {n \in Nat : q[n].added = {} \/ Cardinality(q[n].result) > n}
  <1>2. IsFiniteSet(T) /\ Cardinality(T) <= Cardinality(edges)
    <2>1. target \in Surjection(edges, T)
      BY DEF Surjection
    <2>2. QED
      BY <2>1, FS_Surjection
  <1>3. ASSUME NEW n \in Nat
        PROVE  /\ IsFiniteSet(q[n].result)
               /\ Cardinality(q[n].result) \in Nat
               /\ Cardinality(q[n].result) <= Cardinality(T)
    <2>1. q[n].result \in SUBSET T
      BY <1>1, QueryShape
    <2> HIDE DEF T
    <2>2. IsFiniteSet(q[n].result) /\ Cardinality(q[n].result) <= Cardinality(T)
      BY <1>2, <2>1, FS_Subset
    <2>3. QED
      BY <2>2, FS_CardinalityType
  <1> HIDE DEF T
  <1>4. 0 \in Grown
    <2>1. q[0] = QueryStart(j, edges)
      BY <1>1, QueryUnfolds
    <2>2. q[0].result = q[0].added
      BY <2>1 DEF QueryStart
    <2>3. IsFiniteSet(q[0].result) /\ Cardinality(q[0].result) \in Nat
      BY <1>3
    <2>4. q[0].result # {} => Cardinality(q[0].result) > 0
      BY <2>3, FS_EmptySet
    <2>5. QED
      BY <2>2, <2>4
  <1>5. ASSUME NEW n \in Nat, n \in Grown
        PROVE  n + 1 \in Grown
    <2> DEFINE found == Onward(q[n].added, edges) \ q[n].result
    <2>1. q[n + 1] = QueryRound(q[n], edges)
      BY <1>1, QueryUnfolds
    <2>2. q[n + 1].result = q[n].result \cup found /\ q[n + 1].added = found
      BY <2>1 DEF QueryRound
    <2>3. CASE found = {}
      BY <2>2, <2>3
    <2>4. CASE found # {}
      <3>1. q[n].added # {}
        BY <2>4 DEF Onward
      <3>2. Cardinality(q[n].result) > n
        BY <1>5, <3>1
      <3>3. q[n].result \in SUBSET q[n + 1].result /\ q[n].result # q[n + 1].result
        BY <2>2, <2>4
      <3>4. /\ IsFiniteSet(q[n + 1].result)
            /\ Cardinality(q[n].result) \in Nat
            /\ Cardinality(q[n + 1].result) \in Nat
        <4>1. n + 1 \in Nat
          OBVIOUS
        <4> HIDE DEF Grown
        <4>2. QED
          BY <1>3, <4>1
      <3>5. /\ Cardinality(q[n].result) <= Cardinality(q[n + 1].result)
            /\ Cardinality(q[n].result) # Cardinality(q[n + 1].result)
        BY <3>3, <3>4, FS_Subset
      <3>6. QED
        BY <3>2, <3>4, <3>5
    <2>5. QED
      BY <2>3, <2>4
  <1>6. Cardinality(edges) \in Nat /\ Cardinality(T) \in Nat
    BY <1>2, FS_CardinalityType
  <1>7. Cardinality(edges) \in Grown
    <2> HIDE DEF Grown
    <2>1. QED
      BY <1>4, <1>5, <1>6, SetInduction
  <1>8. QED
    BY <1>1, <1>2, <1>3, <1>6, <1>7

-----------------------------------------------------------------------------
(* Acyclicity. *)

\* A set that covers j without holding it shows that j is on no cycle.
LEMMA CoverRefutesCycle ==
  ASSUME NEW edges, NEW j, NEW S, Covers(S, j, edges), j \notin S
  PROVE  ~OnCycle(j, edges)
  <1> DEFINE targets == {e[2] : e \in edges}
  <1>1. S \cap targets \in SUBSET targets
    OBVIOUS
  <1>2. Covers(S \cap targets, j, edges)
    BY DEF Covers
  <1>3. QED
    BY <1>1, <1>2 DEF OnCycle

\* New edges that all start at j close a loop only through j: asking whether j
\* reaches itself is asking whether anything does.
LEMMA OneJobCheck ==
  ASSUME NEW before, NEW after, NEW j,
         Acyclic(before), \A e \in after \ before : e[1] = j, ~OnCycle(j, after)
  PROVE  Acyclic(after)
  <1> SUFFICES ASSUME NEW e \in after PROVE ~OnCycle(e[1], after)
    BY DEF Acyclic
  <1> DEFINE k == e[1]
  <1>1. CASE k = j
    BY <1>1
  <1>2. CASE k # j
    <2>1. ~OnCycle(k, before)
      BY <1>2 DEF Acyclic
    <2>2. PICK T : Covers(T, k, before) /\ k \notin T
      BY <2>1 DEF OnCycle
    <2>3. PICK S : Covers(S, j, after) /\ j \notin S
      BY DEF OnCycle
    <2>4. \A d \in after : d[1] # j => d \in before
      OBVIOUS
    <2>5. CASE k \in S
      <3>1. Covers(S \cap T, k, after)
        BY <2>2, <2>3, <2>4, <2>5 DEF Covers
      <3>2. QED
        BY <2>2, <3>1, CoverRefutesCycle
    <2>6. CASE k \notin S
      <3>1. Covers(S \cup T, k, after)
        BY <1>2, <2>2, <2>3, <2>4 DEF Covers
      <3>2. QED
        BY <2>2, <2>6, <3>1, CoverRefutesCycle
    <2>7. QED
      BY <2>5, <2>6
  <1>3. QED
    BY <1>1, <1>2

\* All that j depends on, directly or not.
Reach(j, edges) ==
  {d \in {e[2] : e \in edges} :
     \A S \in SUBSET {e[2] : e \in edges} : Covers(S, j, edges) => d \in S}

\* A job reaches what it depends on, and all that reaches in its turn.
LEMMA ReachStep ==
  ASSUME NEW edges, NEW j, NEW d, <<j, d>> \in edges
  PROVE  d \in Reach(j, edges) /\ Reach(d, edges) \subseteq Reach(j, edges)
  <1> DEFINE T == {e[2] : e \in edges}
  <1>1. PICK edge \in edges : edge = <<j, d>>
    OBVIOUS
  <1>2. d \in Reach(j, edges)
    BY <1>1 DEF Reach, Covers
  <1>3. ASSUME NEW e \in edges, e[1] = d \/ e[1] \in Reach(j, edges)
        PROVE  e[2] \in Reach(j, edges)
    BY <1>2, <1>3 DEF Reach, Covers
  <1>4. Covers(Reach(j, edges), d, edges)
    BY <1>3 DEF Covers
  <1>5. Reach(j, edges) \in SUBSET T
    BY DEF Reach
  <1>6. Reach(d, edges) \subseteq Reach(j, edges)
    BY <1>4, <1>5 DEF Reach
  <1>7. QED
    BY <1>2, <1>6

\* Without a cycle, whichever jobs are left, one of them waits for none of the
\* others: the one that reaches the fewest.
LEMMA SomeoneWaitsForNobody ==
  ASSUME NEW edges, IsFiniteSet(edges), Acyclic(edges), NEW S, S # {}
  PROVE  \E j \in S : \A d \in S : <<j, d>> \notin edges
  <1> SUFFICES ASSUME \A j \in S : \E d \in S : <<j, d>> \in edges
               PROVE  FALSE
    OBVIOUS
  <1> DEFINE T == {e[2] : e \in edges}
             target == [e \in edges |-> e[2]]
             size(j) == Cardinality(Reach(j, edges))
             Exceeded == {n \in Nat : \A j \in S : size(j) > n}
  <1>1. IsFiniteSet(T)
    <2>1. target \in Surjection(edges, T)
      BY DEF Surjection
    <2>2. QED
      BY <2>1, FS_Surjection
  <1>2. ASSUME NEW j PROVE IsFiniteSet(Reach(j, edges)) /\ size(j) \in Nat
    <2>1. Reach(j, edges) \in SUBSET T
      BY DEF Reach
    <2> HIDE DEF T
    <2>2. IsFiniteSet(Reach(j, edges))
      BY <1>1, <2>1, FS_Subset
    <2>3. QED
      BY <2>2, FS_CardinalityType
  <1>3. ASSUME NEW j \in S
        PROVE  \E d \in S : size(d) < size(j)
    <2>1. PICK d \in S : <<j, d>> \in edges
      OBVIOUS
    <2>2. PICK c \in S : <<d, c>> \in edges
      OBVIOUS
    <2>3. d \notin Reach(d, edges)
      <3>1. PICK e \in edges : e = <<d, c>>
        BY <2>2
      <3>2. ~OnCycle(d, edges)
        BY <3>1 DEF Acyclic
      <3>3. QED
        BY <3>2 DEF OnCycle, Reach
    <2>4. d \in Reach(j, edges) /\ Reach(d, edges) \in SUBSET Reach(j, edges)
      BY <2>1, ReachStep
    <2>5. Reach(d, edges) # Reach(j, edges)
      BY <2>3, <2>4
    <2>6. size(d) \in Nat /\ size(j) \in Nat
      BY <1>2
    <2>7. size(d) <= size(j) /\ size(d) # size(j)
      BY <1>2, <2>4, <2>5, FS_Subset
    <2>8. QED
      BY <2>6, <2>7
  <1> HIDE DEF size
  <1>4. 0 \in Exceeded
    BY <1>2, <1>3
  <1>5. ASSUME NEW n \in Nat, n \in Exceeded
        PROVE  n + 1 \in Exceeded
    <2> SUFFICES ASSUME NEW j \in S PROVE size(j) > n + 1
      OBVIOUS
    <2>1. PICK d \in S : size(d) < size(j)
      BY <1>3
    <2>2. size(d) > n /\ size(d) \in Nat /\ size(j) \in Nat
      BY <1>2, <1>5
    <2>3. QED
      BY <2>1, <2>2
  <1>6. \A n \in Nat : n \in Exceeded
    <2> HIDE DEF Exceeded
    <2>1. QED
      BY <1>4, <1>5, SetInduction
  <1>7. PICK j \in S : size(j) \in Nat
    BY <1>2
  <1>8. size(j) > size(j)
    BY <1>6, <1>7
  <1>9. QED
    BY <1>7, <1>8

=============================================================================
