--------------------------- MODULE DeltaDagLemmas ---------------------------
(***************************************************************************)
(* Facts about the operators of DeltaDag, for every content L and every    *)
(* set of hashes.                                                          *)
(***************************************************************************)
EXTENDS DeltaDag, TLAPS

\* DeltaDag::insert keeps referenced set and frontier what rebuilding the DAG
\* from the log would give, whether or not the delta's children or parents
\* are held already.
LEMMA InsertRebuilds ==
  ASSUME NEW L, NEW H, NEW h
  PROVE  Insert(L, RebuildDag(L, H), h) = RebuildDag(L, H \cup {h})
<1> DEFINE dag == RebuildDag(L, H)
<1>1. /\ dag.held = H
      /\ dag.referenced = Referenced(L, H)
      /\ dag.frontier = Leaves(L, H)
  BY DEF RebuildDag, InsertAll, EmptyDag
<1>2. CASE h \in H
  <2>1. H \cup {h} = H
    BY <1>2
  <2>2. Insert(L, dag, h) = dag
    BY <1>1, <1>2 DEF Insert
  <2> QED
    BY <2>1, <2>2
<1>3. CASE h \notin H
  <2>1. Referenced(L, H \cup {h}) = Referenced(L, H) \cup L[h].parents
    BY DEF Referenced
  <2>2. Leaves(L, H \cup {h}) =
          (Leaves(L, H) \ L[h].parents)
             \cup (IF h \in Referenced(L, H) \cup L[h].parents THEN {} ELSE {h})
    BY <1>3, <2>1 DEF Leaves
  <2>3. Insert(L, dag, h) =
          [held       |-> H \cup {h},
           referenced |-> Referenced(L, H \cup {h}),
           frontier   |-> Leaves(L, H \cup {h})]
    BY <1>1, <1>3, <2>1, <2>2 DEF Insert
  <2>4. RebuildDag(L, H \cup {h}) =
          [held       |-> H \cup {h},
           referenced |-> Referenced(L, H \cup {h}),
           frontier   |-> Leaves(L, H \cup {h})]
    BY DEF RebuildDag, InsertAll, EmptyDag
  <2> QED
    BY <2>3, <2>4
<1> QED
  BY <1>2, <1>3

\* Inserting a set of deltas, likewise.
LEMMA InsertAllRebuilds ==
  ASSUME NEW L, NEW H, NEW G
  PROVE  InsertAll(L, RebuildDag(L, H), G) = RebuildDag(L, H \cup G)
<1>1. RebuildDag(L, H).held = H
  BY DEF RebuildDag, InsertAll, EmptyDag
<1> QED
  BY <1>1 DEF RebuildDag, InsertAll, EmptyDag

\* The DAG depends on the parents of what is held and on nothing else.
LEMMA RebuildOfSameParents ==
  ASSUME NEW L, NEW M, NEW H, \A h \in H : M[h].parents = L[h].parents
  PROVE  RebuildDag(M, H) = RebuildDag(L, H)
<1>1. Referenced(M, H) = Referenced(L, H)
  BY DEF Referenced
<1>2. Leaves(M, H) = Leaves(L, H)
  BY <1>1 DEF Leaves
<1> QED
  BY <1>1, <1>2 DEF RebuildDag, InsertAll, EmptyDag

----------------------------------------------------------------------------
(* Traversals: Visited is the least set closed under the step. *)

\* Every closed set contains what the traversal visits.
LEMMA VisitedIsLeast ==
  ASSUME NEW L, NEW held, NEW P, NEW stop,
         NEW S \in SUBSET DOMAIN L, TraversalClosed(L, held, P, stop, S)
  PROVE  Visited(L, held, P, stop) \subseteq S
BY DEF Visited

\* What the traversal visits is closed, if deltas name only existing deltas.
LEMMA VisitedIsClosed ==
  ASSUME NEW L, NEW held, NEW stop, NEW P \in SUBSET DOMAIN L,
         \A h \in DOMAIN L : L[h].parents \subseteq DOMAIN L
  PROVE  /\ Visited(L, held, P, stop) \subseteq DOMAIN L
         /\ TraversalClosed(L, held, P, stop, Visited(L, held, P, stop))
<1> DEFINE closed == {S \in SUBSET DOMAIN L : TraversalClosed(L, held, P, stop, S)}
           V == Visited(L, held, P, stop)
<1>1. V = {h \in DOMAIN L : \A S \in closed : h \in S}
  BY DEF Visited
<1>2. V \subseteq DOMAIN L
  BY <1>1
<1>3. P \ stop \subseteq V
  <2>1. \A S \in closed : P \ stop \subseteq S
    BY DEF TraversalClosed
  <2> QED
    BY <1>1, <2>1
<1>4. ASSUME NEW h \in V \cap held
      PROVE  L[h].parents \ stop \subseteq V
  <2>1. L[h].parents \subseteq DOMAIN L
    BY <1>2
  <2>2. \A S \in closed : L[h].parents \ stop \subseteq S
    BY <1>1 DEF TraversalClosed
  <2> QED
    BY <1>1, <2>1, <2>2
<1> QED
  BY <1>2, <1>3, <1>4 DEF TraversalClosed

\* A set of existing deltas that contains the parents of its members, and the
\* start, contains the traversal, wherever it stops.
LEMMA VisitedWithinComplete ==
  ASSUME NEW L, NEW stop, NEW H \in SUBSET DOMAIN L, NEW P \in SUBSET H,
         Referenced(L, H) \subseteq H
  PROVE  Visited(L, H, P, stop) \subseteq H
<1>1. TraversalClosed(L, H, P, stop, H)
  BY DEF TraversalClosed, Referenced
<1> QED
  BY <1>1, VisitedIsLeast

\* A causal past that is wholly held is the same past for everyone who holds
\* more, and stays so when new deltas come into existence.
LEMMA PastIsStable ==
  ASSUME NEW L, NEW M, NEW held \in SUBSET DOMAIN L, NEW more \in SUBSET DOMAIN M,
         NEW P \in SUBSET DOMAIN L,
         held \subseteq more, DOMAIN L \subseteq DOMAIN M,
         \A h \in DOMAIN L : L[h].parents \subseteq DOMAIN L,
         \A h \in DOMAIN M : M[h].parents \subseteq DOMAIN M,
         \A h \in held : M[h].parents = L[h].parents,
         Missing(L, held, P) = {}
  PROVE  /\ Visited(M, more, P, {}) = Visited(L, held, P, {})
         /\ Visited(L, held, P, {}) \subseteq held
<1> DEFINE V == Visited(L, held, P, {})
           W == Visited(M, more, P, {})
<1>1. V \subseteq held
  BY DEF Missing
<1>2. V \subseteq DOMAIN L /\ TraversalClosed(L, held, P, {}, V)
  BY VisitedIsClosed
<1>3. W \subseteq DOMAIN M /\ TraversalClosed(M, more, P, {}, W)
  <2>1. P \in SUBSET DOMAIN M
    OBVIOUS
  <2> QED
    BY <2>1, VisitedIsClosed
<1>4. TraversalClosed(M, more, P, {}, V)
  BY <1>1, <1>2 DEF TraversalClosed
<1>5. W \subseteq V
  <2>1. V \in SUBSET DOMAIN M
    BY <1>2
  <2> QED
    BY <1>4, <2>1, VisitedIsLeast
<1>6. TraversalClosed(L, held, P, {}, W)
  BY <1>3 DEF TraversalClosed
<1>7. V \subseteq W
  <2>1. W \in SUBSET DOMAIN L
    BY <1>2, <1>5
  <2> QED
    BY <1>6, <2>1, VisitedIsLeast
<1> QED
  BY <1>1, <1>5, <1>7
=============================================================================
