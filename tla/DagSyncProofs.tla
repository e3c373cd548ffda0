--------------------------- MODULE DagSyncProofs ---------------------------
(***************************************************************************)
(* DagSync for any number of replicas and deltas: the frontier is the set  *)
(* of leaves whatever the order of arrival, and one answer to a frontier   *)
(* synchronises two complete histories.                                    *)
(*                                                                         *)
(* The arguments about reconciliation look at the newest delta that would  *)
(* be lost, which exists because the deltas are ordered by their creation. *)
(***************************************************************************)
EXTENDS DagSync, DeltaDagLemmas, WellFoundedInduction

\* A bounded set of numbers has a greatest one.
LEMMA GreatestExists ==
  ASSUME NEW S \in SUBSET Nat, S # {}, NEW n \in Nat, \A s \in S : s <= n
  PROVE  \E m \in S : \A s \in S : s <= m
<1> DEFINE T == {k \in Nat : \A s \in S : s <= k}
<1>1. PICK k \in T : \A j \in T : ~ (<<j, k>> \in OpToRel(<, Nat))
  <2>1. T \subseteq Nat /\ T # {}
    OBVIOUS
  <2> QED
    BY <2>1, NatLessThanWellFounded, WFMin
<1>2. \A j \in T : ~ (j < k)
  <2> SUFFICES ASSUME NEW j \in T, j < k
               PROVE  FALSE
    OBVIOUS
  <2>1. <<j, k>> \in OpToRel(<, Nat)
    BY DEF OpToRel
  <2> QED
    BY <1>1, <2>1
<1>3. k \in S
  <2> SUFFICES ASSUME k \notin S
               PROVE  FALSE
    OBVIOUS
  <2>1. \A s \in S : s < k
    OBVIOUS
  <2>2. k # 0
    <3>1. PICK s \in S : s \in Nat
      OBVIOUS
    <3>2. s < k
      BY <2>1
    <3> QED
      BY <3>1, <3>2
  <2>3. k - 1 \in Nat /\ k - 1 < k
    BY <2>2
  <2>4. k - 1 \in T
    BY <2>1, <2>3
  <2> QED
    BY <1>2, <2>3, <2>4
<1> QED
  BY <1>3

----------------------------------------------------------------------------
(* The inductive invariant *)

\* The frontier part of the invariant, as a statement about the whole DAG.
LEMMA FrontierIsRebuild ==
  ASSUME TypeOK
  PROVE  FrontierIsLeaves <=>
           \A r \in Replicas : dag[r] = RebuildDag(delta, dag[r].held)
<1> SUFFICES ASSUME NEW r \in Replicas
             PROVE  (/\ dag[r].referenced = Referenced(delta, dag[r].held)
                     /\ dag[r].frontier = Leaves(delta, dag[r].held))
                    <=> dag[r] = RebuildDag(delta, dag[r].held)
  BY DEF FrontierIsLeaves
<1>1. dag[r] \in Dags
  BY DEF TypeOK
<1>2. dag[r] = [held |-> dag[r].held, referenced |-> dag[r].referenced,
                frontier |-> dag[r].frontier]
  BY <1>1 DEF Dags
<1>3. RebuildDag(delta, dag[r].held)
        = [held |-> dag[r].held, referenced |-> Referenced(delta, dag[r].held),
           frontier |-> Leaves(delta, dag[r].held)]
  BY DEF RebuildDag, InsertAll, EmptyDag
<1> QED
  BY <1>2, <1>3

\* The parts of a rebuilt DAG.
LEMMA RebuildParts ==
  ASSUME NEW L, NEW d, d = RebuildDag(L, d.held)
  PROVE  d.referenced = Referenced(L, d.held) /\ d.frontier = Leaves(L, d.held)
<1> DEFINE H == d.held
<1>1. RebuildDag(L, H) = [held |-> H, referenced |-> Referenced(L, H),
                          frontier |-> Leaves(L, H)]
  BY DEF RebuildDag, InsertAll, EmptyDag
<1> HIDE DEF H
<1>2. RebuildDag(L, H).referenced = Referenced(L, H) /\ RebuildDag(L, H).frontier = Leaves(L, H)
  BY <1>1
<1> QED
  BY <1>2 DEF H

\* A rebuilt DAG over existing deltas is a DAG.
LEMMA RebuildType ==
  ASSUME NEW L, DOMAIN L \subseteq Hashes, NEW H \in SUBSET DOMAIN L,
         \A h \in DOMAIN L : L[h].parents \subseteq DOMAIN L
  PROVE  RebuildDag(L, H) \in Dags /\ RebuildDag(L, H).held = H
<1>1. Referenced(L, H) \subseteq Hashes
  BY DEF Referenced
<1>2. Leaves(L, H) \subseteq Hashes
  BY DEF Leaves
<1>3. RebuildDag(L, H) = [held |-> H, referenced |-> Referenced(L, H),
                          frontier |-> Leaves(L, H)]
  BY DEF RebuildDag, InsertAll, EmptyDag
<1>4. H \subseteq Hashes
  OBVIOUS
<1> QED
  BY <1>1, <1>2, <1>3, <1>4 DEF Dags

\* If one replica gets more existing deltas, the invariant is kept.
LEMMA GrowKeepsInv ==
  ASSUME DagInv, NEW r \in Replicas, NEW G \in SUBSET Exists,
         dag' = [dag EXCEPT ![r] = RebuildDag(delta, dag[r].held \cup G)],
         delta' = delta
  PROVE  DagInv'
<1>1. \A q \in Replicas : dag[q] = RebuildDag(delta, dag[q].held)
  BY FrontierIsRebuild DEF DagInv
<1>2. dag[r].held \cup G \in SUBSET Exists
  BY DEF DagInv, TypeOK
<1>3. /\ RebuildDag(delta, dag[r].held \cup G) \in Dags
      /\ RebuildDag(delta, dag[r].held \cup G).held = dag[r].held \cup G
  BY <1>2, RebuildType DEF DagInv, TypeOK, Exists
<1>4. \A q \in Replicas : dag'[q] = RebuildDag(delta', dag'[q].held)
  BY <1>1, <1>3 DEF DagInv, TypeOK
<1>5. TypeOK'
  BY <1>2, <1>3 DEF DagInv, TypeOK, Exists
<1>6. FrontierIsLeaves'
  <2> SUFFICES ASSUME NEW q \in Replicas
               PROVE  /\ dag'[q].referenced = Referenced(delta', dag'[q].held)
                      /\ dag'[q].frontier = Leaves(delta', dag'[q].held)
    BY DEF FrontierIsLeaves
  <2>1. dag'[q] = RebuildDag(delta', dag'[q].held)
    BY <1>4
  <2> QED
    BY <2>1, RebuildParts
<1>7. HistoryOrdered'
  BY DEF DagInv, HistoryOrdered, Exists
<1> QED
  BY <1>5, <1>6, <1>7 DEF DagInv

\* Creating a delta keeps the invariant: nothing held names the new hash.
LEMMA CreateKeepsInv ==
  ASSUME DagInv, NEW r \in Replicas, NEW h \in Hashes, NEW parents \in SUBSET Exists,
         Create(r, h, parents)
  PROVE  DagInv'
<1>1. /\ h \notin Exists /\ h \in Nat
      /\ \A g \in Exists : g < h
      /\ Exists \subseteq Nat
  BY HashesAreOrdered DEF Create, Fresh, DagInv, TypeOK
<1>2. Exists' = Exists \cup {h}
  BY DEF Create, Exists
<1>3. delta'[h].parents = parents /\ \A g \in Exists : delta'[g] = delta[g]
  BY <1>1 DEF Create
<1>4. \A g \in DOMAIN delta' : delta'[g].parents \subseteq DOMAIN delta'
  BY <1>2, <1>3 DEF DagInv, TypeOK, Exists
<1>5. \A q \in Replicas : dag[q] = RebuildDag(delta', dag[q].held)
  <2> TAKE q \in Replicas
  <2>1. dag[q] = RebuildDag(delta, dag[q].held)
    BY FrontierIsRebuild DEF DagInv
  <2>2. \A g \in dag[q].held : delta'[g].parents = delta[g].parents
    BY <1>3 DEF DagInv, TypeOK
  <2> QED
    BY <2>1, <2>2, RebuildOfSameParents
<1>6. dag' = [dag EXCEPT ![r] = RebuildDag(delta', dag[r].held \cup {h})]
  <2>1. Insert(delta', RebuildDag(delta', dag[r].held), h)
          = RebuildDag(delta', dag[r].held \cup {h})
    BY InsertRebuilds
  <2>2. Insert(delta', dag[r], h) = RebuildDag(delta', dag[r].held \cup {h})
    BY <1>5, <2>1
  <2> QED
    BY <2>2 DEF Create
<1>7. /\ RebuildDag(delta', dag[r].held \cup {h}) \in Dags
      /\ RebuildDag(delta', dag[r].held \cup {h}).held = dag[r].held \cup {h}
  <2>1. dag[r].held \cup {h} \in SUBSET DOMAIN delta'
    BY <1>2 DEF DagInv, TypeOK, Exists
  <2>2. DOMAIN delta' \subseteq Hashes
    BY <1>2 DEF DagInv, TypeOK, Exists
  <2> QED
    BY <1>4, <2>1, <2>2, RebuildType
<1>8. \A q \in Replicas : dag'[q] = RebuildDag(delta', dag'[q].held)
  BY <1>5, <1>6, <1>7 DEF DagInv, TypeOK
<1>9. TypeOK'
  BY <1>2, <1>3, <1>6, <1>7 DEF DagInv, TypeOK
<1>10. FrontierIsLeaves'
  BY <1>8, RebuildParts DEF FrontierIsLeaves
<1>11. HistoryOrdered'
  <2>1. \A g \in Exists' : \A p \in delta'[g].parents : p < g
    BY <1>1, <1>2, <1>3 DEF DagInv, HistoryOrdered
  <2>2. \A g \in Exists' : g <= h
    BY <1>1, <1>2
  <2> QED
    BY <1>2, <2>1, <2>2 DEF HistoryOrdered
<1> QED
  BY <1>9, <1>10, <1>11 DEF DagInv

\* What a replica answers consists of existing deltas.
LEMMA AnswersExist ==
  ASSUME NEW L, NEW d, NEW F
  PROVE  /\ DeltasForPeer(L, d, F) \subseteq DOMAIN L
         /\ \A h : ExtractClosure(L, d, h, F) \subseteq DOMAIN L
BY DEF DeltasForPeer, ExtractClosure, Visited

\* DagInv is an invariant of DagSync.
THEOREM DagInvariant == Spec => []DagInv
<1>1. Init => DagInv
  <2> SUFFICES ASSUME Init
               PROVE  DagInv
    OBVIOUS
  <2>1. Exists = {}
    BY DEF Init, Exists
  <2>2. EmptyDag \in Dags
    BY DEF EmptyDag, Dags
  <2>3. TypeOK
    BY <2>1, <2>2 DEF Init, TypeOK, EmptyDag
  <2>4. FrontierIsLeaves
    BY DEF Init, FrontierIsLeaves, EmptyDag, Referenced, Leaves
  <2> QED
    BY <2>1, <2>3, <2>4 DEF DagInv, HistoryOrdered
<1>2. DagInv /\ [Next]_vars => DagInv'
  <2> SUFFICES ASSUME DagInv, [Next]_vars
               PROVE  DagInv'
    OBVIOUS
  <2>1. \A r \in Replicas : dag[r] = RebuildDag(delta, dag[r].held)
    BY FrontierIsRebuild DEF DagInv
  <2>2. ASSUME NEW r \in Replicas, NEW h \in Hashes, NEW parents \in SUBSET Exists,
               Create(r, h, parents)
        PROVE  DagInv'
    BY <2>2, CreateKeepsInv
  <2>3. ASSUME NEW r \in Replicas, NEW h \in Exists, Receive(r, h)
        PROVE  DagInv'
    <3>1. dag' = [dag EXCEPT ![r] = RebuildDag(delta, dag[r].held \cup {h})]
      <4>1. Insert(delta, RebuildDag(delta, dag[r].held), h)
              = RebuildDag(delta, dag[r].held \cup {h})
        BY InsertRebuilds
      <4>2. Insert(delta, dag[r], h) = RebuildDag(delta, dag[r].held \cup {h})
        BY <2>1, <4>1
      <4> QED
        BY <2>3, <4>2 DEF Receive
    <3>2. {h} \in SUBSET Exists /\ delta' = delta
      BY <2>3 DEF Receive
    <3> QED
      BY <3>1, <3>2, GrowKeepsInv
  <2>4. ASSUME NEW r \in Replicas, NEW q \in Replicas, Reconcile(r, q)
        PROVE  DagInv'
    <3> DEFINE G == DeltasForPeer(delta, dag[q], dag[r].frontier)
    <3>1. dag' = [dag EXCEPT ![r] = RebuildDag(delta, dag[r].held \cup G)]
      <4>1. InsertAll(delta, RebuildDag(delta, dag[r].held), G)
              = RebuildDag(delta, dag[r].held \cup G)
        BY InsertAllRebuilds
      <4>2. InsertAll(delta, dag[r], G) = RebuildDag(delta, dag[r].held \cup G)
        BY <2>1, <4>1
      <4> QED
        BY <2>4, <4>2 DEF Reconcile
    <3>2. G \in SUBSET Exists
      BY AnswersExist DEF Exists
    <3>3. delta' = delta
      BY <2>4 DEF Reconcile
    <3> QED
      BY <3>1, <3>2, <3>3, GrowKeepsInv
  <2>5. ASSUME NEW r \in Replicas, NEW q \in Replicas, NEW h \in Hashes, Fetch(r, q, h)
        PROVE  DagInv'
    <3> DEFINE G == ExtractClosure(delta, dag[q], h, dag[r].frontier)
    <3>1. dag' = [dag EXCEPT ![r] = RebuildDag(delta, dag[r].held \cup G)]
      <4>1. InsertAll(delta, RebuildDag(delta, dag[r].held), G)
              = RebuildDag(delta, dag[r].held \cup G)
        BY InsertAllRebuilds
      <4>2. InsertAll(delta, dag[r], G) = RebuildDag(delta, dag[r].held \cup G)
        BY <2>1, <4>1
      <4> QED
        BY <2>5, <4>2 DEF Fetch
    <3>2. G \in SUBSET Exists
      BY AnswersExist DEF Exists
    <3>3. delta' = delta
      BY <2>5 DEF Fetch
    <3> QED
      BY <3>1, <3>2, <3>3, GrowKeepsInv
  <2>6. CASE UNCHANGED vars
    BY <2>6 DEF vars, DagInv, TypeOK, FrontierIsLeaves, HistoryOrdered, Exists
  <2> QED
    BY <2>2, <2>3, <2>4, <2>5, <2>6 DEF Next
<1> QED
  BY <1>1, <1>2, PTL DEF Spec

\* Whatever the order in which deltas arrive, the maintained frontier is the
\* set of leaves.
THEOREM FrontierIsLeavesAlways == Spec => []FrontierIsLeaves
<1>1. DagInv => FrontierIsLeaves
  BY DEF DagInv
<1> QED
  BY <1>1, DagInvariant, PTL

----------------------------------------------------------------------------
(* Reconciliation *)

\* Among the deltas of a non-empty set there is a newest one.
LEMMA NewestExists ==
  ASSUME DagInv, NEW S \in SUBSET Exists, S # {}
  PROVE  \E m \in S : \A s \in S : s <= m
<1>1. Exists \subseteq Nat
  BY HashesAreOrdered DEF DagInv, TypeOK
<1>2. PICK n \in Exists : \A h \in Exists : h <= n
  BY DEF DagInv, HistoryOrdered
<1>3. S \in SUBSET Nat /\ n \in Nat /\ \A s \in S : s <= n
  BY <1>1, <1>2
<1> QED
  BY <1>3, GreatestExists

\* The newest delta of q that is outside a set with all the heads of q has a
\* child in that set.
LEMMA NewestOutsideHasChild ==
  ASSUME DagInv, NEW q \in Replicas, NEW S, dag[q].frontier \subseteq S,
         ~ (dag[q].held \subseteq S)
  PROVE  \E h \in dag[q].held \ S : \E g \in dag[q].held \cap S : h \in delta[g].parents
<1> DEFINE T == dag[q].held \ S
<1>1. T \in SUBSET Exists /\ T # {}
  BY DEF DagInv, TypeOK
<1>2. PICK h \in T : \A s \in T : s <= h
  BY <1>1, NewestExists
<1>3. h \notin Leaves(delta, dag[q].held)
  BY DEF DagInv, FrontierIsLeaves
<1>4. PICK g \in dag[q].held : h \in delta[g].parents
  BY <1>3 DEF Leaves, Referenced
<1>5. g \in Exists /\ h \in Exists
  BY <1>1 DEF DagInv, TypeOK
<1>6. g \in Nat /\ h \in Nat
  BY <1>5, HashesAreOrdered DEF DagInv, TypeOK
<1>7. h < g
  BY <1>4, <1>5 DEF DagInv, HistoryOrdered
<1>8. ~ (g <= h)
  BY <1>6, <1>7
<1>9. g \notin T
  BY <1>2, <1>8
<1> QED
  BY <1>4, <1>9

\* In a complete history the parents of what is held are held.
LEMMA CompleteIsClosed ==
  ASSUME DagInv, NEW r \in Replicas, Complete(r)
  PROVE  Referenced(delta, dag[r].held) \subseteq dag[r].held
BY DEF DagInv, FrontierIsLeaves, Complete, IncompleteAncestors

\* The traversal of a complete history stays in it.
LEMMA AnswerIsHeld ==
  ASSUME DagInv, NEW q \in Replicas, Complete(q), NEW h \in dag[q].held, NEW stop
  PROVE  /\ ExtractClosure(delta, dag[q], h, stop) \subseteq dag[q].held
         /\ TraversalClosed(delta, dag[q].held, {h}, stop,
                            ExtractClosure(delta, dag[q], h, stop))
<1>1. dag[q].held \in SUBSET DOMAIN delta /\ {h} \in SUBSET dag[q].held
  BY DEF DagInv, TypeOK, Exists
<1>2. Referenced(delta, dag[q].held) \subseteq dag[q].held
  BY CompleteIsClosed
<1>3. Visited(delta, dag[q].held, {h}, stop) \subseteq dag[q].held
  BY <1>1, <1>2, VisitedWithinComplete
<1>4. TraversalClosed(delta, dag[q].held, {h}, stop,
                      Visited(delta, dag[q].held, {h}, stop))
  <2>1. {h} \in SUBSET DOMAIN delta
    BY <1>1
  <2>2. \A g \in DOMAIN delta : delta[g].parents \subseteq DOMAIN delta
    BY DEF DagInv, TypeOK, Exists
  <2> QED
    BY <2>1, <2>2, VisitedIsClosed
<1> QED
  BY <1>3, <1>4 DEF ExtractClosure

\* An empty fetch list means that nothing of a complete peer is lacking.
THEOREM EmptyFetchListSyncs == Spec => []EmptyFetchListMeansSynced
<1>1. DagInv => EmptyFetchListMeansSynced
  <2> SUFFICES ASSUME DagInv, NEW r \in Replicas, NEW q \in Replicas, Complete(q),
                      MissingFromFrontier(dag[r], dag[q].frontier) = {},
                      ~ (dag[q].held \subseteq dag[r].held)
               PROVE  FALSE
    BY DEF EmptyFetchListMeansSynced
  <2>1. dag[q].frontier \subseteq dag[r].held /\ Complete(r)
    BY DEF MissingFromFrontier, Complete
  <2>2. PICK h \in dag[q].held \ dag[r].held :
          \E g \in dag[q].held \cap dag[r].held : h \in delta[g].parents
    BY <2>1, NewestOutsideHasChild
  <2>3. h \in Referenced(delta, dag[r].held)
    BY <2>2 DEF Referenced
  <2> QED
    BY <2>1, <2>3, CompleteIsClosed
<1> QED
  BY <1>1, DagInvariant, PTL

\* One answer to a frontier brings a complete history up to date with another,
\* although the answering side prunes its traversal at the frontier it is told.
THEOREM AnswerSyncs == Spec => []AnswerIsComplete
<1>1. DagInv => AnswerIsComplete
  <2> SUFFICES ASSUME DagInv, NEW r \in Replicas, NEW q \in Replicas,
                      Complete(r), Complete(q)
               PROVE  /\ ~ PeerAnswerRefused(delta, dag[q], dag[r].frontier)
                      /\ dag[q].held \subseteq
                           dag[r].held \cup DeltasForPeer(delta, dag[q], dag[r].frontier)
    BY DEF AnswerIsComplete
  <2> DEFINE stop == dag[r].frontier
             A == DeltasForPeer(delta, dag[q], stop)
             E(head) == ExtractClosure(delta, dag[q], head, stop)
  <2>1. dag[q].frontier \subseteq dag[q].held /\ stop \subseteq dag[r].held
    BY DEF DagInv, FrontierIsLeaves, Leaves
  <2>2. \A head \in dag[q].frontier :
          /\ E(head) \subseteq dag[q].held
          /\ {head} \ stop \subseteq E(head)
          /\ \A g \in E(head) \cap dag[q].held : delta[g].parents \ stop \subseteq E(head)
    BY <2>1, AnswerIsHeld DEF TraversalClosed
  <2>3. ~ PeerAnswerRefused(delta, dag[q], stop)
    BY <2>2 DEF PeerAnswerRefused, ExtractRefused
  <2>4. A = UNION {E(head) : head \in dag[q].frontier \ stop}
    BY DEF DeltasForPeer
  <2>5. dag[q].held \subseteq dag[r].held \cup A
    <3> SUFFICES ASSUME ~ (dag[q].held \subseteq dag[r].held \cup A)
                 PROVE  FALSE
      OBVIOUS
    <3>1. dag[q].frontier \subseteq dag[r].held \cup A
      <4> SUFFICES ASSUME NEW head \in dag[q].frontier, head \notin dag[r].held
                   PROVE  head \in A
        OBVIOUS
      <4>1. head \notin stop
        BY <2>1
      <4>2. head \in E(head)
        BY <2>2, <4>1
      <4> QED
        BY <2>4, <4>1, <4>2
    <3>2. PICK h \in dag[q].held \ (dag[r].held \cup A) :
            \E g \in dag[q].held \cap (dag[r].held \cup A) : h \in delta[g].parents
      <4> DEFINE S == dag[r].held \cup A
      <4>1. dag[q].frontier \subseteq S /\ ~ (dag[q].held \subseteq S)
        BY <3>1
      <4> HIDE DEF S
      <4>2. \E h \in dag[q].held \ S : \E g \in dag[q].held \cap S : h \in delta[g].parents
        BY <4>1, NewestOutsideHasChild
      <4> QED
        BY <4>2 DEF S
    <3>3. PICK g \in dag[q].held \cap (dag[r].held \cup A) : h \in delta[g].parents
      BY <3>2
    <3>4. CASE g \in dag[r].held
      <4>1. h \in Referenced(delta, dag[r].held)
        BY <3>3, <3>4 DEF Referenced
      <4> QED
        BY <4>1, CompleteIsClosed
    <3>5. CASE g \in A
      <4>1. PICK head \in dag[q].frontier \ stop : g \in E(head)
        BY <2>4, <3>5
      <4>2. h \notin stop
        BY <2>1
      <4>3. h \in E(head)
        BY <2>2, <3>3, <4>1, <4>2
      <4>4. h \in A
        BY <2>4, <4>1, <4>3
      <4> QED
        BY <4>4
    <3> QED
      BY <3>4, <3>5
  <2> QED
    BY <2>3, <2>5
<1> QED
  BY <1>1, DagInvariant, PTL

\* The bundle a complete peer answers to a fetch passes merge_bundle's check,
\* even at a receiver whose history has gaps.
THEOREM FetchIsAlwaysSound == Spec => []FetchIsSound
<1>1. DagInv => FetchIsSound
  <2> SUFFICES ASSUME DagInv, NEW r \in Replicas, NEW q \in Replicas, Complete(q),
                      NEW h \in MissingFromFrontier(dag[r], dag[q].frontier) \cap dag[q].held
               PROVE  /\ ExtractClosure(delta, dag[q], h, dag[r].frontier)
                            \subseteq dag[q].held
                      /\ BundleSound(delta, dag[r].held, h,
                                     ExtractClosure(delta, dag[q], h, dag[r].frontier))
    BY DEF FetchIsSound
  <2> DEFINE stop == dag[r].frontier
             E == ExtractClosure(delta, dag[q], h, stop)
  <2>1. stop \subseteq dag[r].held
    BY DEF DagInv, FrontierIsLeaves, Leaves
  <2>2. h \notin stop
    BY <2>1 DEF MissingFromFrontier, IncompleteAncestors
  <2>3. /\ E \subseteq dag[q].held
        /\ {h} \ stop \subseteq E
        /\ \A g \in E \cap dag[q].held : delta[g].parents \ stop \subseteq E
    BY AnswerIsHeld DEF TraversalClosed
  <2>4. BundleSound(delta, dag[r].held, h, E)
    BY <2>1, <2>2, <2>3 DEF BundleSound
  <2> QED
    BY <2>3, <2>4
<1> QED
  BY <1>1, DagInvariant, PTL
=============================================================================
