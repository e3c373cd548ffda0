------------------------------ MODULE DeltaDag ------------------------------
(***************************************************************************)
(* The delta DAG of core/dag.rs and the reconciliation queries of          *)
(* core/recon.rs, as operators.                                            *)
(*                                                                         *)
(* A delta is named by its content hash.  `L` is the content behind the    *)
(* hashes: a function from the hashes of the deltas that exist to records  *)
(* with at least a field `parents`.  A hash commits to the parents, so a   *)
(* delta can only name deltas that existed before it.                      *)
(*                                                                         *)
(* The traversals of the code (a stack and a visited set) return a         *)
(* reachable set; here it is the least set closed under the step of the    *)
(* traversal.                                                              *)
(***************************************************************************)
EXTENDS FiniteSets

CONSTANT Hashes      \* content hashes

Dags == [held : SUBSET Hashes, referenced : SUBSET Hashes,
         frontier : SUBSET Hashes]

\* DeltaDag::new
EmptyDag == [held |-> {}, referenced |-> {}, frontier |-> {}]

\* An insert that forgets that a child may have arrived first.
InsertAlwaysLeaf(L, dag, h) ==
  IF h \in dag.held THEN dag
  ELSE [held       |-> dag.held \cup {h},
        referenced |-> dag.referenced \cup L[h].parents,
        frontier   |-> (dag.frontier \ L[h].parents) \cup {h}]

\* An insert that does not note the parents it saw.
InsertForgetsParents(L, dag, h) ==
  IF h \in dag.held THEN dag
  ELSE [held       |-> dag.held \cup {h},
        referenced |-> dag.referenced,
        frontier   |-> (dag.frontier \ L[h].parents) \cup ({h} \ dag.referenced)]

\* DeltaDag::insert
Insert(L, dag, h) ==
  IF h \in dag.held THEN dag
  ELSE LET referenced == dag.referenced \cup L[h].parents
           leaf       == IF h \in referenced THEN {} ELSE {h}
       IN  [held       |-> dag.held \cup {h},
            referenced |-> referenced,
            frontier   |-> (dag.frontier \ L[h].parents) \cup leaf]

\* What inserting every delta of H yields, in whatever order: DagSync checks,
\* and DagSyncProofs proves, that single inserts arrive at the same place.
Referenced(L, H) == UNION {L[h].parents : h \in H}
Leaves(L, H) == H \ Referenced(L, H)

InsertAll(L, dag, H) ==
  LET held == dag.held \cup H
  IN  [held |-> held, referenced |-> Referenced(L, held),
       frontier |-> Leaves(L, held)]

\* Document::rebuild_dag
RebuildDag(L, log) == InsertAll(L, EmptyDag, log)

\* DeltaDag::incomplete_ancestors
IncompleteAncestors(dag) == dag.referenced \ dag.held

----------------------------------------------------------------------------
(* Traversals *)

\* S contains the start P and, with a held delta, its parents outside `stop`.
TraversalClosed(L, held, P, stop, S) ==
  /\ P \ stop \subseteq S
  /\ \A h \in S \cap held : L[h].parents \ stop \subseteq S

\* The hashes a traversal from P that does not enter `stop` visits, present
\* or not.
Visited(L, held, P, stop) ==
  LET closed == {S \in SUBSET DOMAIN L : TraversalClosed(L, held, P, stop, S)}
  IN  {h \in DOMAIN L : \A S \in closed : h \in S}

\* The present part of the causal closure of P (closure_collect), and the
\* absent part, which is the fetch list (ClosureQuery::Incomplete).
Closure(L, held, P) == Visited(L, held, P, {}) \cap held
Missing(L, held, P) == Visited(L, held, P, {}) \ held

----------------------------------------------------------------------------
(* Reconciliation *)

\* A fetch list that trusts the advertised frontier alone.
MissingFromFrontierOnly(dag, remoteFrontier) == remoteFrontier \ dag.held

\* DeltaDag::missing_from_frontier
MissingFromFrontier(dag, remoteFrontier) ==
  (remoteFrontier \ dag.held) \cup IncompleteAncestors(dag)

\* DeltaDag::extract_closure: the deltas of the bundle, or that it is refused
\* because a required ancestor is not held.
ExtractClosure(L, dag, target, stop) == Visited(L, dag.held, {target}, stop)
ExtractRefused(L, dag, target, stop) ==
  ~ (ExtractClosure(L, dag, target, stop) \subseteq dag.held)

\* An answer that stops at the heads.
DeltasForPeerHeads(L, dag, peerFrontier) == dag.frontier \ peerFrontier

\* DeltaDag::deltas_for_peer
DeltasForPeer(L, dag, peerFrontier) ==
  UNION {ExtractClosure(L, dag, head, peerFrontier) :
           head \in dag.frontier \ peerFrontier}
PeerAnswerRefused(L, dag, peerFrontier) ==
  \E head \in dag.frontier \ peerFrontier :
    ExtractRefused(L, dag, head, peerFrontier)

\* The structural check of merge_bundle without the look at what is held.
BundleClosed(L, held, target, deltas) ==
  /\ target \in deltas
  /\ \A h \in deltas : L[h].parents \subseteq deltas

\* The structural check of DeltaDag::merge_bundle (and of
\* Document::merge_verified_bundle): the target is there, no parent dangles.
BundleSound(L, held, target, deltas) ==
  /\ target \in deltas
  /\ \A h \in deltas : L[h].parents \subseteq deltas \cup held
=============================================================================
