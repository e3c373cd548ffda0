------------------------------ MODULE DagSync ------------------------------
(***************************************************************************)
(* Replicas that grow delta DAGs: deltas are created on any causal past,   *)
(* arrive in any order (a child before its parents), and are fetched by    *)
(* frontier exchange (core/recon.rs).  No admission is involved: this is   *)
(* the DAG layer alone.                                                    *)
(***************************************************************************)
EXTENDS DeltaDag, Naturals

CONSTANT Replicas

ASSUME HashesAreOrdered == Hashes \subseteq Nat   \* numbered by creation

VARIABLES delta,     \* the deltas that exist: hash -> [parents]
          dag        \* replica -> its DeltaDag

vars == <<delta, dag>>

Exists == DOMAIN delta

Init ==
  /\ delta = [h \in {} |-> {}]
  /\ dag = [r \in Replicas |-> EmptyDag]

\* The hash of new content: one that no delta bears.
Fresh(h) == h \in Hashes \ Exists /\ \A g \in Exists : g < h

\* SignedDelta::new_with_parents with any parent set, held by its author.
Create(r, h, parents) ==
  /\ Fresh(h)
  /\ delta' = [x \in Exists \cup {h} |->
                 IF x = h THEN [parents |-> parents] ELSE delta[x]]
  /\ dag' = [dag EXCEPT ![r] = Insert(delta', dag[r], h)]

\* DeltaDag::insert of a delta that arrives.
Receive(r, h) ==
  /\ dag' = [dag EXCEPT ![r] = Insert(delta, dag[r], h)]
  /\ UNCHANGED delta

\* One round of frontier exchange: r advertises its frontier, q answers with
\* deltas_for_peer and r inserts the answer.
Reconcile(r, q) ==
  /\ ~ PeerAnswerRefused(delta, dag[q], dag[r].frontier)
  /\ dag' = [dag EXCEPT ![r] =
               InsertAll(delta, @, DeltasForPeer(delta, dag[q], dag[r].frontier))]
  /\ UNCHANGED delta

\* r fetches one hash of its fetch list as a closure bundle: extract_closure
\* at q with r's frontier as the stop set, merge_bundle at r.
Fetch(r, q, h) ==
  LET stop   == dag[r].frontier
      deltas == ExtractClosure(delta, dag[q], h, stop)
  IN  /\ h \in MissingFromFrontier(dag[r], dag[q].frontier)
      /\ ~ ExtractRefused(delta, dag[q], h, stop)
      /\ BundleSound(delta, dag[r].held, h, deltas)
      /\ dag' = [dag EXCEPT ![r] = InsertAll(delta, @, deltas)]
      /\ UNCHANGED delta

Next ==
  \E r \in Replicas :
    \/ \E h \in Hashes, parents \in SUBSET Exists : Create(r, h, parents)
    \/ \E h \in Exists : Receive(r, h)
    \/ \E q \in Replicas \ {r} : Reconcile(r, q)
    \/ \E q \in Replicas \ {r}, h \in Hashes : Fetch(r, q, h)

Spec == Init /\ [][Next]_vars

----------------------------------------------------------------------------
(* Properties *)

TypeOK ==
  /\ Exists \subseteq Hashes
  /\ \A h \in Exists : delta[h].parents \subseteq Exists
  /\ dag \in [Replicas -> Dags]
  /\ \A r \in Replicas : dag[r].held \subseteq Exists

\* The history of r is complete: it holds every ancestor of what it holds.
Complete(r) == IncompleteAncestors(dag[r]) = {}

\* Whatever the order of arrival, the incrementally maintained frontier is
\* the set of leaves of what is held, and `referenced` is every parent named
\* (dag.rs, "Frontier maintenance is order-independent").
FrontierIsLeaves ==
  \A r \in Replicas :
    /\ dag[r].referenced = Referenced(delta, dag[r].held)
    /\ dag[r].frontier = Leaves(delta, dag[r].held)

\* The answer to a frontier brings a replica with a complete history up to
\* date with the answering one: pruning at the advertised frontier loses
\* nothing (recon.rs, deltas_for_peer).
AnswerIsComplete ==
  \A r, q \in Replicas :
    Complete(r) /\ Complete(q) =>
      /\ ~ PeerAnswerRefused(delta, dag[q], dag[r].frontier)
      /\ dag[q].held \subseteq
           dag[r].held \cup DeltasForPeer(delta, dag[q], dag[r].frontier)

\* A replica whose fetch list is empty lacks nothing of a complete peer, even
\* if it holds the peer's frontier through deltas that came before their
\* parents (recon.rs, missing_from_frontier).
EmptyFetchListMeansSynced ==
  \A r, q \in Replicas :
    Complete(q) /\ MissingFromFrontier(dag[r], dag[q].frontier) = {}
      => dag[q].held \subseteq dag[r].held

\* What a complete peer answers to a fetch passes the structural check of
\* merge_bundle, although it is pruned at the frontier of a receiver whose own
\* history may have gaps.
FetchIsSound ==
  \A r, q \in Replicas :
    Complete(q) =>
      \A h \in MissingFromFrontier(dag[r], dag[q].frontier) \cap dag[q].held :
        LET deltas == ExtractClosure(delta, dag[q], h, dag[r].frontier)
        IN  deltas \subseteq dag[q].held
              /\ BundleSound(delta, dag[r].held, h, deltas)

\* Why the history has no cycles and every part of it has newest members: a
\* delta names older deltas only, and there is a newest one.
HistoryOrdered ==
  /\ \A h \in Exists : \A p \in delta[h].parents : p < h
  /\ Exists = {} \/ \E n \in Exists : \A h \in Exists : h <= n

\* The inductive invariant of DagSyncProofs.
DagInv == TypeOK /\ FrontierIsLeaves /\ HistoryOrdered
=============================================================================
