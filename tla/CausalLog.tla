----------------------------- MODULE CausalLog -----------------------------
(***************************************************************************)
(* What replication of a document promises, with no word of signatures,    *)
(* admission, bundles or CRDT fields: there is one growing graph of        *)
(* deltas, no delta ever changes its parents, every replica holds a        *)
(* causally closed part of the graph that contains the genesis, and that   *)
(* part only grows.                                                        *)
(***************************************************************************)
CONSTANTS Replicas, Hashes, Root

VARIABLES graph,     \* the deltas that exist: hash -> set of parents
          held       \* replica -> the deltas it holds

Known == DOMAIN graph

CausallyClosed(H) == H \subseteq Known /\ \A h \in H : graph[h] \subseteq H

Init ==
  /\ graph = [h \in {Root} |-> {}]
  /\ held = [r \in Replicas |-> {Root}]

\* The graph after a delta h on these parents has been created.
Extended(h, parents) ==
  [x \in Known \cup {h} |-> IF x = h THEN parents ELSE graph[x]]

\* A device creates a delta on parents that exist; the replica r it sits on
\* takes it in if it has the parents, or does not.
Create(r, h, parents) ==
  /\ h \in Hashes \ Known /\ parents \subseteq Known
  /\ graph' = Extended(h, parents)
  /\ \/ UNCHANGED held
     \/ /\ parents \subseteq held[r]
        /\ held' = [held EXCEPT ![r] = @ \cup {h}]

\* r learns of deltas, all at once or one by one, never before their past.
Learn(r, H) ==
  /\ H \subseteq Known /\ CausallyClosed(held[r] \cup H)
  /\ held' = [held EXCEPT ![r] = @ \cup H]
  /\ UNCHANGED graph

Next ==
  \E r \in Replicas :
    \/ \E h \in Hashes, parents \in SUBSET Known : Create(r, h, parents)
    \/ \E H \in SUBSET Known : Learn(r, H)

Spec == Init /\ [][Next]_<<graph, held>>
=============================================================================
