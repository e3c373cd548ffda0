------------------------------ MODULE MCGossip ------------------------------
(* Content hashes for TLC: one that tells all documents apart, and one that  *)
(* does not show the first delta written, as content_hash does not show a    *)
(* SetAlsoKnownAs whose wall time is not the latest.                         *)
EXTENDS Gossip

Showing(quiet) == [S \in Contents |-> S \ quiet]

MCSetups ==
  {<<{}, Showing({})>>, <<{2}, Showing({})>>, <<{}, Showing({1})>>}

MCReplicating == {<<{2}, Showing({})>>}
=============================================================================
