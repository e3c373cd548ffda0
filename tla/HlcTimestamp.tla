---------------------------- MODULE HlcTimestamp ----------------------------
(***************************************************************************)
(* The pure part of core/hlc.rs: the timestamp (wall_ms, logical, node_id) *)
(* with its derived lexicographic order, and the two clock advances.  The  *)
(* logical counter is a u32 that wraps in a release build, so it is kept   *)
(* modulo LogicalWidth (2^32 in the code, a small number under TLC).       *)
(***************************************************************************)
EXTENDS Naturals

CONSTANTS Nodes,         \* node identifiers: what node_id_from_pubkey returns
          LogicalWidth   \* the number of values of the logical counter

ASSUME NodesAreNumbers == Nodes \subseteq Nat
ASSUME WidthIsPositive == LogicalWidth \in Nat \ {0}

Timestamps == [wall : Nat, logical : 0 .. LogicalWidth - 1, node : Nat]

\* HlcTimestamp::default(), the timestamp of every genesis delta.
ZeroTs == [wall |-> 0, logical |-> 0, node |-> 0]

\* The derived Ord of HlcTimestamp.
Before(s, t) ==
  \/ s.wall < t.wall
  \/ s.wall = t.wall /\ s.logical < t.logical
  \/ s.wall = t.wall /\ s.logical = t.logical /\ s.node < t.node

NotAfter(s, t) == s = t \/ Before(s, t)

MaxOf(a, b) == IF a < b THEN b ELSE a

Bump(n) == (n + 1) % LogicalWidth

\* A send rule that compares the new reading instead of the new wall time, so
\* a clock that lags starts its counter again.
AdvanceSendResets(last, now) ==
  [wall    |-> MaxOf(now, last.wall),
   logical |-> IF now = last.wall THEN Bump(last.logical) ELSE 0,
   node    |-> last.node]

\* Hlc::advance_send: the next timestamp of a clock whose last one is `last`.
AdvanceSend(last, now) ==
  LET wall == MaxOf(now, last.wall)
  IN  [wall    |-> wall,
       logical |-> IF wall = last.wall THEN Bump(last.logical) ELSE 0,
       node    |-> last.node]

\* The receive rule with the remote counter left out of the shared-tick case.
AdvanceRecvForgetsRemote(last, remote, now) ==
  LET wall == MaxOf(MaxOf(now, last.wall), remote.wall)
  IN  [wall    |-> wall,
       logical |-> IF wall = last.wall THEN Bump(last.logical)
                   ELSE IF wall = remote.wall THEN Bump(remote.logical)
                   ELSE 0,
       node    |-> last.node]

\* Hlc::advance_recv: the same on receipt of the timestamp `remote`.
AdvanceRecv(last, remote, now) ==
  LET wall == MaxOf(MaxOf(now, last.wall), remote.wall)
  IN  [wall    |-> wall,
       logical |-> IF wall = last.wall /\ wall = remote.wall
                     THEN Bump(MaxOf(last.logical, remote.logical))
                   ELSE IF wall = last.wall THEN Bump(last.logical)
                   ELSE IF wall = remote.wall THEN Bump(remote.logical)
                   ELSE 0,
       node    |-> last.node]
=============================================================================
