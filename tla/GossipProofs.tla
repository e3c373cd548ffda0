---------------------------- MODULE GossipProofs ----------------------------
(***************************************************************************)
(* Documents stay whole, batches are used up, what is announced arrives,   *)
(* and holders at rest differ at most over deltas the content hash does    *)
(* not show, for any content hash and any number of nodes, deltas, batches *)
(* and faults.                                                             *)
(***************************************************************************)
EXTENDS Gossip, DeltaDagLemmas, TLAPS

----------------------------------------------------------------------------
(* The inductive invariant *)

IsWhole(S) == S \subseteq Exists /\ (S = {} \/ IsDocument(S))

\* Hashes a node has met are hashes of documents.
SeenOK(H) == \A d \in H : \E S \in Documents : d = contentHash[S]

\* The history: the two roots and no others, parents that exist, and in every
\* set of deltas one with no parent and one with no child in it (a delta names
\* deltas that existed before it).
History ==
  /\ Exists \subseteq Hashes /\ {Genesis, Foreign} \subseteq Exists
  /\ \A h \in Exists : delta[h].parents = {} <=> h \in {Genesis, Foreign}
  /\ \A h \in Exists : delta[h].parents \subseteq Exists
  /\ \A T \in SUBSET Exists : T # {} => \E h \in T : delta[h].parents \cap T = {}
  /\ \A T \in SUBSET Exists : T # {} => \E h \in T : \A x \in T : h \notin delta[x].parents

\* A batch is of deltas that exist and reaches down to the frontier it answers;
\* the genesis of another DID only comes unsolicited.
BatchOK(B, above) ==
  /\ B \subseteq Exists
  /\ \A h \in B : delta[h].parents \subseteq B \cup above
  /\ Foreign \in B => above = Hashes

MessageOK(m) ==
  \/ /\ m.type = "ANNOUNCE" /\ m.hash = contentHash[m.state]
     /\ m.state \in Documents
  \/ m.type = "REQUEST"
  \/ m.type = "DELTAS" /\ BatchOK(m.deltas, m.above)

InboxOK(in) ==
  in = Nothing \/ in = Exited \/
  (in.type = "MESSAGE" /\ MessageOK(in.msg) /\ IsWhole(in.docs))

\* The retry loop: what is not merged is still to be tried, and what was left
\* over by a pass without progress is pending.
LoopOK ==
  loop # Nothing =>
    /\ loop.type = "LOOP" /\ loop.node \in Nodes /\ held[loop.node] # {}
    /\ loop.batch \subseteq Exists
    /\ \A h \in loop.batch :
         delta[h].parents \subseteq loop.batch \cup loop.above \cup held[loop.node]
    /\ Foreign \in loop.batch => loop.above = Hashes
    /\ loop.pending \subseteq loop.batch
    /\ \A h \in loop.batch \ {Foreign} :
         h \in held[loop.node] \cup loop.pending \cup loop.still
    /\ loop.still \subseteq loop.batch
    /\ ~ loop.progressed => \A h \in loop.still : IsPending(held[loop.node], h)

Typed ==
  /\ held \in [Nodes -> SUBSET Hashes] /\ DOMAIN seen = Nodes
  /\ owed \in [Nodes -> SUBSET Hashes]
  /\ due \in [Nodes -> Nat] /\ DOMAIN inbox = Nodes
  /\ asked \subseteq wanted /\ wanted \subseteq Nodes /\ online \subseteq Nodes
  /\ missed \in BOOLEAN

Whole ==
  /\ \A n \in Nodes : IsWhole(held[n])
  /\ \A n \in Nodes : owed[n] \subseteq Exists /\ SeenOK(seen[n])

Sent ==
  /\ \A p \in net : p.to \in Nodes /\ MessageOK(p.msg)
  /\ \A n \in Nodes : InboxOK(inbox[n])

GossipInv == History /\ Typed /\ Whole /\ Sent /\ LoopOK

----------------------------------------------------------------------------
(* Lemmas *)

\* Whatever is true of deltas and messages stays true as the history grows.
LEMMA HistoryGrows ==
  ASSUME History, DOMAIN delta \subseteq DOMAIN delta', UNCHANGED contentHash,
         \A h \in Exists : delta'[h].parents = delta[h].parents
  PROVE  /\ Exists \subseteq Exists' /\ Documents \subseteq Documents'
         /\ \A H : SeenOK(H) => SeenOK(H)'
         /\ \A S : IsWhole(S) => IsWhole(S)'
         /\ \A m : MessageOK(m) => MessageOK(m)'
         /\ \A in : InboxOK(in) => InboxOK(in)'
<1>1. Exists \subseteq Exists'
  BY DEF Exists
<1>2. ASSUME NEW S, IsWhole(S) PROVE IsWhole(S)'
  <2>1. S \subseteq Exists /\ Referenced(delta', S) = Referenced(delta, S)
    BY <1>2 DEF IsWhole, Referenced
  <2> QED  BY <1>1, <1>2, <2>1 DEF IsWhole, IsDocument
<1>3. ASSUME NEW S \in Documents PROVE S \in Documents'
  <2>1. S \in SUBSET Exists /\ IsDocument(S)
    BY <1>3 DEF Documents
  <2>2. Referenced(delta', S) = Referenced(delta, S)
    BY <2>1 DEF Referenced
  <2> QED  BY <1>1, <2>1, <2>2 DEF Documents, IsDocument
<1>4. ASSUME NEW H, SeenOK(H) PROVE SeenOK(H)'
  BY <1>3, <1>4 DEF SeenOK
<1>5. ASSUME NEW m, MessageOK(m) PROVE MessageOK(m)'
  <2>1. CASE /\ m.type = "ANNOUNCE" /\ m.hash = contentHash[m.state]
             /\ m.state \in Documents
    BY <1>3, <2>1 DEF MessageOK
  <2>2. CASE m.type = "REQUEST"
    BY <2>2 DEF MessageOK
  <2>3. CASE m.type = "DELTAS" /\ BatchOK(m.deltas, m.above)
    BY <1>1, <2>3 DEF MessageOK, BatchOK
  <2> QED  BY <1>5, <2>1, <2>2, <2>3 DEF MessageOK
<1>6. ASSUME NEW in, InboxOK(in) PROVE InboxOK(in)'
  BY <1>2, <1>5, <1>6 DEF InboxOK
<1> QED  BY <1>1, <1>2, <1>3, <1>4, <1>5, <1>6

LEMMA HistoryStays ==
  ASSUME History, UNCHANGED <<delta, contentHash>>
  PROVE  /\ History' /\ Exists' = Exists
         /\ \A H : SeenOK(H) => SeenOK(H)'
         /\ \A S : IsWhole(S) => IsWhole(S)'
         /\ \A m : MessageOK(m) => MessageOK(m)'
         /\ \A in : InboxOK(in) => InboxOK(in)'
<1>1. Exists' = Exists
  BY DEF Exists
<1> QED  BY <1>1, HistoryGrows DEF History, Exists

\* A delta whose parents are held extends a document.
LEMMA MergedIsWhole ==
  ASSUME History, NEW S, S # {}, IsWhole(S), NEW h \in Exists, ~ IsPending(S, h)
  PROVE  IsWhole(Merged(S, h)) /\ Merged(S, h) # {} /\ S \subseteq Merged(S, h)
         /\ (h # Foreign => h \in Merged(S, h))
  BY DEF IsWhole, IsDocument, Merged, IsPending, Referenced

\* The genesis is a document.
LEMMA GenesisIsWhole ==
  ASSUME History
  PROVE  IsWhole({Genesis})
  BY RootsAreHashes DEF History, IsWhole, IsDocument, Referenced

\* The answer to a frontier is a batch that reaches down to it.
LEMMA AnswerIsBatch ==
  ASSUME History, NEW S, IsWhole(S), NEW F, NEW m \in OnRequest(S, F)
  PROVE  MessageOK(m)
<1> DEFINE batch == DeltasForPeer(delta, Dag(S), F)
<1>1. m = Deltas(batch, F) /\ batch # {}
  BY DEF OnRequest
<1>2. Dag(S).held = S /\ Dag(S).frontier = Leaves(delta, S)
  BY DEF Dag, RebuildDag, InsertAll, EmptyDag
<1>3. S # {}
  BY <1>1, <1>2 DEF DeltasForPeer, Leaves
<1>4. S \subseteq Exists /\ Referenced(delta, S) \subseteq S /\ Foreign \notin S
  BY <1>3 DEF IsWhole, IsDocument
<1>5. ASSUME NEW head \in Leaves(delta, S)
      PROVE  /\ Visited(delta, S, {head}, F) \subseteq S
             /\ \A h \in Visited(delta, S, {head}, F) :
                  delta[h].parents \subseteq Visited(delta, S, {head}, F) \cup F
  <2>1. {head} \in SUBSET S /\ {head} \in SUBSET DOMAIN delta /\ S \in SUBSET DOMAIN delta
    BY <1>4, <1>5 DEF Leaves, Exists
  <2>2. Visited(delta, S, {head}, F) \subseteq S
    BY <1>4, <2>1, VisitedWithinComplete
  <2>3. TraversalClosed(delta, S, {head}, F, Visited(delta, S, {head}, F))
    BY <2>1, VisitedIsClosed DEF History, Exists
  <2> QED  BY <2>2, <2>3 DEF TraversalClosed
<1>6. batch \subseteq S /\ \A h \in batch : delta[h].parents \subseteq batch \cup F
  BY <1>2, <1>5 DEF DeltasForPeer, ExtractClosure
<1>7. BatchOK(batch, F)
  BY <1>4, <1>6 DEF BatchOK
<1> HIDE DEF batch
<1> QED  BY <1>1, <1>7 DEF MessageOK, Deltas

\* An announcement or a request is a message.
LEMMA MessagesAreOK ==
  /\ \A S \in Documents : MessageOK(Announce(S))
  /\ \A F : MessageOK(Request(F))
  BY DEF MessageOK, Announce, Request

\* Broadcasting good messages keeps the network good.
LEMMA BroadcastOK ==
  ASSUME NEW n, NEW msgs, \A m \in msgs : MessageOK(m), Typed, Sent
  PROVE  \A p \in net \cup UNION {Packets(n, msg) : msg \in msgs} :
           p.to \in Nodes /\ MessageOK(p.msg)
  BY DEF Packets, Typed, Sent

\* A retry loop starts with a batch that may rest on what the document holds.
LEMMA StartLoopOK ==
  ASSUME History, NEW n \in Nodes, NEW B, NEW F, StartLoop(n, B, F),
         UNCHANGED <<delta, contentHash>>,
         held'[n] # {}, B \subseteq Exists,
         \A h \in B : delta[h].parents \subseteq B \cup F \cup held'[n],
         Foreign \in B => F = Hashes
  PROVE  LoopOK'
<1>1. Exists' = Exists
  BY DEF Exists
<1>2. /\ loop' = [type |-> "LOOP", node |-> n, batch |-> B, above |-> F,
                  pending |-> B, still |-> {}, progressed |-> FALSE]
  BY DEF StartLoop
<1>3. /\ loop'.node = n /\ loop'.batch = B /\ loop'.above = F /\ loop'.pending = B
      /\ loop'.still = {} /\ loop'.type = "LOOP"
  BY <1>2
<1> QED  BY <1>1, <1>3 DEF LoopOK

----------------------------------------------------------------------------
(* The invariant holds at the start and is kept by every step *)

LEMMA InitInv == Init => GossipInv
<1> SUFFICES ASSUME Init PROVE GossipInv
  OBVIOUS
<1>1. Exists = {Genesis, Foreign} /\ \A h \in Exists : delta[h].parents = {}
  BY DEF Init, Exists
<1>2. History
  BY <1>1, RootsAreHashes DEF History
<1>3. Typed
  <2>1. held \in [Nodes -> SUBSET Hashes] /\ due \in [Nodes -> Nat]
    BY RootsAreHashes DEF Init
  <2> QED  BY <2>1 DEF Init, Typed
<1>4. Whole
  BY <1>1, <1>2, GenesisIsWhole DEF Init, Whole, IsWhole, SeenOK
<1>5. Sent /\ LoopOK
  BY DEF Init, Sent, InboxOK, LoopOK
<1> QED  BY <1>2, <1>3, <1>4, <1>5 DEF GossipInv

\* A step that leaves documents alone.
LEMMA RoutingStep ==
  ASSUME GossipInv, UNCHANGED <<delta, contentHash, held, loop>>, Typed',
         \A n \in Nodes : owed'[n] \subseteq Exists /\ SeenOK(seen'[n]),
         \A p \in net' : p.to \in Nodes /\ MessageOK(p.msg),
         \A n \in Nodes : InboxOK(inbox'[n])
  PROVE  GossipInv'
<1>1. /\ History' /\ Exists' = Exists
      /\ \A H : SeenOK(H) => SeenOK(H)'
      /\ \A S : IsWhole(S) => IsWhole(S)'
      /\ \A m : MessageOK(m) => MessageOK(m)'
      /\ \A in : InboxOK(in) => InboxOK(in)'
  BY HistoryStays DEF GossipInv
<1>2. Whole'
  <2>1. \A n \in Nodes : held'[n] = held[n] /\ IsWhole(held[n])
    BY DEF GossipInv, Whole
  <2>2. \A n \in Nodes : IsWhole(held[n])'
    BY <1>1, <2>1
  <2>3. \A n \in Nodes : SeenOK(seen[n])'
    BY <1>1
  <2> QED  BY <1>1, <2>2, <2>3 DEF Whole
<1>3. Sent'
  <2>1. \A p \in net' : p.to \in Nodes /\ MessageOK(p.msg)'
    BY <1>1
  <2>2. \A n \in Nodes : InboxOK(inbox[n])'
    BY <1>1
  <2> QED  BY <2>1, <2>2 DEF Sent
<1>4. LoopOK'
  BY <1>1 DEF GossipInv, LoopOK, IsPending
<1> QED  BY <1>1, <1>2, <1>3, <1>4 DEF GossipInv

LEMMA AuthorInv ==
  ASSUME GossipInv, NEW n \in Nodes, NEW base \in SUBSET held[n], NEW h \in Hashes,
         IsDocument(base), Author(n, base, h)
  PROVE  GossipInv'
<1> DEFINE new == Leaves(delta, base)
<1>1. /\ loop = Nothing /\ held[n] # {} /\ h \notin Exists
      /\ delta' = [x \in Exists \cup {h} |-> IF x = h THEN [parents |-> new] ELSE delta[x]]
      /\ held' = [held EXCEPT ![n] = @ \cup {h}]
      /\ due' = [due EXCEPT ![n] = @ + 1]
      /\ UNCHANGED <<contentHash, seen, replicateAll, wanted, asked, inbox, loop,
                     net, online, missed, owed>>
  BY DEF Author, policy, ghosts
<1>2. /\ Exists' = Exists \cup {h} /\ delta'[h].parents = new
      /\ \A x \in Exists : delta'[x] = delta[x]
  BY <1>1 DEF Exists
<1>3. new \subseteq held[n] /\ IsWhole(held[n]) /\ held[n] \subseteq Exists
  BY DEF Leaves, GossipInv, Whole, IsWhole
<1> HIDE DEF new
<1>4. History'
  <2>1. \A x \in Exists' : delta'[x].parents \subseteq Exists'
    BY <1>2, <1>3 DEF GossipInv, History
  <2>2. ASSUME NEW T \in SUBSET Exists', T # {}
        PROVE  \E x \in T : delta'[x].parents \cap T = {}
    <3>1. CASE T \subseteq {h}
      BY <1>1, <1>2, <1>3, <2>2, <3>1
    <3>2. CASE ~ (T \subseteq {h})
      <4>1. T \ {h} \in SUBSET Exists /\ T \ {h} # {}
        BY <1>2, <2>2, <3>2
      <4>2. PICK x \in T \ {h} : delta[x].parents \cap (T \ {h}) = {}
        BY <4>1 DEF GossipInv, History
      <4>3. x \in Exists /\ delta'[x] = delta[x] /\ delta[x].parents \subseteq Exists
        BY <1>2, <4>1, <4>2 DEF GossipInv, History
      <4> QED  BY <1>1, <4>2, <4>3
    <3> QED  BY <3>1, <3>2
  <2>3. ASSUME NEW T \in SUBSET Exists', T # {}
        PROVE  \E x \in T : \A y \in T : x \notin delta'[y].parents
    <3>1. CASE h \in T
      BY <1>1, <1>2, <1>3, <3>1 DEF GossipInv, History
    <3>2. CASE h \notin T
      <4>1. T \in SUBSET Exists
        BY <1>2, <2>3, <3>2
      <4>2. PICK x \in T : \A y \in T : x \notin delta[y].parents
        BY <2>3, <4>1 DEF GossipInv, History
      <4> QED  BY <1>2, <4>1, <4>2
    <3> QED  BY <3>1, <3>2
  <2>4. new # {}
    <3>1. base \in SUBSET Exists /\ base # {}
      BY <1>3 DEF IsDocument
    <3>2. PICK x \in base : \A y \in base : x \notin delta[y].parents
      BY <3>1 DEF GossipInv, History
    <3> QED  BY <3>2 DEF new, Leaves, Referenced
  <2> QED  BY <1>1, <1>2, <2>1, <2>2, <2>3, <2>4 DEF GossipInv, History
<1>5. /\ \A H : SeenOK(H) => SeenOK(H)'
      /\ \A S : IsWhole(S) => IsWhole(S)'
      /\ \A m : MessageOK(m) => MessageOK(m)'
      /\ \A in : InboxOK(in) => InboxOK(in)'
  <2>1. DOMAIN delta \subseteq DOMAIN delta'
    BY <1>2 DEF Exists
  <2> QED  BY <1>1, <1>2, <2>1, HistoryGrows DEF GossipInv
<1>6. Typed'
  <2>1. held' \in [Nodes -> SUBSET Hashes] /\ due' \in [Nodes -> Nat]
    BY <1>1 DEF GossipInv, Typed
  <2> QED  BY <1>1, <2>1 DEF GossipInv, Typed
<1>7. Whole'
  <2>1. \A m \in Nodes : held'[m] = IF m = n THEN held[m] \cup {h} ELSE held[m]
    BY <1>1 DEF GossipInv, Typed
  <2>2. IsWhole(held[n])'
    <3>1. Referenced(delta', held[n] \cup {h}) = Referenced(delta, held[n]) \cup new
      BY <1>1, <1>2, <1>3 DEF Referenced
    <3>2. IsDocument(held[n])
      BY <1>1, <1>3 DEF IsWhole
    <3>3. h # Foreign
      BY <1>1 DEF GossipInv, History
    <3> QED  BY <1>2, <1>3, <2>1, <3>1, <3>2, <3>3 DEF IsWhole, IsDocument
  <2>3. \A m \in Nodes : IsWhole(held[m])'
    BY <1>5, <2>1, <2>2 DEF GossipInv, Whole
  <2>4. \A m \in Nodes : SeenOK(seen[m])'
    BY <1>1, <1>5 DEF GossipInv, Whole
  <2> QED  BY <1>1, <1>2, <2>3, <2>4 DEF GossipInv, Whole
<1>8. Sent'
  BY <1>1, <1>5 DEF GossipInv, Sent
<1>9. LoopOK'
  BY <1>1 DEF LoopOK
<1> QED  BY <1>4, <1>6, <1>7, <1>8, <1>9 DEF GossipInv

LEMMA SendAnnounceInv ==
  ASSUME GossipInv, NEW n \in Nodes, SendAnnounce(n)
  PROVE  GossipInv'
<1> DEFINE msgs == IF held[n] = {} THEN {} ELSE {Announce(held[n])}
<1>1. /\ due[n] > 0 /\ due' = [due EXCEPT ![n] = @ - 1]
      /\ net' = net \cup UNION {Packets(n, msg) : msg \in msgs} /\ missed' \in BOOLEAN
      /\ UNCHANGED <<delta, contentHash, held, seen, replicateAll, wanted, asked,
                     inbox, loop, online, owed>>
  BY DEF SendAnnounce, Broadcast, policy, GossipInv, Typed
<1>2. \A m \in msgs : MessageOK(m)
  BY MessagesAreOK DEF GossipInv, Whole, IsWhole, Documents
<1>3. \A p \in net' : p.to \in Nodes /\ MessageOK(p.msg)
  BY <1>1, <1>2, BroadcastOK DEF GossipInv
<1>4. Typed'
  <2>1. due' \in [Nodes -> Nat]
    BY <1>1 DEF GossipInv, Typed
  <2> QED  BY <1>1, <2>1 DEF GossipInv, Typed
<1> HIDE DEF msgs
<1> QED  BY <1>1, <1>3, <1>4, RoutingStep DEF GossipInv, Whole, Sent

LEMMA ReceiveInv ==
  ASSUME GossipInv, NEW n \in Nodes, NEW p \in net, Receive(n, p)
  PROVE  GossipInv'
<1> DEFINE in == [type |-> "MESSAGE", msg |-> p.msg, docs |-> held[n]]
<1>1. /\ net' = net \ {p} /\ inbox' = [inbox EXCEPT ![n] = in]
      /\ UNCHANGED <<delta, contentHash, held, seen, replicateAll, wanted, asked,
                     due, loop, online, missed, owed>>
  BY DEF Receive, policy, ghosts
<1>2. InboxOK(in)
  BY DEF GossipInv, Sent, Whole, InboxOK
<1> HIDE DEF in
<1>3. DOMAIN inbox' = Nodes /\ \A m \in Nodes : InboxOK(inbox'[m])
  BY <1>1, <1>2 DEF GossipInv, Sent, Typed
<1>4. Typed'
  BY <1>1, <1>3 DEF GossipInv, Typed
<1> QED  BY <1>1, <1>3, <1>4, RoutingStep DEF GossipInv, Whole, Sent

LEMMA RouteInv ==
  ASSUME GossipInv, NEW n \in Nodes, Route(n)
  PROVE  GossipInv'
<1> DEFINE in == inbox[n]
<1>1. inbox' = [inbox EXCEPT ![n] = Nothing] /\ in.type = "MESSAGE"
      /\ MessageOK(in.msg) /\ IsWhole(in.docs)
  BY DEF Route, GossipInv, Sent, InboxOK
<1>2. DOMAIN inbox' = Nodes /\ \A m \in Nodes : InboxOK(inbox'[m])
  BY <1>1 DEF GossipInv, Sent, Typed, InboxOK
<1>3. CASE RouteAnnounce(n)
  <2> DEFINE out == OnAnnounce(n, in.docs, in.msg.hash)
  <2>1. /\ in.msg.type = "ANNOUNCE"
        /\ seen' = [seen EXCEPT ![n] = @ \cup {in.msg.hash}]
        /\ net' = net \cup UNION {Packets(n, msg) : msg \in out}
        /\ missed' \in BOOLEAN
        /\ owed' = owed \/ owed' = [owed EXCEPT ![n] = @ \cup in.msg.state]
        /\ UNCHANGED <<delta, contentHash, held, replicateAll, wanted, asked, due,
                       loop, online>>
    BY <1>3 DEF RouteAnnounce, policy, GossipInv, Typed
  <2>2. /\ in.msg.state \subseteq Exists /\ Exists \subseteq Hashes
        /\ in.msg.state \in Documents /\ in.msg.hash = contentHash[in.msg.state]
    BY <1>1, <2>1 DEF MessageOK, GossipInv, History, Documents
  <2>3. \A m \in out : MessageOK(m)
    BY MessagesAreOK DEF OnAnnounce
  <2>4. \A p \in net' : p.to \in Nodes /\ MessageOK(p.msg)
    BY <2>1, <2>3, BroadcastOK DEF GossipInv
  <2> HIDE DEF out, in
  <2>5. DOMAIN seen' = Nodes /\ owed' \in [Nodes -> SUBSET Hashes]
    BY <2>1, <2>2 DEF GossipInv, Typed
  <2>6. Typed'
    BY <1>2, <2>1, <2>5 DEF GossipInv, Typed
  <2>7. \A m \in Nodes : owed'[m] \subseteq Exists /\ SeenOK(seen'[m])
    BY <2>1, <2>2 DEF GossipInv, Typed, Whole, SeenOK
  <2> QED  BY <1>2, <2>1, <2>4, <2>6, <2>7, RoutingStep
<1>4. CASE RouteRequest(n)
  <2> DEFINE out == OnRequest(in.docs, in.msg.frontier)
  <2>1. /\ net' = net \cup UNION {Packets(n, msg) : msg \in out}
        /\ missed' \in BOOLEAN
        /\ UNCHANGED <<delta, contentHash, held, seen, replicateAll, wanted, asked,
                       due, loop, online, owed>>
    BY <1>4 DEF RouteRequest, Broadcast, policy, GossipInv, Typed
  <2>2. \A m \in out : MessageOK(m)
    BY <1>1, AnswerIsBatch DEF GossipInv
  <2>3. \A p \in net' : p.to \in Nodes /\ MessageOK(p.msg)
    BY <2>1, <2>2, BroadcastOK DEF GossipInv
  <2> HIDE DEF out, in
  <2>4. Typed'
    BY <1>2, <2>1 DEF GossipInv, Typed
  <2> QED  BY <1>2, <2>1, <2>3, <2>4, RoutingStep DEF GossipInv, Whole
<1> QED  BY <1>3, <1>4 DEF Route

\* A step that leaves the history and everything but documents, loop, network
\* and inboxes alone, and adds nothing to the latter two.
LEMMA MergingStep ==
  ASSUME GossipInv, UNCHANGED <<delta, contentHash, seen, replicateAll, wanted,
                                asked, due, inbox, online, owed>>,
         missed' \in BOOLEAN, net' \subseteq net, held' \in [Nodes -> SUBSET Hashes],
         \A n \in Nodes : IsWhole(held'[n]),
         LoopOK'
  PROVE  GossipInv'
<1>1. /\ History' /\ Exists' = Exists
      /\ \A H : SeenOK(H) => SeenOK(H)'
      /\ \A S : IsWhole(S) => IsWhole(S)'
      /\ \A m : MessageOK(m) => MessageOK(m)'
      /\ \A in : InboxOK(in) => InboxOK(in)'
  BY HistoryStays DEF GossipInv
<1>2. Typed'
  BY DEF GossipInv, Typed
<1>3. Whole'
  <2>1. \A n \in Nodes : IsWhole(held[n])'
    BY <1>1
  <2>2. \A n \in Nodes : SeenOK(seen[n])'
    BY <1>1 DEF GossipInv, Whole
  <2> QED  BY <1>1, <2>1, <2>2 DEF GossipInv, Whole
<1>4. Sent'
  BY <1>1 DEF GossipInv, Sent
<1> QED  BY <1>1, <1>2, <1>3, <1>4 DEF GossipInv

LEMMA ReceiveDeltasInv ==
  ASSUME GossipInv, NEW n \in Nodes, NEW p \in net, ReceiveDeltas(n, p)
  PROVE  GossipInv'
<1> DEFINE batch == p.msg.deltas
           above == p.msg.above
<1>1. /\ loop = Nothing /\ net' \subseteq net /\ p.msg.type = "DELTAS" /\ missed' \in BOOLEAN
      /\ UNCHANGED <<delta, contentHash, seen, replicateAll, wanted, asked, due,
                     inbox, online, owed>>
  BY DEF ReceiveDeltas, policy, GossipInv, Typed
<1>2. BatchOK(batch, above) /\ History
  BY <1>1 DEF GossipInv, Sent, MessageOK
<1>3. held \in [Nodes -> SUBSET Hashes] /\ \A m \in Nodes : IsWhole(held[m])
  BY DEF GossipInv, Typed, Whole
<1>4. CASE held[n] # {} /\ StartLoop(n, batch, above) /\ UNCHANGED held
  <2>1. LoopOK'
    BY <1>1, <1>2, <1>4, StartLoopOK DEF BatchOK
  <2> QED  BY <1>1, <1>3, <1>4, <2>1, MergingStep
<1>5. CASE GenesisBootstrap(n, batch, above) /\ Bootstraps(batch)
  <2>1. /\ held' = [held EXCEPT ![n] = {Genesis}]
        /\ StartLoop(n, batch \ {Genesis}, above)
    BY <1>5 DEF GenesisBootstrap, Bootstraps
  <2>2. held'[n] = {Genesis} /\ held' \in [Nodes -> SUBSET Hashes]
    BY <1>3, <2>1, RootsAreHashes
  <2>3. LoopOK'
    <3>1. \A h \in batch \ {Genesis} :
            delta[h].parents \subseteq (batch \ {Genesis}) \cup above \cup held'[n]
      BY <1>2, <2>2 DEF BatchOK
    <3>2. batch \ {Genesis} \subseteq Exists /\ (Foreign \in batch \ {Genesis} => above = Hashes)
      BY <1>2 DEF BatchOK
    <3> HIDE DEF batch, above
    <3> QED  BY <1>1, <1>2, <2>1, <2>2, <3>1, <3>2, StartLoopOK
  <2>4. \A m \in Nodes : IsWhole(held'[m])
    BY <1>2, <1>3, <2>1, GenesisIsWhole
  <2> QED  BY <1>1, <2>2, <2>3, <2>4, MergingStep
<1>6. CASE UNCHANGED <<held, loop>>
  <2>1. LoopOK'
    BY <1>1, <1>6 DEF LoopOK
  <2> QED  BY <1>1, <1>3, <1>6, <2>1, MergingStep
<1> QED  BY <1>4, <1>5, <1>6 DEF ReceiveDeltas, GenesisBootstrap

LEMMA TryInv ==
  ASSUME GossipInv, NEW h \in Hashes, Try(h)
  PROVE  GossipInv'
<1> DEFINE n == loop.node
<1>1. /\ loop # Nothing /\ h \in loop.pending
      /\ UNCHANGED <<delta, contentHash, seen, replicateAll, wanted, asked, due,
                     inbox, net, online, missed, owed>>
      /\ missed' \in BOOLEAN
  BY DEF Try, policy, ghosts, GossipInv, Typed
<1>2. /\ n \in Nodes /\ held[n] # {} /\ IsWhole(held[n]) /\ h \in Exists /\ h \in loop.batch
      /\ held \in [Nodes -> SUBSET Hashes] /\ \A m \in Nodes : IsWhole(held[m])
      /\ History
  BY <1>1 DEF GossipInv, LoopOK, Whole, Typed
<1>3. Exists' = Exists
  BY <1>1 DEF Exists
<1>4. CASE IsPending(held[n], h)
  <2>1. /\ loop' = [loop EXCEPT !.pending = @ \ {h}, !.still = @ \cup {h}]
        /\ held' = held
    BY <1>4 DEF Try
  <2>2. /\ loop'.node = n /\ loop'.batch = loop.batch /\ loop'.above = loop.above
        /\ loop'.progressed = loop.progressed /\ loop'.type = loop.type
        /\ loop'.pending = loop.pending \ {h} /\ loop'.still = loop.still \cup {h}
    BY <2>1
  <2>3. LoopOK'
    BY <1>1, <1>2, <1>3, <1>4, <2>1, <2>2 DEF GossipInv, LoopOK, IsPending
  <2> QED  BY <1>1, <1>2, <2>1, <2>3, MergingStep
<1>5. CASE ~ IsPending(held[n], h)
  <2>1. /\ loop' = [loop EXCEPT !.pending = @ \ {h}, !.progressed = TRUE]
        /\ held' = [held EXCEPT ![n] = Merged(held[n], h)]
    BY <1>5 DEF Try
  <2>2. /\ IsWhole(Merged(held[n], h)) /\ Merged(held[n], h) # {}
        /\ held[n] \subseteq Merged(held[n], h)
        /\ h # Foreign => h \in Merged(held[n], h)
    BY <1>2, <1>5, MergedIsWhole
  <2>3. Merged(held[n], h) \subseteq Hashes
    BY <1>2, <2>2 DEF IsWhole, History
  <2>4. /\ loop'.node = n /\ loop'.batch = loop.batch /\ loop'.above = loop.above
        /\ loop'.progressed /\ loop'.type = loop.type
        /\ loop'.pending = loop.pending \ {h} /\ loop'.still = loop.still
    BY <2>1
  <2>5. held'[n] = Merged(held[n], h) /\ \A m \in Nodes : m # n => held'[m] = held[m]
    BY <1>2, <2>1
  <2> DEFINE M == Merged(held[n], h)
  <2>6. LoopOK'
    <3>1. M # {} /\ held[n] \subseteq M /\ (h # Foreign => h \in M) /\ held'[n] = M
      BY <2>2, <2>5
    <3> HIDE DEF M
    <3> QED  BY <1>1, <1>2, <1>3, <2>4, <3>1 DEF GossipInv, LoopOK
  <2>7. held' \in [Nodes -> SUBSET Hashes] /\ \A m \in Nodes : IsWhole(held'[m])
    <3>1. M \subseteq Hashes /\ IsWhole(M) /\ held' = [held EXCEPT ![n] = M]
      BY <2>1, <2>2, <2>3
    <3> HIDE DEF M
    <3> QED  BY <1>2, <3>1
  <2> QED  BY <1>1, <2>6, <2>7, MergingStep
<1> QED  BY <1>4, <1>5

LEMMA NextPassInv ==
  ASSUME GossipInv, NextPass
  PROVE  GossipInv'
<1>1. /\ loop # Nothing /\ loop.pending = {}
      /\ loop' = [loop EXCEPT !.pending = loop.still, !.still = {}, !.progressed = FALSE]
      /\ UNCHANGED <<delta, contentHash, held, seen, replicateAll, wanted, asked,
                     due, inbox, net, online, missed, owed>>
  BY DEF NextPass, nodeVars, policy, ghosts
<1>2. /\ loop'.node = loop.node /\ loop'.batch = loop.batch /\ loop'.above = loop.above
      /\ loop'.pending = loop.still /\ loop'.still = {} /\ loop'.type = loop.type
  BY <1>1
<1>3. Exists' = Exists
  BY <1>1 DEF Exists
<1>4. LoopOK'
  BY <1>1, <1>2, <1>3 DEF GossipInv, LoopOK
<1> QED  BY <1>1, <1>4, MergingStep DEF GossipInv, Typed, Whole

LEMMA EndLoopInv ==
  ASSUME GossipInv, EndLoop
  PROVE  GossipInv'
<1>1. /\ loop' = Nothing
      /\ UNCHANGED <<delta, contentHash, held, seen, replicateAll, wanted, asked,
                     due, inbox, net, online, missed, owed>>
  BY DEF EndLoop, nodeVars, policy, ghosts
<1>2. LoopOK'
  BY <1>1 DEF LoopOK
<1> QED  BY <1>1, <1>2, MergingStep DEF GossipInv, Typed, Whole

LEMMA ColdStartInv ==
  ASSUME GossipInv, NEW n \in Nodes, ColdStart(n) \/ Withdraw(n) \/ Connect(n)
  PROVE  GossipInv'
<1>1. /\ UNCHANGED <<delta, contentHash, held, seen, due, inbox, loop, net, missed>>
      /\ owed' = owed \/ owed' = [owed EXCEPT ![n] = {}]
  BY DEF ColdStart, Withdraw, Connect, nodeVars, policy, ghosts
<1>2. asked' \subseteq wanted' /\ wanted' \subseteq Nodes /\ online' \subseteq Nodes
  BY DEF ColdStart, Withdraw, Connect, nodeVars, policy, GossipInv, Typed
<1>3. owed' \in [Nodes -> SUBSET Hashes] /\ \A m \in Nodes : owed'[m] \subseteq Exists
  BY <1>1 DEF GossipInv, Typed, Whole
<1>4. Typed'
  BY <1>1, <1>2, <1>3 DEF GossipInv, Typed
<1> QED  BY <1>1, <1>3, <1>4, RoutingStep DEF GossipInv, Whole, Sent

LEMMA AskInv ==
  ASSUME GossipInv, NEW n \in Nodes, Ask(n)
  PROVE  GossipInv'
<1>1. /\ net' = net \cup UNION {Packets(n, msg) : msg \in {Request({})}}
      /\ missed' \in BOOLEAN
      /\ asked' \subseteq wanted
      /\ UNCHANGED <<delta, contentHash, held, seen, replicateAll, wanted, due,
                     inbox, loop, online, owed>>
  BY DEF Ask, Broadcast, GossipInv, Typed
<1>2. \A p \in net' : p.to \in Nodes /\ MessageOK(p.msg)
  BY <1>1, MessagesAreOK, BroadcastOK DEF GossipInv
<1>3. Typed'
  BY <1>1 DEF GossipInv, Typed
<1> QED  BY <1>1, <1>2, <1>3, RoutingStep DEF GossipInv, Whole, Sent

LEMMA StrayInv ==
  ASSUME GossipInv, NEW n \in Nodes, NEW batch \in SUBSET Exists, Stray(n, batch)
  PROVE  GossipInv'
<1>1. /\ net' = net \cup {[to |-> n, msg |-> Deltas(batch, Hashes)]}
      /\ UNCHANGED <<delta, contentHash, held, seen, replicateAll, wanted, asked,
                     due, inbox, loop, online, missed, owed>>
  BY DEF Stray, nodeVars, policy, ghosts
<1>2. MessageOK(Deltas(batch, Hashes))
  BY DEF MessageOK, Deltas, BatchOK, GossipInv, History
<1>3. \A p \in net' : p.to \in Nodes /\ MessageOK(p.msg)
  BY <1>1, <1>2 DEF GossipInv, Sent
<1>4. Typed'
  BY <1>1 DEF GossipInv, Typed
<1> QED  BY <1>1, <1>3, <1>4, RoutingStep DEF GossipInv, Whole, Sent

LEMMA DisconnectInv ==
  ASSUME GossipInv, NEW n \in Nodes, Disconnect(n) \/ LoopExits(n)
  PROVE  GossipInv'
<1>1. /\ UNCHANGED <<delta, contentHash, held, seen, replicateAll, wanted, asked,
                     due, loop>>
      /\ net' \subseteq net /\ online' \subseteq Nodes /\ missed' \in BOOLEAN
      /\ inbox' = inbox \/ inbox' = [inbox EXCEPT ![n] = Exited]
      /\ owed' = [m \in Nodes |-> {}]
  BY DEF Disconnect, LoopExits, nodeVars, policy, GossipInv, Typed
<1>2. DOMAIN inbox' = Nodes /\ \A m \in Nodes : InboxOK(inbox'[m])
  BY <1>1 DEF GossipInv, Typed, Sent, InboxOK
<1>3. Typed'
  BY <1>1, <1>2 DEF GossipInv, Typed
<1> QED  BY <1>1, <1>2, <1>3, RoutingStep DEF GossipInv, Whole, Sent

LEMMA CrashInv ==
  ASSUME GossipInv, NEW n \in Nodes, NEW saved \in SUBSET held[n],
         saved = {} \/ IsDocument(saved), Crash(n, saved)
  PROVE  GossipInv'
<1>1. /\ loop = Nothing /\ online' \subseteq Nodes
      /\ held' = [held EXCEPT ![n] = saved] /\ seen' = [seen EXCEPT ![n] = {}]
      /\ wanted' = wanted \ {n} /\ asked' = asked \ {n}
      /\ due' = [due EXCEPT ![n] = 0] /\ inbox' = [inbox EXCEPT ![n] = Nothing]
      /\ net' \subseteq net /\ missed' = TRUE /\ owed' = [m \in Nodes |-> {}]
      /\ UNCHANGED <<delta, contentHash, replicateAll, loop>>
  BY DEF Crash, GossipInv, Typed
<1>2. /\ History' /\ Exists' = Exists
      /\ \A H : SeenOK(H) => SeenOK(H)'
      /\ \A S : IsWhole(S) => IsWhole(S)'
      /\ \A m : MessageOK(m) => MessageOK(m)'
      /\ \A in : InboxOK(in) => InboxOK(in)'
  BY <1>1, HistoryStays DEF GossipInv
<1>3. Typed'
  <2>1. /\ held' \in [Nodes -> SUBSET Hashes] /\ DOMAIN seen' = Nodes
        /\ due' \in [Nodes -> Nat] /\ DOMAIN inbox' = Nodes
        /\ owed' \in [Nodes -> SUBSET Hashes]
    BY <1>1 DEF GossipInv, Typed
  <2> QED  BY <1>1, <2>1 DEF GossipInv, Typed
<1>4. Whole'
  <2>1. IsWhole(saved)
    BY DEF GossipInv, Whole, IsWhole
  <2>2. \A m \in Nodes : held'[m] = (IF m = n THEN saved ELSE held[m])
    BY <1>1 DEF GossipInv, Typed
  <2>3. \A m \in Nodes : IsWhole(held[m])'
    BY <1>2, <2>1, <2>2 DEF GossipInv, Whole
  <2>4. \A m \in Nodes : SeenOK(seen'[m])
    BY <1>1 DEF GossipInv, Typed, Whole, SeenOK
  <2>5. \A m \in Nodes : SeenOK(seen[m])'
    BY <1>2, <2>4
  <2> QED  BY <1>1, <1>2, <2>3, <2>5 DEF GossipInv, Typed, Whole
<1>5. Sent'
  <2>1. \A m \in Nodes : InboxOK(inbox'[m])
    BY <1>1 DEF GossipInv, Typed, Sent, InboxOK
  <2>2. \A m \in Nodes : InboxOK(inbox[m])'
    BY <1>2, <2>1
  <2> QED  BY <1>1, <1>2, <2>2 DEF GossipInv, Sent
<1>6. LoopOK'
  BY <1>1 DEF LoopOK
<1> QED  BY <1>2, <1>3, <1>4, <1>5, <1>6 DEF GossipInv

----------------------------------------------------------------------------
(* Theorems *)

LEMMA NextInv == GossipInv /\ [Next]_vars => GossipInv'
<1> SUFFICES ASSUME GossipInv, [Next]_vars PROVE GossipInv'
  OBVIOUS
<1>1. CASE Merging
  BY <1>1, TryInv, NextPassInv, EndLoopInv DEF Merging
<1>2. ASSUME NEW n \in Nodes, Listening(n) \/ SendAnnounce(n) PROVE GossipInv'
  BY <1>2, RouteInv, ReceiveInv, ReceiveDeltasInv, SendAnnounceInv DEF Listening
<1>3. ASSUME NEW n \in Nodes, NEW base \in SUBSET held[n], NEW h \in Hashes,
             IsDocument(base) /\ Author(n, base, h)
      PROVE  GossipInv'
  BY <1>3, AuthorInv
<1>4. ASSUME NEW n \in Nodes, ColdStart(n) \/ Ask(n) \/ Withdraw(n) \/ Connect(n)
      PROVE  GossipInv'
  BY <1>4, ColdStartInv, AskInv
<1>5. ASSUME NEW n \in Nodes, \E batch \in SUBSET Exists : Stray(n, batch) PROVE GossipInv'
  BY <1>5, StrayInv
<1>6. ASSUME NEW n \in Nodes, Disconnect(n) \/ LoopExits(n) PROVE GossipInv'
  BY <1>6, DisconnectInv
<1>7. ASSUME NEW n \in Nodes, NEW saved \in SUBSET held[n],
             (saved = {} \/ IsDocument(saved)) /\ Crash(n, saved)
      PROVE  GossipInv'
  BY <1>7, CrashInv
<1>8. CASE UNCHANGED vars
  <2>1. UNCHANGED <<delta, contentHash, held, seen, replicateAll, wanted, asked,
                    due, inbox, loop, net, online, missed, owed>>
    BY <1>8 DEF vars, nodeVars, policy, ghosts
  <2> QED  BY <2>1, RoutingStep DEF GossipInv, Typed, Whole, Sent
<1> QED  BY <1>1, <1>2, <1>3, <1>4, <1>5, <1>6, <1>7, <1>8 DEF Next

\* The inductive invariant: the history is well founded, documents are whole,
\* batches reach down to the frontier they answer and the retry loop loses
\* nothing.
THEOREM GossipInvariant == Spec => []GossipInv
<1>1. Init => GossipInv
  BY InitInv
<1>2. GossipInv /\ [Next]_vars => GossipInv'
  BY NextInv
<1> QED  BY <1>1, <1>2, PTL DEF Spec

\* A node's document is the genesis with whole histories, whatever arrived
\* (merge_inbound, genesis_bootstrap).
THEOREM GossipTypeCorrect == Spec => []TypeOK
<1>1. ASSUME GossipInv PROVE TypeOK
  <2>1. \A n \in Nodes : seen[n] \subseteq {contentHash[S] : S \in Documents}
    BY <1>1 DEF GossipInv, Whole, SeenOK
  <2> QED
    BY <1>1, <2>1 DEF GossipInv, History, Typed, Whole, IsWhole, Sent, MessageOK, TypeOK
<1>2. GossipInv => TypeOK
  BY <1>1
<1> QED  BY <1>2, GossipInvariant, PTL

\* When the loop of merge_inbound ends, what it leaves out has a parent the
\* document lacks.
LEMMA LoopEndsExhausted ==
  ASSUME GossipInv, EndLoop, NEW h \in loop.batch \ {Foreign}, h \notin held[loop.node]
  PROVE  IsPending(held[loop.node], h)
<1>1. /\ loop # Nothing /\ loop.pending = {} /\ h \in loop.still /\ loop.still # {}
      /\ ~ loop.progressed
  BY DEF EndLoop, LoopEnds, GossipInv, LoopOK
<1> QED  BY <1>1 DEF GossipInv, LoopOK

\* The retry loop gets everything out of a batch (merge_inbound).
THEOREM BatchesAreExhausted == Spec => BatchIsExhausted
<1>1. GossipInv /\ [Next]_vars =>
        [EndLoop => \A h \in loop.batch \ {Foreign} :
           h \notin held[loop.node] => IsPending(held[loop.node], h)]_vars
  BY LoopEndsExhausted
<1> QED  BY <1>1, GossipInvariant, PTL DEF Spec, BatchIsExhausted

\* When the loop ends, a batch above a frontier the document holds is merged:
\* otherwise the part left out would have a delta without a parent in it, and
\* that one was applicable.
LEMMA AnswerFits ==
  ASSUME GossipInv, EndLoop, loop.above \subseteq held[loop.node]
  PROVE  loop.batch \subseteq held[loop.node]
<1> DEFINE H == held[loop.node]
           T == loop.batch \ H
<1> SUFFICES ASSUME T # {} PROVE FALSE
  OBVIOUS
<1>1. /\ loop # Nothing /\ IsWhole(H) /\ H # {} /\ T \in SUBSET Exists
      /\ \A h \in loop.batch : delta[h].parents \subseteq loop.batch \cup H
  BY DEF EndLoop, GossipInv, LoopOK, Whole
<1>2. Foreign \notin loop.batch
  <2>1. Foreign \notin H /\ Foreign \in Hashes
    BY <1>1, RootsAreHashes DEF IsWhole, IsDocument
  <2> QED  BY <1>1, <2>1 DEF GossipInv, LoopOK
<1>3. PICK h \in T : delta[h].parents \cap T = {}
  BY <1>1 DEF GossipInv, History
<1>4. IsPending(H, h)
  BY <1>2, <1>3, LoopEndsExhausted
<1> QED  BY <1>1, <1>3, <1>4 DEF IsPending

\* A batch that answers a frontier the document holds is applied to the last
\* delta (deltas_for_peer and merge_inbound together).
THEOREM AnswersAlwaysFit == Spec => AnswersFit
<1>1. GossipInv /\ [Next]_vars =>
        [EndLoop /\ loop.above \subseteq held[loop.node] =>
           loop.batch \subseteq held[loop.node]]_vars
  BY AnswerFits
<1> QED  BY <1>1, GossipInvariant, PTL DEF Spec, AnswersFit

----------------------------------------------------------------------------
(* What a node has asked for is on its way *)

\* A node that listens and holds the delta has, or is about to take, a REQUEST
\* whose frontier n still holds.
Requested(n, h) ==
  \/ \E p \in net :
       /\ p.to # n /\ inbox[p.to] # Exited
       /\ p.msg.type = "REQUEST" /\ p.msg.frontier \subseteq held[n] /\ h \in held[p.to]
  \/ \E m \in Nodes \ {n} :
       /\ inbox[m].type = "MESSAGE" /\ inbox[m].msg.type = "REQUEST"
       /\ inbox[m].msg.frontier \subseteq held[n] /\ h \in inbox[m].docs

\* An answer with the delta is in flight, above a frontier n still holds.
Answered(n, h) ==
  \E p \in net :
    /\ p.to = n /\ p.msg.type = "DELTAS"
    /\ h \in p.msg.deltas /\ p.msg.above \subseteq held[n]

BeingMerged(n, h) ==
  loop # Nothing /\ loop.node = n /\ h \in loop.batch /\ loop.above \subseteq held[n]

OnItsWay(n, h) == h \in held[n] \/ Requested(n, h) \/ Answered(n, h) \/ BeingMerged(n, h)

\* A message is routed with a snapshot of what the node still holds.
Snapshots == \A n \in Nodes : inbox[n].type = "MESSAGE" => inbox[n].docs \subseteq held[n]

\* A node is owed something only while everybody is connected and it listens,
\* and only if it would take a document it does not have.
Tracked ==
  \A n \in Nodes : owed[n] # {} =>
    /\ online = Nodes /\ inbox[n] # Exited
    /\ held[n] = {} => Wants(n)
    /\ \A h \in owed[n] : OnItsWay(n, h)

\* The answer to a frontier the asker holds has all the asker lacks: the
\* newest delta of the answering document left out would be no head, and no
\* parent of one that is sent or held.
LEMMA AnswerCovers ==
  ASSUME History, NEW S, IsWhole(S), NEW H, IsWhole(H), NEW F \in SUBSET H
  PROVE  S \subseteq DeltasForPeer(delta, Dag(S), F) \cup H
<1> DEFINE B == DeltasForPeer(delta, Dag(S), F)
           T == S \ (B \cup H)
<1> SUFFICES ASSUME T # {} PROVE FALSE
  OBVIOUS
<1>1. Dag(S).held = S /\ Dag(S).frontier = Leaves(delta, S)
  BY DEF Dag, RebuildDag, InsertAll, EmptyDag
<1>2. S \subseteq Exists /\ Referenced(delta, S) \subseteq S /\ Referenced(delta, H) \subseteq H
  BY DEF IsWhole, IsDocument, Referenced
<1>3. \A h \in B : delta[h].parents \subseteq B \cup F
  <2>1. CASE B = {}
    BY <2>1
  <2>2. CASE B # {}
    <3>1. Deltas(B, F) \in OnRequest(S, F)
      BY <2>2 DEF OnRequest
    <3>2. MessageOK(Deltas(B, F))
      BY <3>1, AnswerIsBatch
    <3> HIDE DEF B
    <3> QED  BY <3>2 DEF MessageOK, Deltas, BatchOK
  <2> QED  BY <2>1, <2>2
<1>4. ASSUME NEW head \in Leaves(delta, S), head \notin F PROVE head \in B
  <2>1. {head} \in SUBSET DOMAIN delta /\ S \in SUBSET DOMAIN delta
    BY <1>2, <1>4 DEF Leaves, Exists
  <2>2. TraversalClosed(delta, S, {head}, F, Visited(delta, S, {head}, F))
    BY <2>1, VisitedIsClosed DEF History, Exists
  <2>3. head \in Visited(delta, S, {head}, F)
    BY <1>4, <2>2 DEF TraversalClosed
  <2> QED  BY <1>1, <1>4, <2>3 DEF DeltasForPeer, ExtractClosure
<1> HIDE DEF B
<1>5. PICK t \in T : \A x \in T : t \notin delta[x].parents
  BY <1>2 DEF History
<1>6. t \notin Leaves(delta, S)
  BY <1>4, <1>5
<1>7. PICK x \in S : t \in delta[x].parents
  BY <1>5, <1>6 DEF Leaves, Referenced
<1>8. x \in B \/ x \in H
  BY <1>5, <1>7
<1> QED  BY <1>2, <1>3, <1>5, <1>7, <1>8 DEF Referenced

\* A batch that answers the empty frontier starts with the genesis.
LEMMA FullAnswerBootstraps ==
  ASSUME History, NEW B, BatchOK(B, {}), B # {}
  PROVE  Bootstraps(B)
<1>1. B \in SUBSET Exists /\ Foreign \notin B /\ \A h \in B : delta[h].parents \subseteq B
  BY RootsAreHashes DEF BatchOK
<1>2. PICK h \in B : delta[h].parents \cap B = {}
  BY <1>1 DEF History
<1>3. \A x \in B : delta[x].parents = {} <=> x = Genesis
  BY <1>1 DEF History
<1> QED  BY <1>1, <1>2, <1>3 DEF Bootstraps, Roots

\* What is on its way stays so while nothing is taken from the network.
LEMMA WayStays ==
  ASSUME NEW n \in Nodes, NEW h, OnItsWay(n, h), \A m \in Nodes : held[m] \subseteq held'[m],
         \A p \in net : p.to \in Nodes, net \subseteq net', UNCHANGED <<inbox,
                                                                        loop>>
  PROVE  OnItsWay(n, h)'
  BY DEF OnItsWay, Requested, Answered, BeingMerged

\* A step that only sends, and withdraws no promise.
LEMMA SendingStep ==
  ASSUME GossipInv, Snapshots, Tracked, UNCHANGED <<inbox, loop, online>>,
         \A m \in Nodes : held[m] \subseteq held'[m], net \subseteq net',
         \A m \in Nodes : owed'[m] \subseteq owed[m],
         \A m \in Nodes : owed'[m] # {} /\ held'[m] = {} /\ Wants(m) => Wants(m)'
  PROVE  Snapshots' /\ Tracked'
<1>1. Snapshots'
  BY DEF Snapshots
<1>2. ASSUME NEW n \in Nodes, owed'[n] # {}
      PROVE  /\ online' = Nodes /\ inbox'[n] # Exited
             /\ held'[n] = {} => Wants(n)'
             /\ \A h \in owed'[n] : OnItsWay(n, h)'
  <2>1. /\ owed[n] # {} /\ online = Nodes /\ inbox[n] # Exited
        /\ held[n] = {} => Wants(n)
        /\ \A h \in owed'[n] : OnItsWay(n, h)
    BY <1>2 DEF Tracked
  <2>2. \A h \in owed'[n] : OnItsWay(n, h)'
    BY <2>1, WayStays DEF GossipInv, Sent
  <2> QED  BY <1>2, <2>1, <2>2
<1> QED  BY <1>1, <1>2 DEF Tracked

\* The steps that only send or only change what a node wants.
LEMMA SendingTracked ==
  ASSUME GossipInv, Snapshots, Tracked, NEW n \in Nodes,
         \/ SendAnnounce(n) \/ ColdStart(n) \/ Ask(n) \/ Withdraw(n)
         \/ \E base, h : Author(n, base, h)
         \/ \E batch : Stray(n, batch)
  PROVE  Snapshots' /\ Tracked'
<1>1. held \in [Nodes -> SUBSET Hashes] /\ owed \in [Nodes -> SUBSET Hashes]
  BY DEF GossipInv, Typed
<1>2. ASSUME NEW base, NEW h, Author(n, base, h) PROVE Snapshots' /\ Tracked'
  <2>1. /\ held' = [held EXCEPT ![n] = @ \cup {h}]
        /\ UNCHANGED <<replicateAll, wanted, inbox, loop, net, online, owed>>
    BY <1>2 DEF Author, policy, ghosts
  <2>2. \A m \in Nodes : held[m] \subseteq held'[m]
    BY <1>1, <2>1
  <2> QED  BY <2>1, <2>2, SendingStep DEF Wants
<1>3. CASE SendAnnounce(n) \/ ColdStart(n) \/ Ask(n) \/ \E batch : Stray(n, batch)
  <2>1. /\ UNCHANGED <<held, replicateAll, inbox, loop, online, owed>>
        /\ net \subseteq net' /\ wanted \subseteq wanted'
    BY <1>3 DEF SendAnnounce, ColdStart, Ask, Stray, Broadcast, nodeVars, policy, ghosts
  <2> QED  BY <2>1, SendingStep DEF Wants
<1>4. CASE Withdraw(n)
  <2>1. /\ UNCHANGED <<held, replicateAll, inbox, loop, net, online>>
        /\ wanted' = wanted \ {n}
        /\ owed' = IF held[n] = {} THEN [owed EXCEPT ![n] = {}] ELSE owed
    BY <1>4 DEF Withdraw
  <2>2. \A m \in Nodes : owed'[m] \subseteq owed[m]
    BY <1>1, <2>1
  <2>3. held[n] = {} => owed'[n] = {}
    BY <1>1, <2>1
  <2>4. \A m \in Nodes : owed'[m] # {} /\ held'[m] = {} /\ Wants(m) => Wants(m)'
    BY <2>1, <2>3 DEF Wants
  <2> QED  BY <2>1, <2>2, <2>4, SendingStep
<1> QED  BY <1>2, <1>3, <1>4

\* After a fault nobody is owed anything.
LEMMA FaultTracked ==
  ASSUME GossipInv, Snapshots, NEW n \in Nodes,
         Disconnect(n) \/ LoopExits(n) \/ \E saved : Crash(n, saved)
  PROVE  Snapshots' /\ Tracked'
<1>1. \A m \in Nodes : owed'[m] = {}
  BY DEF Disconnect, LoopExits, Crash
<1>2. ASSUME Disconnect(n) PROVE Snapshots'
  BY <1>2 DEF Disconnect, nodeVars, Snapshots
<1>3. ASSUME LoopExits(n) PROVE Snapshots'
  <2>1. held' = held /\ inbox' = [inbox EXCEPT ![n] = Exited] /\ DOMAIN inbox = Nodes
    BY <1>3 DEF LoopExits, GossipInv, Typed
  <2>2. \A m \in Nodes : inbox'[m].type = "MESSAGE" => inbox'[m] = inbox[m]
    BY <2>1 DEF Exited
  <2> QED  BY <2>1, <2>2 DEF Snapshots
<1>4. ASSUME NEW saved, Crash(n, saved) PROVE Snapshots'
  <2>1. /\ held' = [held EXCEPT ![n] = saved] /\ inbox' = [inbox EXCEPT ![n] = Nothing]
        /\ DOMAIN inbox = Nodes /\ DOMAIN held = Nodes
    BY <1>4 DEF Crash, GossipInv, Typed
  <2>2. \A m \in Nodes :
          inbox'[m].type = "MESSAGE" => inbox'[m] = inbox[m] /\ held'[m] = held[m]
    BY <2>1 DEF Nothing
  <2> QED  BY <2>2 DEF Snapshots
<1>5. Snapshots'
  BY <1>2, <1>3, <1>4
<1> QED  BY <1>1, <1>5 DEF Tracked

LEMMA ConnectTracked ==
  ASSUME GossipInv, Snapshots, Tracked, NEW n \in Nodes, Connect(n)
  PROVE  Snapshots' /\ Tracked'
<1>1. /\ UNCHANGED <<held, replicateAll, wanted, inbox, loop, net, owed>> /\ online # Nodes
  BY DEF Connect, nodeVars, policy, ghosts
<1>2. \A m \in Nodes : owed'[m] = {}
  BY <1>1 DEF Tracked
<1> QED  BY <1>1, <1>2 DEF Snapshots, Tracked

\* A REQUEST that is taken from the network is on the desk of its receiver,
\* with a snapshot that has what the node held.
LEMMA WayAtReceive ==
  ASSUME GossipInv, NEW n \in Nodes, NEW p \in net, Receive(n, p),
         NEW k \in Nodes, NEW h, OnItsWay(k, h)
  PROVE  OnItsWay(k, h)'
<1> DEFINE in == [type |-> "MESSAGE", msg |-> p.msg, docs |-> held[n]]
<1>1. /\ p.to = n /\ inbox[n] = Nothing /\ p.msg.type # "DELTAS"
      /\ net' = net \ {p} /\ inbox' = [inbox EXCEPT ![n] = in]
      /\ UNCHANGED <<held, loop>>
  BY DEF Receive
<1>2. in.type = "MESSAGE" /\ in.msg = p.msg /\ in.docs = held[n] /\ in # Exited
  BY DEF Exited
<1> HIDE DEF in
<1>3. inbox'[n] = in /\ \A m \in Nodes : m # n => inbox'[m] = inbox[m]
  BY <1>1 DEF GossipInv, Typed
<1>4. \A m \in Nodes : inbox'[m] = Exited => inbox[m] = Exited
  BY <1>2, <1>3
<1>5. ASSUME NEW q \in net,
             q.to # k, inbox[q.to] # Exited, q.msg.type = "REQUEST",
             q.msg.frontier \subseteq held[k], h \in held[q.to]
      PROVE  Requested(k, h)'
  <2>1. CASE q = p
    BY <1>1, <1>2, <1>3, <1>5, <2>1 DEF Requested
  <2>2. CASE q # p
    BY <1>1, <1>4, <1>5, <2>2 DEF Requested, GossipInv, Sent
  <2> QED  BY <2>1, <2>2
<1>6. ASSUME NEW m \in Nodes \ {k},
             inbox[m].type = "MESSAGE", inbox[m].msg.type = "REQUEST",
             inbox[m].msg.frontier \subseteq held[k], h \in inbox[m].docs
      PROVE  Requested(k, h)'
  <2>1. m # n
    BY <1>1, <1>6 DEF Nothing
  <2> QED  BY <1>1, <1>3, <1>6, <2>1 DEF Requested
<1>7. Requested(k, h) => Requested(k, h)'
  BY <1>5, <1>6 DEF Requested
<1>8. Answered(k, h) => Answered(k, h)'
  BY <1>1 DEF Answered
<1>9. BeingMerged(k, h) => BeingMerged(k, h)'
  BY <1>1 DEF BeingMerged
<1> QED  BY <1>1, <1>7, <1>8, <1>9 DEF OnItsWay

LEMMA ReceiveTracked ==
  ASSUME GossipInv, Snapshots, Tracked, NEW n \in Nodes, NEW p \in net, Receive(n, p)
  PROVE  Snapshots' /\ Tracked'
<1> DEFINE in == [type |-> "MESSAGE", msg |-> p.msg, docs |-> held[n]]
<1>1. /\ inbox' = [inbox EXCEPT ![n] = in]
      /\ UNCHANGED <<held, replicateAll, wanted, online, owed>>
  BY DEF Receive, policy, ghosts
<1>2. in.docs = held[n] /\ in # Exited
  BY DEF Exited
<1> HIDE DEF in
<1>3. inbox'[n] = in /\ \A m \in Nodes : m # n => inbox'[m] = inbox[m]
  BY <1>1 DEF GossipInv, Typed
<1>4. \A m \in Nodes : inbox'[m] = Exited => inbox[m] = Exited
  BY <1>2, <1>3
<1>5. Snapshots'
  BY <1>1, <1>2, <1>3 DEF Snapshots
<1>6. \A k \in Nodes : \A h : OnItsWay(k, h) => OnItsWay(k, h)'
  BY WayAtReceive
<1> QED  BY <1>1, <1>4, <1>5, <1>6 DEF Tracked, Wants

\* A node that has routed its message has an empty desk.
LEMMA DeskIsCleared ==
  ASSUME GossipInv, Snapshots, NEW n \in Nodes, Route(n), UNCHANGED held
  PROVE  /\ Snapshots'
         /\ inbox'[n] = Nothing /\ \A m \in Nodes : m # n => inbox'[m] = inbox[m]
         /\ \A m \in Nodes : inbox'[m] = Exited => inbox[m] = Exited
<1>1. inbox'[n] = Nothing /\ \A m \in Nodes : m # n => inbox'[m] = inbox[m]
  BY DEF Route, GossipInv, Typed
<1>2. \A m \in Nodes : inbox'[m] = Exited => inbox[m] = Exited
  BY <1>1 DEF Nothing, Exited
<1>3. Snapshots'
  BY <1>1 DEF Snapshots, Nothing
<1> QED  BY <1>1, <1>2, <1>3

\* A REQUEST is answered with what the asker lacks, and the answer reaches it
\* if everybody is connected.
LEMMA WayAtRequest ==
  ASSUME GossipInv, Snapshots, NEW n \in Nodes, Route(n), RouteRequest(n),
         online = Nodes \/ OnRequest(inbox[n].docs, inbox[n].msg.frontier) = {},
         NEW k \in Nodes, NEW h, OnItsWay(k, h)
  PROVE  OnItsWay(k, h)'
<1> DEFINE in == inbox[n]
           F == in.msg.frontier
           B == DeltasForPeer(delta, Dag(in.docs), F)
<1>1. /\ loop = Nothing /\ in.msg.type = "REQUEST"
      /\ net' = net \cup UNION {Packets(n, msg) : msg \in OnRequest(in.docs, F)}
      /\ UNCHANGED <<held, loop>>
  BY DEF Route, RouteRequest, Broadcast
<1>2. IsWhole(in.docs)
  BY DEF Route, GossipInv, Sent, InboxOK
<1>3. /\ \A m \in Nodes : m # n => inbox'[m] = inbox[m]
      /\ \A m \in Nodes : inbox'[m] = Exited => inbox[m] = Exited
  BY <1>1, DeskIsCleared
<1>4. ASSUME NEW q \in net,
             q.to # k, inbox[q.to] # Exited, q.msg.type = "REQUEST",
             q.msg.frontier \subseteq held[k], h \in held[q.to]
      PROVE  Requested(k, h)'
  BY <1>1, <1>3, <1>4 DEF Requested, GossipInv, Sent
<1>5. ASSUME NEW m \in Nodes \ {k},
             inbox[m].type = "MESSAGE", inbox[m].msg.type = "REQUEST",
             inbox[m].msg.frontier \subseteq held[k], h \in inbox[m].docs
      PROVE  OnItsWay(k, h)'
  <2>1. CASE m # n
    BY <1>1, <1>3, <1>5, <2>1 DEF OnItsWay, Requested
  <2>2. CASE m = n
    <3>1. F \in SUBSET held[k] /\ h \in in.docs /\ k # n
      BY <1>5, <2>2
    <3>2. IsWhole(held[k]) /\ History
      BY DEF GossipInv, Whole
    <3>3. in.docs \subseteq B \cup held[k]
      BY <1>2, <3>1, <3>2, AnswerCovers
    <3>4. CASE h \in held[k]
      BY <1>1, <3>4 DEF OnItsWay
    <3>5. CASE h \in B
      <4>1. Deltas(B, F) \in OnRequest(in.docs, F)
        BY <3>5 DEF OnRequest
      <4>2. online = Nodes
        BY <4>1
      <4>3. [to |-> k, msg |-> Deltas(B, F)] \in Packets(n, Deltas(B, F))
        BY <3>1, <4>2 DEF Packets
      <4> HIDE DEF B, F, in
      <4>4. [to |-> k, msg |-> Deltas(B, F)] \in net'
        BY <1>1, <4>1, <4>3
      <4>5. /\ [to |-> k, msg |-> Deltas(B, F)].to = k
            /\ [to |-> k, msg |-> Deltas(B, F)].msg.type = "DELTAS"
            /\ [to |-> k, msg |-> Deltas(B, F)].msg.deltas = B
            /\ [to |-> k, msg |-> Deltas(B, F)].msg.above = F
        BY DEF Deltas
      <4>6. Answered(k, h)'
        BY <1>1, <3>1, <3>5, <4>4, <4>5 DEF Answered
      <4> QED  BY <4>6 DEF OnItsWay
    <3> QED  BY <3>1, <3>3, <3>4, <3>5
  <2> QED  BY <2>1, <2>2
<1>6. Requested(k, h) => OnItsWay(k, h)'
  BY <1>4, <1>5 DEF Requested, OnItsWay
<1>7. Answered(k, h) => Answered(k, h)'
  BY <1>1 DEF Answered
<1>8. ~ BeingMerged(k, h)
  BY <1>1 DEF BeingMerged
<1> QED  BY <1>1, <1>6, <1>7, <1>8 DEF OnItsWay

LEMMA RequestTracked ==
  ASSUME GossipInv, Snapshots, Tracked, NEW n \in Nodes, Route(n), RouteRequest(n)
  PROVE  Snapshots' /\ Tracked'
<1>1. UNCHANGED <<held, replicateAll, wanted, online, owed>>
  BY DEF RouteRequest, policy
<1>2. Snapshots' /\ \A m \in Nodes : inbox'[m] = Exited => inbox[m] = Exited
  BY <1>1, DeskIsCleared
<1>3. \A k \in Nodes : \A h : online = Nodes /\ OnItsWay(k, h) => OnItsWay(k, h)'
  BY WayAtRequest
<1> QED  BY <1>1, <1>2, <1>3 DEF Tracked, Wants

\* Routing an ANNOUNCE takes nothing away.
LEMMA WayAtAnnounce ==
  ASSUME GossipInv, Snapshots, NEW n \in Nodes, Route(n), RouteAnnounce(n),
         NEW k \in Nodes, NEW h, OnItsWay(k, h)
  PROVE  OnItsWay(k, h)'
<1>1. /\ loop = Nothing /\ inbox[n].msg.type = "ANNOUNCE" /\ net \subseteq net'
      /\ UNCHANGED <<held, loop>>
  BY DEF Route, RouteAnnounce
<1>2. /\ \A m \in Nodes : m # n => inbox'[m] = inbox[m]
      /\ \A m \in Nodes : inbox'[m] = Exited => inbox[m] = Exited
  BY <1>1, DeskIsCleared
<1>3. ASSUME NEW q \in net,
             q.to # k, inbox[q.to] # Exited, q.msg.type = "REQUEST",
             q.msg.frontier \subseteq held[k], h \in held[q.to]
      PROVE  Requested(k, h)'
  BY <1>1, <1>2, <1>3 DEF Requested, GossipInv, Sent
<1>4. ASSUME NEW m \in Nodes \ {k},
             inbox[m].type = "MESSAGE", inbox[m].msg.type = "REQUEST",
             inbox[m].msg.frontier \subseteq held[k], h \in inbox[m].docs
      PROVE  Requested(k, h)'
  <2>1. m # n
    BY <1>1, <1>4
  <2> QED  BY <1>1, <1>2, <1>4, <2>1 DEF Requested
<1>5. Requested(k, h) => Requested(k, h)'
  BY <1>3, <1>4 DEF Requested
<1>6. Answered(k, h) => Answered(k, h)'
  BY <1>1 DEF Answered
<1>7. ~ BeingMerged(k, h)
  BY <1>1 DEF BeingMerged
<1> QED  BY <1>1, <1>5, <1>6, <1>7 DEF OnItsWay

\* The REQUEST of a node that reacts to an announcement goes to everybody, so
\* to one that has the delta, with a frontier the node holds.
LEMMA ReactionAsks ==
  ASSUME GossipInv, Snapshots, NEW n \in Nodes, Route(n), RouteAnnounce(n), online = Nodes,
         OnAnnounce(n, inbox[n].docs, inbox[n].msg.hash) # {},
         NEW m \in Nodes, NEW h \in held[m], inbox[m] # Exited
  PROVE  OnItsWay(n, h)'
<1> DEFINE in == inbox[n]
           out == OnAnnounce(n, in.docs, in.msg.hash)
<1>1. /\ in.type = "MESSAGE"
      /\ net' = net \cup UNION {Packets(n, msg) : msg \in out}
      /\ UNCHANGED <<held, loop>>
  BY DEF Route, RouteAnnounce, GossipInv, Sent, InboxOK
<1>2. in.docs \subseteq held[n]
  BY <1>1 DEF Snapshots
<1>3. \A x \in Nodes : inbox'[x] = Exited => inbox[x] = Exited
  BY <1>1, DeskIsCleared
<1>4. PICK F \in SUBSET in.docs : Request(F) \in out
  BY DEF OnAnnounce, Leaves
<1> HIDE DEF out, in
<1>5. CASE m = n
  BY <1>1, <1>5 DEF OnItsWay
<1>6. CASE m # n
  <2> DEFINE p == [to |-> m, msg |-> Request(F)]
  <2>1. p \in Packets(n, Request(F))
    BY <1>6 DEF Packets
  <2>2. p.to = m /\ p.msg.type = "REQUEST" /\ p.msg.frontier = F
    BY DEF Request
  <2> HIDE DEF p
  <2>3. p \in net'
    BY <1>1, <1>4, <2>1
  <2>4. Requested(n, h)'
    BY <1>1, <1>2, <1>3, <1>4, <1>6, <2>2, <2>3 DEF Requested
  <2> QED  BY <2>4 DEF OnItsWay
<1> QED  BY <1>5, <1>6

LEMMA AnnounceTracked ==
  ASSUME GossipInv, Snapshots, Tracked, NEW n \in Nodes, Route(n), RouteAnnounce(n)
  PROVE  Snapshots' /\ Tracked'
<1> DEFINE in == inbox[n]
           out == OnAnnounce(n, in.docs, in.msg.hash)
<1>1. /\ inbox[n] # Exited /\ in.type = "MESSAGE"
      /\ owed' = IF out # {} /\ Available(in.msg.state)
                   THEN [owed EXCEPT ![n] = @ \cup in.msg.state] ELSE owed
      /\ UNCHANGED <<held, replicateAll, wanted, online>>
  BY DEF Route, RouteAnnounce, policy, GossipInv, Sent, InboxOK
<1>2. Snapshots' /\ \A m \in Nodes : inbox'[m] = Exited => inbox[m] = Exited
  BY <1>1, DeskIsCleared
<1>3. \A k \in Nodes : \A h : OnItsWay(k, h) => OnItsWay(k, h)'
  BY WayAtAnnounce
<1>4. CASE ~ (out # {} /\ Available(in.msg.state))
  <2>1. owed' = owed
    BY <1>1, <1>4
  <2> QED  BY <1>1, <1>2, <1>3, <2>1 DEF Tracked, Wants
<1>5. CASE out # {} /\ Available(in.msg.state)
  <2>1. PICK m \in Nodes : in.msg.state \subseteq held[m] /\ inbox[m] # Exited
    BY <1>5 DEF Available
  <2>2. online = Nodes
    BY <1>5 DEF Available
  <2>3. held[n] = {} => Wants(n)
    BY <1>1, <1>5 DEF OnAnnounce, Snapshots
  <2>4. \A h \in in.msg.state : OnItsWay(n, h)'
    BY <1>5, <2>1, <2>2, ReactionAsks
  <2>5. owed' = [owed EXCEPT ![n] = owed[n] \cup in.msg.state]
    BY <1>1, <1>5
  <2> HIDE DEF out, in
  <2>6. owed'[n] = owed[n] \cup in.msg.state /\ \A k \in Nodes : k # n => owed'[k] = owed[k]
    BY <2>5 DEF GossipInv, Typed
  <2>7. ASSUME NEW k \in Nodes, owed'[k] # {}
        PROVE  /\ online' = Nodes /\ inbox'[k] # Exited
               /\ held'[k] = {} => Wants(k)'
               /\ \A h \in owed'[k] : OnItsWay(k, h)'
    <3>1. CASE k # n
      BY <1>1, <1>2, <1>3, <2>6, <2>7, <3>1 DEF Tracked, Wants
    <3>2. CASE k = n
      <4>1. \A h \in owed[n] : OnItsWay(n, h)
        BY DEF Tracked
      <4> QED  BY <1>1, <1>2, <1>3, <2>2, <2>3, <2>4, <2>6, <3>2, <4>1 DEF Wants
    <3> QED  BY <3>1, <3>2
  <2> QED  BY <1>2, <2>7 DEF Tracked
<1> QED  BY <1>4, <1>5

\* A bootstrap fills a document that was empty.
LEMMA DeltasOnlyAdd ==
  ASSUME GossipInv, NEW n \in Nodes, NEW p \in net, ReceiveDeltas(n, p)
  PROVE  \A m \in Nodes : held[m] \subseteq held'[m]
<1>1. held' = held \/ (held[n] = {} /\ held' = [held EXCEPT ![n] = Roots(p.msg.deltas)])
  BY DEF ReceiveDeltas, GenesisBootstrap
<1> QED  BY <1>1 DEF GossipInv, Typed

\* An answer that arrives starts the retry loop, or makes the document and
\* starts the loop for the rest, at a node that wants it.
LEMMA WayAtReceiveDeltas ==
  ASSUME GossipInv, NEW n \in Nodes, NEW p \in net, ReceiveDeltas(n, p),
         NEW k \in Nodes, NEW h, OnItsWay(k, h), k = n /\ held[n] = {} => Wants(n)
  PROVE  OnItsWay(k, h)'
<1> DEFINE batch == p.msg.deltas
           above == p.msg.above
<1>1. /\ loop = Nothing /\ p.to = n /\ p.msg.type = "DELTAS" /\ net' = net \ {p}
      /\ \/ /\ held[n] # {}
            /\ StartLoop(n, batch, above)
            /\ UNCHANGED held
         \/ held[n] = {} /\ Wants(n) /\ GenesisBootstrap(n, batch, above)
         \/ held[n] = {} /\ ~ Wants(n) /\ UNCHANGED <<held, loop>>
      /\ UNCHANGED inbox
  BY DEF ReceiveDeltas
<1>2. BatchOK(batch, above) /\ History /\ held \in [Nodes -> SUBSET Hashes]
  BY <1>1 DEF GossipInv, Sent, MessageOK, Typed
<1> HIDE DEF batch, above
<1>3. \A m \in Nodes : held[m] \subseteq held'[m]
  BY DeltasOnlyAdd
<1>4. \A B : StartLoop(n, B, above) =>
        loop' # Nothing /\ loop'.node = n /\ loop'.batch = B /\ loop'.above = above
  BY DEF StartLoop, Nothing
<1>5. ASSUME k = n, h \in batch, above \subseteq held[n] PROVE OnItsWay(n, h)'
  <2>1. CASE held[n] # {}
    <3>1. StartLoop(n, batch, above) /\ held' = held
      BY <1>1, <2>1
    <3> QED  BY <1>4, <1>5, <3>1 DEF OnItsWay, BeingMerged
  <2>2. CASE held[n] = {}
    <3>1. above = {} /\ GenesisBootstrap(n, batch, above)
      BY <1>1, <1>5, <2>2
    <3>2. Bootstraps(batch)
      BY <1>2, <1>5, <3>1, FullAnswerBootstraps
    <3>3. held' = [held EXCEPT ![n] = {Genesis}] /\ StartLoop(n, batch \ {Genesis}, above)
      BY <3>1, <3>2 DEF GenesisBootstrap, Bootstraps
    <3>4. held'[n] = {Genesis}
      BY <1>2, <3>3
    <3> QED  BY <1>4, <1>5, <3>1, <3>3, <3>4 DEF OnItsWay, BeingMerged
  <2> QED  BY <2>1, <2>2
<1>6. h \in held[k] => OnItsWay(k, h)'
  BY <1>3 DEF OnItsWay
<1>7. ASSUME NEW q \in net,
             q.to # k, inbox[q.to] # Exited, q.msg.type = "REQUEST",
             q.msg.frontier \subseteq held[k], h \in held[q.to]
      PROVE  Requested(k, h)'
  <2>1. q # p /\ q.to \in Nodes
    BY <1>1, <1>7 DEF GossipInv, Sent
  <2> QED  BY <1>1, <1>3, <1>7, <2>1 DEF Requested
<1>8. ASSUME NEW m \in Nodes \ {k},
             inbox[m].type = "MESSAGE", inbox[m].msg.type = "REQUEST",
             inbox[m].msg.frontier \subseteq held[k], h \in inbox[m].docs
      PROVE  Requested(k, h)'
  BY <1>1, <1>3, <1>8 DEF Requested
<1>9. Requested(k, h) => OnItsWay(k, h)'
  BY <1>7, <1>8 DEF Requested, OnItsWay
<1>10. ASSUME NEW q \in net,
              q.to = k, q.msg.type = "DELTAS", h \in q.msg.deltas,
              q.msg.above \subseteq held[k]
       PROVE  OnItsWay(k, h)'
  <2>1. CASE q # p
    BY <1>1, <1>3, <1>10, <2>1 DEF OnItsWay, Answered
  <2>2. CASE q = p
    BY <1>1, <1>5, <1>10, <2>2 DEF batch, above
  <2> QED  BY <2>1, <2>2
<1>11. ~ BeingMerged(k, h)
  BY <1>1 DEF BeingMerged
<1> QED  BY <1>6, <1>9, <1>10, <1>11 DEF OnItsWay, Answered

LEMMA ReceiveDeltasTracked ==
  ASSUME GossipInv, Snapshots, Tracked, NEW n \in Nodes, NEW p \in net, ReceiveDeltas(n, p)
  PROVE  Snapshots' /\ Tracked'
<1>1. UNCHANGED <<replicateAll, wanted, inbox, online, owed>>
  BY DEF ReceiveDeltas, policy
<1>2. \A m \in Nodes : held[m] \subseteq held'[m]
  BY DeltasOnlyAdd
<1>3. ASSUME NEW k \in Nodes, NEW h \in owed[k] PROVE OnItsWay(k, h)'
  <2>1. OnItsWay(k, h) /\ (held[k] = {} => Wants(k))
    BY <1>3 DEF Tracked
  <2> QED  BY <2>1, WayAtReceiveDeltas
<1>4. Snapshots'
  BY <1>1, <1>2 DEF Snapshots
<1> QED  BY <1>1, <1>2, <1>3, <1>4 DEF Tracked, Wants

LEMMA LoopKeepsBatch ==
  ASSUME (\E h \in Hashes : Try(h)) \/ NextPass
  PROVE  /\ loop'.type = loop.type /\ loop'.node = loop.node
         /\ loop'.batch = loop.batch /\ loop'.above = loop.above
<1>1. ASSUME NEW h \in Hashes, Try(h), IsPending(held[loop.node], h)
      PROVE  /\ loop'.type = loop.type /\ loop'.node = loop.node
             /\ loop'.batch = loop.batch /\ loop'.above = loop.above
  <2>1. loop' = [loop EXCEPT !.pending = @ \ {h}, !.still = @ \cup {h}]
    BY <1>1 DEF Try
  <2> QED  BY <2>1
<1>2. ASSUME NEW h \in Hashes, Try(h), ~ IsPending(held[loop.node], h)
      PROVE  /\ loop'.type = loop.type /\ loop'.node = loop.node
             /\ loop'.batch = loop.batch /\ loop'.above = loop.above
  <2>1. loop' = [loop EXCEPT !.pending = @ \ {h}, !.progressed = TRUE]
    BY <1>2 DEF Try
  <2> QED  BY <2>1
<1>3. ASSUME NextPass
      PROVE  /\ loop'.type = loop.type /\ loop'.node = loop.node
             /\ loop'.batch = loop.batch /\ loop'.above = loop.above
  <2>1. loop' = [loop EXCEPT !.pending = loop.still, !.still = {}, !.progressed = FALSE]
    BY <1>3 DEF NextPass
  <2> QED  BY <2>1
<1> QED  BY <1>1, <1>2, <1>3

LEMMA LoopOnlyAdds ==
  ASSUME GossipInv, (\E h \in Hashes : Try(h)) \/ NextPass \/ EndLoop
  PROVE  \A m \in Nodes : held[m] \subseteq held'[m]
<1>1. held' = held \/ \E h : held' = [held EXCEPT ![loop.node] = Merged(@, h)]
  BY DEF Try, NextPass, EndLoop, nodeVars
<1> QED  BY <1>1 DEF GossipInv, Typed, Merged

\* The retry loop keeps its batch; at its end a batch above a frontier the
\* node holds is all merged.
LEMMA WayAtLoop ==
  ASSUME GossipInv, (\E x \in Hashes : Try(x)) \/ NextPass \/ EndLoop,
         NEW k \in Nodes, NEW h, OnItsWay(k, h)
  PROVE  OnItsWay(k, h)'
<1>1. loop # Nothing /\ UNCHANGED <<inbox, net>>
  BY DEF Try, NextPass, EndLoop, nodeVars
<1>2. \A m \in Nodes : held[m] \subseteq held'[m]
  BY LoopOnlyAdds
<1>3. ASSUME BeingMerged(k, h) PROVE OnItsWay(k, h)'
  <2>1. CASE EndLoop
    <3>1. loop.batch \subseteq held[k]
      BY <1>3, <2>1, AnswerFits DEF BeingMerged
    <3> QED  BY <1>2, <1>3, <3>1 DEF OnItsWay, BeingMerged
  <2>2. CASE (\E x \in Hashes : Try(x)) \/ NextPass
    <3>1. /\ loop'.type = loop.type /\ loop'.node = loop.node
          /\ loop'.batch = loop.batch /\ loop'.above = loop.above
      BY <2>2, LoopKeepsBatch
    <3>2. loop'.type = "LOOP"
      BY <1>1, <3>1 DEF GossipInv, LoopOK
    <3>3. loop' # Nothing
      BY <3>2 DEF Nothing
    <3> QED  BY <1>2, <1>3, <3>1, <3>3 DEF OnItsWay, BeingMerged
  <2> QED  BY <2>1, <2>2
<1>4. Requested(k, h) => Requested(k, h)'
  BY <1>1, <1>2 DEF Requested, GossipInv, Sent
<1>5. Answered(k, h) => Answered(k, h)'
  BY <1>1, <1>2 DEF Answered
<1> QED  BY <1>2, <1>3, <1>4, <1>5 DEF OnItsWay

LEMMA LoopTracked ==
  ASSUME GossipInv, Snapshots, Tracked, (\E h \in Hashes : Try(h)) \/ NextPass \/ EndLoop
  PROVE  Snapshots' /\ Tracked'
<1>1. UNCHANGED <<replicateAll, wanted, inbox, online, owed>>
  BY DEF Try, NextPass, EndLoop, nodeVars, policy, ghosts
<1>2. \A m \in Nodes : held[m] \subseteq held'[m]
  BY LoopOnlyAdds
<1>3. \A k \in Nodes : \A h : OnItsWay(k, h) => OnItsWay(k, h)'
  BY WayAtLoop
<1>4. Snapshots'
  BY <1>1, <1>2 DEF Snapshots
<1> QED  BY <1>1, <1>2, <1>3, <1>4 DEF Tracked, Wants

LEMMA NextTracked ==
  ASSUME GossipInv, Snapshots, Tracked, [Next]_vars
  PROVE  Snapshots' /\ Tracked'
<1>1. CASE Merging
  BY <1>1, LoopTracked DEF Merging
<1>2. ASSUME NEW n \in Nodes, Listening(n) PROVE Snapshots' /\ Tracked'
  <2>1. CASE Route(n)
    BY <2>1, AnnounceTracked, RequestTracked DEF Route
  <2>2. ASSUME NEW p \in net, Receive(n, p) \/ ReceiveDeltas(n, p)
        PROVE  Snapshots' /\ Tracked'
    BY <2>2, ReceiveTracked, ReceiveDeltasTracked
  <2> QED  BY <1>2, <2>1, <2>2 DEF Listening
<1>3. ASSUME NEW n \in Nodes,
             \/ SendAnnounce(n) \/ ColdStart(n) \/ Ask(n) \/ Withdraw(n)
             \/ \E base \in SUBSET held[n], h \in Hashes : IsDocument(base) /\ Author(n, base, h)
             \/ \E batch \in SUBSET Exists : Stray(n, batch)
      PROVE  Snapshots' /\ Tracked'
  BY <1>3, SendingTracked
<1>4. ASSUME NEW n \in Nodes,
             \/ Disconnect(n) \/ LoopExits(n)
             \/ \E saved \in SUBSET held[n] : (saved = {} \/ IsDocument(saved)) /\ Crash(n, saved)
      PROVE  Snapshots' /\ Tracked'
  BY <1>4, FaultTracked
<1>5. ASSUME NEW n \in Nodes, Connect(n) PROVE Snapshots' /\ Tracked'
  BY <1>5, ConnectTracked
<1>6. CASE UNCHANGED vars
  <2>1. UNCHANGED <<held, replicateAll, wanted, inbox, loop, net, online, owed>>
    BY <1>6 DEF vars, nodeVars, policy, ghosts
  <2> QED  BY <2>1, SendingStep DEF Wants
<1> QED  BY <1>1, <1>2, <1>3, <1>4, <1>5, <1>6 DEF Next

\* After the last fault an announcement a node reacts to is enough: what it
\* has asked for is held, requested from a node that has it, in an answer in
\* flight or in the batch being merged, so when all is quiet it is held
\* (GossipState::handle, deltas_for_peer and merge_inbound together).
THEOREM AnnouncementsSuffice == Spec => []AnnouncementSuffices
<1>1. Init => Snapshots /\ Tracked
  <2> SUFFICES ASSUME Init PROVE Snapshots /\ Tracked
    OBVIOUS
  <2>1. \A n \in Nodes : inbox[n] = Nothing /\ owed[n] = {}
    BY DEF Init
  <2> QED  BY <2>1 DEF Snapshots, Tracked, Nothing
<1>2. GossipInv /\ Snapshots /\ Tracked /\ [Next]_vars => Snapshots' /\ Tracked'
  BY NextTracked
<1>3. ASSUME GossipInv, Tracked PROVE AnnouncementSuffices
  <2> SUFFICES ASSUME Quiescent, NEW n \in Nodes, NEW h \in owed[n] PROVE h \in held[n]
    BY DEF AnnouncementSuffices
  <2>1. OnItsWay(n, h) /\ inbox[n] # Exited
    BY <1>3 DEF Tracked
  <2>2. ~ Requested(n, h)
    BY DEF Requested, Quiescent, Nothing, Exited
  <2>3. ~ Answered(n, h)
    BY <2>1 DEF Answered, Quiescent
  <2>4. ~ BeingMerged(n, h)
    BY DEF BeingMerged, Quiescent
  <2> QED  BY <2>1, <2>2, <2>3, <2>4 DEF OnItsWay
<1>4. GossipInv /\ Tracked => AnnouncementSuffices
  BY <1>3
<1> QED  BY <1>1, <1>2, <1>4, GossipInvariant, PTL DEF Spec

----------------------------------------------------------------------------
(* What somebody has written reaches every node *)

Written == Exists \ {Genesis, Foreign}

\* m has yet to see an announcement of the delta.
Announced(m, h) ==
  \/ \E k \in Nodes : h \in held[k] /\ due[k] > 0
  \/ \E p \in net : p.to = m /\ p.msg.type = "ANNOUNCE" /\ h \in p.msg.state
  \/ inbox[m].type = "MESSAGE" /\ inbox[m].msg.type = "ANNOUNCE" /\ h \in inbox[m].msg.state

\* The hash of a document with the delta is one the node has met already.
Mistaken(n, h) == \E S \in Documents : h \in S /\ contentHash[S] \in seen[n]

\* The node has met the hash of a document that is on its way to it.
Accounted(n, d) ==
  \E R \in Documents :
    d = contentHash[R] /\ \A h \in R \cap Written : OnItsWay(n, h)

\* As long as nothing is lost or passed over: every node listens, a delta is
\* somewhere and is on its way to every node, announced to it or mistaken by
\* it for something else, and a hash that a node has met, and will not ask for
\* again, is that of a document on its way to it.
Reach ==
  ~ missed =>
    /\ \A n \in Nodes : inbox[n] # Exited
    /\ \A h \in Written : \E k \in Nodes : h \in held[k]
    /\ \A n \in Nodes, h \in Written : OnItsWay(n, h) \/ Announced(n, h) \/ Mistaken(n, h)
    /\ \A n \in Nodes : \A d \in seen[n] : Accounted(n, d)

\* A step that writes nothing.
LEMMA ReachStep ==
  ASSUME Reach, ~ missed, UNCHANGED <<delta, contentHash>>,
         \A n \in Nodes : held[n] \subseteq held'[n] /\ seen[n] \subseteq seen'[n],
         \A n \in Nodes : inbox'[n] # Exited,
         \A n \in Nodes, h \in Written : OnItsWay(n, h) => OnItsWay(n, h)',
         \A n \in Nodes, h \in Written :
           Announced(n, h) => OnItsWay(n, h)' \/ Announced(n, h)' \/ Mistaken(n, h)',
         \A n \in Nodes : \A d \in seen'[n] : d \in seen[n] \/ Accounted(n, d)'
  PROVE  Reach'
<1>1. Written' = Written /\ Documents' = Documents
  BY DEF Written, Exists, Documents, IsDocument
<1>2. \A h \in Written : \E k \in Nodes : h \in held'[k]
  BY DEF Reach
<1>3. \A n \in Nodes, h \in Written : Mistaken(n, h) => Mistaken(n, h)'
  BY <1>1 DEF Mistaken
<1>4. \A n \in Nodes, h \in Written : OnItsWay(n, h)' \/ Announced(n, h)' \/ Mistaken(n, h)'
  BY <1>3 DEF Reach
<1>5. \A n \in Nodes : \A d : Accounted(n, d) => Accounted(n, d)'
  BY <1>1 DEF Accounted
<1>6. \A n \in Nodes : \A d \in seen'[n] : Accounted(n, d)'
  BY <1>5 DEF Reach
<1> QED  BY <1>1, <1>2, <1>4, <1>6 DEF Reach

\* An announcement is out until it is taken from the network or the desk.
LEMMA AnnouncedStays ==
  ASSUME GossipInv, NEW n \in Nodes, NEW h, Announced(n, h),
         \A m \in Nodes : held[m] \subseteq held'[m] /\ (due[m] > 0 => due'[m] > 0),
         \A p \in net : p.msg.type = "ANNOUNCE" => p \in net',
         inbox[n].type = "MESSAGE" /\ inbox[n].msg.type = "ANNOUNCE" => inbox'[n] = inbox[n]
  PROVE  Announced(n, h)'
  BY DEF Announced

\* A step that takes nothing from the network, and writes and sees nothing.
LEMMA QuietReach ==
  ASSUME GossipInv, Reach, ~ missed, UNCHANGED <<delta, contentHash, held, seen,
                                                 due, inbox, loop>>,
         net \subseteq net'
  PROVE  Reach'
<1>1. \A n \in Nodes, h \in Written : OnItsWay(n, h) => OnItsWay(n, h)'
  BY WayStays DEF GossipInv, Sent
<1>2. \A n \in Nodes, h \in Written : Announced(n, h) => Announced(n, h)'
  BY AnnouncedStays
<1> QED  BY <1>1, <1>2, ReachStep DEF Reach

LEMMA AuthorReach ==
  ASSUME GossipInv, Reach, ~ missed, NEW n \in Nodes, NEW base, NEW h, Author(n, base, h)
  PROVE  Reach'
<1>1. /\ h \in Hashes \ Exists /\ held' = [held EXCEPT ![n] = @ \cup {h}]
      /\ due' = [due EXCEPT ![n] = @ + 1]
      /\ UNCHANGED <<contentHash, seen, inbox, loop, net>>
      /\ Exists' = Exists \cup {h} /\ \A x \in Exists : delta'[x] = delta[x]
  BY DEF Author, Exists
<1>2. Written' = Written \cup {h}
  BY <1>1 DEF Written, GossipInv, History
<1>3. /\ \A m \in Nodes : held[m] \subseteq held'[m] /\ (due[m] > 0 => due'[m] > 0)
      /\ h \in held'[n] /\ due'[n] > 0
  BY <1>1 DEF GossipInv, Typed
<1>4. \A m \in Nodes, x \in Written : OnItsWay(m, x) => OnItsWay(m, x)'
  BY <1>1, <1>3, WayStays DEF GossipInv, Sent
<1>5. \A m \in Nodes, x \in Written : Announced(m, x) => Announced(m, x)'
  BY <1>1, <1>3, AnnouncedStays
<1>6. \A m \in Nodes : Announced(m, h)'
  BY <1>3 DEF Announced
<1>7. Documents \subseteq Documents'
  BY <1>1, HistoryGrows DEF GossipInv, Exists
<1>8. \A m \in Nodes, x \in Written : Mistaken(m, x) => Mistaken(m, x)'
  BY <1>1, <1>7 DEF Mistaken
<1>9. ASSUME NEW m \in Nodes, NEW d \in seen[m] PROVE Accounted(m, d)'
  <2>1. PICK R \in Documents :
          d = contentHash[R] /\ \A x \in R \cap Written : OnItsWay(m, x)
    BY DEF Reach, Accounted
  <2>2. h \notin R
    BY <1>1, <2>1 DEF Documents
  <2> QED  BY <1>1, <1>2, <1>4, <1>7, <2>1, <2>2 DEF Accounted
<1>10. \A x \in Written' : \E k \in Nodes : x \in held'[k]
  BY <1>2, <1>3 DEF Reach
<1>11. \A m \in Nodes, x \in Written' :
         OnItsWay(m, x)' \/ Announced(m, x)' \/ Mistaken(m, x)'
  BY <1>2, <1>4, <1>5, <1>6, <1>8 DEF Reach
<1> QED  BY <1>1, <1>9, <1>10, <1>11 DEF Reach

\* An announcement that is due goes out to everybody else.
LEMMA SendAnnounceReach ==
  ASSUME GossipInv, Reach, ~ missed, ~ missed', NEW n \in Nodes, SendAnnounce(n)
  PROVE  Reach'
<1>1. /\ due' = [due EXCEPT ![n] = @ - 1]
      /\ Broadcast(n, IF held[n] = {} THEN {} ELSE {Announce(held[n])})
      /\ UNCHANGED <<delta, contentHash, held, seen, inbox, loop>>
  BY DEF SendAnnounce
<1>2. net \subseteq net'
  BY <1>1 DEF Broadcast
<1>3. \A k \in Nodes, h \in Written : OnItsWay(k, h) => OnItsWay(k, h)'
  BY <1>1, <1>2, WayStays DEF GossipInv, Sent
<1>4. \A m \in Nodes : m # n => due'[m] = due[m]
  BY <1>1 DEF GossipInv, Typed
<1>5. ASSUME NEW k \in Nodes, NEW h \in held[n] PROVE OnItsWay(k, h)' \/ Announced(k, h)'
  <2>1. CASE k = n
    BY <1>1, <1>5, <2>1 DEF OnItsWay
  <2>2. CASE k # n
    <3> DEFINE p == [to |-> k, msg |-> Announce(held[n])]
    <3>1. Broadcast(n, {Announce(held[n])})
      BY <1>1, <1>5
    <3>2. online = Nodes /\ net' = net \cup Packets(n, Announce(held[n]))
      BY <3>1 DEF Broadcast
    <3>3. p \in net'
      BY <2>2, <3>2 DEF Packets
    <3>4. p.to = k /\ p.msg.type = "ANNOUNCE" /\ p.msg.state = held[n]
      BY DEF Announce
    <3> HIDE DEF p
    <3>5. Announced(k, h)'
      BY <1>5, <3>3, <3>4 DEF Announced
    <3> QED  BY <3>5
  <2> QED  BY <2>1, <2>2
<1>6. ASSUME NEW k \in Nodes, NEW h \in Written, Announced(k, h)
      PROVE  OnItsWay(k, h)' \/ Announced(k, h)'
  <2>1. CASE h \in held[n]
    BY <1>5, <2>1
  <2>2. CASE h \notin held[n]
    BY <1>1, <1>2, <1>4, <1>6, <2>2 DEF Announced
  <2> QED  BY <2>1, <2>2
<1> QED  BY <1>1, <1>3, <1>6, ReachStep DEF Reach

LEMMA ReceiveReach ==
  ASSUME GossipInv, Reach, ~ missed, NEW n \in Nodes, NEW p \in net, Receive(n, p)
  PROVE  Reach'
<1> DEFINE in == [type |-> "MESSAGE", msg |-> p.msg, docs |-> held[n]]
<1>1. /\ p.to = n /\ inbox[n] = Nothing /\ net' = net \ {p}
      /\ inbox' = [inbox EXCEPT ![n] = in]
      /\ UNCHANGED <<delta, contentHash, held, seen, due>>
  BY DEF Receive
<1>2. in.type = "MESSAGE" /\ in.msg = p.msg /\ in # Exited
  BY DEF Exited
<1> HIDE DEF in
<1>3. inbox'[n] = in /\ \A m \in Nodes : m # n => inbox'[m] = inbox[m]
  BY <1>1 DEF GossipInv, Typed
<1>4. \A k \in Nodes, h \in Written : OnItsWay(k, h) => OnItsWay(k, h)'
  BY WayAtReceive
<1>5. ASSUME NEW k \in Nodes, NEW h \in Written, Announced(k, h)
      PROVE  Announced(k, h)'
  <2>1. CASE \E j \in Nodes : h \in held[j] /\ due[j] > 0
    BY <1>1, <2>1 DEF Announced
  <2>2. ASSUME NEW q \in net, q.to = k, q.msg.type = "ANNOUNCE", h \in q.msg.state
        PROVE  Announced(k, h)'
    <3>1. CASE q = p
      BY <1>1, <1>2, <1>3, <2>2, <3>1 DEF Announced
    <3>2. CASE q # p
      BY <1>1, <2>2, <3>2 DEF Announced
    <3> QED  BY <3>1, <3>2
  <2>3. CASE /\ inbox[k].type = "MESSAGE" /\ inbox[k].msg.type = "ANNOUNCE"
             /\ h \in inbox[k].msg.state
    <3>1. k # n
      BY <1>1, <2>3 DEF Nothing
    <3> QED  BY <1>3, <2>3, <3>1 DEF Announced
  <2> QED  BY <1>5, <2>1, <2>2, <2>3 DEF Announced
<1>6. \A m \in Nodes : inbox'[m] # Exited
  BY <1>2, <1>3 DEF Reach
<1> QED  BY <1>1, <1>4, <1>5, <1>6, ReachStep

LEMMA RequestReach ==
  ASSUME GossipInv, Snapshots, Reach, ~ missed, ~ missed', NEW n \in Nodes,
         Route(n), RouteRequest(n)
  PROVE  Reach'
<1> DEFINE out == OnRequest(inbox[n].docs, inbox[n].msg.frontier)
<1>1. /\ inbox[n].msg.type = "REQUEST" /\ Broadcast(n, out)
      /\ UNCHANGED <<delta, contentHash, held, seen, due>>
  BY DEF RouteRequest
<1>2. net \subseteq net' /\ (out = {} \/ online = Nodes)
  BY <1>1 DEF Broadcast
<1>3. /\ \A m \in Nodes : m # n => inbox'[m] = inbox[m]
      /\ \A m \in Nodes : inbox'[m] = Exited => inbox[m] = Exited
  BY <1>1, DeskIsCleared
<1>4. \A k \in Nodes, h \in Written : OnItsWay(k, h) => OnItsWay(k, h)'
  BY <1>2, WayAtRequest
<1> HIDE DEF out
<1>5. \A k \in Nodes, h \in Written : Announced(k, h) => Announced(k, h)'
  BY <1>1, <1>2, <1>3, AnnouncedStays
<1>6. \A m \in Nodes : inbox'[m] # Exited
  BY <1>3 DEF Reach
<1> QED  BY <1>1, <1>4, <1>5, <1>6, ReachStep

\* A node asks for what it has not met, and takes the rest for what it has.
LEMMA AnnounceReach ==
  ASSUME GossipInv, Snapshots, Reach, ~ missed, ~ missed', NEW n \in Nodes,
         Route(n), RouteAnnounce(n)
  PROVE  Reach'
<1> DEFINE in == inbox[n]
           out == OnAnnounce(n, in.docs, in.msg.hash)
<1>1. /\ seen' = [seen EXCEPT ![n] = @ \cup {in.msg.hash}] /\ net \subseteq net'
      /\ in.docs # {} \/ Wants(n)
      /\ out = {} \/ online = Nodes
      /\ in.msg.type = "ANNOUNCE"
      /\ UNCHANGED <<delta, contentHash, held, due>>
  BY DEF RouteAnnounce
<1>2. /\ \A m \in Nodes : m # n => inbox'[m] = inbox[m]
      /\ \A m \in Nodes : inbox'[m] = Exited => inbox[m] = Exited
  BY <1>1, DeskIsCleared
<1>3. \A k \in Nodes, h \in Written : OnItsWay(k, h) => OnItsWay(k, h)'
  BY WayAtAnnounce
<1>4. in.msg.state \in Documents /\ in.msg.hash = contentHash[in.msg.state]
  BY <1>1 DEF Route, GossipInv, Sent, InboxOK, MessageOK
<1>5. Documents' = Documents /\ Written' = Written
  BY <1>1 DEF Documents, IsDocument, Exists, Written
<1>6. ASSUME in.msg.hash \notin seen[n], NEW h \in in.msg.state \cap Written
      PROVE  OnItsWay(n, h)'
  <2>1. out # {}
    BY <1>1, <1>6 DEF OnAnnounce
  <2>2. PICK m \in Nodes : h \in held[m] /\ inbox[m] # Exited
    BY <1>6 DEF Reach
  <2> QED  BY <1>1, <2>1, <2>2, ReactionAsks
<1> HIDE DEF out, in
<1>7. /\ \A m \in Nodes : seen[m] \subseteq seen'[m]
      /\ \A m \in Nodes : \A d \in seen'[m] :
           d \in seen[m] \/ (m = n /\ d = in.msg.hash /\ in.msg.hash \notin seen[n])
      /\ in.msg.hash \in seen'[n]
  BY <1>1 DEF GossipInv, Typed
<1>8. \A m \in Nodes : \A d \in seen'[m] : d \in seen[m] \/ Accounted(m, d)'
  BY <1>1, <1>4, <1>5, <1>6, <1>7 DEF Accounted
<1>9. ASSUME NEW k \in Nodes, NEW h \in Written, Announced(k, h)
      PROVE  OnItsWay(k, h)' \/ Announced(k, h)' \/ Mistaken(k, h)'
  <2>1. CASE k # n
    BY <1>1, <1>2, <1>9, <2>1, AnnouncedStays
  <2>2. CASE k = n /\ h \in in.msg.state
    BY <1>1, <1>4, <1>5, <1>7, <2>2 DEF Mistaken
  <2>3. CASE k = n /\ h \notin in.msg.state
    BY <1>1, <1>9, <2>3 DEF Announced, in
  <2> QED  BY <2>1, <2>2, <2>3
<1>10. \A m \in Nodes : inbox'[m] # Exited
  BY <1>2 DEF Reach
<1>11. \A m \in Nodes : held[m] \subseteq held'[m] /\ seen[m] \subseteq seen'[m]
  BY <1>1, <1>7
<1> QED  BY <1>1, <1>3, <1>8, <1>9, <1>10, <1>11, ReachStep

LEMMA MergingReach ==
  ASSUME GossipInv, Reach, ~ missed, ~ missed',
         \/ (\E h \in Hashes : Try(h)) \/ NextPass \/ EndLoop
         \/ \E n \in Nodes : \E p \in net : ReceiveDeltas(n, p)
  PROVE  Reach'
<1>1. ASSUME UNCHANGED <<delta, contentHash, seen, due, inbox>>,
             \A m \in Nodes : held[m] \subseteq held'[m],
             \A p \in net : p.msg.type = "ANNOUNCE" => p \in net',
             \A k \in Nodes, h \in Written : OnItsWay(k, h) => OnItsWay(k, h)'
      PROVE  Reach'
  <2>1. \A k \in Nodes, h \in Written : Announced(k, h) => Announced(k, h)'
    BY <1>1, AnnouncedStays
  <2> QED  BY <1>1, <2>1, ReachStep DEF Reach
<1>2. CASE (\E h \in Hashes : Try(h)) \/ NextPass \/ EndLoop
  <2>1. UNCHANGED <<delta, contentHash, seen, due, inbox, net>>
    BY <1>2 DEF Try, NextPass, EndLoop, nodeVars
  <2>2. \A k \in Nodes, h \in Written : OnItsWay(k, h) => OnItsWay(k, h)'
    BY <1>2, WayAtLoop
  <2>3. \A m \in Nodes : held[m] \subseteq held'[m]
    BY <1>2, LoopOnlyAdds
  <2> QED  BY <1>1, <2>1, <2>2, <2>3
<1>3. ASSUME NEW n \in Nodes, NEW p \in net, ReceiveDeltas(n, p) PROVE Reach'
  <2>1. /\ UNCHANGED <<delta, contentHash, seen, due, inbox>> /\ net' = net \ {p}
        /\ p.msg.type = "DELTAS" /\ (held[n] = {} => Wants(n))
    BY <1>3 DEF ReceiveDeltas
  <2>2. \A k \in Nodes, h \in Written : OnItsWay(k, h) => OnItsWay(k, h)'
    BY <1>3, <2>1, WayAtReceiveDeltas
  <2>3. \A m \in Nodes : held[m] \subseteq held'[m]
    BY <1>3, DeltasOnlyAdd
  <2> QED  BY <1>1, <2>1, <2>2, <2>3
<1> QED  BY <1>2, <1>3

LEMMA NextReach ==
  ASSUME GossipInv, Snapshots, Reach, [Next]_vars
  PROVE  Reach'
<1> SUFFICES ASSUME ~ missed' PROVE Reach'
  BY DEF Reach
<1>1. CASE Merging
  <2>1. ~ missed
    BY <1>1 DEF Merging, Try, NextPass, EndLoop, ghosts
  <2> QED  BY <1>1, <2>1, MergingReach DEF Merging
<1>2. ASSUME NEW n \in Nodes, Listening(n) PROVE Reach'
  <2>1. CASE Route(n)
    <3>1. ~ missed
      BY <2>1 DEF Route, RouteAnnounce, RouteRequest, Broadcast
    <3> QED  BY <2>1, <3>1, AnnounceReach, RequestReach DEF Route
  <2>2. ASSUME NEW p \in net, Receive(n, p) \/ ReceiveDeltas(n, p) PROVE Reach'
    <3>1. ~ missed
      BY <2>2 DEF Receive, ReceiveDeltas, ghosts
    <3> QED  BY <2>2, <3>1, ReceiveReach, MergingReach
  <2> QED  BY <1>2, <2>1, <2>2 DEF Listening
<1>3. ASSUME NEW n \in Nodes, SendAnnounce(n) PROVE Reach'
  <2>1. ~ missed
    BY <1>3 DEF SendAnnounce, Broadcast
  <2> QED  BY <1>3, <2>1, SendAnnounceReach
<1>4. ASSUME NEW n \in Nodes, NEW base, NEW h, Author(n, base, h) PROVE Reach'
  <2>1. ~ missed
    BY <1>4 DEF Author, ghosts
  <2> QED  BY <1>4, <2>1, AuthorReach
<1>5. ASSUME NEW n \in Nodes,
             \/ ColdStart(n) \/ Ask(n) \/ Withdraw(n) \/ Disconnect(n) \/ Connect(n)
             \/ \E batch \in SUBSET Exists : Stray(n, batch)
      PROVE  Reach'
  <2>1. ~ missed
    BY <1>5 DEF ColdStart, Ask, Withdraw, Disconnect, Connect, Stray, Broadcast, ghosts
  <2>2. UNCHANGED <<delta, contentHash, held, seen, due, inbox, loop>>
    BY <1>5 DEF ColdStart, Ask, Withdraw, Disconnect, Connect, Stray, nodeVars
  <2>3. net \subseteq net'
    <3>1. CASE Disconnect(n)
      <4>1. missed' = (missed \/ net' # net)
        BY <3>1 DEF Disconnect
      <4> QED  BY <4>1
    <3>2. CASE ~ Disconnect(n)
      BY <1>5, <3>2 DEF ColdStart, Ask, Withdraw, Connect, Stray, Broadcast
    <3> QED  BY <3>1, <3>2
  <2> QED  BY <2>1, <2>2, <2>3, QuietReach
<1>6. ASSUME NEW n \in Nodes, LoopExits(n) \/ \E saved : Crash(n, saved) PROVE FALSE
  BY <1>6 DEF LoopExits, Crash
<1>7. CASE UNCHANGED vars
  <2>1. ~ missed /\ UNCHANGED <<delta, contentHash, held, seen, due, inbox, loop,
                                net>>
    BY <1>7 DEF vars, nodeVars, ghosts
  <2> QED  BY <2>1, QuietReach
<1> QED  BY <1>1, <1>2, <1>3, <1>4, <1>5, <1>6, <1>7 DEF Next

\* As long as nothing is lost and nothing passed over, nodes cannot come to
\* rest with different documents but over deltas the content hash does not
\* show: nothing else is forgotten by the announcements, the `seen` filter,
\* stale snapshots or the retry loop.
THEOREM HoldersReconciledAtRest == Spec => []ReconciledAtRest
<1>1. Init => Snapshots /\ Tracked /\ Reach
  <2> SUFFICES ASSUME Init PROVE Snapshots /\ Tracked /\ Reach
    OBVIOUS
  <2>1. \A n \in Nodes : inbox[n] = Nothing /\ owed[n] = {} /\ seen[n] = {}
    BY DEF Init
  <2>2. Written = {}
    BY DEF Init, Written, Exists
  <2> QED  BY <2>1, <2>2 DEF Snapshots, Tracked, Reach, Nothing, Exited
<1>2. GossipInv /\ Snapshots /\ Tracked /\ [Next]_vars => Snapshots' /\ Tracked'
  BY NextTracked
<1>3. GossipInv /\ Snapshots /\ Reach /\ [Next]_vars => Reach'
  BY NextReach
<1>4. ASSUME GossipInv, Reach PROVE ReconciledAtRest
  <2> SUFFICES ASSUME Quiescent, ~ missed, NEW n \in Holders, NEW m \in Holders,
                      NEW h \in held[n] \ held[m]
               PROVE  Mistakable(m, h)
    BY DEF ReconciledAtRest, Reconciled
  <2>1. /\ n \in Nodes /\ m \in Nodes /\ IsWhole(held[n]) /\ IsWhole(held[m])
        /\ held[n] # {} /\ held[m] # {}
    BY <1>4 DEF Holders, GossipInv, Whole
  <2>2. Genesis \in held[m] /\ h \in Written
    BY <2>1 DEF IsWhole, IsDocument, Written
  <2>3. /\ \A k \in Nodes : inbox[k] = Nothing /\ due[k] = 0
        /\ \A p \in net : FALSE
    BY <1>4 DEF Quiescent, Reach, GossipInv, Sent
  <2>4. \A x : OnItsWay(m, x) => x \in held[m]
    BY <2>3 DEF OnItsWay, Requested, Answered, BeingMerged, Nothing, Quiescent
  <2>5. ~ Announced(m, h)
    BY <2>1, <2>3 DEF Announced, Nothing
  <2>6. PICK S \in Documents : h \in S /\ contentHash[S] \in seen[m]
    BY <1>4, <2>1, <2>2, <2>4, <2>5 DEF Reach, Mistaken
  <2>7. PICK R \in Documents :
          contentHash[S] = contentHash[R] /\ \A x \in R \cap Written : OnItsWay(m, x)
    BY <1>4, <2>1, <2>6 DEF Reach, Accounted
  <2>8. R \subseteq held[m]
    BY <2>2, <2>4, <2>7 DEF Documents, IsDocument, Written
  <2> QED  BY <2>6, <2>7, <2>8 DEF Mistakable
<1>5. GossipInv /\ Reach => ReconciledAtRest
  BY <1>4
<1> QED  BY <1>1, <1>2, <1>3, <1>5, GossipInvariant, PTL DEF Spec
=============================================================================
