------------------------------- MODULE Gossip -------------------------------
(***************************************************************************)
(* Replication of one DID over the gossip topic: the routing of            *)
(* sync/gossip.rs, the wire messages of sync/protocol.rs and the receive   *)
(* loop of sync/live.rs.                                                   *)
(*                                                                         *)
(* A document is the set of the deltas a node holds, {} where it has no    *)
(* document: Document shows that its state is a function of that set and   *)
(* that admission of an honest delta waits for its parents and for nothing *)
(* else.  So the content hash of a document is some function of the set.   *)
(* The set is not a function of the hash: a delta may change nothing that  *)
(* content_hash reads (run state_hash), and then two documents that the    *)
(* protocol should reconcile are announced with one hash.                  *)
(***************************************************************************)
EXTENDS DeltaDag, Naturals

CONSTANTS
  Nodes,
  Seeds,           \* nodes that hold the document when the story begins
  Genesis,         \* the genesis delta of the DID
  Foreign,         \* the genesis delta of another DID
  Setups,          \* pairs: the nodes that are run with REPLICATE_ALL=true, and
                   \* the function Document::content_hash is on documents
  StraySize,       \* deltas in an unsolicited batch
  MaxFaults        \* cold starts, lost connections, crashes, ended loops and
                   \* unsolicited DELTAS

ASSUME RootsAreHashes == {Genesis, Foreign} \subseteq Hashes /\ Genesis # Foreign
ASSUME SomeoneHolds == Seeds \subseteq Nodes
\* What a document may consist of.
Contents == {S \in SUBSET Hashes : Genesis \in S /\ Foreign \notin S}

ASSUME SetupsArePairs ==
  \A s \in Setups : s[1] \subseteq Nodes /\ DOMAIN s[2] = Contents
ASSUME BoundsAreNumbers == {StraySize, MaxFaults} \subseteq Nat

VARIABLES
  delta,     \* the deltas that exist: hash -> content
  contentHash,     \* document -> Document::content_hash of it; never changes
  held,      \* node -> its document
  replicateAll,    \* nodes that take every DID (BootstrapPolicy)
  seen,      \* node -> GossipState::seen, the announced hashes it has met
  wanted,    \* nodes with the DID in BootstrapPolicy::wanted
  asked,     \* those of them that have broadcast their REQUEST
  due,       \* node -> handlers that have merged and not yet announced
  inbox,     \* node -> the message being routed and the snapshot it is routed
             \* with, or Nothing
  loop,      \* the retry loop of merge_inbound in progress, or Nothing
  net,       \* packets in flight
  online,    \* nodes joined to the topic
  faults,    \* how many there have been
  missed,    \* whether a packet was lost, or an announcement or a batch passed
             \* over by a node that has no document and wants none
  owed       \* node -> deltas it has asked for since the last fault, and not
             \* given up

policy == <<replicateAll, wanted, asked>>
nodeVars == <<held, seen, policy, due, inbox>>
ghosts == <<missed, owed>>
vars == <<delta, contentHash, nodeVars, loop, net, online, faults, ghosts>>

Nothing == [type |-> "NOTHING"]
Exited == [type |-> "EXITED"]      \* the receive loop has ended
Exists == DOMAIN delta

\* The genesis, and the whole past of every delta.
IsDocument(S) ==
  Genesis \in S /\ Foreign \notin S /\ Referenced(delta, S) \subseteq S

Documents == {S \in SUBSET Exists : IsDocument(S)}

----------------------------------------------------------------------------
(* SyncMessage *)

\* `state` is what the hash was taken of; the code does not send it.
Announce(S) == [type |-> "ANNOUNCE", hash |-> contentHash[S], state |-> S]
Request(F) == [type |-> "REQUEST", frontier |-> F]
\* `above` is the frontier the batch answers; the code does not send it.
Deltas(B, F) == [type |-> "DELTAS", deltas |-> B, above |-> F]

\* Gossip::broadcast reaches the nodes that are on the topic now.
Packets(n, msg) == {[to |-> m, msg |-> msg] : m \in online \ {n}}
Broadcast(n, msgs) ==
  /\ net' = net \cup UNION {Packets(n, msg) : msg \in msgs}
  /\ missed' = (missed \/ (msgs # {} /\ online # Nodes))

----------------------------------------------------------------------------
(* GossipState::handle, on the snapshot S of the node's document: the       *)
(* messages to broadcast.                                                   *)

\* BootstrapPolicy::wants
Wants(n) == n \in replicateAll \/ n \in wanted

\* Deduplication by DID instead of by DID and hash.
OnAnnounceByDid(n, S, hash) ==
  IF seen[n] # {} THEN {}
  ELSE IF S # {} THEN {Request(Leaves(delta, S))}
  ELSE IF Wants(n) THEN {Request({})}
  ELSE {}

OnAnnounce(n, S, hash) ==
  IF hash \in seen[n] THEN {}
  ELSE IF S # {} THEN {Request(Leaves(delta, S))}
  ELSE IF Wants(n) THEN {Request({})}
  ELSE {}

Dag(S) == RebuildDag(delta, S)

\* Nothing for a document that is not held or an answer that is empty.
OnRequest(S, frontier) ==
  LET batch == DeltasForPeer(delta, Dag(S), frontier)
  IN  IF batch = {} THEN {} ELSE {Deltas(batch, frontier)}

----------------------------------------------------------------------------
(* merge_inbound *)

\* Deltas that come without parents pass for genesis deltas.
Roots(B) == {h \in B : delta[h].parents = {}}

\* A bootstrap that does not compare the DID.
BootstrapsUnchecked(B) == Cardinality(Roots(B)) = 1

\* genesis_bootstrap gets past its checks: one root, which is this DID's.
Bootstraps(B) == Roots(B) = {Genesis}

\* A retry loop of one pass.
LoopEndsAtOnce(l) == l.pending = {}

\* The condition under which merge_inbound leaves its loop.
LoopEnds(l) == l.pending = {} /\ (l.still = {} \/ ~ l.progressed)

StartLoop(n, batch, above) ==
  loop' = [type |-> "LOOP", node |-> n, batch |-> batch, above |-> above,
           pending |-> batch, still |-> {}, progressed |-> FALSE]

\* Document::merge_verified_delta leaves a delta pending while a parent is
\* missing; it refuses the genesis of another DID and applies the others.
IsPending(S, h) == ~ (delta[h].parents \subseteq S)
Merged(S, h) == IF h = Foreign THEN S ELSE S \cup {h}

----------------------------------------------------------------------------
(* Behaviour *)

Init ==
  /\ delta = [h \in {Genesis, Foreign} |-> [parents |-> {}]]
  /\ held = [n \in Nodes |-> IF n \in Seeds THEN {Genesis} ELSE {}]
  /\ seen = [n \in Nodes |-> {}]
  /\ \E s \in Setups : replicateAll = s[1] /\ contentHash = s[2]
  /\ wanted = {}
  /\ asked = {}
  /\ due = [n \in Nodes |-> IF n \in Seeds THEN 1 ELSE 0]
  /\ inbox = [n \in Nodes |-> Nothing]
  /\ loop = Nothing
  /\ net = {}
  /\ online = Nodes
  /\ faults = 0
  /\ missed = FALSE
  /\ owed = [n \in Nodes |-> {}]

\* submit_delta merges a delta its author built on what this node had when the
\* author looked; the announcement follows.
Author(n, base, h) ==
  /\ loop = Nothing
  /\ held[n] # {}
  /\ h \in Hashes \ Exists
  /\ \A x \in Hashes \ Exists : h <= x
  /\ delta' = [x \in Exists \cup {h} |->
                 IF x = h THEN [parents |-> Leaves(delta, base)] ELSE delta[x]]
  /\ held' = [held EXCEPT ![n] = @ \cup {h}]
  /\ due' = [due EXCEPT ![n] = @ + 1]
  /\ UNCHANGED <<contentHash, seen, policy, inbox, loop, net, online, faults,
                 ghosts>>

\* LiveNode::announce: the state as it is by now.  (The state is not noted as
\* seen: that is done by GossipEngine::announce, which nothing calls.)
SendAnnounce(n) ==
  /\ loop = Nothing
  /\ due[n] > 0
  /\ due' = [due EXCEPT ![n] = @ - 1]
  /\ Broadcast(n, IF held[n] = {} THEN {} ELSE {Announce(held[n])})
  /\ UNCHANGED <<delta, contentHash, held, seen, policy, inbox, loop, online,
                 faults, owed>>

\* run_loop takes an ANNOUNCE or a REQUEST and a snapshot of the documents.
Receive(n, p) ==
  /\ loop = Nothing
  /\ p.to = n /\ inbox[n] = Nothing /\ p.msg.type # "DELTAS"
  /\ net' = net \ {p}
  /\ inbox' = [inbox EXCEPT ![n] = [type |-> "MESSAGE", msg |-> p.msg,
                                    docs |-> held[n]]]
  /\ UNCHANGED <<delta, contentHash, held, seen, policy, due, loop, online, faults,
                 ghosts>>

\* A node that can answer holds the state.
Available(S) ==
  online = Nodes /\ \E m \in Nodes : S \subseteq held[m] /\ inbox[m] # Exited

RouteAnnounce(n) ==
  LET in  == inbox[n]
      out == OnAnnounce(n, in.docs, in.msg.hash)
  IN  /\ in.msg.type = "ANNOUNCE"
      /\ seen' = [seen EXCEPT ![n] = @ \cup {in.msg.hash}]
      /\ net' = net \cup UNION {Packets(n, msg) : msg \in out}
      /\ missed' = (missed \/ (in.docs = {} /\ ~ Wants(n))
                           \/ (out # {} /\ online # Nodes))
      /\ owed' = IF out # {} /\ Available(in.msg.state)
                   THEN [owed EXCEPT ![n] = @ \cup in.msg.state] ELSE owed
      /\ UNCHANGED <<delta, contentHash, held, policy, due, loop, online, faults>>

RouteRequest(n) ==
  LET in == inbox[n]
  IN  /\ in.msg.type = "REQUEST"
      /\ Broadcast(n, OnRequest(in.docs, in.msg.frontier))
      /\ UNCHANGED <<delta, contentHash, held, seen, policy, due, loop, online,
                     faults, owed>>

\* genesis_bootstrap: a document of the genesis alone, and the loop for the
\* rest; or an error, and nothing.
GenesisBootstrap(n, batch, above) ==
  IF Bootstraps(batch)
    THEN /\ held' = [held EXCEPT ![n] = Roots(batch)]
         /\ StartLoop(n, batch \ Roots(batch), above)
    ELSE UNCHANGED <<held, loop>>

\* DELTAS are handed to merge_inbound, which looks at the documents as they
\* are now; this is merge_inbound up to its loop.
ReceiveDeltas(n, p) ==
  LET batch == p.msg.deltas
  IN  /\ loop = Nothing
      /\ p.to = n /\ inbox[n] = Nothing /\ p.msg.type = "DELTAS"
      /\ net' = net \ {p}
      /\ \/ /\ held[n] # {}
            /\ StartLoop(n, batch, p.msg.above)
            /\ UNCHANGED held
         \/ held[n] = {} /\ Wants(n) /\ GenesisBootstrap(n, batch, p.msg.above)
         \/ held[n] = {} /\ ~ Wants(n) /\ UNCHANGED <<held, loop>>
      /\ missed' = (missed \/ (held[n] = {} /\ ~ Wants(n)))
      /\ UNCHANGED <<delta, contentHash, seen, policy, due, inbox, online, faults,
                     owed>>

Route(n) ==
  /\ loop = Nothing
  /\ inbox[n] \notin {Nothing, Exited}
  /\ inbox' = [inbox EXCEPT ![n] = Nothing]
  /\ RouteAnnounce(n) \/ RouteRequest(n)

\* The retry loop owns the documents, so nothing else moves; the batch may
\* list its deltas in any order.
Try(h) ==
  /\ loop # Nothing /\ h \in loop.pending
  /\ IF IsPending(held[loop.node], h)
       THEN /\ loop' = [loop EXCEPT !.pending = @ \ {h}, !.still = @ \cup {h}]
            /\ UNCHANGED held
       ELSE /\ loop' = [loop EXCEPT !.pending = @ \ {h}, !.progressed = TRUE]
            /\ held' = [held EXCEPT ![loop.node] = Merged(@, h)]
  /\ UNCHANGED <<delta, contentHash, seen, policy, due, inbox, net, online, faults,
                 ghosts>>

NextPass ==
  /\ loop # Nothing /\ loop.pending = {} /\ ~ LoopEnds(loop)
  /\ loop' = [loop EXCEPT !.pending = loop.still, !.still = {},
                          !.progressed = FALSE]
  /\ UNCHANGED <<delta, contentHash, nodeVars, net, online, faults, ghosts>>

EndLoop ==
  /\ loop # Nothing /\ LoopEnds(loop)
  /\ loop' = Nothing
  /\ UNCHANGED <<delta, contentHash, nodeVars, net, online, faults, ghosts>>

\* cold_start_bootstrap registers the DID, broadcasts a REQUEST for its whole
\* history (one stands for the repetitions) and withdraws the DID at the end.
ColdStart(n) ==
  /\ loop = Nothing
  /\ n \notin wanted /\ held[n] = {} /\ faults < MaxFaults
  /\ faults' = faults + 1
  /\ wanted' = wanted \cup {n}
  /\ UNCHANGED <<delta, contentHash, held, seen, replicateAll, asked, due, inbox,
                 loop, net, online, ghosts>>

Ask(n) ==
  /\ loop = Nothing
  /\ n \in wanted \ asked
  /\ asked' = asked \cup {n}
  /\ Broadcast(n, {Request({})})
  /\ UNCHANGED <<delta, contentHash, held, seen, replicateAll, wanted, due, inbox,
                 loop, online, faults, owed>>

Withdraw(n) ==
  /\ loop = Nothing
  /\ n \in wanted
  /\ wanted' = wanted \ {n}
  /\ asked' = asked \ {n}
  /\ owed' = IF held[n] = {} THEN [owed EXCEPT ![n] = {}] ELSE owed
  /\ UNCHANGED <<delta, contentHash, held, seen, replicateAll, due, inbox, loop,
                 net, online, faults, missed>>

\* A peer sends deltas nobody asked for (they answer no frontier: no document
\* holds every hash).
Stray(n, batch) ==
  /\ loop = Nothing
  /\ batch # {} /\ Cardinality(batch) = StraySize
  /\ faults < MaxFaults
  /\ faults' = faults + 1
  /\ net' = net \cup {[to |-> n, msg |-> Deltas(batch, Hashes)]}
  /\ UNCHANGED <<delta, contentHash, nodeVars, loop, online, ghosts>>

\* A node loses its connections and what is on the way to it.
Disconnect(n) ==
  /\ loop = Nothing
  /\ n \in online /\ faults < MaxFaults
  /\ faults' = faults + 1
  /\ online' = online \ {n}
  /\ net' = {p \in net : p.to # n}
  /\ missed' = (missed \/ net' # net)
  /\ owed' = [m \in Nodes |-> {}]
  /\ UNCHANGED <<delta, contentHash, nodeVars, loop>>

\* A process dies and a new one starts from the snapshot on disk, which need
\* not be the last state (Service says which it may be).
Crash(n, saved) ==
  /\ loop = Nothing
  /\ n \in online /\ faults < MaxFaults
  /\ faults' = faults + 1
  /\ online' = online \ {n}
  /\ held' = [held EXCEPT ![n] = saved]
  /\ seen' = [seen EXCEPT ![n] = {}]
  /\ wanted' = wanted \ {n}
  /\ asked' = asked \ {n}
  /\ due' = [due EXCEPT ![n] = 0]
  /\ inbox' = [inbox EXCEPT ![n] = Nothing]
  /\ net' = {p \in net : p.to # n}
  /\ missed' = TRUE
  /\ owed' = [m \in Nodes |-> {}]
  /\ UNCHANGED <<delta, contentHash, replicateAll, loop>>

\* stream.recv() fails (the subscriber fell behind) and run_loop returns; the
\* process goes on serving.
LoopExits(n) ==
  /\ loop = Nothing
  /\ n \in online /\ inbox[n] = Nothing /\ faults < MaxFaults
  /\ faults' = faults + 1
  /\ inbox' = [inbox EXCEPT ![n] = Exited]
  /\ missed' = TRUE
  /\ owed' = [m \in Nodes |-> {}]
  /\ UNCHANGED <<delta, contentHash, held, seen, policy, due, loop, net, online>>

\* LiveNode::seed and connect: join the topic, and nothing else.
Connect(n) ==
  /\ loop = Nothing
  /\ n \notin online
  /\ online' = online \cup {n}
  /\ UNCHANGED <<delta, contentHash, nodeVars, loop, net, faults, ghosts>>

Merging == (\E h \in Hashes : Try(h)) \/ NextPass \/ EndLoop
Listening(n) == Route(n) \/ \E p \in net : Receive(n, p) \/ ReceiveDeltas(n, p)

Next ==
  \/ Merging
  \/ \E n \in Nodes :
       \/ Listening(n)
       \/ SendAnnounce(n)
       \/ \E base \in SUBSET held[n], h \in Hashes :
            IsDocument(base) /\ Author(n, base, h)
       \/ ColdStart(n) \/ Ask(n) \/ Withdraw(n)
       \/ \E batch \in SUBSET Exists : Stray(n, batch)
       \/ Disconnect(n) \/ LoopExits(n)
       \/ \E saved \in SUBSET held[n] :
            (saved = {} \/ IsDocument(saved)) /\ Crash(n, saved)
       \/ Connect(n)

\* The receive loops and the handlers are tasks the runtime schedules, the
\* transport delivers what it does not lose, and a lost connection comes back:
\* some such step happens while one can.  Writes, cold starts and faults are
\* not promised.
System ==
  Merging \/ \E n \in Nodes : Listening(n) \/ SendAnnounce(n) \/ Connect(n)

Spec == Init /\ [][Next]_vars /\ WF_vars(System)

----------------------------------------------------------------------------
(* Properties *)

\* Types; and a document is the genesis with whole histories, whatever batches
\* arrived, in whatever order and interrupted by whatever fault, so a node can
\* answer every REQUEST (deltas_for_peer never fails for a missing ancestor).
TypeOK ==
  /\ missed \in BOOLEAN /\ \A n \in Nodes : owed[n] \subseteq Exists
  /\ Exists \subseteq Hashes
  /\ \A n \in Nodes : held[n] = {} \/ (held[n] \subseteq Exists /\ IsDocument(held[n]))
  /\ \A n \in Nodes : /\ seen[n] \subseteq {contentHash[S] : S \in Documents}
                     /\ due[n] \in Nat
  /\ asked \subseteq wanted /\ wanted \subseteq Nodes /\ online \subseteq Nodes
  /\ \A p \in net : p.to \in Nodes /\ p.msg.type \in {"ANNOUNCE", "REQUEST", "DELTAS"}

\* The retry loop gets everything out of a batch: at its end no delta is left
\* out whose parents the document holds, in whatever order they were listed
\* (merge_inbound, "with retry so out-of-order deltas held DeltaPending
\* resolve").
BatchIsExhausted ==
  [][EndLoop =>
       \A h \in loop.batch \ {Foreign} :
         h \notin held[loop.node] => IsPending(held[loop.node], h)]_vars

\* A batch that answers a frontier the document still holds is applied to the
\* last delta, although the frontier in the REQUEST was that of an older
\* snapshot and the answer may come late, twice, or to another node.
AnswersFit ==
  [][EndLoop /\ loop.above \subseteq held[loop.node] =>
       loop.batch \subseteq held[loop.node]]_vars

Holders == {n \in Nodes : held[n] # {}}
Agreed == \A n, m \in Holders : held[n] = held[m]

\* A document with h has the content hash of a part of what m holds, so that
\* m may take an announcement of h for one it has met before.
Mistakable(m, h) ==
  \E S, R \in Documents :
    h \in S /\ R \subseteq held[m] /\ contentHash[S] = contentHash[R]

Reconciled ==
  \A n, m \in Holders : \A h \in held[n] \ held[m] : Mistakable(m, h)

\* CON-004: as long as nothing is lost and nothing passed over, all holders
\* come to hold the same, whoever writes when, but for deltas that the content
\* hash does not show: there is no other way to stay apart (GossipState::handle
\* passes over a hash it has met).  Where the hash tells all documents apart,
\* this is agreement.
Converges == [](~ missed) => <>[]Reconciled

\* Nothing is on its way and nobody has anything to do.
Quiescent ==
  /\ loop = Nothing /\ online = Nodes
  /\ \A n \in Nodes : due[n] = 0 /\ inbox[n] \in {Nothing, Exited}
  /\ \A p \in net : inbox[p.to] = Exited

\* The part of Converges that is a matter of safety: there is no way to come to
\* rest apart but over deltas that the content hash does not show.
ReconciledAtRest == Quiescent /\ ~ missed => Reconciled

\* After the last fault, an announcement a node reacts to is enough: when all
\* is quiet it holds every delta announced, whatever it had lost before.
AnnouncementSuffices == Quiescent => \A n \in Nodes : owed[n] \subseteq held[n]

\* "On connection: exchange ANNOUNCE for all locally-known DIDs"
\* (sync/protocol.rs): once everybody is connected and listens, holders agree.
ReconnectConverges ==
  [](\A n \in Nodes : inbox[n] # Exited) /\ <>[](online = Nodes) => <>[]Agreed
=============================================================================
