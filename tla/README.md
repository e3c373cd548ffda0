# A verification project for did-crdt

did-crdt keeps a DID document as a product of CRDTs, changed by signed deltas
that commit to their causal predecessors (a Merkle DAG). There is no consensus
and no coordinator: every replica decides on its own whether a delta is
admissible and must come to the same decision, and the same document, as every
other. Around this core are a gossip protocol, a node with an HTTP interface
and a durable store, and a directory in which holders are found. This project
models all of them in TLA+, checks them with TLC on small instances and proves
their main invariants with TLAPS for instances of any size.

Paths below are relative to the repository; the crate's code is in `src/`.

## 1. Inventory

| Component | State | Operations | What makes it correct |
|---|---|---|---|
| Hybrid logical clock (`core/hlc.rs`) | last timestamp | `new`, `send`, `recv` | later than everything in the causal past; no timestamp twice, but for restarts at a used wall time and an exhausted counter |
| Delta DAG (`core/dag.rs`) | deltas by hash, referenced parents, frontier | `insert`, closure queries | frontier = leaves in every order of arrival; queries see exactly the causal past |
| Reconciliation (`core/recon.rs`) | none (reads the DAG) | `missing_from_frontier`, `extract_closure`, `deltas_for_peer`, `merge_bundle` | a pruned answer loses nothing; an empty fetch list means synchronised |
| Admission verdict (`core/admission.rs`) | none | `meet`, order | conjunction in any order; a refusal is permanent |
| Causal authorisation (`core/causal.rs`) | none | `verify_causal` | a function of the causal past alone; never reversed |
| CRDT fields (`core/crdt.rs`) | sets, ORSWOT, LWW map and register, max-register, latch | insert/set/rotate/remove, merge | replay and state merge agree; semilattice laws |
| Signed deltas (`core/delta.rs`) | content, parents, proof | construction, content hash | the hash commits to everything but the proof |
| Validation (`core/validate.rs`) | none | `verify_signature`, `check_authorisation`, recogniser | only the key behind a node id signs under it |
| Document (`core/document.rs`) | all fields, log, DAG | `new`, `merge`, `merge_verified_delta`, `merge_state`, `merge_verified_bundle`, export, serialisation, `content_hash`, `resolve` | strong eventual consistency; complete history; only authorised deltas |
| Gossip (`sync/gossip.rs`, `sync/protocol.rs`) | seen (did, hash) pairs, wanted set | ANNOUNCE / REQUEST / DELTAS, bootstrap, retry loop | replicas that can talk converge; documents stay whole; nothing unsolicited is stored |
| Live node (`sync/live.rs`) | shared document store, policy | bind, connect, announce, receive loop, cold start | stale snapshots and timeouts do no harm; every request ends |
| Blob store (`sync/store.rs`) | blobs, tags | save, load, load_all | a crash leaves a loadable snapshot |
| HTTP service (`service/`) | shared document store | create, submit, resolve, persist, start, stop | what was answered is kept |
| DHT (`sync/dht.rs`) | last publications, one record per DID | publish, lookup, refresh | a refreshed holder is found for the lifetime of its record, and found again after every lapse |
| Resolution (`core/resolve.rs`) | none (reads a document) | `resolve`, `closure_bundle` | restates what the deltas carry, and proves it |
| DID syntax (`core/did.rs`), metrics, anchor trait, binaries | none of interest | parsing, counters | - |

How they interact: a device stamps an operation with its clock, builds a delta
on the frontier of its replica and submits it. The document checks causal
admission (DAG, `verify_causal`), the signature and the floor for imported
facts, applies the operation to the CRDT fields, inserts the delta into the DAG
and appends it to the log. Deltas reach other replicas singly, as bundles (all
or nothing) or, inside a trusted domain, as a whole state. The gossip layer
announces content hashes, answers frontiers with deltas, and merges what comes
in; the service and the live node share one store of documents behind a mutex
that is never held across an await.

What is hard here: the order of arrival (children before parents, removes
before concurrent adds, revocations before or after what they revoke);
admission that has to be independent of that order; three ways to transport the
same history that have to give one state; version vectors that are sound only
if timestamps are unique and a node chains its deltas; clocks that stand still,
run back or restart; and, in the layers around the core, state read before an
await, lost messages, timeouts and crashes between two writes. `PROJECT.json`
lists these hazards line by line with the properties that cover them.

## 2. Modules

| Module | Stands for |
|---|---|
| `HlcTimestamp` | timestamps, their order, `advance_send`, `advance_recv` (counter modulo `LogicalWidth`) |
| `Hlc` | clocks that send, receive and restart at any wall time, with the causal past of each event as a history variable |
| `DeltaDag` | the DAG and the reconciliation queries as operators |
| `DagSync` | replicas that grow DAGs, receive deltas in any order and exchange frontiers and bundles |
| `AdmissionResult` | the verdict and its conjunction |
| `Causal` | `verify_causal` |
| `Crdt` | the CRDT fields as operators |
| `Document` | replicas of one document: authoring, delivery, state merge, bundle import |
| `CausalLog` | the abstract specification: replicas hold causally closed, growing parts of one graph |
| `Resolve` | what a resolver answers about a replica |
| `Gossip` | nodes that replicate one DID over the topic |
| `BlobStore` | the snapshots of one DID as operators |
| `Service` | one node: request handlers, receive loop, store, crashes and starts |
| `Dht` | holders of one DID and their record on the relay, in time |
| `MCDocument`, `MCGossip`, `MCService` | instances for TLC |
| `DeltaDagLemmas`, `DagSyncProofs`, `HlcProofs`, `DocumentProofs`, `StateProofs`, `GossipProofs`, `ServiceProofs`, `DhtProofs` | theorems |

Each module with behaviour extends the operator modules it needs: `Document`
extends `Causal` (over `DeltaDag` and `AdmissionResult`) and `Crdt` (over
`HlcTimestamp`); `Resolve` extends `Document`, `Gossip` extends `DeltaDag`,
`Service` extends `BlobStore`. The layers meet in the abstraction of a document: `Gossip` and
`Service` take it as a causally closed set of deltas with the genesis, which is
what `CausalLog` says of a replica and `RefinesLog` proves of `Document`, and
`StatesAreHistories` proves that everything else in a document is a function
of that set.

### Correspondence with the code

* A content hash is a number; `delta` (the content behind the hashes) is global
  because a hash determines its content. Two deltas with equal content are one
  delta, whatever their proofs. Hashes are handed out in order of creation,
  which expresses that a delta can only name parents that exist.
* A traversal with a stack and a visited set is the least set closed under its
  step (`Visited`); the present part of it is the closure, the absent part the
  fetch list.
* `Document` keeps, per replica, the fields of the struct: `vms`, `services`,
  `data`, `aka`, `active`, `creds`, `revoked`, `deactivated`, `updated`, `log`
  and `dag`. The log is a map from hash to the key id in the stored proof. Its
  order is not kept: it is the order of insertion into a DAG, by a load or a state
  merge, and the DAG is the same for every such order
  (`FrontierIsLeaves`, `HistoryComplete`). Serialisation itself (`to_bytes`,
  `from_bytes`, the refusal of an empty log) is not modelled.
* `Admits` is `merge_verified_delta` (not held, not pending, signature, then
  `merge`); `CausallyAdmitted` and `AboveFloor` are steps 3 and 4 of `merge`.
  The static gates (size, DID, alias recogniser, reserved names, canonical
  parents) depend on the content alone and are one Boolean of it.
* `merge_verified_bundle` is modelled step by step on a working copy (`work`):
  `StartImport`, then `Skip`, `Replay` or `Abort` per delta in any topological
  order, then `Commit`. It is one synchronous call, so nothing else moves
  meanwhile. Deadlock checking is on: an import that could neither go on nor
  end would be reported.
* A key is identified with the node id derived from it. Cryptography is assumed
  to work: a signature verifies only under the key that made it, and hashes do
  not collide.
* `Craft` is a device that ignores its replica's frontier, claims another
  node id or skips the gates; `Tampering` lets proofs be replaced on the way
  and lets bundles consist of anything. These are the inputs the
  trust-boundary functions are written for.

Left out of `Document`: `created_ms` (constant after creation) and suites
(payload).

`Resolve` is a set of operators over the state of `Document`, evaluated in every
state of its runs. The arrays of the answer are sets. The relationships of a key
are a function of the key, where the code takes them from the operation that
adds it. The filter on reserved names is kept although the gates refuse such
names before they get that far.

`Hlc`: a restart is `Hlc::new` at any wall time, and nothing is compared with
the old clock, which is gone. The ghost `rewound` has the nodes that were
restarted at a wall time they had used before.

`Gossip`: a document is the set of deltas held ({} where there is none). The
announced hash is a function of that set and not the set: `content_hash` leaves
`also_known_as` out, and an operation that adds what is there with an older wall
time changes nothing it reads, so two documents may have one hash and the `seen`
filter may pass over the announcement of a new delta. The function is a parameter
(`contentHash`, chosen from `Setups`); the proofs take any, and the run has one
that tells all documents apart and one that hides a delta. An announcement also
carries the set as a ghost, which no decision reads. `Receive` takes the message together with the
snapshot of the documents, `Route` is what happens after the await; the retry loop of
`merge_inbound` is one step per delta (`Try`) and per pass, in any order of the
batch, and nothing else moves meanwhile because it owns the lock. A cold start's
repeated REQUESTs are one. Packets are a set: two identical ones in flight are one. The library's transport is
external; it delivers to whoever is on the topic, in any order, or loses what is
on its way when a node disconnects. Faults are: a lost connection, a crash that
comes back with any earlier whole document, a receive loop that ends, a batch
nobody asked for (of any existing deltas, with or without their parents or a
genesis), a cold start.

`Service`: a task is a handler or the receive loop and a step is what it does
between two awaits, so every interleaving the mutex and the runtime allow is
there. A save is three steps (clone, import, tag). `store` is what the process
reads, `disk` what survives it; the store makes its writes durable some time
later, in order. It is configured with sync, DHT and `STORAGE_PATH`. Faults are:
a crash, a failed save, a failed listing at the start, a client
that leaves, which drops its handler at the await it is in. A graceful stop is
not counted with the others by `MaxFaults`. `Deliver` is
`merge_inbound` of a batch (what of it can be applied is `Gossip`'s subject),
followed by the save of the loop.

`Dht`: time passes in ticks of half an hour. The relay keeps one record per DID,
since all holders sign with the key derived from the DID, until the age of the
record reaches the lifetime. A refresh takes time: the task sleeps, resolves the
address (`RefreshRound`) and comes to the DID after the others (`Refresh`), with
the address it resolved then. What the rounds add to the sleep is up to
`MaxDelay` ticks, so the time between two publications is anything from the
interval to `Period`; in the code it is always longer than the lifetime, and
the record of a single holder lapses in between, which happens in the run. The
window check and the publication after it are one step. Faults are: a relay failure, a
node that moves, a crash; a start has a new node id and so a new address.

## 3. Runs

Passing:

| Run | Question | Instance |
|---|---|---|
| `clock` | Do timestamps respect causality, and what makes one come twice? | 2 nodes, readings {1,2}, 3 events per node, counter of 3 values, restarts at any time and reading |
| `dag` | Are frontier, fetch list and answers right in every order of arrival, with gaps? | 2 replicas, every DAG of up to 4 deltas |
| `authority` | Concurrent enrolment, revocation and deactivation: is admission complete, agreed, final? Does the system implement `CausalLog`? Does a resolver restate it? | 2 replicas and devices, 3 deltas after genesis |
| `hostile` | The same with a rogue device, altered proofs and arbitrary bundles | 2 replicas, enrolled start, 2 further deltas with any parents |
| `crdt` | Is the state a function of the history on every path? | 2 replicas, enrolled start, 3 service deltas, or 2 writes of one register with wall readings {1,2} |
| `gossip` | Do documents stay whole, are batches used up, does an announcement suffice, do holders converge but for what the hash hides? | 2 nodes, genesis, 2 deltas and the genesis of another DID, batches of 2, 1 fault; replicate-all on or off, a hash that shows every delta or hides one |
| `service` | Is an answered write kept, the snapshot loadable, a request answered, the unsolicited refused? | 2 requests of any kind, 1 batch, 1 fault, 4 deltas of which one is refused |
| `dht` | When is a holder found, and is it found again? | 2 nodes, 2 addresses, window 1, interval 2 and lifetime 2 ticks (the code's values), rounds of up to 1 tick, 2 faults |

The bounds are large enough for the cases that matter: two concurrent deltas
and a third on top of either or both; a child before its parent; a remove that
has seen one of two adds; a revocation concurrent with, before and after a
delta of the revoked key; equal wall times. In `clock` the counter reaches its
limit and restarts repeat timestamps, the two exceptions its properties name;
in the `Document` runs the counter is larger than the number of deltas. Two replicas suffice for
pairwise agreement, and the algebraic laws of `merge_state` follow from
`StateIsHistory`: a merge of states is the state of the united histories, and
union is idempotent, commutative and associative. The `hostile` and `crdt` runs
start from a document in which the second device has been enrolled and every
replica knows it, a state the first action of `authority` leads to, to spend
the deltas on what the run is about. In `gossip`, two deltas written on either
node make concurrent heads, chains that arrive child first, and announcements
of states that are old when they are routed. In `service`, two requests are
enough for saves that overtake each other, a creation over a submission and two
cold starts that share the wanted entry.

Fairness, where a run has a liveness property:

* `Gossip`: some step of the receive loops, the handlers' announcements, the
  network or a reconnection happens while one can (weak fairness of their
  disjunction, no more). These are tasks of the runtime and a transport that
  delivers what it does not lose. Writes, cold starts and faults are not promised.
  What `Converges` promises is `Reconciled`: two holders differ at most in deltas
  whose announcement the other one may take for a hash it has met; with a hash
  that tells documents apart this is agreement. It assumes in addition that nothing is lost and that no announcement and no
  batch is passed over by a node that has no document and does not want the
  DID (the ghost `missed`). The batches count because of two cold starts: the
  answer to the first comes after it has been withdrawn and is dropped, an older
  answer bootstraps the node at the start of the second, before that has asked, and
  what the dropped one had is not announced again. Under losses `AnnouncementSuffices` says what
  remains.
* `Service`: weak fairness per task and of each deadline: a spawned task is
  scheduled, the store answers, and the lookup, the attempt at a peer and the
  whole cold start have timers of their own. Requests, batches, faults
  and a new start of the process are not promised.
* `Dht`: spawned publications and rounds of the refresh run, and time passes. Nodes
  that are down need not start again.

What `AnsweredIsStored` says is qualified: the ghost `excused` collects the deltas
that one of five causes has removed (a save that failed, a creation over the
document, a snapshot that replaced a newer one, a crash before the store was
flushed, a start whose listing failed). Each of the five happens in the run, so the
list of ways to lose an answered write is complete for the model and no entry of
it is idle. Likewise `abandoned` in `OnlySolicited`.

Violations, each a statement of the documentation that the code does not keep
(see `findings` in `PROJECT.json`):

| Run | Statement | What happens |
|---|---|---|
| `duplicate_id` | admission is order-independent (document.rs:436) | the key lookup by id sees a second entry that is not in the delta's past |
| `state_hash` | the hash is of the full state (document.rs:1086) | `also_known_as` is not hashed (`Gossip` shows what this does to replication) |
| `reconnect` | ANNOUNCE on connection (protocol.rs:23) | nothing announces then; a node that missed a delta stays behind until the next write |
| `announce` | the snapshot is saved before it is announced (handlers.rs:101) | the announcement hashes a document that a concurrent handler has changed and not saved |

Further statements that do not match the code, found while modelling and not
given a run of their own:

* crdt.rs:206, a node's HLCs strictly increase: `Hlc::new` (hlc.rs:78) keeps
  nothing of the old clock, so a restart in the same millisecond, or after the
  clock was set back, repeats a timestamp. It happens in the run `clock`;
  `FreshTimestamps` names it as one of two exceptions, by the ghost `rewound`.
* crdt.rs:207, one dot implies all earlier dots of the node: two devices that hold
  one key are one node of the version vector and do not chain on each other, so
  a state merge may take an unseen add for a removed one.
* hlc.rs:91, `send` is strictly greater than before: the `u32` counter wraps in
  a release build after 2^32 events within one wall tick. It happens in the run
  `clock` (with a counter of 3 values) and is the other exception (`Exhausted`).
* admission.rs:106, `meet` is the greatest lower bound: it is the conjunction;
  in the order of `partial_cmp`, `Invalid` is not below `Valid` or `Unknown`.
  Nothing but tests calls it.
* recon.rs:101-104, the answer to a frontier is the divergence: a frontier hash
  the answering side does not hold prunes nothing, so common history is sent
  again. The answer is complete (`AnswerIsComplete`) but not minimal.
* document.rs:360, a deactivated document rejects all further deltas: those
  concurrent with the deactivation are admitted, as document.rs:460-465 intends.
* validate.rs:240, `check_authorisation` compares the rotation sequence: it does
  not, as validate.rs:295-300 says; only tests call the function.
* resolve.rs:48, `versionId` changes whenever any CRDT field is mutated: dots and
  markers are not hashed, so a write of the value that is there leaves it.
  `VersionIdentifiesDocument` is the direction a client relies on.
* resolve.rs, a twin can only restate an authority the deltas carry: under an id
  that two keys share, the twin of one key inherits the relationship of the
  other.
* live.rs:198, a cold start always withdraws the DID afterwards: not when its
  client has left and the future is dropped (`abandoned`).
* handlers.rs:391, `sync` is whether the sync layer is running: it stays true
  after the receive loop has ended (live.rs:337).
* document.rs:1095, gossip cannot wrongly take a hash for one it has met: it can, when
  the delta changes nothing that is hashed. Holders then stay apart over that
  delta, with nothing lost, until the next write; `Converges` and
  `ReconciledAtRest` say that nothing else keeps them apart.
* dht.rs:34 and 37-40, refreshed records never expire, the interval is comfortably
  inside their lifetime: both are 3600 s, and a round adds the time of
  `node_addr` and of the publications before this one, so the record of a single
  holder lapses in every period for as long as that takes. `OutageIsBounded`
  therefore ends with the lifetime of the record.
* dht.rs:353-355, address changes are reflected in each cycle: the address is
  resolved once, at the start of a round, so a node that moves before the round
  has come to the DID publishes the old one with a new lifetime. The next
  round corrects it.

Three observations about the service: a cold start may end with 404 although the
document has arrived, since after the last attempt nobody looks again;
`create_did` replaces a document with history (handlers.rs:99); and after a start
whose listing failed, a creation moves the tag away from a snapshot that is
still on disk.

The comment at document.rs:557-560, which warns of a difference between replay
and state merge of removes, is out of date: `apply_op` takes the observed adds
from the causal past, and the run `crdt` shows that the two agree.

## 4. Proofs

All of these are checked by TLAPS for every value of the constants that
satisfies the `ASSUME`s.

* `HlcProofs`: `HlcInv` is inductive. It adds to the clock condition that a clock
  shows a timestamp it has returned, or counter 0 (`ClocksIssue`), so that no
  counter wraps unless an issued timestamp has the last value; and that a node
  that was not set back has issued nothing beyond its clock (`IssuedInOrder`).
  There is no hypothesis on restarts, wall clocks or the number of events: the
  clock condition holds until a counter is at its limit, and a timestamp comes
  twice only then or after a restart at a used wall time. `ASSUME`s: the readings
  are numbers and the counter has more than one value.
* `DeltaDagLemmas`: single inserts, in any order, arrive at the DAG that
  `InsertAll` builds; `Visited` is the least closed set; a past that is
  complete does not change when more is held.
* `DagSyncProofs`: `DagInv` (types, frontier = leaves, the history is ordered and
  has a newest member) is inductive. The order is needed for the theorems on
  reconciliation: every non-empty part of a history has a newest member, from
  which each argument about "a delta that is missing although ..." starts.
  Theorems: the frontier is the set of leaves, an empty fetch list means
  synchronised, one answer synchronises, a fetched bundle is always sound.
* `DocumentProofs`: `DocInv` (types, complete histories, keys backed by deltas,
  only authorised deltas) is inductive, for any replicas, rogue devices and
  altered proofs included, and for the working copy of an import as well as
  for the replicas. Completeness is what makes the verdict exact: with a complete
  DAG the past that `verify_causal` sees is the whole past (`PastIsStable`), so
  what was authorised once stays so as the DAG grows. `KeysHaveDeltas` closes the
  fall-through of step 3 in `merge`. On top of it, `RefinesLog` proves
  that the replicas implement `CausalLog`: every path of a delta into a replica
  is an abstract `Learn` or `Create`, and an import stutters until it commits.
  `VerdictsAreFinal` follows from `HistoryKept` (a step changes no content and
  takes no delta away): a refusal rests on a delta of the past that is still
  there, any other decision on a past that was complete. `AdmissionAgrees` and
  `ExportsReplay` need a second invariant, `AllBacked`: the fields that
  admission reads (keys, revoked keys, deactivation) say what the held deltas say,
  and the rest of a bundle is closed upwards from the working copy. Admission is then
  equivalent to `Admissible`, in which no replica occurs. Their hypothesis is
  `OneKeyPerId`; it is a hypothesis of the two theorems and not an `ASSUME`,
  since the run `duplicate_id` is an instance that violates it.
  The module also has the laws of the verdict: `Meet` is closed, commutative,
  idempotent and associative, and a refusal is permanent, for any set of
  hashes. They need no invariant. `ASSUME`s about the instance: `OpsAreOps` (an
  operation adds a key that exists under an id that exists, sequence numbers are
  numbers) and `GenesisPubIsNode`.
* `StateProofs`: the state of a document is what its deltas mean, and what a
  resolver answers follows from it. Every document of the next state is a present
  one, a present one with an admitted delta applied, or the join of two present
  ones (`DocumentsEvolve`), so each claim about a field takes three lemmas: new
  content, `Apply`, `Join`. `StateInv` adds two things to the invariants of
  `DocumentProofs`. `MeansAll` says per field what it holds in terms of the held
  deltas: the grow-only sets their additions, a register the write with the latest
  timestamp, the services the adds that no held remove has in its past, the
  version vector the latest service delta of each node. `HonestInv` is what makes
  this inductive under a state merge: timestamps are unique (`Dated`), a clock is
  not behind what its device has made (`Stamped`, `ClocksRun`), and a device
  builds on everything of its own that anybody may admit (`Chained`, `OwnKept`).
  From the last follows that a document with a late dot of a node holds its
  earlier ones, so an add that the version vector covers and the other side lacks was
  really removed (`DotsAreContiguous`).
  The theorems `StatesAreHistories`, `DotsAreContiguous` and
  `AnswersAreEvidence` have the hypothesis `Honest`, and need each part of it:
  `OneKeyPerId` because of `duplicate_id`; no rogue devices, no altered proofs and
  a key of its own for each device, because a device that does not chain its deltas,
  or two that share a key, leave gaps in the version vector; a logical counter
  larger than the number of deltas, because a counter that wraps repeats a
  timestamp. These are hypotheses of the theorems and not `ASSUME`s: the instances of
  `authority` and `crdt` satisfy them, the one of `hostile` does not.
  `VersionsIdentifyDocuments` and `RevokedKeysStayHidden` hold for any devices
  and any altered proofs, `TwinsAreBacked` likewise under `OneKeyPerId`; that no
  two twins have one number rests on the cardinality of finite sets.
* `ServiceProofs`: the invariant says what is in memory and what is tagged is a
  whole document, what a task relies on at each await (`WriterOK`: what it was asked to write is in
  the document, then in its snapshot, then in the store, unless excused), that a
  process that is down has no memory, and that a DID is wanted for a reason.
  `AnsweredIsStored` is a conjunct: it is not inductive without `WriterOK`, since
  another task may replace the document or the tag in the meantime. Assumptions:
  `HistoryIsWhole` (the deltas of the instance have their parents, the genesis has
  none) and `LoopIsNoHandler`.
* `GossipProofs`: the invariant says the history is well founded, documents are
  whole, a batch reaches down to the frontier it answers, and the retry loop
  loses nothing (what is not merged is pending or still to be tried, and what a
  pass without progress left over is pending). That a batch fits follows by a
  minimal element: of what is left over, a delta without parents in the rest
  would have been merged.
  `AnnouncementsSuffice` needs the invariant `Tracked`: what a node is owed is
  `OnItsWay`, that is held, asked of a node that has it with a frontier the asker
  still holds, in an answer above such a frontier, or in the batch being merged.
  Each action passes it on (the lemmas `WayAt...`); the step from REQUEST to
  answer is `AnswerCovers`, by a maximal element: the newest delta left out would
  be no head and no parent of one that is sent or held. `HoldersReconciledAtRest`
  is the safety half of convergence, `ReconciledAtRest`, for any content hash:
  holders come to rest in agreement but for deltas the hash does not show. Its
  invariant `Reach` says that, while nothing is `missed`, every delta somebody
  wrote is, for every node, on its way, still announced to it, or one that a
  document with a hash it has met may hide (`Mistaken`); and that of every hash in
  `seen` some document is on its way (`Accounted`). The filter on `seen` is
  thereby harmless exactly up to the collisions of the hash.
* `DhtProofs`: the invariant relates the record, the publication a node
  remembers, the round under way and the time since the last one. A round begun
  after the last fault carries the right address (`Rounds`); a record made when
  the rounds begun before it were over is right (`Truthful`); the record of a
  holder refreshed since is no older than that refresh (`Refreshed`), although the
  window skips publications (`Remembered`) and other holders replace it. The
  lengths of the window, the interval, the lifetime and the rounds are any
  numbers; nothing is assumed about how they compare.

Every invariant and action property of the passing runs is stated by one of
these theorems. Model-checked only are the liveness properties (`Converges`,
`RequestsEnd`, `FoundAgain`), which need fairness and are beyond this prover;
of `Converges`, the part without fairness is `HoldersReconciledAtRest`.

`DotsHaveNoGaps` speaks of the deltas that some document holds: a delta that its
author's own replica refused has a timestamp and no dot, and later deltas of the
device do not build on it.

## 5. Not modelled

* DID syntax, base encodings, canonical JSON, DNS records and the serialisation of
  documents: conversions without state; where two values may collide under one, the text above says so. (Hex
  digits of either case make different DIDs with one DHT key.)
* `check_authorisation` (only tests call it), `GossipEngine::announce` (nothing
  does), metrics, health and configuration, the mapping of errors to status codes.
* The anchor trait, which has no implementation, and the binaries: process start-up
  and a relay stub for demonstrations.
* More than one DID at a time: documents do not interact, and the mutex, the
  wanted set and the store are keyed by DID. What they share is the receive
  loop, whose exit stops all of them.

Next in line: the same field by field account for a document with rogue devices,
whose grow-only fields need no timestamps; the safety half of `RequestsEnd`, that
no handler of `Service` waits for something that cannot happen; `Gossip` against
`CausalLog`, which is no plain refinement, since a crash takes deltas away.
