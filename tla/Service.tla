------------------------------ MODULE Service ------------------------------
(***************************************************************************)
(* One node as its clients meet it: the handlers of service/handlers.rs,   *)
(* the receive loop and the cold start of sync/live.rs and the start and   *)
(* stop of service/server.rs, over the shared DocStore (one mutex, never   *)
(* held across an await) and the blob store.  One DID, whose history is    *)
(* given.                                                                  *)
(*                                                                         *)
(* A task is a handler or the receive loop; between two awaits it is one   *)
(* step.  A document is the set of its deltas, {} where there is none.     *)
(***************************************************************************)
EXTENDS BlobStore, FiniteSets, Naturals

CONSTANTS
  Deltas,        \* the deltas of the DID, as clients and peers send them
  Genesis,
  Parents,       \* delta -> its parents
  Refused,       \* deltas that signature, authorisation or gates refuse
  Handlers,      \* requests, each of which may come or not
  MaxFaults,     \* crashes, failed saves, failed listings and clients that leave
  MaxBatches     \* DELTAS from peers

ASSUME HistoryIsWhole ==
  /\ Parents \in [Deltas -> SUBSET Deltas]
  /\ Genesis \in Deltas \ Refused /\ Parents[Genesis] = {}
ASSUME BoundsAreNumbers == {MaxFaults, MaxBatches} \subseteq Nat

Loop == "loop"                   \* the receive loop
Tasks == Handlers \cup {Loop}

ASSUME LoopIsNoHandler == Loop \notin Handlers

VARIABLES
  docs,       \* the DocStore entry of the DID
  wanted,     \* whether the DID is in BootstrapPolicy::wanted
  task,       \* task -> where it is and what it carries
  store,      \* the blob store
  disk,       \* the part of it that survives the process
  up,         \* whether the process runs
  faults, batches,    \* how many there have been
  acked,      \* deltas whose submission was answered 201 or 202
  excused,    \* deltas that may be missing from memory or store, by a cause
  abandoned   \* whether a client left a cold start

ghosts == <<acked, excused, abandoned>>
vars == <<docs, wanted, task, store, disk, up, batches, faults, ghosts>>

IsDocument(S) ==
  Genesis \in S /\ S \cap Refused = {} /\ \A h \in S : Parents[h] \subseteq S

Idle == [pc |-> "idle"]
Done == [pc |-> "done"]          \* answered, or its connection was closed
\* A writer: `what` it will be answered for, and the snapshot it saves.
Writing(what, pc) == [pc |-> pc, what |-> what, snapshot |-> NoSnapshot]
Resolving(pc, late) == [pc |-> pc, late |-> late]

ColdPcs == {"lookup", "ask", "pause"}
SavePcs == {"import", "tag"}
Active(t) == task[t].pc \notin {"idle", "done"}
InColdStart(t) == task[t].pc \in ColdPcs

Become(t, state) == task' = [task EXCEPT ![t] = state]
Goto(t, pc) == task' = [task EXCEPT ![t].pc = pc]
Fault == faults < MaxFaults /\ faults' = faults + 1

\* A process that has just started, with nothing or with a document on disk.
Init ==
  /\ store = EmptyStore \/ store = SetTag(ImportBytes(EmptyStore, {Genesis}), {Genesis})
  /\ disk = store
  /\ docs = LoadAll(store) /\ wanted = FALSE
  /\ task = [t \in Tasks |-> Idle]
  /\ up = TRUE
  /\ faults = 0 /\ batches = 0
  /\ acked = {} /\ excused = {} /\ abandoned = FALSE

----------------------------------------------------------------------------
(* POST /dids and POST /dids/:did/deltas *)

\* create_did: the fresh document replaces whatever is there.
CreateDid(t) ==
  /\ up /\ t \in Handlers /\ task[t] = Idle
  /\ docs' = {Genesis}
  /\ excused' = excused \cup (docs \ {Genesis})
  /\ Become(t, Writing({Genesis}, "clone"))
  /\ UNCHANGED <<wanted, store, disk, up, batches, faults, acked,
                 abandoned>>

\* A submission that does not look for missing parents.
MergeableOrphan(h) == docs # {} /\ h \notin Refused

\* submit_delta under the lock: 404 without the document, 409 while a parent
\* is missing, 403 or 409 for a delta that is refused; otherwise merge (a delta
\* that is held merges again).
Mergeable(h) == docs # {} /\ Parents[h] \subseteq docs /\ h \notin Refused

SubmitDelta(t, h) ==
  /\ up /\ t \in Handlers /\ task[t] = Idle
  /\ IF Mergeable(h)
       THEN docs' = docs \cup {h} /\ Become(t, Writing({h}, "clone"))
       ELSE UNCHANGED docs /\ Become(t, Done)
  /\ UNCHANGED <<wanted, store, disk, up, batches, faults, ghosts>>

\* persist: clone under the lock, then save.
Clone(t) ==
  /\ up /\ task[t].pc = "clone"
  /\ task' = [task EXCEPT ![t].pc = "import", ![t].snapshot = docs]
  /\ UNCHANGED <<docs, wanted, store, disk, up, batches, faults, ghosts>>

\* A save that sets the tag first.
TagBeforeImport(t) ==
  /\ up /\ task[t].pc = "import"
  /\ store' = SetTag(store, task[t].snapshot)
  /\ Goto(t, "tag")
  /\ UNCHANGED <<docs, wanted, disk, up, batches, faults, ghosts>>

Import(t) ==
  /\ up /\ task[t].pc = "import"
  /\ store' = ImportBytes(store, task[t].snapshot)
  /\ Goto(t, "tag")
  /\ UNCHANGED <<docs, wanted, disk, up, batches, faults, ghosts>>

\* What a writer does after its save, well or badly ended: a handler announces,
\* the receive loop takes its next message.
Saved(t) == IF t = Loop THEN Idle ELSE Writing(task[t].what, "announce")

\* The tag moves to this snapshot, be it older than the one it pointed at.
Tag(t) ==
  /\ up /\ task[t].pc = "tag"
  /\ store' = SetTag(store, task[t].snapshot)
  /\ excused' = excused \cup (store.tag \ task[t].snapshot)
  /\ Become(t, Saved(t))
  /\ UNCHANGED <<docs, wanted, disk, up, batches, faults, acked,
                 abandoned>>

\* save returns an error: a handler counts it (record_persist_failure) and goes
\* on, the loop logs it and goes on.
SaveFails(t) ==
  /\ up /\ Fault
  /\ task[t].pc \in SavePcs
  /\ excused' = excused \cup task[t].snapshot
  /\ Become(t, Saved(t))
  /\ UNCHANGED <<docs, wanted, store, disk, up, batches, acked, abandoned>>

\* A handler that answers without waiting for its save.
AnnounceAtOnce(t) ==
  /\ up /\ task[t].pc \in SavePcs /\ t # Loop
  /\ acked' = acked \cup task[t].what
  /\ Become(t, Done)
  /\ UNCHANGED <<docs, wanted, store, disk, up, batches, faults, excused, abandoned>>

\* LiveNode::announce hashes the document as it is now; then the answer.
AnnounceAndAnswer(t) ==
  /\ up /\ task[t].pc = "announce"
  /\ acked' = acked \cup task[t].what
  /\ Become(t, Done)
  /\ UNCHANGED <<docs, wanted, store, disk, up, batches, faults, excused,
                 abandoned>>

----------------------------------------------------------------------------
(* GET /:did *)

\* resolve_did answers from the DocStore, or registers the DID and looks for
\* it elsewhere.
ResolveDid(t) ==
  /\ up /\ t \in Handlers /\ task[t] = Idle
  /\ IF docs # {}
       THEN Become(t, Done) /\ UNCHANGED wanted
       ELSE Become(t, Resolving("lookup", FALSE)) /\ wanted' = TRUE
  /\ UNCHANGED <<docs, store, disk, up, batches, faults, ghosts>>

\* A cold start that leaves its registration behind.
EndWithoutWithdrawal(t) == UNCHANGED wanted /\ Become(t, Done)

\* cold_start_bootstrap withdraws the DID and resolve_did answers.
EndColdStart(t) == wanted' = FALSE /\ Become(t, Done)

\* resolve_timeout has passed.
Deadline(t) ==
  /\ up /\ InColdStart(t) /\ ~ task[t].late
  /\ task' = [task EXCEPT ![t].late = TRUE]
  /\ UNCHANGED <<docs, wanted, store, disk, up, batches, faults, ghosts>>

\* The DHT lookup ends, by an answer or by its own timeout; with peers they
\* are asked unless time is up.
Lookup(t, peers) ==
  /\ up /\ task[t].pc = "lookup"
  /\ Goto(t, IF peers /\ ~ task[t].late THEN "ask" ELSE "pause")
  /\ UNCHANGED <<docs, wanted, store, disk, up, batches, faults, ghosts>>

\* The poll of the DocStore finds the document.
PollFinds(t) ==
  /\ up /\ task[t].pc = "ask" /\ docs # {}
  /\ EndColdStart(t)
  /\ UNCHANGED <<docs, store, disk, up, batches, faults, ghosts>>

\* A peer fails or COLD_START_PER_PEER passes, with the document there or not;
\* the next peer is asked, if there is one and time is left.
PeerFails(t, more) ==
  /\ up /\ task[t].pc = "ask"
  /\ Goto(t, IF more /\ ~ task[t].late THEN "ask" ELSE "pause")
  /\ UNCHANGED <<docs, wanted, store, disk, up, batches, faults, ghosts>>

\* A pause that does not look at the clock.
PauseForever(t) ==
  /\ up /\ task[t].pc = "pause"
  /\ Goto(t, "lookup")
  /\ UNCHANGED <<docs, wanted, store, disk, up, batches, faults, ghosts>>

\* After a pause the next round starts, or time is up and the answer is 404,
\* although the document may be there by now.
Pause(t) ==
  /\ up /\ task[t].pc = "pause"
  /\ IF task[t].late THEN EndColdStart(t) ELSE Goto(t, "lookup") /\ UNCHANGED wanted
  /\ UNCHANGED <<docs, store, disk, up, batches, faults, ghosts>>

----------------------------------------------------------------------------
(* The receive loop *)

\* merge_inbound of a batch of which S can be applied: an unknown DID must be
\* wanted (Gossip has the loop and the checks of a bootstrap).
Takes(S) == IsDocument(docs \cup S) /\ (docs # {} \/ wanted)

Deliver(S) ==
  /\ up /\ task[Loop] = Idle
  /\ batches < MaxBatches /\ batches' = batches + 1
  /\ IF Takes(S)
       THEN docs' = docs \cup S /\ Become(Loop, Writing({}, "clone"))
       ELSE UNCHANGED <<docs, task>>
  /\ UNCHANGED <<wanted, store, disk, up, faults, ghosts>>

----------------------------------------------------------------------------
(* Faults, stop and start *)

\* The client closes its connection and the server drops the handler at the
\* await it is in.
ClientLeaves(t) ==
  /\ up /\ Fault
  /\ t \in Handlers /\ Active(t)
  /\ Become(t, Done)
  /\ abandoned' = (abandoned \/ InColdStart(t))
  /\ UNCHANGED <<docs, wanted, store, disk, up, batches, acked,
                 excused>>

\* The store's actor makes its writes durable.
Flush ==
  /\ up /\ disk # store
  /\ disk' = store
  /\ UNCHANGED <<docs, wanted, task, store, up, batches, faults, ghosts>>

\* The process ends: memory is gone, tasks are not resumed.
Die ==
  /\ up' = FALSE
  /\ docs' = {} /\ wanted' = FALSE /\ abandoned' = FALSE
  /\ task' = [t \in Tasks |-> IF t = Loop THEN Idle
                              ELSE IF Active(t) THEN Done ELSE task[t]]
  /\ UNCHANGED <<batches, acked>>

Crash ==
  /\ up /\ Fault
  /\ Die
  /\ store' = disk
  /\ excused' = excused \cup (store.tag \ disk.tag)
  /\ UNCHANGED disk

\* with_graceful_shutdown: requests in flight end first, and the store is
\* flushed when its last handle is dropped.  The receive loop is cut off.
Shutdown ==
  /\ up
  /\ \A t \in Handlers : ~ Active(t)
  /\ Die
  /\ disk' = store
  /\ UNCHANGED <<store, faults, excused>>

\* Server::run: load_all before anything else; if the listing fails the node
\* starts empty.
Start(loaded) ==
  /\ ~ up
  /\ up' = TRUE
  /\ IF loaded
       THEN docs' = LoadAll(store) /\ UNCHANGED <<faults, excused>>
       ELSE docs' = {} /\ Fault /\ excused' = excused \cup store.tag
  /\ UNCHANGED <<wanted, task, store, disk, batches, acked,
                 abandoned>>

----------------------------------------------------------------------------

Save(t) == Clone(t) \/ Import(t) \/ Tag(t)
ColdStart(t) ==
  \/ \E b \in BOOLEAN : Lookup(t, b) \/ PeerFails(t, b)
  \/ PollFinds(t)
  \/ Pause(t)

Next ==
  \/ \E t \in Tasks :
       \/ CreateDid(t) \/ (\E h \in Deltas \ {Genesis} : SubmitDelta(t, h))
       \/ Save(t) \/ SaveFails(t) \/ AnnounceAndAnswer(t)
       \/ ResolveDid(t) \/ ColdStart(t) \/ Deadline(t)
       \/ ClientLeaves(t)
  \/ \E S \in SUBSET Deltas : Deliver(S)
  \/ Flush \/ Crash \/ Shutdown
  \/ \E loaded \in BOOLEAN : Start(loaded)

\* Every task is scheduled, the store answers, lookups and peers have timeouts
\* of their own, and the deadline comes.  Requests, peers, faults and a new
\* start are not promised.
Fairness ==
  /\ WF_vars(Save(Loop))
  /\ \A t \in Handlers :
       /\ WF_vars(Save(t) \/ AnnounceAndAnswer(t) \/ ColdStart(t))
       /\ WF_vars(Deadline(t))

Spec == Init /\ [][Next]_vars /\ Fairness

----------------------------------------------------------------------------
(* Properties *)

TypeOK ==
  /\ docs = {} \/ IsDocument(docs)
  /\ {wanted, up, abandoned} \subseteq BOOLEAN
  /\ store.tag \subseteq Deltas /\ disk.tag \subseteq Deltas
  /\ \A t \in Handlers : task[t].pc \in
       {"idle", "done", "clone", "announce"} \cup SavePcs \cup ColdPcs
  /\ task[Loop].pc \in {"idle", "clone"} \cup SavePcs

\* Whenever the process dies, the snapshot its successor finds is there and is
\* a whole document (store.rs: the blob is imported before the tag is moved).
StoreIsLoadable ==
  \A s \in {store, disk} :
    s.tag # NoSnapshot => LoadAll(s) = s.tag /\ IsDocument(s.tag)

\* An answered write is in memory and in the store's latest snapshot, whatever
\* else is being written, saved or restarted, unless one of these happened: a
\* save that failed, a creation over the document, a snapshot that replaced a
\* newer one, a crash before the store was flushed, a start whose listing
\* failed.
AnsweredIsStored ==
  \A h \in acked \ excused : h \in store.tag /\ (up => h \in docs)

\* A peer gives a node a document it did not have only while a cold start for
\* it is under way, or after a client left one (gossip.rs: "a gossip peer can
\* only extend a document we already hold or have asked for").
OnlySolicited ==
  [][docs = {} /\ docs' # {} /\ task'[Loop] # Idle =>
       abandoned \/ \E t \in Handlers : InColdStart(t)]_vars

\* Every request is answered, or its connection is closed: no lookup, peer or
\* save can hold it beyond the deadline.
RequestsEnd == \A t \in Handlers : Active(t) ~> task[t].pc = "done"

\* "Write the snapshot through to durable storage before announcing, so a
\* crash between the two loses a broadcast rather than the document"
\* (create_did, and submit_delta refers to it).
AnnouncedIsStored ==
  [][\A t \in Handlers : AnnounceAndAnswer(t) => docs \subseteq store.tag]_vars
=============================================================================
