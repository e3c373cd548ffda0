--------------------------- MODULE ServiceProofs ---------------------------
(***************************************************************************)
(* The safety properties of Service for any deltas, any number of requests *)
(* and batches, and any number of faults.                                  *)
(***************************************************************************)
EXTENDS Service, TLAPS

----------------------------------------------------------------------------
(* The inductive invariant *)

Snapshots == SUBSET Deltas
WriterPcs == {"clone", "announce"} \cup SavePcs
Writers == [pc : WriterPcs, what : SUBSET Deltas, snapshot : Snapshots]
Resolvers == [pc : ColdPcs, late : BOOLEAN]
TaskStates == {Idle, Done} \cup Writers \cup Resolvers
Stores == [blobs : SUBSET Snapshots, tag : Snapshots]

\* What the snapshot of a store is when there is one.
StoreOK(s) == s.tag # {} => s.tag \in s.blobs /\ IsDocument(s.tag)

\* What a task in state w relies on, with d in memory, s in the store and x
\* excused: until its save is over there is a document, which has what it was
\* asked to write; so has its snapshot, and in the end the store.
WriterOK(w, d, s, x) ==
  /\ w.pc \in WriterPcs => w.what \ x \subseteq d
  /\ w.pc = "clone" \/ w.pc \in SavePcs => d # {}
  /\ w.pc \in SavePcs => IsDocument(w.snapshot) /\ w.what \ x \subseteq w.snapshot
  /\ w.pc = "tag" => w.snapshot \in s.blobs
  /\ w.pc = "announce" => w.what \ x \subseteq s.tag

LoopPcs == {"idle", "clone"} \cup SavePcs

Typed ==
  /\ docs \in SUBSET Deltas /\ acked \in SUBSET Deltas /\ excused \in SUBSET Deltas
  /\ wanted \in BOOLEAN /\ up \in BOOLEAN /\ abandoned \in BOOLEAN
  /\ store \in Stores /\ disk \in Stores
  /\ task \in [Tasks -> TaskStates]

Whole == (docs = {} \/ IsDocument(docs)) /\ StoreOK(store) /\ StoreOK(disk)

Working ==
  /\ \A t \in Tasks : WriterOK(task[t], docs, store, excused)
  /\ task[Loop].pc \in LoopPcs

\* A process that is down has no memory and no tasks.
Down == ~ up => docs = {} /\ ~ wanted /\ \A t \in Tasks : ~ Active(t)

Owned == wanted => abandoned \/ \E t \in Handlers : InColdStart(t)

ServiceInv == Typed /\ Whole /\ Working /\ Down /\ Owned /\ AnsweredIsStored

----------------------------------------------------------------------------
(* Lemmas *)

\* The state of a task by its program counter.
LEMMA TaskKinds ==
  ASSUME NEW w \in TaskStates
  PROVE  /\ w.pc \in WriterPcs => w \in Writers
         /\ w.pc \in ColdPcs => w \in Resolvers
         /\ w.pc = "idle" => w = Idle
  BY DEF TaskStates, Writers, Resolvers, WriterPcs, SavePcs, ColdPcs, Idle, Done

\* A creation starts a document, and a delta whose parents are there extends one.
LEMMA GenesisIsDocument == IsDocument({Genesis})
  BY HistoryIsWhole DEF IsDocument

LEMMA MergeIsDocument ==
  ASSUME Typed, Whole, NEW h \in Deltas, Mergeable(h)
  PROVE  IsDocument(docs \cup {h})
  BY HistoryIsWhole DEF Typed, Whole, Mergeable, IsDocument

\* The shared state moves from (d, s, x) to (d2, s2, x2) in a way that takes
\* nothing from anybody: what disappears is excused.
Kept(d, s, x, d2, s2, x2) ==
  /\ d # {} => d2 # {}
  /\ x \subseteq x2
  /\ d \ x2 \subseteq d2
  /\ s.blobs \subseteq s2.blobs
  /\ s.tag \ x2 \subseteq s2.tag

\* A task that does not move keeps what it relies on.
LEMMA WriterFrame ==
  ASSUME NEW w, NEW d, NEW s, NEW x, NEW d2, NEW s2, NEW x2,
         WriterOK(w, d, s, x), Kept(d, s, x, d2, s2, x2)
  PROVE  WriterOK(w, d2, s2, x2)
  BY DEF WriterOK, Kept

\* A step of one task, to state w.
LEMMA TaskStep ==
  ASSUME ServiceInv, up, UNCHANGED up,
         NEW t \in Tasks, NEW w \in TaskStates,
         task' = [task EXCEPT ![t] = w],
         Typed', Whole',
         Kept(docs, store, excused, docs', store', excused'),
         WriterOK(w, docs', store', excused'),
         t = Loop => w.pc \in LoopPcs,
         wanted' => \/ abandoned'
                    \/ t \in Handlers /\ w.pc \in ColdPcs
                    \/ wanted /\ ~ abandoned /\ (t \in Handlers => ~ InColdStart(t)),
         \A h \in acked' \ excused' : h \in acked \/ (h \in store'.tag /\ h \in docs')
  PROVE  ServiceInv'
<1>1. \A u \in Tasks : task'[u] = IF u = t THEN w ELSE task[u]
  BY DEF ServiceInv, Typed
<1>2. Working'
  <2>1. \A u \in Tasks : WriterOK(task'[u], docs', store', excused')
    BY <1>1, WriterFrame DEF ServiceInv, Working
  <2>2. task'[Loop].pc \in LoopPcs
    BY <1>1 DEF ServiceInv, Working, Tasks
  <2> QED  BY <2>1, <2>2 DEF Working
<1>3. Down'
  BY DEF Down
<1>4. Owned'
  <2> SUFFICES ASSUME wanted', ~ abandoned' PROVE \E u \in Handlers : task'[u].pc \in ColdPcs
    BY DEF Owned, InColdStart
  <2>1. CASE t \in Handlers /\ w.pc \in ColdPcs
    BY <2>1, <1>1 DEF Tasks
  <2>2. CASE wanted /\ ~ abandoned /\ (t \in Handlers => ~ InColdStart(t))
    <3>1. PICK u \in Handlers : InColdStart(u)
      BY <2>2 DEF ServiceInv, Owned
    <3>2. u # t /\ u \in Tasks
      BY <2>2, <3>1 DEF Tasks
    <3> QED  BY <3>1, <3>2, <1>1 DEF InColdStart
  <2> QED  BY <2>1, <2>2
<1>5. AnsweredIsStored'
  BY DEF ServiceInv, AnsweredIsStored, Kept
<1> QED  BY <1>2, <1>3, <1>4, <1>5 DEF ServiceInv

----------------------------------------------------------------------------
(* The invariant holds at the start and is kept by the handlers *)

LEMMA InitInv == Init => ServiceInv
<1> SUFFICES ASSUME Init PROVE ServiceInv
  OBVIOUS
<1>1. Typed
  <2>1. EmptyStore \in Stores /\ SetTag(ImportBytes(EmptyStore, {Genesis}), {Genesis}) \in Stores
    BY HistoryIsWhole DEF EmptyStore, SetTag, ImportBytes, Stores, Snapshots, NoSnapshot
  <2>2. store \in Stores /\ LoadAll(store) \in SUBSET Deltas
    BY <2>1 DEF Init, LoadAll, Load, NoSnapshot, Stores, Snapshots
  <2> QED  BY <2>2 DEF Init, Typed, TaskStates
<1>2. Whole
  <2>1. StoreOK(store)
    <3>1. CASE store = EmptyStore
      BY <3>1 DEF StoreOK, EmptyStore, NoSnapshot
    <3>2. CASE store = SetTag(ImportBytes(EmptyStore, {Genesis}), {Genesis})
      <4>1. store.tag = {Genesis} /\ store.blobs = {{Genesis}}
        BY <3>2 DEF EmptyStore, SetTag, ImportBytes, NoSnapshot
      <4> QED  BY <4>1, GenesisIsDocument DEF StoreOK
    <3> QED  BY <3>1, <3>2 DEF Init
  <2> QED  BY <2>1 DEF Init, Whole, StoreOK, LoadAll, Load, NoSnapshot
<1>3. Working
  BY DEF Init, Working, WriterOK, WriterPcs, SavePcs, LoopPcs, Idle, Tasks
<1>4. Down /\ Owned /\ AnsweredIsStored
  BY DEF Init, Down, Owned, AnsweredIsStored
<1> QED  BY <1>1, <1>2, <1>3, <1>4 DEF ServiceInv

LEMMA CreateDidInv ==
  ASSUME ServiceInv, NEW t \in Tasks, CreateDid(t)
  PROVE  ServiceInv'
<1> DEFINE w == Writing({Genesis}, "clone")
<1>1. w \in TaskStates /\ task' = [task EXCEPT ![t] = w]
  BY HistoryIsWhole
     DEF CreateDid, Become, Writing, TaskStates, Writers, WriterPcs, Snapshots, NoSnapshot
<1>2. Typed'
  BY <1>1, HistoryIsWhole DEF ServiceInv, Typed, CreateDid
<1>3. Whole'
  BY GenesisIsDocument DEF ServiceInv, Whole, StoreOK, CreateDid
<1>4. Kept(docs, store, excused, docs', store', excused')
  BY DEF Kept, CreateDid
<1>5. WriterOK(w, docs', store', excused')
  BY DEF WriterOK, Writing, WriterPcs, SavePcs, CreateDid
<1>6. t # Loop /\ up /\ UNCHANGED <<up, wanted, abandoned, acked>> /\ ~ InColdStart(t)
  BY LoopIsNoHandler DEF CreateDid, InColdStart, ColdPcs, Idle
<1> HIDE DEF w
<1> QED  BY <1>1, <1>2, <1>3, <1>4, <1>5, <1>6, TaskStep

LEMMA SubmitDeltaInv ==
  ASSUME ServiceInv, NEW t \in Tasks, NEW h \in Deltas, SubmitDelta(t, h)
  PROVE  ServiceInv'
<1>1. t # Loop /\ up /\ UNCHANGED <<up, wanted, abandoned, acked, store, disk, excused>>
      /\ ~ InColdStart(t)
  BY LoopIsNoHandler DEF SubmitDelta, ghosts, InColdStart, ColdPcs, Idle
<1>2. CASE Mergeable(h)
  <2> DEFINE w == Writing({h}, "clone")
  <2>1. w \in TaskStates /\ task' = [task EXCEPT ![t] = w] /\ docs' = docs \cup {h}
    BY <1>2 DEF SubmitDelta, Become, Writing, TaskStates, Writers, WriterPcs, Snapshots,
                NoSnapshot
  <2>2. Typed'
    BY <1>1, <2>1 DEF ServiceInv, Typed
  <2>3. Whole'
    BY <1>1, <1>2, <2>1, MergeIsDocument DEF ServiceInv, Whole, StoreOK
  <2>4. Kept(docs, store, excused, docs', store', excused')
    BY <1>1, <2>1 DEF Kept
  <2>5. WriterOK(w, docs', store', excused')
    BY <2>1 DEF WriterOK, Writing, WriterPcs, SavePcs
  <2> HIDE DEF w
  <2> QED  BY <1>1, <2>1, <2>2, <2>3, <2>4, <2>5, TaskStep
<1>3. CASE ~ Mergeable(h)
  <2>1. Done \in TaskStates /\ task' = [task EXCEPT ![t] = Done] /\ docs' = docs
    BY <1>3 DEF SubmitDelta, Become, TaskStates
  <2>2. Typed' /\ Whole'
    BY <1>1, <2>1 DEF ServiceInv, Typed, Whole, StoreOK
  <2>3. Kept(docs, store, excused, docs', store', excused')
    BY <1>1, <2>1 DEF Kept
  <2>4. WriterOK(Done, docs', store', excused')
    BY DEF WriterOK, Done, WriterPcs, SavePcs
  <2> QED  BY <1>1, <2>1, <2>2, <2>3, <2>4, TaskStep
<1> QED  BY <1>2, <1>3

LEMMA CloneInv ==
  ASSUME ServiceInv, NEW t \in Tasks, Clone(t)
  PROVE  ServiceInv'
<1> DEFINE w == [task[t] EXCEPT !.pc = "import", !.snapshot = docs]
<1>1. task[t] \in Writers /\ WriterOK(task[t], docs, store, excused)
  BY TaskKinds DEF Clone, WriterPcs, ServiceInv, Typed, Working
<1>2. w \in TaskStates /\ w.pc = "import" /\ w.what = task[t].what /\ w.snapshot = docs
  BY <1>1 DEF ServiceInv, Typed, TaskStates, Writers, WriterPcs, SavePcs, Snapshots
<1>3. task' = [task EXCEPT ![t] = w]
  BY DEF Clone, ServiceInv, Typed
<1>4. up /\ UNCHANGED <<up, docs, store, disk, wanted, abandoned, acked, excused>>
      /\ ~ InColdStart(t)
  BY DEF Clone, ghosts, InColdStart, ColdPcs
<1>5. Typed' /\ Whole' /\ Kept(docs, store, excused, docs', store', excused')
  BY <1>2, <1>3, <1>4 DEF ServiceInv, Typed, Whole, StoreOK, Kept
<1>6. WriterOK(w, docs', store', excused')
  BY <1>1, <1>2, <1>4 DEF WriterOK, WriterPcs, SavePcs, ServiceInv, Whole, Clone
<1>7. w.pc \in LoopPcs
  BY <1>2 DEF LoopPcs, SavePcs
<1> HIDE DEF w
<1> QED  BY <1>2, <1>3, <1>4, <1>5, <1>6, <1>7, TaskStep

LEMMA ImportInv ==
  ASSUME ServiceInv, NEW t \in Tasks, Import(t)
  PROVE  ServiceInv'
<1> DEFINE w == [task[t] EXCEPT !.pc = "tag"]
<1>1. task[t] \in Writers /\ WriterOK(task[t], docs, store, excused)
  BY TaskKinds DEF Import, WriterPcs, SavePcs, ServiceInv, Typed, Working
<1>2. w \in TaskStates /\ w.pc = "tag" /\ w.what = task[t].what
      /\ w.snapshot = task[t].snapshot
  BY <1>1 DEF TaskStates, Writers, WriterPcs, SavePcs
<1>3. task' = [task EXCEPT ![t] = w]
  BY DEF Import, Goto, ServiceInv, Typed
<1>4. /\ store'.blobs = store.blobs \cup {task[t].snapshot} /\ store'.tag = store.tag
      /\ store' \in Stores
  BY <1>1 DEF Import, ImportBytes, ServiceInv, Typed, Stores, Writers
<1>5. up /\ UNCHANGED <<up, docs, disk, wanted, abandoned, acked, excused>>
      /\ ~ InColdStart(t)
  BY DEF Import, ghosts, InColdStart, ColdPcs
<1>6. Typed' /\ Whole' /\ Kept(docs, store, excused, docs', store', excused')
  BY <1>2, <1>3, <1>4, <1>5 DEF ServiceInv, Typed, Whole, StoreOK, Kept
<1>7. WriterOK(w, docs', store', excused') /\ w.pc \in LoopPcs
  BY <1>1, <1>2, <1>4, <1>5 DEF WriterOK, WriterPcs, SavePcs, Import, LoopPcs
<1> HIDE DEF w
<1> QED  BY <1>2, <1>3, <1>4, <1>5, <1>6, <1>7, TaskStep

\* What a writer becomes after its save.
LEMMA SavedIsTask ==
  ASSUME NEW t \in Tasks, task[t] \in Writers
  PROVE  /\ Saved(t) \in TaskStates
         /\ t = Loop => Saved(t).pc \in LoopPcs
         /\ Saved(t).pc \notin {"clone"} \cup SavePcs
         /\ Saved(t).pc \in WriterPcs => Saved(t).pc = "announce" /\ Saved(t).what = task[t].what
  BY DEF Saved, Writing, Idle, TaskStates, Writers, WriterPcs, SavePcs, LoopPcs, Snapshots,
         NoSnapshot

LEMMA TagInv ==
  ASSUME ServiceInv, NEW t \in Tasks, Tag(t)
  PROVE  ServiceInv'
<1>1. task[t] \in Writers /\ WriterOK(task[t], docs, store, excused)
  BY TaskKinds DEF Tag, WriterPcs, SavePcs, ServiceInv, Typed, Working
<1>2. task' = [task EXCEPT ![t] = Saved(t)]
  BY DEF Tag, Become
<1>3. /\ store'.blobs = store.blobs /\ store'.tag = task[t].snapshot
      /\ store' \in Stores
  BY <1>1 DEF Tag, SetTag, ServiceInv, Typed, Stores, Writers
<1>4. /\ up /\ UNCHANGED <<up, docs, disk, wanted, abandoned, acked>> /\ ~ InColdStart(t)
      /\ excused' = excused \cup (store.tag \ task[t].snapshot)
  BY DEF Tag, InColdStart, ColdPcs
<1>5. IsDocument(task[t].snapshot) /\ task[t].snapshot \in store.blobs
      /\ task[t].what \ excused \subseteq docs \cap task[t].snapshot
  BY <1>1 DEF WriterOK, WriterPcs, SavePcs, Tag
<1>6. Typed'
  BY <1>1, <1>2, <1>3, <1>4, SavedIsTask DEF ServiceInv, Typed, Stores, Snapshots
<1>7. Whole' /\ Kept(docs, store, excused, docs', store', excused')
  BY <1>3, <1>4, <1>5 DEF ServiceInv, Whole, StoreOK, Kept
<1>8. WriterOK(Saved(t), docs', store', excused')
  BY <1>1, <1>3, <1>4, <1>5, SavedIsTask DEF WriterOK, WriterPcs, SavePcs
<1> QED  BY <1>1, <1>2, <1>4, <1>6, <1>7, <1>8, SavedIsTask, TaskStep

LEMMA SaveFailsInv ==
  ASSUME ServiceInv, NEW t \in Tasks, SaveFails(t)
  PROVE  ServiceInv'
<1>1. task[t] \in Writers /\ WriterOK(task[t], docs, store, excused)
  BY TaskKinds DEF SaveFails, WriterPcs, ServiceInv, Typed, Working
<1>2. task' = [task EXCEPT ![t] = Saved(t)]
  BY DEF SaveFails, Become
<1>3. /\ up /\ UNCHANGED <<up, docs, store, disk, wanted, abandoned, acked>>
      /\ ~ InColdStart(t)
      /\ excused' = excused \cup task[t].snapshot
  BY DEF SaveFails, InColdStart, ColdPcs, SavePcs
<1>4. task[t].what \ excused \subseteq docs \cap task[t].snapshot
  BY <1>1 DEF WriterOK, WriterPcs, SaveFails
<1>5. Typed'
  BY <1>1, <1>2, <1>3, SavedIsTask DEF ServiceInv, Typed, Writers, Snapshots
<1>6. Whole' /\ Kept(docs, store, excused, docs', store', excused')
  BY <1>3 DEF ServiceInv, Whole, StoreOK, Kept
<1>7. WriterOK(Saved(t), docs', store', excused')
  BY <1>1, <1>3, <1>4, SavedIsTask DEF WriterOK, WriterPcs, SavePcs
<1> QED  BY <1>1, <1>2, <1>3, <1>5, <1>6, <1>7, SavedIsTask, TaskStep

LEMMA AnnounceInv ==
  ASSUME ServiceInv, NEW t \in Tasks, AnnounceAndAnswer(t)
  PROVE  ServiceInv'
<1>1. task[t] \in Writers /\ WriterOK(task[t], docs, store, excused) /\ t # Loop
  BY TaskKinds DEF AnnounceAndAnswer, WriterPcs, SavePcs, ServiceInv, Typed, Working, LoopPcs
<1>2. Done \in TaskStates /\ task' = [task EXCEPT ![t] = Done]
  BY DEF AnnounceAndAnswer, Become, TaskStates
<1>3. /\ up /\ UNCHANGED <<up, docs, store, disk, wanted, abandoned, excused>>
      /\ ~ InColdStart(t)
      /\ acked' = acked \cup task[t].what
  BY DEF AnnounceAndAnswer, InColdStart, ColdPcs
<1>4. task[t].what \ excused \subseteq docs \cap store.tag
  BY <1>1 DEF WriterOK, WriterPcs, AnnounceAndAnswer
<1>5. Typed'
  BY <1>1, <1>2, <1>3 DEF ServiceInv, Typed, Writers
<1>6. Whole' /\ Kept(docs, store, excused, docs', store', excused')
  BY <1>3 DEF ServiceInv, Whole, StoreOK, Kept
<1>7. WriterOK(Done, docs', store', excused')
  BY DEF WriterOK, Done, WriterPcs, SavePcs
<1>8. \A h \in acked' \ excused' : h \in acked \/ (h \in store'.tag /\ h \in docs')
  BY <1>3, <1>4
<1> QED  BY <1>1, <1>2, <1>3, <1>5, <1>6, <1>7, <1>8, TaskStep

----------------------------------------------------------------------------
(* ... by the cold start ... *)

\* A step of a handler that writes nothing.
LEMMA ReaderStep ==
  ASSUME ServiceInv, up, NEW t \in Handlers, NEW w \in {Done} \cup Resolvers,
         task' = [task EXCEPT ![t] = w],
         UNCHANGED <<up, docs, store, disk, acked, excused>>,
         wanted' \in BOOLEAN, abandoned' \in BOOLEAN,
         wanted' => \/ abandoned'
                    \/ w.pc \in ColdPcs
                    \/ wanted /\ ~ abandoned /\ ~ InColdStart(t)
  PROVE  ServiceInv'
<1>1. t \in Tasks /\ t # Loop /\ w \in TaskStates
  BY LoopIsNoHandler DEF Tasks, TaskStates
<1>2. Typed' /\ Whole' /\ Kept(docs, store, excused, docs', store', excused')
  BY <1>1 DEF ServiceInv, Typed, Whole, StoreOK, Kept
<1>3. WriterOK(w, docs', store', excused')
  BY DEF WriterOK, WriterPcs, SavePcs, Done, Resolvers, ColdPcs
<1> QED  BY <1>1, <1>2, <1>3, TaskStep

\* A task in a cold start is a handler, and stays in it by moving on.
LEMMA ColdTask ==
  ASSUME ServiceInv, NEW t \in Tasks, InColdStart(t)
  PROVE  /\ t \in Handlers /\ task[t] \in Resolvers
         /\ \A pc \in ColdPcs : [task[t] EXCEPT !.pc = pc] \in Resolvers
         /\ [task[t] EXCEPT !.late = TRUE] \in Resolvers
<1>1. t \in Handlers
  BY DEF ServiceInv, Working, Tasks, InColdStart, ColdPcs, LoopPcs, SavePcs
<1>2. task[t] \in Resolvers
  BY TaskKinds DEF ServiceInv, Typed, InColdStart
<1> QED  BY <1>1, <1>2 DEF Resolvers

\* A cold start that goes on.
LEMMA ColdGoto ==
  ASSUME ServiceInv, up, NEW t \in Tasks, InColdStart(t), NEW pc \in ColdPcs, Goto(t, pc),
         UNCHANGED <<up, docs, wanted, store, disk, ghosts>>
  PROVE  ServiceInv'
<1> DEFINE w == [task[t] EXCEPT !.pc = pc]
<1>1. t \in Handlers /\ w \in Resolvers
  BY ColdTask
<1>2. task' = [task EXCEPT ![t] = w]
  BY DEF Goto, ServiceInv, Typed
<1>3. w.pc \in ColdPcs
  BY <1>1 DEF Resolvers
<1>4. UNCHANGED <<acked, excused, abandoned>> /\ wanted' \in BOOLEAN /\ abandoned' \in BOOLEAN
  BY DEF ghosts, ServiceInv, Typed
<1> HIDE DEF w
<1> QED  BY <1>1, <1>2, <1>3, <1>4, ReaderStep

\* A cold start that ends.
LEMMA ColdEnd ==
  ASSUME ServiceInv, up, NEW t \in Tasks, InColdStart(t), EndColdStart(t),
         UNCHANGED <<up, docs, store, disk, ghosts>>
  PROVE  ServiceInv'
<1>1. t \in Handlers
  BY ColdTask
<1>2. /\ UNCHANGED <<acked, excused, abandoned>> /\ ~ wanted'
      /\ wanted' \in BOOLEAN /\ abandoned' \in BOOLEAN
      /\ task' = [task EXCEPT ![t] = Done]
  BY DEF ghosts, ServiceInv, Typed, EndColdStart, Become
<1> QED  BY <1>1, <1>2, ReaderStep

LEMMA ResolveDidInv ==
  ASSUME ServiceInv, NEW t \in Tasks, ResolveDid(t)
  PROVE  ServiceInv'
<1>1. /\ t \in Handlers /\ up /\ UNCHANGED <<up, docs, store, disk, acked, excused, abandoned>>
      /\ ~ InColdStart(t) /\ abandoned' \in BOOLEAN
  BY DEF ResolveDid, ghosts, InColdStart, ColdPcs, Idle, ServiceInv, Typed
<1>2. CASE docs # {}
  <2>1. task' = [task EXCEPT ![t] = Done] /\ wanted' = wanted /\ wanted' \in BOOLEAN
    BY <1>2 DEF ResolveDid, Become, ServiceInv, Typed
  <2> QED  BY <1>1, <2>1, ReaderStep
<1>3. CASE docs = {}
  <2> DEFINE w == Resolving("lookup", FALSE)
  <2>1. task' = [task EXCEPT ![t] = w] /\ wanted' \in BOOLEAN
    BY <1>3 DEF ResolveDid, Become
  <2>2. w \in Resolvers /\ w.pc \in ColdPcs
    BY DEF Resolving, Resolvers, ColdPcs
  <2> HIDE DEF w
  <2> QED  BY <1>1, <2>1, <2>2, ReaderStep
<1> QED  BY <1>2, <1>3

LEMMA DeadlineInv ==
  ASSUME ServiceInv, NEW t \in Tasks, Deadline(t)
  PROVE  ServiceInv'
<1> DEFINE w == [task[t] EXCEPT !.late = TRUE]
<1>1. t \in Handlers /\ w \in Resolvers
  BY ColdTask DEF Deadline
<1>2. task' = [task EXCEPT ![t] = w]
  BY DEF Deadline, ServiceInv, Typed
<1>3. w.pc \in ColdPcs
  BY <1>1 DEF Resolvers
<1>4. /\ up /\ UNCHANGED <<up, docs, store, disk, acked, excused>>
      /\ wanted' \in BOOLEAN /\ abandoned' \in BOOLEAN
  BY DEF Deadline, ghosts, ServiceInv, Typed
<1> HIDE DEF w
<1> QED  BY <1>1, <1>2, <1>3, <1>4, ReaderStep

LEMMA ColdStartInv ==
  ASSUME ServiceInv, NEW t \in Tasks, ColdStart(t)
  PROVE  ServiceInv'
<1>1. ASSUME NEW b \in BOOLEAN, Lookup(t, b) PROVE ServiceInv'
  <2>1. up /\ InColdStart(t) /\ UNCHANGED <<up, docs, wanted, store, disk, ghosts>>
    BY <1>1 DEF Lookup, InColdStart, ColdPcs
  <2>2. \E pc \in ColdPcs : Goto(t, pc)
    BY <1>1 DEF Lookup, ColdPcs
  <2> QED  BY <2>1, <2>2, ColdGoto
<1>2. ASSUME NEW b \in BOOLEAN, PeerFails(t, b) PROVE ServiceInv'
  <2>1. up /\ InColdStart(t) /\ UNCHANGED <<up, docs, wanted, store, disk, ghosts>>
    BY <1>2 DEF PeerFails, InColdStart, ColdPcs
  <2>2. \E pc \in ColdPcs : Goto(t, pc)
    BY <1>2 DEF PeerFails, ColdPcs
  <2> QED  BY <2>1, <2>2, ColdGoto
<1>3. CASE PollFinds(t)
  BY <1>3, ColdEnd DEF PollFinds, InColdStart, ColdPcs
<1>4. CASE Pause(t)
  <2>1. up /\ InColdStart(t) /\ UNCHANGED <<up, docs, store, disk, ghosts>>
    BY <1>4 DEF Pause, InColdStart, ColdPcs
  <2>2. EndColdStart(t) \/ (UNCHANGED wanted /\ \E pc \in ColdPcs : Goto(t, pc))
    BY <1>4 DEF Pause, ColdPcs
  <2> QED  BY <2>1, <2>2, ColdEnd, ColdGoto
<1> QED  BY <1>1, <1>2, <1>3, <1>4 DEF ColdStart

----------------------------------------------------------------------------
(* ... by the receive loop, the clients, the store and the process *)

LEMMA DeliverInv ==
  ASSUME ServiceInv, NEW S \in SUBSET Deltas, Deliver(S)
  PROVE  ServiceInv'
<1>1. /\ up /\ UNCHANGED <<up, wanted, store, disk, acked, excused, abandoned>>
      /\ Loop \in Tasks /\ Loop \notin Handlers
  BY LoopIsNoHandler DEF Deliver, ghosts, Tasks
<1>2. CASE Takes(S)
  <2> DEFINE w == Writing({}, "clone")
  <2>1. /\ w \in TaskStates /\ task' = [task EXCEPT ![Loop] = w] /\ docs' = docs \cup S
        /\ IsDocument(docs')
    BY <1>2 DEF Deliver, Takes, Become, Writing, TaskStates, Writers, WriterPcs, Snapshots,
                NoSnapshot
  <2>2. Typed' /\ Whole' /\ Kept(docs, store, excused, docs', store', excused')
    BY <1>1, <2>1 DEF ServiceInv, Typed, Whole, StoreOK, Kept
  <2>3. WriterOK(w, docs', store', excused') /\ w.pc \in LoopPcs
    BY <2>1 DEF WriterOK, Writing, WriterPcs, SavePcs, LoopPcs, IsDocument
  <2>4. wanted' => abandoned' \/ (wanted /\ ~ abandoned)
    BY <1>1 DEF ServiceInv, Typed
  <2> HIDE DEF w
  <2> QED  BY <1>1, <2>1, <2>2, <2>3, <2>4, TaskStep
<1>3. CASE ~ Takes(S)
  BY <1>1, <1>3 DEF Deliver, ServiceInv, Typed, Whole, StoreOK, Working, Down, Owned,
                    AnsweredIsStored, Active, InColdStart
<1> QED  BY <1>2, <1>3

LEMMA ClientLeavesInv ==
  ASSUME ServiceInv, NEW t \in Tasks, ClientLeaves(t)
  PROVE  ServiceInv'
<1>1. /\ t \in Handlers /\ up /\ UNCHANGED <<up, docs, store, disk, acked, excused, wanted>>
      /\ task' = [task EXCEPT ![t] = Done]
      /\ abandoned' = (abandoned \/ InColdStart(t))
  BY DEF ClientLeaves, Become
<1>2. wanted' \in BOOLEAN /\ abandoned' \in BOOLEAN
  BY <1>1 DEF ServiceInv, Typed
<1>3. wanted' => abandoned' \/ (wanted /\ ~ abandoned /\ ~ InColdStart(t))
  BY <1>1
<1> QED  BY <1>1, <1>2, <1>3, ReaderStep

LEMMA FlushInv ==
  ASSUME ServiceInv, Flush
  PROVE  ServiceInv'
  BY DEF Flush, ghosts, ServiceInv, Typed, Whole, StoreOK, Working, Down, Owned,
         AnsweredIsStored, Active, InColdStart

\* After the end of the process only the store is left.
LEMMA DieInv ==
  ASSUME ServiceInv, Die, store' \in Stores, disk' \in Stores, StoreOK(store'), StoreOK(disk'),
         excused' \in SUBSET Deltas, excused \subseteq excused',
         store.tag \ excused' \subseteq store'.tag
  PROVE  ServiceInv'
<1>1. \A t \in Tasks : task'[t] \in {Idle, Done} /\ (t = Loop => task'[t] = Idle)
  <2>1. ASSUME NEW t \in Tasks, ~ Active(t) PROVE task[t] \in {Idle, Done}
    BY <2>1 DEF Active, ServiceInv, Typed, TaskStates, Writers, Resolvers, WriterPcs, SavePcs,
                ColdPcs, Idle, Done
  <2> QED  BY <2>1 DEF Die
<1>2. Typed' /\ Whole'
  <2>1. task' \in [Tasks -> TaskStates]
    BY <1>1 DEF Die, TaskStates
  <2> QED  BY <2>1 DEF Die, ServiceInv, Typed, Whole, StoreOK
<1>3. Working'
  BY <1>1 DEF Working, WriterOK, WriterPcs, SavePcs, LoopPcs, Idle, Done, Tasks
<1>4. Down' /\ Owned'
  BY <1>1 DEF Die, Down, Owned, Active, Idle, Done
<1>5. AnsweredIsStored'
  BY DEF Die, ServiceInv, AnsweredIsStored
<1> QED  BY <1>2, <1>3, <1>4, <1>5 DEF ServiceInv

LEMMA CrashInv ==
  ASSUME ServiceInv, Crash
  PROVE  ServiceInv'
<1>1. Die /\ store' = disk /\ disk' = disk /\ excused' = excused \cup (store.tag \ disk.tag)
  BY DEF Crash
<1>2. excused' \in SUBSET Deltas /\ store' \in Stores /\ disk' \in Stores
  BY <1>1 DEF ServiceInv, Typed, Stores, Snapshots
<1>3. StoreOK(store') /\ StoreOK(disk')
  BY <1>1 DEF ServiceInv, Whole, StoreOK
<1> QED  BY <1>1, <1>2, <1>3, DieInv

LEMMA ShutdownInv ==
  ASSUME ServiceInv, Shutdown
  PROVE  ServiceInv'
<1>1. Die /\ store' = store /\ disk' = store /\ excused' = excused
  BY DEF Shutdown
<1>2. excused' \in SUBSET Deltas /\ store' \in Stores /\ disk' \in Stores
  BY <1>1 DEF ServiceInv, Typed
<1>3. StoreOK(store') /\ StoreOK(disk')
  BY <1>1 DEF ServiceInv, Whole, StoreOK
<1> QED  BY <1>1, <1>2, <1>3, DieInv

LEMMA StartInv ==
  ASSUME ServiceInv, NEW loaded \in BOOLEAN, Start(loaded)
  PROVE  ServiceInv'
<1>1. /\ ~ up /\ up' = TRUE /\ UNCHANGED <<wanted, task, store, disk, acked, abandoned>>
      /\ \A t \in Tasks : ~ Active(t)
  BY DEF Start, ServiceInv, Down
<1>2. /\ docs' = store.tag \/ docs' = {}
      /\ excused' = excused \/ excused' = excused \cup store.tag
      /\ docs' = store.tag \/ store.tag \subseteq excused'
  BY DEF Start, LoadAll, Load, NoSnapshot, ServiceInv, Whole, StoreOK
<1>3. Typed'
  BY <1>1, <1>2 DEF ServiceInv, Typed, Stores, Snapshots
<1>4. Whole'
  BY <1>1, <1>2 DEF ServiceInv, Whole, StoreOK
<1>5. Working'
  BY <1>1 DEF ServiceInv, Working, WriterOK, WriterPcs, SavePcs, Active
<1>6. Down' /\ Owned'
  BY <1>1 DEF ServiceInv, Down, Owned, InColdStart
<1>7. AnsweredIsStored'
  BY <1>1, <1>2 DEF ServiceInv, AnsweredIsStored
<1> QED  BY <1>3, <1>4, <1>5, <1>6, <1>7 DEF ServiceInv

----------------------------------------------------------------------------
(* Theorems *)

LEMMA NextInv == ServiceInv /\ [Next]_vars => ServiceInv'
<1> SUFFICES ASSUME ServiceInv, [Next]_vars PROVE ServiceInv'
  OBVIOUS
<1>1. ASSUME NEW t \in Tasks,
             \/ CreateDid(t) \/ (\E h \in Deltas \ {Genesis} : SubmitDelta(t, h))
             \/ Save(t) \/ SaveFails(t) \/ AnnounceAndAnswer(t)
             \/ ResolveDid(t) \/ ColdStart(t) \/ Deadline(t)
             \/ ClientLeaves(t)
      PROVE ServiceInv'
  <2>1. CASE CreateDid(t)
    BY <2>1, CreateDidInv
  <2>2. CASE \E h \in Deltas \ {Genesis} : SubmitDelta(t, h)
    BY <2>2, SubmitDeltaInv
  <2>3. CASE Save(t)
    BY <2>3, CloneInv, ImportInv, TagInv DEF Save
  <2>4. CASE SaveFails(t) \/ AnnounceAndAnswer(t)
    BY <2>4, SaveFailsInv, AnnounceInv
  <2>5. CASE ResolveDid(t) \/ ColdStart(t) \/ Deadline(t)
    BY <2>5, ResolveDidInv, ColdStartInv, DeadlineInv
  <2>6. CASE ClientLeaves(t)
    BY <2>6, ClientLeavesInv
  <2> QED  BY <1>1, <2>1, <2>2, <2>3, <2>4, <2>5, <2>6
<1>2. CASE \E S \in SUBSET Deltas : Deliver(S)
  BY <1>2, DeliverInv
<1>3. CASE Flush \/ Crash \/ Shutdown
  BY <1>3, FlushInv, CrashInv, ShutdownInv
<1>4. CASE \E loaded \in BOOLEAN : Start(loaded)
  BY <1>4, StartInv
<1>5. CASE UNCHANGED vars
  BY <1>5 DEF vars, ghosts, ServiceInv, Typed, Whole, StoreOK, Working, Down, Owned,
              AnsweredIsStored, Active, InColdStart
<1> QED  BY <1>1, <1>2, <1>3, <1>4, <1>5 DEF Next

\* The inductive invariant: documents and snapshots are whole, every task finds
\* what it relies on, and a DID is wanted for a reason.
THEOREM ServiceInvariant == Spec => []ServiceInv
<1>1. Init => ServiceInv
  BY InitInv
<1>2. ServiceInv /\ [Next]_vars => ServiceInv'
  BY NextInv
<1> QED  BY <1>1, <1>2, PTL DEF Spec

\* Type correctness; in particular the document in memory is whole, and the
\* receive loop is never where only a handler can be.
THEOREM ServiceTypeCorrect == Spec => []TypeOK
<1>1. ServiceInv => TypeOK
  <2> SUFFICES ASSUME ServiceInv PROVE TypeOK
    OBVIOUS
  <2>1. \A t \in Handlers : task[t].pc \in
          {"idle", "done", "clone", "announce"} \cup SavePcs \cup ColdPcs
    <3> SUFFICES ASSUME NEW t \in Handlers
                 PROVE  task[t].pc \in
                   {"idle", "done", "clone", "announce"} \cup SavePcs \cup ColdPcs
      OBVIOUS
    <3>1. task[t] \in TaskStates
      BY DEF ServiceInv, Typed, Tasks
    <3> QED  BY <3>1 DEF TaskStates, Writers, Resolvers, WriterPcs, Idle, Done
  <2>2. task[Loop].pc \in {"idle", "clone"} \cup SavePcs
    BY DEF ServiceInv, Working, LoopPcs
  <2>3. docs = {} \/ IsDocument(docs)
    BY DEF ServiceInv, Whole
  <2>4. /\ {wanted, up, abandoned} \subseteq BOOLEAN
        /\ store.tag \subseteq Deltas /\ disk.tag \subseteq Deltas
    BY DEF ServiceInv, Typed, Stores, Snapshots
  <2> QED  BY <2>1, <2>2, <2>3, <2>4 DEF TypeOK
<1> QED  BY <1>1, ServiceInvariant, PTL

\* Whenever the process dies, in memory or on disk, the snapshot its successor
\* finds is there and is a whole document (BlobStore::save, load_all).
THEOREM StoreAlwaysLoadable == Spec => []StoreIsLoadable
<1>1. ServiceInv => StoreIsLoadable
  BY DEF ServiceInv, Whole, StoreOK, StoreIsLoadable, LoadAll, Load, NoSnapshot
<1> QED  BY <1>1, ServiceInvariant, PTL

\* An answered write is in memory and in the latest snapshot, for any number of
\* handlers and faults, unless one of the five causes removed it.
THEOREM AnsweredAlwaysStored == Spec => []AnsweredIsStored
<1>1. ServiceInv => AnsweredIsStored
  BY DEF ServiceInv
<1> QED  BY <1>1, ServiceInvariant, PTL

\* Only a cold start, or one that a client has left, lets a peer give the node
\* a document it did not have (merge_inbound, BootstrapPolicy).
THEOREM PeersOnlySolicited == Spec => OnlySolicited
<1> DEFINE A == docs = {} /\ docs' # {} /\ task'[Loop] # Idle =>
                  abandoned \/ \E t \in Handlers : InColdStart(t)
<1>1. ServiceInv /\ [Next]_vars => [A]_vars
  <2> SUFFICES ASSUME ServiceInv, Next, docs = {}, docs' # {}, task'[Loop] # Idle
               PROVE  abandoned \/ \E t \in Handlers : InColdStart(t)
    OBVIOUS
  <2>1. task[Loop] = Idle
    <3>1. Loop \in Tasks
      BY DEF Tasks
    <3>2. task[Loop].pc = "idle"
      BY <3>1 DEF ServiceInv, Working, WriterOK, LoopPcs
    <3> QED  BY <3>1, <3>2, TaskKinds DEF ServiceInv, Typed
  <2>2. CASE \E S \in SUBSET Deltas : Deliver(S)
    BY <2>2 DEF Deliver, Takes, ServiceInv, Owned
  <2>3. ASSUME NEW t \in Tasks, CreateDid(t) PROVE FALSE
    BY <2>1, <2>3, LoopIsNoHandler DEF CreateDid, Become, ServiceInv, Typed
  <2>4. ASSUME NEW t \in Tasks, NEW h \in Deltas, SubmitDelta(t, h) PROVE FALSE
    BY <2>4 DEF SubmitDelta, Mergeable
  <2>5. ASSUME NEW t \in Tasks,
               \/ Save(t) \/ SaveFails(t) \/ AnnounceAndAnswer(t) \/ ResolveDid(t)
               \/ ColdStart(t) \/ Deadline(t) \/ ClientLeaves(t)
        PROVE  FALSE
    BY <2>5 DEF Save, Clone, Import, Tag, SaveFails, AnnounceAndAnswer, ResolveDid, ColdStart,
                Lookup, PeerFails, PollFinds, Pause, Deadline, ClientLeaves
  <2>6. CASE Flush \/ Crash \/ Shutdown
    BY <2>6 DEF Flush, Crash, Shutdown, Die
  <2>7. CASE \E loaded \in BOOLEAN : Start(loaded)
    BY <2>1, <2>7 DEF Start
  <2> QED  BY <2>2, <2>3, <2>4, <2>5, <2>6, <2>7 DEF Next
<1> QED  BY <1>1, ServiceInvariant, PTL DEF Spec, OnlySolicited
=============================================================================
