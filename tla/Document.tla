------------------------------ MODULE Document ------------------------------
(***************************************************************************)
(* Replicas of one DID document (core/document.rs): every replica holds    *)
(* the typed CRDT fields, the log of the deltas it has applied and the     *)
(* delta DAG over them.  Devices author deltas on the frontier of their    *)
(* replica; deltas travel singly, in bundles or as whole states, in any    *)
(* order and any number of times; whatever arrives is untrusted and goes   *)
(* through signature verification and causal admission.                    *)
(***************************************************************************)
EXTENDS Causal, Crdt

CONSTANTS
  Replicas,
  KeyIds,        \* identifiers of verification methods
  GenesisId,     \* the id of the key the DID is derived from (#key-0)
  GenesisPub,    \* its public key
  DeviceId,      \* replica -> the key id the device on it signs as
  DevicePub,     \* replica -> the public key of the device on it, whose node
                 \* id is the number itself (node_id_from_pubkey)
  Ops,           \* the operations the devices may author
  Rogues,        \* replicas whose device builds deltas on any parents, with any
                 \* node id, and past the static gates
  Tampering,     \* whether proofs may be altered on the way
  Readings       \* what the devices' wall clocks may show

Genesis == 0     \* the content hash of the genesis delta

\* The kinds of DeltaOp.
OpTypes == {"AddVM", "AddService", "RemoveService", "SetAka", "SetData",
            "RotateKey", "RevokeCredential", "RevokeVM", "Deactivate"}

ASSUME HashesAreOrdered == Hashes \subseteq Nat /\ Genesis \in Hashes
ASSUME OpsAreOps ==
  \A op \in Ops :
    /\ op.type \in OpTypes
    /\ op.type = "AddVM" => op.id \in KeyIds /\ op.pk \in Nodes
    /\ op.type = "RotateKey" => op.seq \in Nat /\ op.key \in Nat
ASSUME ReadingsAreNumbers == Readings \subseteq Nat
ASSUME GenesisIdIsKeyId == GenesisId \in KeyIds
ASSUME GenesisPubIsNode == GenesisPub \in Nodes
ASSUME RoguesAreReplicas == Rogues \subseteq Replicas
ASSUME TamperingIsBoolean == Tampering \in BOOLEAN
ASSUME DevicesAreNodes == DevicePub \in [Replicas -> Nodes]
ASSUME DevicesHaveIds == DeviceId \in [Replicas -> KeyIds]

VARIABLES
  delta,    \* the deltas that exist: content hash -> content
  doc,      \* replica -> Document
  clock,    \* replica -> the last timestamp of its device's Hlc
  work      \* the bundle import in progress, if any

vars == <<delta, doc, clock, work>>

Exists == DOMAIN delta

Idle == [to |-> Genesis]      \* no import in progress

----------------------------------------------------------------------------
(* The document *)

\* Document::new.  The proof of the genesis delta names no key id.
GenesisOp == [type |-> "AddVM", id |-> GenesisId, pk |-> GenesisPub]
GenesisDelta == [op |-> GenesisOp, parents |-> {}, ts |-> ZeroTs,
                 by |-> GenesisId, sealed |-> FALSE, sound |-> TRUE]

NewDocument ==
  [vms         |-> {[id |-> GenesisId, pk |-> GenesisPub]},
   services    |-> EmptyServices,
   data        |-> EmptyMap,
   aka         |-> EmptyReg,
   active      |-> NoActiveKey,
   creds       |-> {},
   revoked     |-> {},
   deactivated |-> FALSE,
   updated     |-> 0,
   log         |-> [h \in {Genesis} |-> GenesisId],
   dag         |-> [held |-> {Genesis}, referenced |-> {},
                    frontier |-> {Genesis}]]

\* A remove that cancels every add of the id the replica holds.
ObservedLocally(L, d, h) ==
  {L[x].ts : x \in {y \in d.dag.held :
                      L[y].op.type = "AddService" /\ L[y].op.id = L[h].op.id}}

\* The adds a remove cancels: those of its id in its own causal past.
Observed(L, d, h) ==
  {L[x].ts : x \in {y \in Closure(L, d.dag.held, L[h].parents) :
                      L[y].op.type = "AddService" /\ L[y].op.id = L[h].op.id}}

\* Document::apply_op
ApplyOp(L, d, h) ==
  LET op == L[h].op
      ts == L[h].ts
      e  == [d EXCEPT !.updated = MaxOf(@, ts.wall)]
  IN  CASE op.type = "AddVM" ->
             [e EXCEPT !.vms = AddMethod(@, op.id, op.pk)]
        [] op.type = "AddService" ->
             [e EXCEPT !.services =
                ApplyAdd(@, [id |-> op.id, url |-> op.url], ts)]
        [] op.type = "RemoveService" ->
             [e EXCEPT !.services = ApplyRemove(@, Observed(L, d, h), ts)]
        [] op.type = "SetAka" ->
             [e EXCEPT !.aka = SetAliases(@, op.uris, ts)]
        [] op.type = "SetData" ->
             [e EXCEPT !.data = SetData(@, op.key, op.val, ts)]
        [] op.type = "RotateKey" ->
             [e EXCEPT !.active = Rotate(@, [seq |-> op.seq, key |-> op.key])]
        [] op.type = "RevokeCredential" ->
             [e EXCEPT !.creds = Revoke(@, op.cred)]
        [] op.type = "RevokeVM" ->
             [e EXCEPT !.revoked = Revoke(@, op.id)]
        [] op.type = "Deactivate" ->
             [e EXCEPT !.deactivated = Latch(@, TRUE)]

\* The end of Document::merge: apply, insert into the DAG, append to the log.
Apply(L, d, h, by) ==
  [ApplyOp(L, d, h) EXCEPT !.dag = Insert(L, @, h), !.log = Put(@, h, by)]

----------------------------------------------------------------------------
(* Admission.  `by` is the key id in the proof of a delivered delta, `sig`  *)
(* whether the proof carries a signature the private key behind the delta's *)
(* node id made over its content.                                           *)

\* validate::verify_signature without the binding of node id and key.
SignatureUnbound(L, d, h, by, sig) == \E e \in d.vms : e.id = by

\* validate::verify_signature: the first entry with this id, in the order of
\* the set, must be the key that signed.
VerifySignature(L, d, h, by, sig) ==
  /\ sig
  /\ [id |-> by, pk |-> L[h].ts.node] \in d.vms
  /\ \A e \in d.vms : e.id = by => L[h].ts.node <= e.pk

Verdict(L, d, h, by) == VerifyCausal(L, d.dag.held, L[h].op, L[h].parents, by)

IsPending(L, d, h, by) == ~ IsResolved(Verdict(L, d, h, by))

\* Step 3 of Document::merge.  A signer nobody added by a delta is left to
\* the floor.
CausallyAdmitted(L, d, h, by) ==
  \/ Verdict(L, d, h, by) = Valid
  \/ /\ Verdict(L, d, h, by) = Invalid(SignerNotAuthorised)
     /\ L[h].parents # {}
     /\ ~ HasAuthorisingDelta(L, d.dag.held, by)

\* A floor that judges a delta by the current state alone.
FloorOnState(L, d, by) ==
  /\ ~ d.deactivated
  /\ by \notin d.revoked

\* Step 4 of Document::merge, the state-import floor: facts of the state that
\* no delta in the DAG accounts for.
AboveFloor(L, d, by) ==
  /\ d.deactivated => HasDeactivateDelta(L, d.dag.held)
  /\ \/ HasAuthorisingDelta(L, d.dag.held, by)
     \/ d.vms = {}
     \/ \E e \in d.vms : e.id = by
  /\ by \in d.revoked => HasRevokingDelta(L, d.dag.held, by)

\* The static gates of Document::merge: size, DID, alsoKnownAs recogniser,
\* reserved names, canonical parents.
PassesGates(L, h) == L[h].sound

\* Document::merge accepts a delta it does not hold: the static gates, causal
\* admission, the floor.
MergeAccepts(L, d, h, by) ==
  PassesGates(L, h) /\ CausallyAdmitted(L, d, h, by) /\ AboveFloor(L, d, by)

\* Document::merge_verified_delta applies the delta.
Admits(L, d, h, by, sig) ==
  /\ h \notin d.dag.held
  /\ ~ IsPending(L, d, h, by)
  /\ VerifySignature(L, d, h, by, sig)
  /\ MergeAccepts(L, d, h, by)

MergeVerifiedDelta(L, d, h, by, sig) ==
  IF Admits(L, d, h, by, sig) THEN Apply(L, d, h, by) ELSE d

\* A merge of the fields that leaves the other side's revoked keys out.
JoinForgetsRevoked(L, a, b) ==
  [vms         |-> a.vms \cup b.vms,
   services    |-> MergeServices(a.services, b.services),
   data        |-> MergeData(a.data, b.data),
   aka         |-> LwwUpdate(a.aka, b.aka.val, b.aka.marker),
   active      |-> Rotate(a.active, b.active),
   creds       |-> a.creds \cup b.creds,
   revoked     |-> a.revoked,
   deactivated |-> Latch(a.deactivated, b.deactivated),
   updated     |-> MaxOf(a.updated, b.updated),
   log         |-> a.log,
   dag         |-> a.dag]

\* The typed fields of Document::merge_state.
JoinFields(L, a, b) ==
  [vms         |-> a.vms \cup b.vms,
   services    |-> MergeServices(a.services, b.services),
   data        |-> MergeData(a.data, b.data),
   aka         |-> LwwUpdate(a.aka, b.aka.val, b.aka.marker),
   active      |-> Rotate(a.active, b.active),
   creds       |-> a.creds \cup b.creds,
   revoked     |-> a.revoked \cup b.revoked,
   deactivated |-> Latch(a.deactivated, b.deactivated),
   updated     |-> MaxOf(a.updated, b.updated),
   log         |-> a.log,
   dag         |-> a.dag]

\* A merge of states that does not insert the other log into the DAG.
JoinForgetsDag(L, a, b) ==
  [JoinFields(L, a, b) EXCEPT
     !.log = [h \in DOMAIN a.log \cup DOMAIN b.log |->
                IF h \in DOMAIN a.log THEN a.log[h] ELSE b.log[h]]]

\* A merge of states that takes the other log for its own.
JoinReplacesLog(L, a, b) ==
  [JoinFields(L, a, b) EXCEPT !.log = b.log, !.dag = b.dag]

\* Document::merge_state: the fields, then the other log into log and DAG.
Join(L, a, b) ==
  [JoinFields(L, a, b) EXCEPT
     !.log = [h \in DOMAIN a.log \cup DOMAIN b.log |->
                IF h \in DOMAIN a.log THEN a.log[h] ELSE b.log[h]],
     !.dag = InsertAll(L, a.dag, DOMAIN b.log)]

\* Document::export_bundle
ExportBundle(L, d) ==
  UNION {ExtractClosure(L, d.dag, head, {}) : head \in d.dag.frontier}

\* Document::content_hash: what it hashes, which is every field but aka.
ContentHash(d) ==
  <<d.vms, d.services, d.data, d.active, d.creds, d.revoked, d.deactivated,
    d.updated>>

----------------------------------------------------------------------------
(* Behaviour *)

Init ==
  /\ delta = [h \in {Genesis} |-> GenesisDelta]
  /\ doc = [r \in Replicas |-> NewDocument]
  /\ clock = [r \in Replicas |->
                [wall |-> 0, logical |-> 0, node |-> DevicePub[r]]]
  /\ work = Idle

\* SignedDelta::content_hash: deltas with the same operation, parents and
\* timestamp are one delta, whatever their proofs; new content gets a new hash.
\* (Content the static gates refuse differs in something not modelled.)
SameContent(c, x) ==
  /\ delta[x].op = c.op /\ delta[x].parents = c.parents
  /\ delta[x].ts = c.ts /\ delta[x].sound = c.sound
HasHash(c, h) ==
  IF \E x \in Exists : SameContent(c, x)
    THEN h \in Exists /\ SameContent(c, h)
    ELSE h \in Hashes \ Exists /\ \A x \in Exists : x < h

\* The content c now exists under the hash h, with the proof in c.
Publish(c, h) == HasHash(c, h) /\ delta' = Put(delta, h, c)

\* The device on r stamps an operation, builds a signed delta on the frontier
\* of its replica and submits it there (new_with_parents,
\* merge_verified_delta).  The delta exists even if the replica refuses it.
Author(r, op, now, h) ==
  LET ts == AdvanceSend(clock[r], now)
      c  == [op |-> op, parents |-> doc[r].dag.frontier, ts |-> ts,
             by |-> DeviceId[r], sealed |-> TRUE, sound |-> TRUE]
  IN  /\ work = Idle
      /\ clock' = [clock EXCEPT ![r] = ts]
      /\ Publish(c, h)
      /\ doc' = [doc EXCEPT ![r] =
                   MergeVerifiedDelta(delta', @, h, DeviceId[r], TRUE)]
      /\ UNCHANGED work

\* A device that does not go by its replica's frontier: any parents, any node
\* id in the timestamp (its own key signs only under its own node id), and
\* content the static gates refuse.
Craft(r, op, parents, node, sound, now, h) ==
  LET tick == AdvanceSend(clock[r], now)
      c    == [op |-> op, parents |-> parents, ts |-> [tick EXCEPT !.node = node],
               by |-> DeviceId[r], sealed |-> node = DevicePub[r],
               sound |-> sound]
  IN  /\ work = Idle
      /\ r \in Rogues
      /\ clock' = [clock EXCEPT ![r] = tick]
      /\ h \notin Exists
      /\ Publish(c, h)
      /\ UNCHANGED <<doc, work>>

\* The proofs under which the delta h may arrive: its own, or one altered on
\* the way.
Proofs(h) ==
  IF Tampering
    THEN {[by |-> id, sig |-> s] : id \in KeyIds, s \in {FALSE, delta[h].sealed}}
    ELSE {[by |-> delta[h].by, sig |-> delta[h].sealed]}

\* Document::merge_verified_delta at r of a delta from the network, at any
\* time, any number of times.
Deliver(r, h, proof) ==
  /\ work = Idle
  /\ doc' = [doc EXCEPT ![r] =
               MergeVerifiedDelta(delta, @, h, proof.by, proof.sig)]
  /\ UNCHANGED <<delta, clock, work>>

\* Document::merge_state of q's document at r.
MergeState(r, q) ==
  /\ work = Idle
  /\ doc' = [doc EXCEPT ![r] = Join(delta, @, doc[q])]
  /\ UNCHANGED <<delta, clock, work>>

\* Document::merge_verified_bundle is one call that owns the replica; it is
\* modelled step by step (any topological order stands for the one
\* topo_order_bundle picks) and nothing else moves until it ends.
\* `vouched` is the proof of each delta where the bundle's maker fixed it.
StartImport(r, target, deltas, vouched) ==
  /\ work = Idle
  /\ BundleSound(delta, doc[r].dag.held, target, deltas)
  /\ work' = [to |-> r, copy |-> doc[r], todo |-> deltas, vouched |-> vouched]
  /\ UNCHANGED <<delta, doc, clock>>

\* Replication from q by export_bundle; its target is one of q's heads.
ImportFrom(r, q) ==
  \E head \in doc[q].dag.frontier :
    StartImport(r, head, ExportBundle(delta, doc[q]), doc[q].log)

\* A bundle of anything.
ImportCrafted(r, target, deltas) ==
  /\ Tampering
  /\ StartImport(r, target, deltas, EmptyMap)

\* The proof a delta has in the bundle being imported.
BundledProofs(h) ==
  IF h \in DOMAIN work.vouched
    THEN {[by |-> work.vouched[h], sig |-> delta[h].sealed]}
    ELSE Proofs(h)

\* A step of the replay on the working copy.
Ready(h) == h \in work.todo /\ delta[h].parents \cap work.todo = {}

Skip(h) ==
  /\ work # Idle /\ Ready(h) /\ h \in work.copy.dag.held
  /\ work' = [work EXCEPT !.todo = @ \ {h}]
  /\ UNCHANGED <<delta, doc, clock>>

Replay(h, proof) ==
  /\ work # Idle /\ Ready(h)
  /\ Admits(delta, work.copy, h, proof.by, proof.sig)
  /\ work' = [work EXCEPT !.todo = @ \ {h},
                          !.copy = Apply(delta, @, h, proof.by)]
  /\ UNCHANGED <<delta, doc, clock>>

\* The first delta that is refused ends the import and leaves r as it was.
Abort(h, proof) ==
  /\ work # Idle /\ Ready(h) /\ h \notin work.copy.dag.held
  /\ ~ Admits(delta, work.copy, h, proof.by, proof.sig)
  /\ work' = Idle
  /\ UNCHANGED <<delta, doc, clock>>

Commit ==
  /\ work # Idle /\ work.todo = {}
  /\ doc' = [doc EXCEPT ![work.to] = work.copy]
  /\ work' = Idle
  /\ UNCHANGED <<delta, clock>>

Next ==
  \/ \E r \in Replicas, op \in Ops, now \in Readings, h \in Hashes :
       \/ Author(r, op, now, h)
       \/ \E parents \in SUBSET Exists, node \in Nodes, sound \in BOOLEAN :
            Craft(r, op, parents, node, sound, now, h)
  \/ \E r \in Replicas, h \in Exists : \E p \in Proofs(h) : Deliver(r, h, p)
  \/ \E r, q \in Replicas : MergeState(r, q) \/ ImportFrom(r, q)
  \/ \E r \in Replicas, deltas \in SUBSET Exists :
       \E target \in deltas : ImportCrafted(r, target, deltas)
  \/ /\ work # Idle
     /\ \E h \in work.todo :
          \/ Skip(h)
          \/ \E p \in BundledProofs(h) : Replay(h, p) \/ Abort(h, p)
  \/ Commit

Spec == Init /\ [][Next]_vars

----------------------------------------------------------------------------
(* Properties *)

Documents == {doc[r] : r \in Replicas} \cup
             (IF work = Idle THEN {} ELSE {work.copy})

\* What every content record is like.
ContentOK(L) ==
  \A h \in DOMAIN L :
    /\ L[h].parents \subseteq DOMAIN L
    /\ L[h].op.type \in OpTypes
    /\ L[h].ts \in Timestamps
    /\ L[h].by \in KeyIds

IsDocument(L, d) ==
  /\ d = [vms |-> d.vms, services |-> d.services, data |-> d.data, aka |-> d.aka,
          active |-> d.active, creds |-> d.creds, revoked |-> d.revoked,
          deactivated |-> d.deactivated, updated |-> d.updated, log |-> d.log,
          dag |-> d.dag]
  /\ d.dag.held \subseteq DOMAIN L
  /\ Genesis \in d.dag.held
  /\ d.log = [h \in d.dag.held |-> d.log[h]]

\* An import in progress works on a copy with at least what the replica has.
WorkOK ==
  work # Idle =>
    /\ work = [to |-> work.to, copy |-> work.copy, todo |-> work.todo,
               vouched |-> work.vouched]
    /\ work.to \in Replicas
    /\ work.todo \subseteq Exists
    /\ doc[work.to].dag.held \subseteq work.copy.dag.held

TypeOK ==
  /\ Exists \subseteq Hashes /\ ContentOK(delta)
  /\ delta = [h \in Exists |-> delta[h]]
  /\ clock \in [Replicas -> Timestamps]
  /\ doc = [r \in Replicas |-> doc[r]]
  /\ WorkOK
  /\ \A d \in Documents : IsDocument(delta, d)

\* The whole causal past of a delta, from its content alone.
PastIn(L, h) == Closure(L, DOMAIN L, L[h].parents)
Past(h) == PastIn(delta, h)

\* No gaps: a document never holds a delta without its ancestors, so the DAG
\* on which admission decides is complete, and the frontier is the set of its
\* leaves (document.rs, "The full log is always retained, so the DAG is always
\* complete and causal admission is exact").
CompleteIn(L, d) ==
  /\ Referenced(L, d.dag.held) \subseteq d.dag.held
  /\ d.dag = RebuildDag(L, d.dag.held)

HistoryComplete == \A d \in Documents : CompleteIn(delta, d)

\* Every delta in a document was signed by the key behind its node id, by a
\* signer that its causal past adds and neither revokes nor cuts off by a
\* deactivation, however it got there (merge, bundle, state import).
AuthorisedIn(L, d, h) ==
  /\ L[h].sealed /\ L[h].sound /\ L[h].parents # {}
  /\ [id |-> d.log[h], pk |-> L[h].ts.node] \in d.vms
  /\ HasAuthorisingDelta(L, PastIn(L, h), d.log[h])
  /\ ~ HasRevokingDelta(L, PastIn(L, h), d.log[h])
  /\ ~ HasDeactivateDelta(L, PastIn(L, h))

OnlyAuthorised ==
  \A d \in Documents : \A h \in d.dag.held \ {Genesis} : AuthorisedIn(delta, d, h)

\* Every verification method came with a delta that is held, so the floor of
\* Document::merge has nothing to let through.
KeysHaveDeltas ==
  \A d \in Documents :
    d.vms # {} /\ \A e \in d.vms : HasAuthorisingDelta(delta, d.dag.held, e.id)

\* The inductive invariant of DocumentProofs.
DocInv == TypeOK /\ HistoryComplete /\ KeysHaveDeltas /\ OnlyAuthorised

\* Admission is independent of the replica: of the replicas that have the past
\* of a delta, all take it or all refuse it, whatever else they hold and
\* whenever they see it (document.rs, "it is order-independent").
Undecided(d, h, proof) ==
  IF h \in d.dag.held THEN d.log[h] # proof.by \/ ~ proof.sig
                      ELSE IsPending(delta, d, h, proof.by)

Takes(d, h, proof) ==
  h \in d.dag.held \/ Admits(delta, d, h, proof.by, proof.sig)

AdmissionAgreement ==
  \A h \in Exists \ {Genesis} : \A proof \in Proofs(h) :
    LET informed == {r \in Replicas : ~ Undecided(doc[r], h, proof)}
    IN  {r \in informed : Takes(doc[r], h, proof)} \in {{}, informed}

\* A verdict other than Unknown is final: more history never turns a valid
\* delta into an invalid one or back (causal.rs, "never reverses a resolved
\* result").
VerdictIsFinal ==
  [][\A r \in Replicas, h \in Exists \ {Genesis}, by \in KeyIds :
       ~ IsPending(delta, doc[r], h, by) =>
         Verdict(delta, doc[r], h, by)'.kind = Verdict(delta, doc[r], h, by).kind]_vars

\* A bundle exported by one replica replays at any other: no delta of it is
\* refused half way.
ExportReplays ==
  work # Idle /\ DOMAIN work.vouched # {} =>
    \A h \in work.todo : Ready(h) /\ h \notin work.copy.dag.held =>
      Admits(delta, work.copy, h, work.vouched[h], delta[h].sealed)

----------------------------------------------------------------------------
(* What a set of deltas means, with no regard to the order of arrival.      *)

OfType(H, type) == {h \in H : delta[h].op.type = type}

\* The latest write wins; ZeroTs and Null stand for no write.
LastWrite(H, valueOf(_)) ==
  LET t == Latest({delta[h].ts : h \in H})
  IN  [val |-> valueOf(CHOOSE h \in H : delta[h].ts = t), marker |-> t]

\* An endpoint is live if no remove of its id has its add in its past.
LiveAdds(H) ==
  {h \in OfType(H, "AddService") :
     ~ \E x \in OfType(H, "RemoveService") :
         delta[x].op.id = delta[h].op.id /\ h \in Past(x)}

Meaning(H) ==
  LET services == OfType(H, "AddService") \cup OfType(H, "RemoveService")
      writes(k) == {h \in OfType(H, "SetData") : delta[h].op.key = k}
      aliases == OfType(H, "SetAka")
      rotations == {[seq |-> delta[h].op.seq, key |-> delta[h].op.key] :
                      h \in OfType(H, "RotateKey")} \cup {NoActiveKey}
      val(h) == delta[h].op.val
      uris(h) == delta[h].op.uris
  IN  [vms  |-> {[id |-> delta[h].op.id, pk |-> delta[h].op.pk] :
                   h \in OfType(H, "AddVM")},
       live |-> {<<delta[h].ts, [id |-> delta[h].op.id, url |-> delta[h].op.url]>> :
                   h \in LiveAdds(H)},
       seen |-> {Latest({delta[h].ts : h \in {x \in services : delta[x].ts.node = n}}) :
                   n \in {delta[h].ts.node : h \in services}},
       data |-> [k \in {delta[h].op.key : h \in OfType(H, "SetData")} |->
                   LastWrite(writes(k), val)],
       aka  |-> IF aliases = {} THEN EmptyReg ELSE LastWrite(aliases, uris),
       active      |-> CHOOSE a \in rotations : \A b \in rotations : ~ OlderKey(a, b),
       creds       |-> {delta[h].op.cred : h \in OfType(H, "RevokeCredential")},
       revoked     |-> {delta[h].op.id : h \in OfType(H, "RevokeVM")},
       deactivated |-> OfType(H, "Deactivate") # {},
       updated     |-> CHOOSE w \in {delta[h].ts.wall : h \in H} :
                         \A h \in H : delta[h].ts.wall <= w]

State(d) ==
  [vms  |-> d.vms,
   live |-> {<<t, d.services.live[t]>> : t \in DOMAIN d.services.live},
   seen |-> {d.services.context[n] : n \in DOMAIN d.services.context},
   data |-> d.data, aka |-> d.aka, active |-> d.active, creds |-> d.creds,
   revoked |-> d.revoked, deactivated |-> d.deactivated, updated |-> d.updated]

\* Strong eventual consistency: the state of a document is a function of the
\* set of deltas it holds, whether they came one by one, in bundles or by
\* state merge, in whatever order; so replicas with the same deltas agree, a
\* merge of states is a merge of histories, and an endpoint added concurrently
\* with its removal survives.
StateIsHistory == \A d \in Documents : State(d) = Meaning(d.dag.held)

\* What makes the version vector of ServiceEndpoints sound: a document that
\* has seen a dot of a node has every service delta of that node up to it that
\* any document has taken; a delta that was refused has no dot (crdt.rs,
\* "holding one Dot implies holding every earlier Dot from that node").
DotsHaveNoGaps ==
  \A d, e \in Documents :
    \A h \in OfType(e.dag.held, "AddService") \cup OfType(e.dag.held, "RemoveService") :
      Seen(d.services.context, delta[h].ts) => h \in d.dag.held

----------------------------------------------------------------------------
(* The replicas implement CausalLog. *)

Log == INSTANCE CausalLog WITH
         Root <- Genesis,
         graph <- [h \in Exists |-> delta[h].parents],
         held <- [r \in Replicas |-> doc[r].dag.held]

\* Every step of a replica is a step of the abstract log or leaves it alone:
\* no path (single delta, bundle, state) gives a replica a delta without its
\* past, takes one away or changes one.
ImplementsLog == Log!Spec

----------------------------------------------------------------------------
(* A statement of the documentation. *)

\* "Compute the BLAKE3 hash of the full CRDT state" (Document::content_hash):
\* documents with one hash are in one state.
HashIdentifiesState ==
  \A r, q \in Replicas :
    ContentHash(doc[r]) = ContentHash(doc[q]) => State(doc[r]) = State(doc[q])
=============================================================================
