---------------------------- MODULE StateProofs ----------------------------
(***************************************************************************)
(* The state of a document is what its deltas mean, for any number of      *)
(* replicas and deltas, and what a resolver answers follows from it.       *)
(*                                                                         *)
(* Every document of the next state is one of the present documents, one   *)
(* of them with an admitted delta applied, or the join of two of them      *)
(* (DocumentsEvolve), so what is claimed of every document is proved by    *)
(* three lemmas: new content, Apply, Join.                                 *)
(***************************************************************************)
EXTENDS Resolve, DocumentProofs, FiniteSetTheorems

----------------------------------------------------------------------------
(* How documents evolve *)

\* The proofs of the bundle being imported are those of the deltas.
VouchedAsSigned ==
  work # Idle => \A h \in DOMAIN work.vouched : work.vouched[h] = delta[h].by

AsSigned == Tampering = FALSE /\ VouchedAsSigned

Evolves(L, D, e) ==
  \/ e \in D
  \/ \E d \in D, h \in DOMAIN L : \E by, sig :
       /\ (sig => L[h].sealed) /\ Admits(L, d, h, by, sig)
       /\ AsSigned => by = L[h].by
       /\ e = Apply(L, d, h, by)
  \/ \E a, b \in D : e = Join(L, a, b)

LEMMA MergeEvolves ==
  ASSUME NEW L, NEW D, NEW d \in D, NEW h \in DOMAIN L, NEW by, NEW sig, sig => L[h].sealed,
         AsSigned => by = L[h].by
  PROVE  Evolves(L, D, MergeVerifiedDelta(L, d, h, by, sig))
<1>1. CASE Admits(L, d, h, by, sig)
  BY <1>1 DEF MergeVerifiedDelta, Evolves
<1>2. CASE ~ Admits(L, d, h, by, sig)
  BY <1>2 DEF MergeVerifiedDelta, Evolves
<1> QED
  BY <1>1, <1>2

\* If one replica's document evolves and no import is under way.
LEMMA OneEvolves ==
  ASSUME Base, NEW L, NEW r \in Replicas, NEW e, doc' = [doc EXCEPT ![r] = e],
         work' = Idle, Evolves(L, Documents, e)
  PROVE  \A x \in Documents' : Evolves(L, Documents, x)
<1>1. \A q \in Replicas : doc'[q] = IF q = r THEN e ELSE doc[q]
  BY DEF Base
<1>2. \A x \in Documents' : x = e \/ x \in Documents
  BY <1>1 DEF Documents
<1> QED
  BY <1>2 DEF Evolves

\* If the replicas keep their documents and the working copy evolves.
LEMMA CopyEvolves ==
  ASSUME NEW L, UNCHANGED doc, NEW e, work' # Idle => work'.copy = e,
         Evolves(L, Documents, e)
  PROVE  \A x \in Documents' : Evolves(L, Documents, x)
<1>1. \A x \in Documents' : x = e \/ x \in Documents
  BY DEF Documents
<1> QED
  BY <1>1 DEF Evolves

AllEvolve ==
  /\ ContentOK(delta') /\ ExtendsContent(delta, delta')
  /\ \A x \in Documents' : Evolves(delta', Documents, x)

LEMMA DocumentsEvolve ==
  ASSUME Base, AllGood, [Next]_vars
  PROVE  AllEvolve
<1>a. UNCHANGED delta => ContentOK(delta') /\ ExtendsContent(delta, delta')
  BY DEF ExtendsContent, Base
<1>b. \A r \in Replicas : doc[r] \in Documents
  BY DEF Documents
<1>c. work # Idle => work.copy \in Documents
  BY DEF Documents
<1>1. ASSUME NEW r \in Replicas, NEW op \in Ops, NEW now \in Readings, NEW h \in Hashes,
             Author(r, op, now, h)
      PROVE  AllEvolve
  <2> DEFINE e == MergeVerifiedDelta(delta', doc[r], h, DeviceId[r], TRUE)
  <2>1. ContentOK(delta') /\ ExtendsContent(delta, delta') /\ h \in DOMAIN delta'
    <3>1. Base' /\ ExtendsContent(delta, delta') /\ Exists' = Exists \cup {h}
      BY <1>1, AuthorStep
    <3> QED
      BY <3>1 DEF Base, Exists
  <2>2. doc' = [doc EXCEPT ![r] = e] /\ work' = Idle
    BY <1>1 DEF Author
  <2>3. delta'[h].sealed /\ delta'[h].by = DeviceId[r]
    BY <1>1 DEF Author, Publish, Put
  <2>4. Evolves(delta', Documents, e)
    <3> DEFINE L == delta'
               sig == TRUE
    <3>1. h \in DOMAIN L /\ (sig => L[h].sealed) /\ DeviceId[r] = L[h].by
      BY <2>1, <2>3
    <3> HIDE DEF L, sig
    <3>2. Evolves(L, Documents, MergeVerifiedDelta(L, doc[r], h, DeviceId[r], sig))
      BY <1>b, <3>1, MergeEvolves
    <3> QED
      BY <3>2 DEF L, sig
  <2> HIDE DEF e
  <2>5. \A x \in Documents' : Evolves(delta', Documents, x)
    BY <2>2, <2>4, OneEvolves
  <2> QED
    BY <2>1, <2>5 DEF AllEvolve
<1>2. ASSUME NEW r \in Replicas, NEW op \in Ops, NEW now \in Readings, NEW h \in Hashes,
             NEW parents \in SUBSET Exists, NEW node \in Nodes, NEW sound \in BOOLEAN,
             Craft(r, op, parents, node, sound, now, h)
      PROVE  AllEvolve
  <2>1. ContentOK(delta') /\ ExtendsContent(delta, delta')
    BY <1>2, CraftStep DEF Base
  <2>2. UNCHANGED <<doc, work>>
    BY <1>2 DEF Craft
  <2>3. Documents' = Documents
    BY <2>2 DEF Documents
  <2> QED
    BY <2>1, <2>3 DEF Evolves, AllEvolve
<1>3. ASSUME NEW r \in Replicas, NEW h \in Exists, NEW p \in Proofs(h), Deliver(r, h, p)
      PROVE  AllEvolve
  <2> DEFINE e == MergeVerifiedDelta(delta, doc[r], h, p.by, p.sig)
  <2>1. doc' = [doc EXCEPT ![r] = e] /\ work' = Idle /\ UNCHANGED delta
    BY <1>3 DEF Deliver
  <2>2. (p.sig => delta[h].sealed) /\ (Tampering = FALSE => p.by = delta[h].by)
    BY DEF Proofs
  <2>3. Evolves(delta, Documents, e)
    BY <1>b, <2>2, MergeEvolves DEF Exists, AsSigned
  <2> HIDE DEF e
  <2>4. \A x \in Documents' : Evolves(delta, Documents, x)
    BY <2>1, <2>3, OneEvolves
  <2> QED
    BY <1>a, <2>1, <2>4 DEF AllEvolve
<1>4. ASSUME NEW r \in Replicas, NEW q \in Replicas, MergeState(r, q)
      PROVE  AllEvolve
  <2> DEFINE e == Join(delta, doc[r], doc[q])
  <2>1. doc' = [doc EXCEPT ![r] = e] /\ work' = Idle /\ UNCHANGED delta
    BY <1>4 DEF MergeState
  <2>2. Evolves(delta, Documents, e)
    BY <1>b DEF Evolves
  <2> HIDE DEF e
  <2>3. \A x \in Documents' : Evolves(delta, Documents, x)
    BY <2>1, <2>2, OneEvolves
  <2> QED
    BY <1>a, <2>1, <2>3 DEF AllEvolve
<1>5. ASSUME NEW r \in Replicas, NEW target, NEW deltas, NEW vouched,
             StartImport(r, target, deltas, vouched)
      PROVE  AllEvolve
  <2>1. UNCHANGED <<delta, doc>> /\ work'.copy = doc[r]
    BY <1>5 DEF StartImport
  <2>2. Evolves(delta, Documents, doc[r])
    BY <1>b DEF Evolves
  <2>3. \A x \in Documents' : Evolves(delta, Documents, x)
    BY <2>1, <2>2, CopyEvolves
  <2> QED
    BY <1>a, <2>1, <2>3 DEF AllEvolve
<1>6. ASSUME NEW h \in work.todo, Skip(h)
      PROVE  AllEvolve
  <2>1. UNCHANGED <<delta, doc>> /\ work # Idle /\ work' = [work EXCEPT !.todo = @ \ {h}]
    BY <1>6 DEF Skip
  <2>2. work' = [to |-> work.to, copy |-> work.copy, todo |-> work.todo \ {h},
                 vouched |-> work.vouched]
    BY <2>1 DEF Base, WorkOK
  <2>3. work'.copy = work.copy /\ Evolves(delta, Documents, work.copy)
    BY <1>c, <2>1, <2>2 DEF Evolves
  <2>4. \A x \in Documents' : Evolves(delta, Documents, x)
    BY <2>1, <2>3, CopyEvolves
  <2> QED
    BY <1>a, <2>1, <2>4 DEF AllEvolve
<1>7. ASSUME NEW h \in work.todo, NEW p \in BundledProofs(h), Replay(h, p)
      PROVE  AllEvolve
  <2> DEFINE e == Apply(delta, work.copy, h, p.by)
  <2>1. /\ UNCHANGED <<delta, doc>> /\ work # Idle
        /\ Admits(delta, work.copy, h, p.by, p.sig)
        /\ work' = [work EXCEPT !.todo = @ \ {h}, !.copy = e]
    BY <1>7 DEF Replay
  <2>2. h \in DOMAIN delta
    BY <2>1 DEF Base, WorkOK, Exists
  <2>3. /\ p.sig => delta[h].sealed
        /\ AsSigned => p.by = delta[h].by
    BY <2>1 DEF BundledProofs, Proofs, AsSigned, VouchedAsSigned
  <2>4. Evolves(delta, Documents, e)
    BY <1>c, <2>1, <2>2, <2>3 DEF Evolves
  <2> HIDE DEF e
  <2>5. work' = [to |-> work.to, copy |-> e, todo |-> work.todo \ {h},
                 vouched |-> work.vouched]
    BY <2>1 DEF Base, WorkOK
  <2>6. work'.copy = e
    BY <2>5
  <2>7. \A x \in Documents' : Evolves(delta, Documents, x)
    BY <2>1, <2>4, <2>6, CopyEvolves
  <2> QED
    BY <1>a, <2>1, <2>7 DEF AllEvolve
<1>8. ASSUME NEW h \in work.todo, NEW p \in BundledProofs(h), Abort(h, p)
      PROVE  AllEvolve
  <2>1. UNCHANGED <<delta, doc>> /\ work' = Idle
    BY <1>8 DEF Abort
  <2>2. \A x \in Documents' : x \in Documents
    BY <2>1 DEF Documents
  <2> QED
    BY <1>a, <2>1, <2>2 DEF Evolves, AllEvolve
<1>9. CASE Commit
  <2>1. /\ work # Idle /\ work.to \in Replicas /\ UNCHANGED delta /\ work' = Idle
        /\ doc' = [doc EXCEPT ![work.to] = work.copy]
    BY <1>9 DEF Commit, Base, WorkOK
  <2>2. Evolves(delta, Documents, work.copy)
    BY <1>c, <2>1 DEF Evolves
  <2>3. \A x \in Documents' : Evolves(delta, Documents, x)
    BY <2>1, <2>2, OneEvolves
  <2> QED
    BY <1>a, <2>1, <2>3 DEF AllEvolve
<1>10. CASE UNCHANGED vars
  <2>1. UNCHANGED delta /\ Documents' = Documents
    BY <1>10 DEF vars, Documents
  <2> QED
    BY <1>a, <2>1 DEF Evolves, AllEvolve
<1>11. ASSUME NEW r \in Replicas, NEW q \in Replicas, ImportFrom(r, q)
       PROVE  AllEvolve
  BY <1>5, <1>11 DEF ImportFrom
<1>12. ASSUME NEW r \in Replicas, NEW deltas \in SUBSET Exists, NEW target \in deltas,
              ImportCrafted(r, target, deltas)
       PROVE  AllEvolve
  BY <1>5, <1>12 DEF ImportCrafted
<1> QED
  BY <1>1, <1>2, <1>3, <1>4, <1>6, <1>7, <1>8, <1>9, <1>10, <1>11, <1>12 DEF Next

----------------------------------------------------------------------------
(* Histories are grounded *)

\* A delta is younger than its parents, every set of deltas has a newest
\* member, and the genesis delta is the one Document::new made.
GroundedIn(L) ==
  /\ DOMAIN L \subseteq Nat
  /\ \A h \in DOMAIN L : \A p \in L[h].parents : p < h
  /\ \A S \in SUBSET DOMAIN L : S # {} => \E m \in S : \A x \in S : x <= m
  /\ Genesis \in DOMAIN L
  /\ L[Genesis].op = GenesisOp /\ L[Genesis].parents = {} /\ L[Genesis].ts = ZeroTs

LEMMA InitGrounded == Init => GroundedIn(delta)
<1> SUFFICES ASSUME Init PROVE GroundedIn(delta)
  OBVIOUS
<1>1. DOMAIN delta = {Genesis} /\ delta[Genesis] = GenesisDelta /\ Genesis \in Nat
  BY HashesAreOrdered DEF Init
<1>2. \A S \in SUBSET DOMAIN delta : S # {} => \E m \in S : \A x \in S : x <= m
  BY <1>1
<1>3. GenesisDelta.op = GenesisOp /\ GenesisDelta.parents = {} /\ GenesisDelta.ts = ZeroTs
  BY DEF GenesisDelta
<1> QED
  BY <1>1, <1>2, <1>3 DEF GroundedIn

LEMMA GroundedGrows ==
  ASSUME NEW L, NEW M, GroundedIn(L), ExtendsContent(L, M), NEW h \in Nat,
         DOMAIN M = DOMAIN L \cup {h}, h \in DOMAIN L \/ \A x \in DOMAIN L : x < h,
         M[h].parents \subseteq DOMAIN L
  PROVE  GroundedIn(M)
<1>1. CASE h \in DOMAIN L
  <2>1. DOMAIN M = DOMAIN L
    BY <1>1
  <2> QED
    BY <2>1 DEF GroundedIn, ExtendsContent
<1>2. CASE h \notin DOMAIN L
  <2>1. \A x \in DOMAIN L : x < h
    BY <1>2
  <2>2. \A g \in DOMAIN M : \A p \in M[g].parents : p < g
    BY <2>1 DEF GroundedIn, ExtendsContent
  <2>3. ASSUME NEW S \in SUBSET DOMAIN M, S # {}
        PROVE  \E m \in S : \A x \in S : x <= m
    <3>1. CASE h \in S
      BY <2>1, <3>1 DEF GroundedIn
    <3>2. CASE h \notin S
      BY <2>3, <3>2 DEF GroundedIn
    <3> QED
      BY <3>1, <3>2
  <2> QED
    BY <2>2, <2>3 DEF GroundedIn, ExtendsContent
<1> QED
  BY <1>1, <1>2

LEMMA PublishGrounded ==
  ASSUME Base, GroundedIn(delta), ExtendsContent(delta, delta'), NEW h \in Hashes, NEW c,
         Publish(c, h), Exists' = Exists \cup {h}, delta'[h].parents \subseteq Exists
  PROVE  GroundedIn(delta')
<1>1. h \in Exists \/ \A x \in Exists : x < h
  BY DEF Publish, HasHash
<1>2. h \in Nat
  BY HashesAreOrdered
<1> DEFINE M == delta'
<1>3. DOMAIN M = DOMAIN delta \cup {h} /\ M[h].parents \subseteq DOMAIN delta
  BY DEF Exists
<1> HIDE DEF M
<1>4. ExtendsContent(delta, M)
  BY DEF M
<1>5. GroundedIn(M)
  BY <1>1, <1>2, <1>3, <1>4, GroundedGrows DEF Exists
<1> QED
  BY <1>5 DEF M

LEMMA NextGrounded ==
  ASSUME Base, AllGood, GroundedIn(delta), [Next]_vars
  PROVE  GroundedIn(delta')
<1>1. ASSUME NEW r \in Replicas, NEW op \in Ops, NEW now \in Readings, NEW h \in Hashes,
             Author(r, op, now, h)
      PROVE  GroundedIn(delta')
  <2>1. PICK c : Publish(c, h)
    BY <1>1 DEF Author
  <2>2. /\ ExtendsContent(delta, delta') /\ Exists' = Exists \cup {h}
        /\ delta'[h].parents \subseteq doc[r].dag.held
    BY <1>1, AuthorStep
  <2>3. doc[r].dag.held \subseteq Exists
    BY DEF AllGood, GoodDoc, IsDocument, Exists
  <2> QED
    BY <2>1, <2>2, <2>3, PublishGrounded
<1>2. ASSUME NEW r \in Replicas, NEW op \in Ops, NEW now \in Readings, NEW h \in Hashes,
             NEW parents \in SUBSET Exists, NEW node \in Nodes, NEW sound \in BOOLEAN,
             Craft(r, op, parents, node, sound, now, h)
      PROVE  GroundedIn(delta')
  <2>1. PICK c : Publish(c, h)
    BY <1>2 DEF Craft
  <2>2. /\ ExtendsContent(delta, delta') /\ Exists' = Exists \cup {h}
        /\ delta'[h].parents \subseteq Exists
    BY <1>2, CraftStep
  <2> QED
    BY <2>1, <2>2, PublishGrounded
<1>3. ASSUME NEW r \in Replicas, NEW h \in Exists, NEW p \in Proofs(h), Deliver(r, h, p)
      PROVE  UNCHANGED delta
  BY <1>3 DEF Deliver
<1>4. ASSUME NEW r \in Replicas, NEW q \in Replicas, MergeState(r, q) \/ ImportFrom(r, q)
      PROVE  UNCHANGED delta
  BY <1>4 DEF MergeState, ImportFrom, StartImport
<1>5. ASSUME NEW r \in Replicas, NEW deltas \in SUBSET Exists, NEW target \in deltas,
             ImportCrafted(r, target, deltas)
      PROVE  UNCHANGED delta
  BY <1>5 DEF ImportCrafted, StartImport
<1>6. ASSUME NEW h \in work.todo, Skip(h)
      PROVE  UNCHANGED delta
  BY <1>6 DEF Skip
<1>7. ASSUME NEW h \in work.todo, NEW p \in BundledProofs(h), Replay(h, p) \/ Abort(h, p)
      PROVE  UNCHANGED delta
  BY <1>7 DEF Replay, Abort
<1>8. CASE Commit
  BY <1>8 DEF Commit
<1>9. CASE UNCHANGED vars
  BY <1>9 DEF vars
<1> QED
  BY <1>1, <1>2, <1>3, <1>4, <1>5, <1>6, <1>7, <1>8, <1>9 DEF Next

\* What contains the heads of a document and, with a delta, its parents,
\* contains its whole history: the newest delta left out would be no head, so
\* a parent of a newer one.
LEMMA HeadsReachAll ==
  ASSUME NEW L, GroundedIn(L), NEW d, GoodDoc(L, d), NEW W, d.dag.frontier \subseteq W,
         \A h \in W \cap d.dag.held : L[h].parents \subseteq W
  PROVE  d.dag.held \subseteq W
<1> DEFINE H == d.dag.held
<1> SUFFICES ASSUME ~ (H \subseteq W) PROVE FALSE
  OBVIOUS
<1>1. H \subseteq DOMAIN L
  BY DEF GoodDoc, IsDocument
<1>2. PICK m \in H \ W : \A x \in H \ W : x <= m
  BY <1>1 DEF GroundedIn
<1>3. d.dag.frontier = H \ Referenced(L, H)
  <2>1. d.dag = RebuildDag(L, H)
    BY DEF GoodDoc, CompleteIn
  <2>2. RebuildDag(L, H).frontier = Leaves(L, H)
    BY DEF RebuildDag, InsertAll, EmptyDag
  <2> QED
    BY <2>1, <2>2 DEF Leaves
<1>4. PICK g \in H : m \in L[g].parents
  BY <1>2, <1>3 DEF Referenced
<1>5. m < g /\ m \in Nat /\ g \in Nat
  BY <1>1, <1>2, <1>4 DEF GroundedIn
<1>6. g \notin W
  BY <1>2, <1>4
<1> QED
  BY <1>2, <1>4, <1>5, <1>6

\* The closures of all heads together are the history (Document::export_bundle,
\* closure_bundle).
LEMMA ClosuresOfHeads ==
  ASSUME NEW L, ContentOK(L), GroundedIn(L), NEW d, GoodDoc(L, d)
  PROVE  ExportBundle(L, d) = d.dag.held
<1> DEFINE H == d.dag.held
           W == ExportBundle(L, d)
           V(g) == Visited(L, H, {g}, {})
<1>1. /\ H \in SUBSET DOMAIN L /\ d.dag.frontier \subseteq H
      /\ \A h \in DOMAIN L : L[h].parents \subseteq DOMAIN L
      /\ Referenced(L, H) \subseteq H
  BY FrontierIsHeld DEF GoodDoc, IsDocument, CompleteIn, ContentOK
<1>2. W = UNION {V(g) : g \in d.dag.frontier}
  BY DEF ExportBundle, ExtractClosure
<1>3. ASSUME NEW g \in d.dag.frontier
      PROVE  /\ g \in V(g) /\ V(g) \subseteq H
             /\ \A h \in V(g) \cap H : L[h].parents \subseteq V(g)
  <2>1. {g} \in SUBSET DOMAIN L /\ {g} \in SUBSET H
    BY <1>1
  <2>2. TraversalClosed(L, H, {g}, {}, V(g))
    BY <1>1, <2>1, VisitedIsClosed
  <2>3. V(g) \subseteq H
    BY <1>1, <2>1, VisitedWithinComplete
  <2> QED
    BY <2>2, <2>3 DEF TraversalClosed
<1> HIDE DEF V
<1>4. d.dag.frontier \subseteq W /\ W \subseteq H
  BY <1>2, <1>3
<1>5. \A h \in W \cap H : L[h].parents \subseteq W
  BY <1>2, <1>3
<1> HIDE DEF W
<1>6. H \subseteq W
  BY <1>4, <1>5, HeadsReachAll
<1> QED
  BY <1>4, <1>6 DEF W

----------------------------------------------------------------------------
(* The fields of a document with a delta applied *)

\* Document::merge of an admitted delta, field by field: d becomes f.
Applied(L, d, h, by, f) ==
  LET op == L[h].op
      ts == L[h].ts
  IN  /\ f.updated = MaxOf(d.updated, ts.wall)
      /\ f.services = IF op.type = "AddService"
                        THEN ApplyAdd(d.services, [id |-> op.id, url |-> op.url], ts)
                      ELSE IF op.type = "RemoveService"
                        THEN ApplyRemove(d.services, Observed(L, d, h), ts)
                      ELSE d.services
      /\ f.data = IF op.type = "SetData" THEN SetData(d.data, op.key, op.val, ts) ELSE d.data
      /\ f.aka = IF op.type = "SetAka" THEN SetAliases(d.aka, op.uris, ts) ELSE d.aka
      /\ f.active = IF op.type = "RotateKey"
                      THEN Rotate(d.active, [seq |-> op.seq, key |-> op.key]) ELSE d.active
      /\ f.creds = IF op.type = "RevokeCredential" THEN d.creds \cup {op.cred} ELSE d.creds
      /\ f.log = Put(d.log, h, by)

LEMMA ApplyChanges ==
  ASSUME NEW L, ContentOK(L), NEW d, GoodDoc(L, d), NEW h \in DOMAIN L, NEW by
  PROVE  Applied(L, d, h, by, Apply(L, d, h, by))
<1> DEFINE op == L[h].op
<1>1. IsDocument(L, d) /\ op.type \in OpTypes
  BY DEF GoodDoc, ContentOK
<1>2. CASE op.type = "AddVM"
  BY <1>1, <1>2 DEF Applied, Apply, ApplyOp, IsDocument
<1>3. CASE op.type = "AddService"
  BY <1>1, <1>3 DEF Applied, Apply, ApplyOp, IsDocument
<1>4. CASE op.type = "RemoveService"
  BY <1>1, <1>4 DEF Applied, Apply, ApplyOp, IsDocument
<1>5. CASE op.type = "SetAka"
  BY <1>1, <1>5 DEF Applied, Apply, ApplyOp, IsDocument
<1>6. CASE op.type = "SetData"
  BY <1>1, <1>6 DEF Applied, Apply, ApplyOp, IsDocument
<1>7. CASE op.type = "RotateKey"
  BY <1>1, <1>7 DEF Applied, Apply, ApplyOp, IsDocument
<1>8. CASE op.type = "RevokeCredential"
  BY <1>1, <1>8 DEF Applied, Apply, ApplyOp, IsDocument, Revoke
<1>9. CASE op.type = "RevokeVM"
  BY <1>1, <1>9 DEF Applied, Apply, ApplyOp, IsDocument
<1>10. CASE op.type = "Deactivate"
  BY <1>1, <1>10 DEF Applied, Apply, ApplyOp, IsDocument
<1> QED
  BY <1>1, <1>2, <1>3, <1>4, <1>5, <1>6, <1>7, <1>8, <1>9, <1>10 DEF OpTypes

----------------------------------------------------------------------------
(* Credentials, time of the last update, active key: for any devices *)

TypeIn(L, H, type) == {h \in H : L[h].op.type = type}

RotationIn(L, h) == [seq |-> L[h].op.seq, key |-> L[h].op.key]
RotationsIn(L, H) == {RotationIn(L, h) : h \in TypeIn(L, H, "RotateKey")} \cup {NoActiveKey}

MeansPlain(L, d) ==
  LET H == d.dag.held
  IN  /\ d.creds = {L[h].op.cred : h \in TypeIn(L, H, "RevokeCredential")}
      /\ d.updated \in {L[h].ts.wall : h \in H}
      /\ \A h \in H : L[h].ts.wall <= d.updated
      /\ d.active \in RotationsIn(L, H)
      /\ \A k \in RotationsIn(L, H) : ~ OlderKey(d.active, k)

\* The markers of the active key are pairs of numbers, totally ordered.
Markers == [seq : Nat, key : Nat]

LEMMA RotationsAreMarkers ==
  ASSUME NEW L, ByOps(L), NEW H \in SUBSET DOMAIN L
  PROVE  RotationsIn(L, H) \subseteq Markers
<1>1. NoActiveKey \in Markers
  BY DEF NoActiveKey, Markers
<1>2. ASSUME NEW h \in TypeIn(L, H, "RotateKey") PROVE RotationIn(L, h) \in Markers
  <2>1. L[h].op \in Ops
    BY DEF TypeIn, ByOps, GenesisOp
  <2>2. L[h].op.seq \in Nat /\ L[h].op.key \in Nat
    BY <2>1, OpsAreOps DEF TypeIn
  <2> QED
    BY <2>2 DEF RotationIn, Markers
<1> QED
  BY <1>1, <1>2 DEF RotationsIn

LEMMA MarkersAreOrdered ==
  /\ \A a, b \in Markers : OlderKey(a, b) \/ OlderKey(b, a) \/ a = b
  /\ \A a, b \in Markers : ~ (OlderKey(a, b) /\ OlderKey(b, a))
  /\ \A a, b, c \in Markers : OlderKey(a, b) /\ ~ OlderKey(c, b) => ~ OlderKey(c, a)
BY DEF Markers, OlderKey

\* Of two highest markers of two sets, the higher one is highest in both.
LEMMA RotateIsHighest ==
  ASSUME NEW A \in SUBSET Markers, NEW B \in SUBSET Markers, NEW a \in A, NEW b \in B,
         \A k \in A : ~ OlderKey(a, k), \A k \in B : ~ OlderKey(b, k)
  PROVE  /\ Rotate(a, b) \in A \cup B
         /\ \A k \in A \cup B : ~ OlderKey(Rotate(a, b), k)
<1>1. CASE OlderKey(a, b)
  BY <1>1, MarkersAreOrdered DEF Rotate
<1>2. CASE ~ OlderKey(a, b)
  <2>1. \A k \in B : ~ OlderKey(a, k)
    BY <1>2 DEF Markers, OlderKey
  <2> QED
    BY <1>2, <2>1 DEF Rotate
<1> QED
  BY <1>1, <1>2

LEMMA PlainExtends ==
  ASSUME NEW L, NEW M, ExtendsContent(L, M), NEW d, GoodDoc(L, d), MeansPlain(L, d)
  PROVE  MeansPlain(M, d)
<1> DEFINE H == d.dag.held
<1>1. \A h \in H : M[h].op = L[h].op /\ M[h].ts = L[h].ts
  BY DEF GoodDoc, IsDocument, ExtendsContent
<1>2. \A type : TypeIn(M, H, type) = TypeIn(L, H, type)
  BY <1>1 DEF TypeIn
<1>3. RotationsIn(M, H) = RotationsIn(L, H)
  BY <1>1, <1>2 DEF RotationsIn, RotationIn, TypeIn
<1>4. {M[h].op.cred : h \in TypeIn(M, H, "RevokeCredential")}
        = {L[h].op.cred : h \in TypeIn(L, H, "RevokeCredential")}
  BY <1>1, <1>2 DEF TypeIn
<1> QED
  BY <1>1, <1>3, <1>4 DEF MeansPlain

LEMMA ApplyKeepsPlain ==
  ASSUME NEW L, ContentOK(L), ByOps(L), NEW d, GoodDoc(L, d), MeansPlain(L, d),
         NEW h \in DOMAIN L, NEW by, NEW sig, sig => L[h].sealed, Admits(L, d, h, by, sig)
  PROVE  MeansPlain(L, Apply(L, d, h, by))
<1> DEFINE H == d.dag.held
           f == Apply(L, d, h, by)
           op == L[h].op
<1>1. f.dag.held = H \cup {h} /\ H \in SUBSET DOMAIN L
  <2>1. f.dag.held = H \cup {h}
    BY ApplyKeepsGood
  <2>2. H \in SUBSET DOMAIN L
    BY DEF GoodDoc, IsDocument
  <2> QED
    BY <2>1, <2>2
<1>a. Applied(L, d, h, by, f)
  BY ApplyChanges
<1> HIDE DEF f
<1>2. /\ f.updated = MaxOf(d.updated, L[h].ts.wall)
      /\ f.active = IF op.type = "RotateKey" THEN Rotate(d.active, RotationIn(L, h)) ELSE d.active
      /\ f.creds = IF op.type = "RevokeCredential" THEN d.creds \cup {op.cred} ELSE d.creds
  BY <1>a DEF Applied, RotationIn
<1>3. \A x \in DOMAIN L : L[x].ts.wall \in Nat
  BY DEF ContentOK, Timestamps
<1>4. /\ f.updated \in {L[x].ts.wall : x \in H \cup {h}}
      /\ \A x \in H \cup {h} : L[x].ts.wall <= f.updated
  <2>1. /\ d.updated \in {L[x].ts.wall : x \in H} /\ d.updated \in Nat
        /\ \A x \in H : L[x].ts.wall <= d.updated
    BY <1>1, <1>3 DEF MeansPlain
  <2> QED
    BY <1>1, <1>2, <1>3, <2>1 DEF MaxOf
<1>5. f.creds = {L[x].op.cred : x \in TypeIn(L, H \cup {h}, "RevokeCredential")}
  BY <1>2 DEF MeansPlain, TypeIn
<1>6. /\ f.active \in RotationsIn(L, H \cup {h})
      /\ \A k \in RotationsIn(L, H \cup {h}) : ~ OlderKey(f.active, k)
  <2>1. /\ d.active \in RotationsIn(L, H)
        /\ \A k \in RotationsIn(L, H) : ~ OlderKey(d.active, k)
    BY DEF MeansPlain
  <2>2. CASE op.type = "RotateKey"
    <3> DEFINE B == {RotationIn(L, h)}
    <3>1. RotationsIn(L, H \cup {h}) = RotationsIn(L, H) \cup B
      BY <2>2 DEF RotationsIn, TypeIn
    <3>2. RotationsIn(L, H \cup {h}) \subseteq Markers
      BY <1>1, RotationsAreMarkers
    <3>3. \A k \in B : ~ OlderKey(RotationIn(L, h), k)
      BY <3>1, <3>2, MarkersAreOrdered
    <3> DEFINE A == RotationsIn(L, H)
               b == RotationIn(L, h)
    <3>4. A \in SUBSET Markers /\ B \in SUBSET Markers /\ b \in B /\ d.active \in A
      BY <2>1, <3>1, <3>2
    <3>5. (\A k \in A : ~ OlderKey(d.active, k)) /\ \A k \in B : ~ OlderKey(b, k)
      BY <2>1, <3>3
    <3> HIDE DEF A, B, b
    <3>6. /\ Rotate(d.active, b) \in A \cup B
          /\ \A k \in A \cup B : ~ OlderKey(Rotate(d.active, b), k)
      BY <3>4, <3>5, RotateIsHighest
    <3> QED
      BY <1>2, <2>2, <3>1, <3>6 DEF A, b
  <2>3. CASE op.type # "RotateKey"
    <3>1. RotationsIn(L, H \cup {h}) = RotationsIn(L, H)
      BY <2>3 DEF RotationsIn, TypeIn
    <3> QED
      BY <1>2, <2>1, <2>3, <3>1
  <2> QED
    BY <2>2, <2>3
<1> QED
  BY <1>1, <1>4, <1>5, <1>6 DEF MeansPlain, f

LEMMA JoinKeepsPlain ==
  ASSUME NEW L, ContentOK(L), ByOps(L), NEW a, NEW b, GoodDoc(L, a), GoodDoc(L, b),
         MeansPlain(L, a), MeansPlain(L, b)
  PROVE  MeansPlain(L, Join(L, a, b))
<1> DEFINE A == a.dag.held
           B == b.dag.held
           f == Join(L, a, b)
<1>1. f.dag.held = A \cup B /\ A \in SUBSET DOMAIN L /\ B \in SUBSET DOMAIN L
  <2>1. f.dag.held = A \cup B
    BY JoinKeepsGood
  <2>2. A \in SUBSET DOMAIN L /\ B \in SUBSET DOMAIN L
    BY DEF GoodDoc, IsDocument
  <2> QED
    BY <2>1, <2>2
<1>2. /\ f.updated = MaxOf(a.updated, b.updated) /\ f.active = Rotate(a.active, b.active)
      /\ f.creds = a.creds \cup b.creds
  BY DEF Join, JoinFields
<1> HIDE DEF f
<1>3. \A x \in DOMAIN L : L[x].ts.wall \in Nat
  BY DEF ContentOK, Timestamps
<1>4. /\ f.updated \in {L[x].ts.wall : x \in A \cup B}
      /\ \A x \in A \cup B : L[x].ts.wall <= f.updated
  <2>1. /\ a.updated \in {L[x].ts.wall : x \in A} /\ a.updated \in Nat
        /\ \A x \in A : L[x].ts.wall <= a.updated
    BY <1>1, <1>3 DEF MeansPlain
  <2>2. /\ b.updated \in {L[x].ts.wall : x \in B} /\ b.updated \in Nat
        /\ \A x \in B : L[x].ts.wall <= b.updated
    BY <1>1, <1>3 DEF MeansPlain
  <2> QED
    BY <1>1, <1>2, <1>3, <2>1, <2>2 DEF MaxOf
<1>5. f.creds = {L[x].op.cred : x \in TypeIn(L, A \cup B, "RevokeCredential")}
  BY <1>2 DEF MeansPlain, TypeIn
<1>6. /\ f.active \in RotationsIn(L, A \cup B)
      /\ \A k \in RotationsIn(L, A \cup B) : ~ OlderKey(f.active, k)
  <2> DEFINE P == RotationsIn(L, A)
             Q == RotationsIn(L, B)
  <2>1. RotationsIn(L, A \cup B) = P \cup Q
    BY DEF RotationsIn, TypeIn
  <2>2. P \in SUBSET Markers /\ Q \in SUBSET Markers
    BY <1>1, RotationsAreMarkers
  <2>3. /\ a.active \in P /\ b.active \in Q
        /\ \A k \in P : ~ OlderKey(a.active, k)
        /\ \A k \in Q : ~ OlderKey(b.active, k)
    BY DEF MeansPlain
  <2> HIDE DEF P, Q
  <2>4. /\ Rotate(a.active, b.active) \in P \cup Q
        /\ \A k \in P \cup Q : ~ OlderKey(Rotate(a.active, b.active), k)
    BY <2>2, <2>3, RotateIsHighest
  <2> QED
    BY <1>2, <2>1, <2>4
<1> QED
  BY <1>1, <1>4, <1>5, <1>6 DEF MeansPlain, f

----------------------------------------------------------------------------
(* Timestamps *)

LEMMA TimestampsAreOrdered ==
  /\ \A s, t \in Timestamps : NotAfter(s, t) \/ Before(t, s)
  /\ \A s, t \in Timestamps : ~ (NotAfter(s, t) /\ Before(t, s))
  /\ \A s, t \in Timestamps : NotAfter(s, t) /\ NotAfter(t, s) => s = t
  /\ \A s, t, u \in Timestamps : NotAfter(s, t) /\ NotAfter(t, u) => NotAfter(s, u)
  /\ \A s, t, u \in Timestamps : NotAfter(s, t) /\ Before(t, u) => Before(s, u)
  /\ ZeroTs \in Timestamps
<1>1. ZeroTs \in Timestamps
  BY WidthIsPositive DEF ZeroTs, Timestamps
<1>2. \A s, t \in Timestamps : NotAfter(s, t) \/ Before(t, s)
  BY WidthIsPositive DEF NotAfter, Before, Timestamps
<1>3. \A s, t \in Timestamps : ~ (NotAfter(s, t) /\ Before(t, s))
  BY WidthIsPositive DEF NotAfter, Before, Timestamps
<1>4. \A s, t, u \in Timestamps : NotAfter(s, t) /\ Before(t, u) => Before(s, u)
  BY WidthIsPositive DEF NotAfter, Before, Timestamps
<1>5. \A s, t \in Timestamps : NotAfter(s, t) /\ NotAfter(t, s) => s = t
  BY <1>3 DEF NotAfter
<1>6. \A s, t, u \in Timestamps : NotAfter(s, t) /\ NotAfter(t, u) => NotAfter(s, u)
  BY <1>4 DEF NotAfter
<1> QED
  BY <1>1, <1>2, <1>3, <1>4, <1>5, <1>6

\* The latest of a set is the one member that is not before any other.
LEMMA LatestIs ==
  ASSUME NEW S \in SUBSET Timestamps, NEW t \in S, \A u \in S : NotAfter(u, t)
  PROVE  Latest(S) = t
<1>1. \A x \in S : (\A u \in S : NotAfter(u, x)) => x = t
  BY TimestampsAreOrdered
<1> QED
  BY <1>1 DEF Latest

----------------------------------------------------------------------------
(* Registers: where no two deltas have one timestamp *)

\* Deltas have timestamps of their own, later than that of the genesis.
Dated(L) ==
  /\ \A h, x \in DOMAIN L : L[h].ts = L[x].ts => h = x
  /\ \A h \in DOMAIN L \ {Genesis} : Before(ZeroTs, L[h].ts)

\* A write as the register keeps it.
WriteOf(L, h) ==
  [val |-> IF L[h].op.type = "SetData" THEN L[h].op.val ELSE L[h].op.uris,
   marker |-> L[h].ts]

\* A register holds the last of the writes W, or nothing if there are none.
RegisterOf(L, W, reg) ==
  /\ reg = EmptyReg \/ \E h \in W : reg = WriteOf(L, h)
  /\ \A h \in W : NotAfter(L[h].ts, reg.marker)

\* LWWReg::update, by a write or by another register, keeps the last of both.
LEMMA UpdateIsLast ==
  ASSUME NEW L, ContentOK(L), Dated(L), NEW V \in SUBSET (DOMAIN L \ {Genesis}),
         NEW W \in SUBSET (DOMAIN L \ {Genesis}), NEW a, NEW b,
         RegisterOf(L, V, a), RegisterOf(L, W, b)
  PROVE  RegisterOf(L, V \cup W, LwwUpdate(a, b.val, b.marker))
<1>1. \A h \in V \cup W : L[h].ts \in Timestamps /\ Before(ZeroTs, L[h].ts)
  BY DEF ContentOK, Dated
<1>2. a.marker \in Timestamps /\ b.marker \in Timestamps
  BY <1>1, TimestampsAreOrdered DEF RegisterOf, WriteOf, EmptyReg
<1>3. CASE Before(a.marker, b.marker)
  <2>1. LwwUpdate(a, b.val, b.marker) = [val |-> b.val, marker |-> b.marker]
    BY <1>3 DEF LwwUpdate
  <2>2. b = [val |-> b.val, marker |-> b.marker]
    BY DEF RegisterOf, WriteOf, EmptyReg
  <2>3. \A h \in V \cup W : NotAfter(L[h].ts, b.marker)
    BY <1>1, <1>2, <1>3, TimestampsAreOrdered DEF RegisterOf, NotAfter
  <2> QED
    BY <2>1, <2>2, <2>3 DEF RegisterOf
<1>4. CASE ~ Before(a.marker, b.marker)
  <2>1. LwwUpdate(a, b.val, b.marker) = a
    BY <1>4 DEF LwwUpdate
  <2>2. NotAfter(b.marker, a.marker)
    BY <1>2, <1>4, TimestampsAreOrdered
  <2>3. \A h \in V \cup W : NotAfter(L[h].ts, a.marker)
    BY <1>1, <1>2, <2>2, TimestampsAreOrdered DEF RegisterOf
  <2> QED
    BY <2>1, <2>3 DEF RegisterOf
<1> QED
  BY <1>3, <1>4

WritesIn(L, H, k) == {h \in TypeIn(L, H, "SetData") : L[h].op.key = k}
KeysIn(L, H) == {L[h].op.key : h \in TypeIn(L, H, "SetData")}

MeansRegisters(L, d) ==
  LET H == d.dag.held
  IN  /\ RegisterOf(L, TypeIn(L, H, "SetAka"), d.aka)
      /\ d.data = [k \in KeysIn(L, H) |-> d.data[k]]
      /\ \A k \in KeysIn(L, H) : RegisterOf(L, WritesIn(L, H, k), d.data[k])

\* The genesis delta writes no register.
LEMMA WritesAreDated ==
  ASSUME NEW L, GroundedIn(L), NEW H \in SUBSET DOMAIN L
  PROVE  /\ TypeIn(L, H, "SetAka") \in SUBSET (DOMAIN L \ {Genesis})
         /\ \A k : WritesIn(L, H, k) \in SUBSET (DOMAIN L \ {Genesis})
BY DEF GroundedIn, TypeIn, WritesIn, GenesisOp

LEMMA RegistersExtend ==
  ASSUME NEW L, NEW M, ExtendsContent(L, M), NEW d, GoodDoc(L, d), MeansRegisters(L, d)
  PROVE  MeansRegisters(M, d)
<1> DEFINE H == d.dag.held
<1>1. \A h \in H : M[h].op = L[h].op /\ M[h].ts = L[h].ts
  BY DEF GoodDoc, IsDocument, ExtendsContent
<1>2. /\ \A type : TypeIn(M, H, type) = TypeIn(L, H, type)
      /\ \A type : TypeIn(L, H, type) \subseteq H
  BY <1>1 DEF TypeIn
<1>3. /\ \A k : WritesIn(M, H, k) = WritesIn(L, H, k) /\ WritesIn(L, H, k) \subseteq H
      /\ KeysIn(M, H) = KeysIn(L, H)
  BY <1>1, <1>2 DEF WritesIn, KeysIn
<1>4. ASSUME NEW W \in SUBSET H, NEW reg, RegisterOf(L, W, reg)
      PROVE  RegisterOf(M, W, reg)
  <2>1. \A h \in W : WriteOf(M, h) = WriteOf(L, h) /\ M[h].ts = L[h].ts
    BY <1>1 DEF WriteOf
  <2> QED
    BY <1>4, <2>1 DEF RegisterOf
<1> QED
  BY <1>2, <1>3, <1>4 DEF MeansRegisters

LEMMA ApplyKeepsRegisters ==
  ASSUME NEW L, ContentOK(L), GroundedIn(L), Dated(L), NEW d, GoodDoc(L, d),
         MeansRegisters(L, d), NEW h \in DOMAIN L, NEW by, NEW sig, sig => L[h].sealed,
         Admits(L, d, h, by, sig)
  PROVE  MeansRegisters(L, Apply(L, d, h, by))
<1> DEFINE H == d.dag.held
           G == H \cup {h}
           f == Apply(L, d, h, by)
           op == L[h].op
<1>1. f.dag.held = G /\ H \in SUBSET DOMAIN L /\ G \in SUBSET DOMAIN L
  <2>1. f.dag.held = G
    BY ApplyKeepsGood
  <2>2. H \in SUBSET DOMAIN L
    BY DEF GoodDoc, IsDocument
  <2> QED
    BY <2>1, <2>2
<1>a. Applied(L, d, h, by, f)
  BY ApplyChanges
<1> HIDE DEF f
<1>2. /\ f.data = IF op.type = "SetData" THEN SetData(d.data, op.key, op.val, L[h].ts) ELSE d.data
      /\ f.aka = IF op.type = "SetAka" THEN SetAliases(d.aka, op.uris, L[h].ts) ELSE d.aka
  BY <1>a DEF Applied
<1>3. h # Genesis
  BY DEF Admits, GoodDoc, IsDocument
<1> DEFINE W == {h}
           w == WriteOf(L, h)
<1>4. W \in SUBSET (DOMAIN L \ {Genesis}) /\ RegisterOf(L, W, w)
  BY <1>3 DEF RegisterOf, WriteOf, NotAfter
<1>5. RegisterOf(L, TypeIn(L, G, "SetAka"), f.aka)
  <2> DEFINE V == TypeIn(L, H, "SetAka")
  <2>1. V \in SUBSET (DOMAIN L \ {Genesis}) /\ RegisterOf(L, V, d.aka)
    BY <1>1, WritesAreDated DEF MeansRegisters
  <2>2. CASE op.type = "SetAka"
    <3>1. w.val = op.uris /\ w.marker = L[h].ts
      BY <2>2 DEF WriteOf
    <3>2. TypeIn(L, G, "SetAka") = V \cup W
      BY <2>2 DEF TypeIn
    <3>3. f.aka = LwwUpdate(d.aka, w.val, w.marker)
      BY <1>2, <2>2, <3>1 DEF SetAliases
    <3> HIDE DEF V, W, w
    <3>4. RegisterOf(L, V \cup W, LwwUpdate(d.aka, w.val, w.marker))
      BY <1>4, <2>1, UpdateIsLast
    <3> QED
      BY <3>2, <3>3, <3>4
  <2>3. CASE op.type # "SetAka"
    <3>1. TypeIn(L, G, "SetAka") = V
      BY <2>3 DEF TypeIn
    <3> QED
      BY <1>2, <2>1, <2>3, <3>1
  <2> QED
    BY <2>2, <2>3
<1>6. /\ f.data = [k \in KeysIn(L, G) |-> f.data[k]]
      /\ \A k \in KeysIn(L, G) : RegisterOf(L, WritesIn(L, G, k), f.data[k])
  <2>1. /\ d.data = [k \in KeysIn(L, H) |-> d.data[k]]
        /\ \A k \in KeysIn(L, H) : RegisterOf(L, WritesIn(L, H, k), d.data[k])
    BY DEF MeansRegisters
  <2>2. CASE op.type = "SetData"
    <3> DEFINE old == IF op.key \in DOMAIN d.data THEN d.data[op.key] ELSE EmptyReg
               V == WritesIn(L, H, op.key)
    <3>1. w.val = op.val /\ w.marker = L[h].ts
      BY <2>2 DEF WriteOf
    <3>2. KeysIn(L, G) = KeysIn(L, H) \cup {op.key} /\ DOMAIN d.data = KeysIn(L, H)
      BY <2>1, <2>2 DEF KeysIn, TypeIn
    <3>3. WritesIn(L, G, op.key) = V \cup W
      BY <2>2 DEF WritesIn, TypeIn
    <3>4. \A k \in KeysIn(L, H) \ {op.key} : WritesIn(L, G, k) = WritesIn(L, H, k)
      BY DEF WritesIn, TypeIn
    <3>5. f.data = [k \in DOMAIN d.data \cup {op.key} |->
                      IF k = op.key THEN LwwUpdate(old, op.val, L[h].ts) ELSE d.data[k]]
      BY <1>2, <2>2 DEF SetData, Put
    <3>6. V \in SUBSET (DOMAIN L \ {Genesis}) /\ RegisterOf(L, V, old)
      <4>1. V \in SUBSET (DOMAIN L \ {Genesis})
        BY <1>1, WritesAreDated
      <4>2. CASE op.key \in KeysIn(L, H)
        BY <2>1, <3>2, <4>1, <4>2
      <4>3. CASE op.key \notin KeysIn(L, H)
        <5>1. V = {} /\ old = EmptyReg
          BY <3>2, <4>3 DEF WritesIn, KeysIn
        <5> QED
          BY <4>1, <5>1 DEF RegisterOf
      <4> QED
        BY <4>2, <4>3
    <3>7. RegisterOf(L, V \cup W, LwwUpdate(old, w.val, w.marker))
      <4> HIDE DEF V, W, w, old
      <4> QED
        BY <1>4, <3>6, UpdateIsLast
    <3> HIDE DEF V, W, w, old
    <3>8. ASSUME NEW k \in KeysIn(L, G)
          PROVE  RegisterOf(L, WritesIn(L, G, k), f.data[k])
      <4>1. CASE k = op.key
        BY <3>1, <3>3, <3>5, <3>7, <4>1
      <4>2. CASE k # op.key
        <5>1. k \in KeysIn(L, H) /\ f.data[k] = d.data[k]
          BY <3>2, <3>5, <4>2
        <5> QED
          BY <2>1, <3>4, <4>2, <5>1
      <4> QED
        BY <4>1, <4>2
    <3> QED
      BY <3>2, <3>5, <3>8
  <2>3. CASE op.type # "SetData"
    <3>1. KeysIn(L, G) = KeysIn(L, H) /\ \A k : WritesIn(L, G, k) = WritesIn(L, H, k)
      BY <2>3 DEF KeysIn, WritesIn, TypeIn
    <3> QED
      BY <1>2, <2>1, <2>3, <3>1
  <2> QED
    BY <2>2, <2>3
<1> QED
  BY <1>1, <1>5, <1>6 DEF MeansRegisters, f

LEMMA JoinKeepsRegisters ==
  ASSUME NEW L, ContentOK(L), GroundedIn(L), Dated(L), NEW a, NEW b, GoodDoc(L, a),
         GoodDoc(L, b), MeansRegisters(L, a), MeansRegisters(L, b)
  PROVE  MeansRegisters(L, Join(L, a, b))
<1> DEFINE A == a.dag.held
           B == b.dag.held
           f == Join(L, a, b)
<1>1. f.dag.held = A \cup B /\ A \in SUBSET DOMAIN L /\ B \in SUBSET DOMAIN L
  <2>1. f.dag.held = A \cup B
    BY JoinKeepsGood
  <2>2. A \in SUBSET DOMAIN L /\ B \in SUBSET DOMAIN L
    BY DEF GoodDoc, IsDocument
  <2> QED
    BY <2>1, <2>2
<1>2. /\ f.aka = LwwUpdate(a.aka, b.aka.val, b.aka.marker)
      /\ f.data = MergeData(a.data, b.data)
  BY DEF Join, JoinFields
<1> HIDE DEF f
<1>3. RegisterOf(L, TypeIn(L, A \cup B, "SetAka"), f.aka)
  <2> DEFINE V == TypeIn(L, A, "SetAka")
             W == TypeIn(L, B, "SetAka")
  <2>1. /\ V \in SUBSET (DOMAIN L \ {Genesis}) /\ RegisterOf(L, V, a.aka)
        /\ W \in SUBSET (DOMAIN L \ {Genesis}) /\ RegisterOf(L, W, b.aka)
    BY <1>1, WritesAreDated DEF MeansRegisters
  <2>2. TypeIn(L, A \cup B, "SetAka") = V \cup W
    BY DEF TypeIn
  <2> HIDE DEF V, W
  <2>3. RegisterOf(L, V \cup W, LwwUpdate(a.aka, b.aka.val, b.aka.marker))
    BY <2>1, UpdateIsLast
  <2> QED
    BY <1>2, <2>2, <2>3
<1>4. /\ a.data = [k \in KeysIn(L, A) |-> a.data[k]] /\ b.data = [k \in KeysIn(L, B) |-> b.data[k]]
      /\ \A k \in KeysIn(L, A) : RegisterOf(L, WritesIn(L, A, k), a.data[k])
      /\ \A k \in KeysIn(L, B) : RegisterOf(L, WritesIn(L, B, k), b.data[k])
  BY DEF MeansRegisters
<1>5. DOMAIN a.data = KeysIn(L, A) /\ DOMAIN b.data = KeysIn(L, B)
  BY <1>4
<1>6. KeysIn(L, A \cup B) = KeysIn(L, A) \cup KeysIn(L, B)
  BY DEF KeysIn, TypeIn
<1>7. f.data = [k \in KeysIn(L, A) \cup KeysIn(L, B) |->
                  IF k \in KeysIn(L, B)
                    THEN LwwUpdate(IF k \in KeysIn(L, A) THEN a.data[k] ELSE EmptyReg,
                                   b.data[k].val, b.data[k].marker)
                    ELSE a.data[k]]
  BY <1>2, <1>5 DEF MergeData
<1>8. ASSUME NEW k \in KeysIn(L, A \cup B)
      PROVE  RegisterOf(L, WritesIn(L, A \cup B, k), f.data[k])
  <2> DEFINE V == WritesIn(L, A, k)
             W == WritesIn(L, B, k)
             old == IF k \in KeysIn(L, A) THEN a.data[k] ELSE EmptyReg
  <2>1. WritesIn(L, A \cup B, k) = V \cup W
    BY DEF WritesIn, TypeIn
  <2>2. V \in SUBSET (DOMAIN L \ {Genesis}) /\ W \in SUBSET (DOMAIN L \ {Genesis})
    BY <1>1, WritesAreDated
  <2>3. RegisterOf(L, V, old)
    <3>1. CASE k \in KeysIn(L, A)
      BY <1>4, <3>1
    <3>2. CASE k \notin KeysIn(L, A)
      <4>1. V = {} /\ old = EmptyReg
        BY <3>2 DEF WritesIn, KeysIn
      <4> QED
        BY <4>1 DEF RegisterOf
    <3> QED
      BY <3>1, <3>2
  <2>4. CASE k \in KeysIn(L, B)
    <3>1. RegisterOf(L, W, b.data[k]) /\ f.data[k] = LwwUpdate(old, b.data[k].val, b.data[k].marker)
      BY <1>4, <1>6, <1>7, <2>4
    <3> HIDE DEF V, W, old
    <3>2. RegisterOf(L, V \cup W, LwwUpdate(old, b.data[k].val, b.data[k].marker))
      BY <2>2, <2>3, <3>1, UpdateIsLast
    <3> QED
      BY <2>1, <3>1, <3>2
  <2>5. CASE k \notin KeysIn(L, B)
    <3>1. W = {} /\ k \in KeysIn(L, A) /\ f.data[k] = a.data[k]
      BY <1>6, <1>7, <2>5 DEF WritesIn, KeysIn
    <3>2. WritesIn(L, A \cup B, k) = V
      BY <2>1, <3>1
    <3> QED
      BY <1>4, <3>1, <3>2
  <2> QED
    BY <2>4, <2>5
<1>9. f.data = [k \in KeysIn(L, A \cup B) |-> f.data[k]]
  BY <1>6, <1>7
<1> QED
  BY <1>1, <1>3, <1>8, <1>9 DEF MeansRegisters, f

----------------------------------------------------------------------------
(* Service endpoints: where no dot is missed *)

ServicesIn(L, H) == TypeIn(L, H, "AddService") \cup TypeIn(L, H, "RemoveService")

\* The version vector holds the last dot of every node with a delta in S.
ContextOf(L, S, context) ==
  /\ \A n \in DOMAIN context : \E h \in S : context[n] = L[h].ts /\ L[h].ts.node = n
  /\ \A h \in S : Seen(context, L[h].ts)

\* The dots E are the last dots of the nodes with a delta in T.
LastDots(L, T, E) ==
  /\ \A e \in E : \E h \in T : e = L[h].ts
  /\ \A h \in T : \E e \in E : e.node = L[h].ts.node /\ NotAfter(L[h].ts, e)
  /\ \A e, f \in E : e.node = f.node => e = f

\* ServiceEndpoints::observe of new dots, along with dots of deltas seen
\* before.
LEMMA ObserveIsLast ==
  ASSUME NEW L, ContentOK(L), NEW S \in SUBSET DOMAIN L, NEW T \in SUBSET DOMAIN L,
         NEW context, ContextOf(L, S, context), NEW E, LastDots(L, T, E),
         NEW D, E \subseteq D, \A e \in D : e \in E \/ \E h \in S : e = L[h].ts
  PROVE  ContextOf(L, S \cup T, Observe(context, D))
<1> DEFINE nodes == DOMAIN context \cup {e.node : e \in D}
           from(n) == {e \in D : e.node = n}
                        \cup (IF n \in DOMAIN context THEN {context[n]} ELSE {})
           new == Observe(context, D)
<1>1. new = [n \in nodes |-> Latest(from(n))]
  BY DEF Observe
<1> HIDE DEF new
<1>2. \A h \in S \cup T : L[h].ts \in Timestamps
  BY DEF ContentOK
<1>3. /\ \A n \in DOMAIN context : \E h \in S : context[n] = L[h].ts /\ L[h].ts.node = n
      /\ \A h \in S : L[h].ts.node \in DOMAIN context /\ NotAfter(L[h].ts, context[L[h].ts.node])
  BY DEF ContextOf, Seen
<1>4. /\ \A e \in E : \E h \in T : e = L[h].ts
      /\ \A h \in T : \E e \in E : e.node = L[h].ts.node /\ NotAfter(L[h].ts, e)
      /\ \A e, f \in E : e.node = f.node => e = f
  BY DEF LastDots
<1>5. \A n \in nodes : \A u \in from(n) : \E h \in S \cup T : u = L[h].ts /\ L[h].ts.node = n
  BY <1>3, <1>4
<1>6. ASSUME NEW n \in nodes
      PROVE  \E t \in from(n) : \A u \in from(n) : NotAfter(u, t)
  <2>1. from(n) \subseteq Timestamps
    BY <1>2, <1>5
  <2>2. CASE \E e \in E : e.node = n
    <3>1. PICK e \in E : e.node = n
      BY <2>2
    <3>2. e \in from(n)
      BY <3>1
    <3>3. CASE n \in DOMAIN context
      <4>1. context[n] \in from(n)
        BY <3>3
      <4>2. ASSUME NEW u \in from(n) PROVE u = e \/ NotAfter(u, context[n])
        <5>1. CASE u = context[n]
          BY <5>1 DEF NotAfter
        <5>2. CASE u # context[n]
          <6>1. u \in D /\ u.node = n
            BY <5>2
          <6>2. CASE u \in E
            BY <1>4, <3>1, <6>1, <6>2
          <6>3. ASSUME NEW h \in S, u = L[h].ts PROVE NotAfter(u, context[n])
            BY <1>3, <6>1, <6>3
          <6> QED
            BY <6>1, <6>2, <6>3
        <5> QED
          BY <5>1, <5>2
      <4>3. CASE Before(context[n], e)
        <5>1. \A u \in from(n) : NotAfter(u, e)
          BY <2>1, <3>2, <4>1, <4>2, <4>3, TimestampsAreOrdered DEF NotAfter
        <5> QED
          BY <3>2, <5>1
      <4>4. CASE ~ Before(context[n], e)
        <5>1. NotAfter(e, context[n])
          BY <2>1, <3>2, <4>1, <4>4, TimestampsAreOrdered
        <5> QED
          BY <4>1, <4>2, <5>1
      <4> QED
        BY <4>3, <4>4
    <3>4. CASE n \notin DOMAIN context
      <4>1. \A u \in from(n) : u = e
        BY <1>3, <1>4, <3>1, <3>4
      <4> QED
        BY <3>2, <4>1 DEF NotAfter
    <3> QED
      BY <3>3, <3>4
  <2>3. CASE ~ \E e \in E : e.node = n
    <3>1. n \in DOMAIN context
      BY <1>3, <2>3
    <3>2. context[n] \in from(n)
      BY <3>1
    <3>3. \A u \in from(n) : NotAfter(u, context[n])
      BY <1>3, <2>3, <3>1 DEF NotAfter
    <3> QED
      BY <3>2, <3>3
  <2> QED
    BY <2>2, <2>3
<1>7. ASSUME NEW n \in nodes
      PROVE  new[n] \in from(n) /\ \A u \in from(n) : NotAfter(u, new[n])
  BY <1>1, <1>6 DEF Latest
<1>8. ASSUME NEW h \in S \cup T
      PROVE  Seen(new, L[h].ts)
  <2> DEFINE n == L[h].ts.node
  <2>1. \E u \in from(n) : n \in nodes /\ NotAfter(L[h].ts, u)
    BY <1>3, <1>4
  <2>2. PICK u \in from(n) : n \in nodes /\ NotAfter(L[h].ts, u)
    BY <2>1
  <2>3. NotAfter(u, new[n]) /\ new[n] \in from(n)
    BY <1>7, <2>2
  <2>4. L[h].ts \in Timestamps /\ u \in Timestamps /\ new[n] \in Timestamps
    BY <1>2, <1>5, <2>2, <2>3
  <2>5. NotAfter(L[h].ts, new[n])
    BY <2>2, <2>3, <2>4, TimestampsAreOrdered
  <2> QED
    BY <1>1, <2>2, <2>5 DEF Seen
<1>9. \A n \in DOMAIN new : \E h \in S \cup T : new[n] = L[h].ts /\ L[h].ts.node = n
  BY <1>1, <1>5, <1>7
<1> QED
  BY <1>8, <1>9 DEF ContextOf, new

LiveIn(L, H) ==
  {h \in TypeIn(L, H, "AddService") :
     ~ \E x \in TypeIn(L, H, "RemoveService") :
         L[x].op.id = L[h].op.id /\ h \in PastIn(L, x)}

EndpointOf(L, h) == [id |-> L[h].op.id, url |-> L[h].op.url]

\* The live map holds the endpoints of the adds G under their dots.
LiveMap(L, G, live) ==
  /\ DOMAIN live = {L[h].ts : h \in G}
  /\ \A h \in G : live[L[h].ts] = EndpointOf(L, h)

MeansServices(L, d) ==
  /\ LiveMap(L, LiveIn(L, d.dag.held), d.services.live)
  /\ ContextOf(L, ServicesIn(L, d.dag.held), d.services.context)

\* The past of a held delta is held.
LEMMA PastIsHeld ==
  ASSUME NEW L, ContentOK(L), NEW d, GoodDoc(L, d), NEW h \in DOMAIN L,
         L[h].parents \subseteq d.dag.held
  PROVE  /\ PastIn(L, h) = Closure(L, d.dag.held, L[h].parents)
         /\ PastIn(L, h) \subseteq d.dag.held
<1> DEFINE H == d.dag.held
<1>1. H \in SUBSET DOMAIN L /\ Referenced(L, H) \subseteq H /\ L[h].parents \in SUBSET H
  BY DEF GoodDoc, IsDocument, CompleteIn
<1>2. Visited(L, H, L[h].parents, {}) \subseteq H
  BY <1>1, VisitedWithinComplete
<1>3. PastIn(L, h) = Visited(L, H, L[h].parents, {}) \cap H
  BY <1>1, <1>2, PastWhereHeld
<1> QED
  BY <1>2, <1>3 DEF Closure

LEMMA PastOfHeld ==
  ASSUME NEW L, ContentOK(L), NEW d, GoodDoc(L, d), NEW h \in d.dag.held
  PROVE  PastIn(L, h) \subseteq d.dag.held
<1>1. h \in DOMAIN L /\ L[h].parents \subseteq d.dag.held
  BY DEF GoodDoc, IsDocument, CompleteIn, Referenced
<1> QED
  BY <1>1, PastIsHeld

LEMMA ServicesExtend ==
  ASSUME NEW L, NEW M, ContentOK(L), ContentOK(M), ExtendsContent(L, M), NEW d,
         GoodDoc(L, d), MeansServices(L, d)
  PROVE  MeansServices(M, d)
<1> DEFINE H == d.dag.held
<1>0. H \subseteq DOMAIN L
  BY DEF GoodDoc, IsDocument
<1>1. \A h \in H : M[h].op = L[h].op /\ M[h].ts = L[h].ts
  BY <1>0 DEF ExtendsContent
<1>2. \A type : TypeIn(M, H, type) = TypeIn(L, H, type) /\ TypeIn(L, H, type) \subseteq H
  BY <1>1 DEF TypeIn
<1>3. \A h \in H : PastIn(M, h) = PastIn(L, h)
  BY <1>0, PastExtends
<1>4. LiveIn(M, H) = LiveIn(L, H) /\ ServicesIn(M, H) = ServicesIn(L, H)
  BY <1>1, <1>2, <1>3 DEF LiveIn, ServicesIn
<1>5. LiveIn(L, H) \subseteq H /\ ServicesIn(L, H) \subseteq H
  BY <1>2 DEF LiveIn, ServicesIn
<1>6. LiveMap(M, LiveIn(L, H), d.services.live)
  BY <1>1, <1>5 DEF LiveMap, MeansServices, EndpointOf
<1>7. ContextOf(M, ServicesIn(L, H), d.services.context)
  BY <1>1, <1>5 DEF ContextOf, MeansServices
<1> QED
  BY <1>4, <1>6, <1>7 DEF MeansServices

\* An add is live, whatever is held: nothing held has it in its past.
LEMMA LiveWithAdd ==
  ASSUME NEW L, ContentOK(L), NEW d, GoodDoc(L, d), NEW h \in DOMAIN L \ d.dag.held,
         L[h].op.type = "AddService"
  PROVE  LiveIn(L, d.dag.held \cup {h}) = LiveIn(L, d.dag.held) \cup {h}
<1>1. \A x \in d.dag.held : h \notin PastIn(L, x)
  BY PastOfHeld
<1> QED
  BY <1>1 DEF LiveIn, TypeIn

\* A remove takes the adds of its id in its own past.
LEMMA LiveWithRemove ==
  ASSUME NEW L, NEW H, NEW h \in DOMAIN L \ H, L[h].op.type = "RemoveService"
  PROVE  LiveIn(L, H \cup {h})
           = {g \in LiveIn(L, H) : ~ (L[h].op.id = L[g].op.id /\ g \in PastIn(L, h))}
BY DEF LiveIn, TypeIn

LEMMA LiveWithOther ==
  ASSUME NEW L, NEW H, NEW h, L[h].op.type # "RemoveService", L[h].op.type # "AddService"
  PROVE  LiveIn(L, H \cup {h}) = LiveIn(L, H) /\ ServicesIn(L, H \cup {h}) = ServicesIn(L, H)
BY DEF LiveIn, ServicesIn, TypeIn

LEMMA ApplyKeepsServices ==
  ASSUME NEW L, ContentOK(L), Dated(L), NEW d, GoodDoc(L, d), MeansServices(L, d),
         NEW h \in DOMAIN L, NEW by, NEW sig, sig => L[h].sealed, Admits(L, d, h, by, sig)
  PROVE  MeansServices(L, Apply(L, d, h, by))
<1> DEFINE H == d.dag.held
           G == H \cup {h}
           f == Apply(L, d, h, by)
           op == L[h].op
           ts == L[h].ts
           S == ServicesIn(L, H)
           T == {h}
           E == {ts}
           D == Observed(L, d, h)
<1>1. f.dag.held = G /\ H \in SUBSET DOMAIN L /\ L[h].parents \subseteq H
  <2>1. f.dag.held = G /\ L[h].parents \subseteq H
    BY ApplyKeepsGood
  <2>2. H \in SUBSET DOMAIN L
    BY DEF GoodDoc, IsDocument
  <2> QED
    BY <2>1, <2>2
<1>2. Applied(L, d, h, by, f)
  BY ApplyChanges
<1> HIDE DEF f
<1>3. h \notin H
  BY DEF Admits
<1>4. \A g \in H : L[g].ts # ts
  BY <1>1, <1>3 DEF Dated
<1>5. /\ S \in SUBSET DOMAIN L /\ T \in SUBSET DOMAIN L /\ LastDots(L, T, E)
      /\ ContextOf(L, S, d.services.context)
  <2>1. S \in SUBSET DOMAIN L
    BY <1>1 DEF ServicesIn, TypeIn
  <2>2. LastDots(L, T, E)
    BY DEF LastDots, NotAfter
  <2> QED
    BY <2>1, <2>2 DEF MeansServices
<1>6. LiveMap(L, LiveIn(L, H), d.services.live) /\ LiveIn(L, H) \subseteq H
  BY DEF MeansServices, LiveIn, TypeIn
<1>7. CASE op.type = "AddService"
  <2>1. /\ f.services.live = Put(d.services.live, ts, EndpointOf(L, h))
        /\ f.services.context = Observe(d.services.context, E)
    BY <1>2, <1>7 DEF Applied, ApplyAdd, EndpointOf
  <2>2. LiveIn(L, G) = LiveIn(L, H) \cup {h}
    BY <1>3, <1>7, LiveWithAdd
  <2>3. ServicesIn(L, G) = S \cup T
    BY <1>7 DEF ServicesIn, TypeIn
  <2>4. LiveMap(L, LiveIn(L, H) \cup {h}, Put(d.services.live, ts, EndpointOf(L, h)))
    BY <1>4, <1>6 DEF LiveMap, Put
  <2> HIDE DEF S, T, E
  <2>5. ContextOf(L, S \cup T, Observe(d.services.context, E))
    BY <1>5, ObserveIsLast
  <2> QED
    BY <1>1, <2>1, <2>2, <2>3, <2>4, <2>5 DEF MeansServices, f
<1>8. CASE op.type = "RemoveService"
  <2>1. /\ f.services.live = [t \in DOMAIN d.services.live \ D |-> d.services.live[t]]
        /\ f.services.context = Observe(d.services.context, D \cup E)
    BY <1>2, <1>8 DEF Applied, ApplyRemove
  <2>2. D = {L[g].ts : g \in {y \in PastIn(L, h) : L[y].op.type = "AddService" /\ L[y].op.id = op.id}}
    <3>1. PastIn(L, h) = Closure(L, H, L[h].parents)
      BY <1>1, PastIsHeld
    <3> QED
      BY <3>1 DEF Observed
  <2>3. PastIn(L, h) \subseteq H
    BY <1>1, PastIsHeld
  <2>4. \A e \in D \cup E : e \in E \/ \E g \in S : e = L[g].ts
    BY <2>2, <2>3 DEF ServicesIn, TypeIn
  <2>5. ServicesIn(L, G) = S \cup T
    BY <1>8 DEF ServicesIn, TypeIn
  <2> DEFINE N == {g \in LiveIn(L, H) : ~ (op.id = L[g].op.id /\ g \in PastIn(L, h))}
  <2>6. LiveIn(L, G) = N
    BY <1>3, <1>8, LiveWithRemove
  <2>7. \A g \in LiveIn(L, H) : L[g].ts \in D <=> (op.id = L[g].op.id /\ g \in PastIn(L, h))
    <3>1. ASSUME NEW g \in LiveIn(L, H), L[g].ts \in D
          PROVE  op.id = L[g].op.id /\ g \in PastIn(L, h)
      <4>1. PICK y \in PastIn(L, h) : L[y].op.id = op.id /\ L[g].ts = L[y].ts
        BY <2>2, <3>1
      <4>2. y = g
        BY <1>1, <1>6, <2>3, <4>1 DEF Dated
      <4> QED
        BY <4>1, <4>2
    <3>2. ASSUME NEW g \in LiveIn(L, H), op.id = L[g].op.id, g \in PastIn(L, h)
          PROVE  L[g].ts \in D
      BY <2>2, <3>2 DEF LiveIn, TypeIn
    <3> QED
      BY <3>1, <3>2
  <2> HIDE DEF D
  <2>8. LiveMap(L, N, f.services.live)
    <3>1. DOMAIN d.services.live = {L[g].ts : g \in LiveIn(L, H)}
      BY <1>6 DEF LiveMap
    <3>2. DOMAIN d.services.live \ D = {L[g].ts : g \in N}
      BY <2>7, <3>1
    <3>3. \A g \in N : f.services.live[L[g].ts] = EndpointOf(L, g)
      BY <1>6, <2>1, <3>2 DEF LiveMap
    <3> QED
      BY <2>1, <3>2, <3>3 DEF LiveMap
  <2> HIDE DEF S, T, E, N
  <2>9. ContextOf(L, S \cup T, Observe(d.services.context, D \cup E))
    <3> DEFINE F == D \cup E
    <3>1. E \subseteq F /\ \A e \in F : e \in E \/ \E g \in S : e = L[g].ts
      BY <2>4
    <3> HIDE DEF F
    <3>2. ContextOf(L, S \cup T, Observe(d.services.context, F))
      BY <1>5, <3>1, ObserveIsLast
    <3> QED
      BY <3>2 DEF F
  <2> QED
    BY <1>1, <2>1, <2>5, <2>6, <2>8, <2>9 DEF MeansServices, f
<1>9. CASE op.type # "AddService" /\ op.type # "RemoveService"
  <2>1. f.services = d.services
    BY <1>2, <1>9 DEF Applied
  <2>2. LiveIn(L, G) = LiveIn(L, H) /\ ServicesIn(L, G) = S
    BY <1>9, LiveWithOther
  <2> QED
    BY <1>1, <1>5, <1>6, <2>1, <2>2 DEF MeansServices, f
<1> QED
  BY <1>7, <1>8, <1>9

\* a misses no dot of b: what the version vector of a covers, a holds.
NoGapTo(L, a, b) ==
  \A h \in ServicesIn(L, b.dag.held) : Seen(a.services.context, L[h].ts) => h \in a.dag.held

\* An add that one side holds and the other removed is gone, one that the
\* other has not seen stays.
LEMMA LiveWithBoth ==
  ASSUME NEW L, ContentOK(L), NEW a, NEW b, GoodDoc(L, a), GoodDoc(L, b)
  PROVE  LiveIn(L, a.dag.held \cup b.dag.held)
           = {g \in LiveIn(L, a.dag.held) : g \in LiveIn(L, b.dag.held) \/ g \notin b.dag.held}
               \cup {g \in LiveIn(L, b.dag.held) : g \in LiveIn(L, a.dag.held) \/ g \notin a.dag.held}
<1>1. /\ \A x \in a.dag.held : PastIn(L, x) \subseteq a.dag.held
      /\ \A x \in b.dag.held : PastIn(L, x) \subseteq b.dag.held
  BY PastOfHeld
<1> QED
  BY <1>1 DEF LiveIn, TypeIn

LEMMA JoinKeepsServices ==
  ASSUME NEW L, ContentOK(L), Dated(L), NEW a, NEW b, GoodDoc(L, a), GoodDoc(L, b),
         MeansServices(L, a), MeansServices(L, b), NoGapTo(L, a, b), NoGapTo(L, b, a)
  PROVE  MeansServices(L, Join(L, a, b))
<1> DEFINE A == a.dag.held
           B == b.dag.held
           P == LiveIn(L, A)
           Q == LiveIn(L, B)
           la == a.services.live
           lb == b.services.live
           ca == a.services.context
           cb == b.services.context
           f == Join(L, a, b)
<1>1. f.dag.held = A \cup B /\ A \in SUBSET DOMAIN L /\ B \in SUBSET DOMAIN L
  <2>1. f.dag.held = A \cup B
    BY JoinKeepsGood
  <2>2. A \in SUBSET DOMAIN L /\ B \in SUBSET DOMAIN L
    BY DEF GoodDoc, IsDocument
  <2> QED
    BY <2>1, <2>2
<1>2. f.services = MergeServices(a.services, b.services)
  BY DEF Join, JoinFields
<1> HIDE DEF f
<1>3. /\ DOMAIN la = {L[g].ts : g \in P} /\ \A g \in P : la[L[g].ts] = EndpointOf(L, g)
      /\ DOMAIN lb = {L[g].ts : g \in Q} /\ \A g \in Q : lb[L[g].ts] = EndpointOf(L, g)
  BY DEF MeansServices, LiveMap
<1>4. /\ P \subseteq ServicesIn(L, A) /\ Q \subseteq ServicesIn(L, B)
      /\ P \subseteq A /\ Q \subseteq B
      /\ ServicesIn(L, A) \cap B \subseteq ServicesIn(L, B)
      /\ ServicesIn(L, B) \cap A \subseteq ServicesIn(L, A)
  BY DEF LiveIn, ServicesIn, TypeIn
<1>5. /\ ContextOf(L, ServicesIn(L, A), ca) /\ ContextOf(L, ServicesIn(L, B), cb)
  BY DEF MeansServices
<1>6. /\ \A g \in P : Seen(cb, L[g].ts) <=> g \in B
      /\ \A g \in Q : Seen(ca, L[g].ts) <=> g \in A
  BY <1>4, <1>5 DEF ContextOf, NoGapTo
<1>7. /\ \A g \in P : L[g].ts \in DOMAIN lb <=> g \in Q
      /\ \A g \in Q : L[g].ts \in DOMAIN la <=> g \in P
  BY <1>1, <1>3, <1>4 DEF Dated
<1> DEFINE N == {g \in P : g \in Q \/ g \notin B} \cup {g \in Q : g \in P \/ g \notin A}
           K == {t \in DOMAIN la : Survives(a.services, b.services, t)}
                  \cup {t \in DOMAIN lb : Survives(b.services, a.services, t)}
<1>8. K = {L[g].ts : g \in N}
  BY <1>3, <1>6, <1>7 DEF Survives
<1>9. /\ f.services.live = [t \in K |-> IF t \in DOMAIN lb THEN lb[t] ELSE la[t]]
      /\ f.services.context = Observe(ca, {cb[n] : n \in DOMAIN cb})
  BY <1>2 DEF MergeServices
<1>10. LiveMap(L, N, f.services.live)
  <2> HIDE DEF K
  <2>1. ASSUME NEW g \in N
        PROVE  f.services.live[L[g].ts] = EndpointOf(L, g)
    <3>1. L[g].ts \in K
      BY <1>8
    <3>2. CASE g \in Q
      BY <1>3, <1>9, <3>1, <3>2
    <3>3. CASE g \notin Q
      <4>1. g \in P /\ L[g].ts \notin DOMAIN lb
        BY <1>7, <3>3
      <4> QED
        BY <1>3, <1>9, <3>1, <4>1
    <3> QED
      BY <3>2, <3>3
  <2> QED
    BY <1>8, <1>9, <2>1 DEF LiveMap
<1>11. LiveIn(L, A \cup B) = N
  BY LiveWithBoth
<1>12. ContextOf(L, ServicesIn(L, A \cup B), f.services.context)
  <2> DEFINE S == ServicesIn(L, A)
             T == ServicesIn(L, B)
             E == {cb[n] : n \in DOMAIN cb}
  <2>1. ServicesIn(L, A \cup B) = S \cup T
    BY DEF ServicesIn, TypeIn
  <2>2. S \in SUBSET DOMAIN L /\ T \in SUBSET DOMAIN L
    BY <1>1 DEF ServicesIn, TypeIn
  <2>3. LastDots(L, T, E)
    BY <1>5 DEF ContextOf, LastDots, Seen
  <2> HIDE DEF S, T, E
  <2>4. ContextOf(L, S \cup T, Observe(ca, E))
    BY <1>5, <2>2, <2>3, ObserveIsLast DEF S
  <2> QED
    BY <1>9, <2>1, <2>4 DEF E
<1> QED
  BY <1>1, <1>10, <1>11, <1>12 DEF MeansServices, f

----------------------------------------------------------------------------
(* What the fields say is what the history means *)

MeansAll(L, d) == MeansPlain(L, d) /\ MeansRegisters(L, d) /\ MeansServices(L, d)

\* The date of the last of the writes W, and that write.
LastDate(L, W) == Latest({L[x].ts : x \in W})
LastOf(L, W) == CHOOSE h \in W : L[h].ts = LastDate(L, W)

\* A register with writes holds the last one.
LEMMA RegisterIsLast ==
  ASSUME NEW L, ContentOK(L), Dated(L), NEW W \in SUBSET (DOMAIN L \ {Genesis}), W # {},
         NEW reg, RegisterOf(L, W, reg)
  PROVE  LastOf(L, W) \in W /\ reg = WriteOf(L, LastOf(L, W)) /\ reg.marker = LastDate(L, W)
<1>1. \A h \in W : L[h].ts \in Timestamps /\ Before(ZeroTs, L[h].ts)
  BY DEF ContentOK, Dated
<1>2. reg # EmptyReg
  BY <1>1, TimestampsAreOrdered DEF RegisterOf, EmptyReg
<1>3. PICK h \in W : reg = WriteOf(L, h)
  BY <1>2 DEF RegisterOf
<1>4. \A x \in W : NotAfter(L[x].ts, L[h].ts)
  BY <1>3 DEF RegisterOf, WriteOf
<1> DEFINE S == {L[x].ts : x \in W}
           t == L[h].ts
<1>5. S \in SUBSET Timestamps /\ t \in S /\ \A u \in S : NotAfter(u, t)
  BY <1>1, <1>4
<1> HIDE DEF S, t
<1>6. Latest(S) = t
  BY <1>5, LatestIs
<1>7. \A x \in W : L[x].ts = L[h].ts => x = h
  BY DEF Dated
<1>8. LastDate(L, W) = L[h].ts
  BY <1>6 DEF S, t, LastDate
<1>9. LastOf(L, W) = h
  BY <1>7, <1>8 DEF LastOf
<1> QED
  BY <1>3, <1>8, <1>9 DEF WriteOf

LEMMA StateOfHistory ==
  ASSUME ContentOK(delta), ByOps(delta), GroundedIn(delta), Dated(delta), NEW d,
         GoodDoc(delta, d), Backed(delta, d), MeansAll(delta, d)
  PROVE  State(d) = Meaning(d.dag.held)
<1> DEFINE H == d.dag.held
           M == Meaning(H)
<1>1. H \in SUBSET DOMAIN delta
  BY DEF GoodDoc, IsDocument
<1>2. \A type : OfType(H, type) = TypeIn(delta, H, type)
  BY DEF OfType, TypeIn
<1>3. d.vms = {[id |-> delta[h].op.id, pk |-> delta[h].op.pk] : h \in OfType(H, "AddVM")}
  BY DEF Backed, Method, OfType
<1>4. {<<t, d.services.live[t]>> : t \in DOMAIN d.services.live}
        = {<<delta[h].ts, [id |-> delta[h].op.id, url |-> delta[h].op.url]>> : h \in LiveAdds(H)}
  <2>1. LiveAdds(H) = LiveIn(delta, H)
    BY <1>2 DEF LiveAdds, LiveIn, Past
  <2>2. LiveMap(delta, LiveAdds(H), d.services.live)
    BY <2>1 DEF MeansAll, MeansServices
  <2> DEFINE entry(h) == [id |-> delta[h].op.id, url |-> delta[h].op.url]
             live == d.services.live
  <2>3. DOMAIN live = {delta[h].ts : h \in LiveAdds(H)}
    BY <2>2 DEF LiveMap
  <2>4. \A h \in LiveAdds(H) : live[delta[h].ts] = entry(h)
    BY <2>2 DEF LiveMap, EndpointOf
  <2> HIDE DEF entry, live
  <2>5. {<<t, live[t]>> : t \in DOMAIN live} = {<<delta[h].ts, entry(h)>> : h \in LiveAdds(H)}
    <3>1. {<<t, live[t]>> : t \in DOMAIN live}
            = {<<delta[h].ts, live[delta[h].ts]>> : h \in LiveAdds(H)}
      BY <2>3
    <3> QED
      BY <2>4, <3>1
  <2> QED
    BY <2>5 DEF entry, live
<1> DEFINE services == OfType(H, "AddService") \cup OfType(H, "RemoveService")
           seen == {Latest({delta[h].ts : h \in {x \in services : delta[x].ts.node = n}}) :
                      n \in {delta[h].ts.node : h \in services}}
<1>5. {d.services.context[n] : n \in DOMAIN d.services.context} = seen
  <2> DEFINE c == d.services.context
             from(n) == {delta[h].ts : h \in {x \in services : delta[x].ts.node = n}}
  <2>1. ContextOf(delta, services, c)
    BY <1>2 DEF MeansAll, MeansServices, ServicesIn
  <2>2. services \subseteq DOMAIN delta
    BY <1>1 DEF OfType
  <2>3. DOMAIN c = {delta[h].ts.node : h \in services}
    BY <2>1 DEF ContextOf, Seen
  <2>4. ASSUME NEW n \in DOMAIN c
        PROVE  c[n] = Latest(from(n))
    <3> DEFINE S == from(n)
               t == c[n]
    <3>1. S \in SUBSET Timestamps
      BY <2>2 DEF ContentOK
    <3>2. t \in S /\ \A u \in S : NotAfter(u, t)
      BY <2>1 DEF ContextOf, Seen
    <3> HIDE DEF S, t
    <3>3. Latest(S) = t
      BY <3>1, <3>2, LatestIs
    <3> QED
      BY <3>3 DEF S, t
  <2> HIDE DEF c, from
  <2>5. {c[n] : n \in DOMAIN c} = {Latest(from(n)) : n \in {delta[h].ts.node : h \in services}}
    BY <2>3, <2>4
  <2> QED
    BY <2>5 DEF c, from
<1>6. d.data = [k \in {delta[h].op.key : h \in OfType(H, "SetData")} |->
                  LET W == {h \in OfType(H, "SetData") : delta[h].op.key = k}
                  IN  [val |-> delta[LastOf(delta, W)].op.val, marker |-> LastDate(delta, W)]]
  <2>1. /\ d.data = [k \in KeysIn(delta, H) |-> d.data[k]]
        /\ \A k \in KeysIn(delta, H) : RegisterOf(delta, WritesIn(delta, H, k), d.data[k])
    BY DEF MeansAll, MeansRegisters
  <2>2. ASSUME NEW k \in KeysIn(delta, H), NEW W, W = WritesIn(delta, H, k)
        PROVE  d.data[k] = [val |-> delta[LastOf(delta, W)].op.val, marker |-> LastDate(delta, W)]
    <3> DEFINE reg == d.data[k]
    <3>1. W # {} /\ \A h \in W : delta[h].op.type = "SetData"
      BY <2>2 DEF KeysIn, WritesIn, TypeIn
    <3>2. W \in SUBSET (DOMAIN delta \ {Genesis}) /\ RegisterOf(delta, W, reg)
      BY <1>1, <2>1, <2>2, WritesAreDated
    <3> HIDE DEF reg
    <3>3. /\ LastOf(delta, W) \in W /\ reg = WriteOf(delta, LastOf(delta, W))
          /\ reg.marker = LastDate(delta, W)
      BY <3>1, <3>2, RegisterIsLast
    <3> QED
      BY <3>1, <3>3 DEF WriteOf, reg
  <2>3. \A k : WritesIn(delta, H, k) = {h \in OfType(H, "SetData") : delta[h].op.key = k}
    BY <1>2 DEF WritesIn
  <2>4. KeysIn(delta, H) = {delta[h].op.key : h \in OfType(H, "SetData")}
    BY <1>2 DEF KeysIn
  <2> QED
    BY <2>1, <2>2, <2>3, <2>4
<1>7. ASSUME NEW aliases, aliases = OfType(H, "SetAka")
      PROVE  d.aka = IF aliases = {} THEN EmptyReg
                     ELSE [val |-> delta[LastOf(delta, aliases)].op.uris,
                           marker |-> LastDate(delta, aliases)]
  <2> DEFINE reg == d.aka
  <2>1. RegisterOf(delta, aliases, reg)
    BY <1>2, <1>7 DEF MeansAll, MeansRegisters
  <2>2. aliases \in SUBSET (DOMAIN delta \ {Genesis})
    BY <1>1, <1>2, <1>7, WritesAreDated
  <2>3. \A h \in aliases : delta[h].op.type = "SetAka"
    BY <1>7 DEF OfType
  <2> HIDE DEF reg
  <2>4. CASE aliases = {}
    BY <2>1, <2>4 DEF RegisterOf, reg
  <2>5. CASE aliases # {}
    <3>1. /\ LastOf(delta, aliases) \in aliases
          /\ reg = WriteOf(delta, LastOf(delta, aliases)) /\ reg.marker = LastDate(delta, aliases)
      BY <2>1, <2>2, <2>5, RegisterIsLast
    <3> QED
      BY <2>3, <2>5, <3>1 DEF WriteOf, reg
  <2> QED
    BY <2>4, <2>5
<1>8. ASSUME NEW rotations,
             rotations = {[seq |-> delta[h].op.seq, key |-> delta[h].op.key] :
                            h \in OfType(H, "RotateKey")} \cup {NoActiveKey}
      PROVE  d.active = CHOOSE a \in rotations : \A b \in rotations : ~ OlderKey(a, b)
  <2>1. rotations = RotationsIn(delta, H)
    BY <1>2, <1>8 DEF RotationsIn, RotationIn
  <2>2. rotations \subseteq Markers
    BY <1>1, <2>1, RotationsAreMarkers
  <2>3. d.active \in rotations /\ \A b \in rotations : ~ OlderKey(d.active, b)
    BY <2>1 DEF MeansAll, MeansPlain
  <2>4. \A a \in rotations : (\A b \in rotations : ~ OlderKey(a, b)) => a = d.active
    BY <2>2, <2>3, MarkersAreOrdered
  <2> QED
    BY <2>3, <2>4
<1>9. d.creds = {delta[h].op.cred : h \in OfType(H, "RevokeCredential")}
  BY <1>2 DEF MeansAll, MeansPlain
<1>10. d.revoked = {delta[h].op.id : h \in OfType(H, "RevokeVM")}
  BY DEF Backed, OfType, HasRevokingDelta, Revokes
<1>11. d.deactivated = (OfType(H, "Deactivate") # {})
  BY DEF Backed, OfType, HasDeactivateDelta, Deactivates
<1>12. d.updated = CHOOSE w \in {delta[h].ts.wall : h \in H} : \A h \in H : delta[h].ts.wall <= w
  <2>1. \A h \in H : delta[h].ts.wall \in Nat
    BY <1>1 DEF ContentOK, Timestamps
  <2>2. d.updated \in {delta[h].ts.wall : h \in H} /\ \A h \in H : delta[h].ts.wall <= d.updated
    BY DEF MeansAll, MeansPlain
  <2>3. \A w \in {delta[h].ts.wall : h \in H} :
          (\A h \in H : delta[h].ts.wall <= w) => w = d.updated
    BY <2>1, <2>2
  <2> QED
    BY <2>2, <2>3
<1>13. /\ M.vms = State(d).vms /\ M.live = State(d).live /\ M.creds = State(d).creds
       /\ M.revoked = State(d).revoked /\ M.deactivated = State(d).deactivated
       /\ M.updated = State(d).updated
  BY <1>3, <1>4, <1>9, <1>10, <1>11, <1>12 DEF Meaning, State
<1>14. M.seen = State(d).seen
  <2>1. M.seen = seen
    BY DEF Meaning
  <2>2. State(d).seen = {d.services.context[n] : n \in DOMAIN d.services.context}
    BY DEF State
  <2> HIDE DEF M, seen
  <2> QED
    BY <1>5, <2>1, <2>2
<1>15. M.data = State(d).data
  BY <1>6 DEF Meaning, State, LastWrite, LastOf, LastDate
<1>16. M.aka = State(d).aka
  BY <1>7 DEF Meaning, State, LastWrite, LastOf, LastDate
<1>17. M.active = State(d).active
  BY <1>8 DEF Meaning, State
<1>18. /\ M = [vms |-> M.vms, live |-> M.live, seen |-> M.seen, data |-> M.data, aka |-> M.aka,
               active |-> M.active, creds |-> M.creds, revoked |-> M.revoked,
               deactivated |-> M.deactivated, updated |-> M.updated]
  BY DEF Meaning
<1> HIDE DEF M
<1> QED
  BY <1>13, <1>14, <1>15, <1>16, <1>17, <1>18 DEF State, M

----------------------------------------------------------------------------
(* Devices that go by the protocol *)

\* What the theorems about the state need, and why: with two keys under one
\* id, admission depends on the replica (run duplicate_id); a device that
\* sends deltas on other parents than its frontier leaves gaps, and so does
\* one that uses a key from two places; more deltas than the logical counter
\* has values bring a timestamp back.
Honest ==
  /\ OneKeyPerId
  /\ Rogues = {} /\ Tampering = FALSE
  /\ \A r, q \in Replicas : DevicePub[r] = DevicePub[q] => r = q
  /\ \A h \in Hashes : h + 1 < LogicalWidth

\* A clock carries the node of its device and counts at most the deltas.
ClocksRun ==
  \A r \in Replicas : clock[r].node = DevicePub[r] /\ \E x \in Exists : clock[r].logical <= x

\* Every delta was made by a device, not after what its clock shows now.
Stamped ==
  \A h \in Exists \ {Genesis} :
    \E r \in Replicas : /\ delta[h].ts.node = DevicePub[r] /\ NotAfter(delta[h].ts, clock[r])
                        /\ delta[h].by = DeviceId[r]

\* A device builds on everything of its own that anybody may admit.
Chained ==
  \A h, x \in Exists \ {Genesis} :
    /\ delta[h].ts.node = delta[x].ts.node /\ Before(delta[h].ts, delta[x].ts)
    /\ Admissible(delta, h, delta[h].by)
    => h \in PastIn(delta, x)

OwnKept ==
  \A r \in Replicas, h \in Exists \ {Genesis} :
    delta[h].ts.node = DevicePub[r] /\ Admissible(delta, h, delta[h].by)
      => h \in doc[r].dag.held

\* The log names the key the author named.
LogsAsSigned == \A d \in Documents : \A h \in d.dag.held : d.log[h] = delta[h].by

HonestInv ==
  /\ ClocksRun /\ Stamped /\ Dated(delta) /\ Chained /\ OwnKept /\ LogsAsSigned
  /\ VouchedAsSigned

\* Hlc::advance_send without a wrap goes forward by at most one.
LEMMA ClockAdvances ==
  ASSUME NEW t \in Timestamps, NEW now \in Nat, t.logical + 1 < LogicalWidth
  PROVE  /\ Before(t, AdvanceSend(t, now)) /\ AdvanceSend(t, now).node = t.node
         /\ AdvanceSend(t, now).logical <= t.logical + 1
<1> DEFINE wall == MaxOf(now, t.wall)
<1>1. t.wall \in Nat /\ t.logical \in Nat /\ t.node \in Nat
  BY WidthIsPositive DEF Timestamps
<1>2. wall \in Nat /\ t.wall <= wall
  BY <1>1 DEF MaxOf
<1>3. Bump(t.logical) = t.logical + 1
  BY <1>1, WidthIsPositive DEF Bump
<1>4. /\ AdvanceSend(t, now).wall = wall /\ AdvanceSend(t, now).node = t.node
      /\ AdvanceSend(t, now).logical = IF wall = t.wall THEN t.logical + 1 ELSE 0
  BY <1>3 DEF AdvanceSend
<1> HIDE DEF wall
<1> QED
  BY <1>1, <1>2, <1>4 DEF Before

\* A step of a device that makes a delta.
NewDelta(r, h) ==
  /\ h \in Nat /\ h \notin Exists /\ \A x \in Exists : x < h
  /\ Exists' = Exists \cup {h} /\ \A g \in Exists : delta'[g] = delta[g]
  /\ delta'[h].ts = clock'[r] /\ delta'[h].by = DeviceId[r]
  /\ delta'[h].parents = doc[r].dag.frontier
  /\ \A q \in Replicas \ {r} : clock'[q] = clock[q]
  /\ clock'[r] \in Timestamps /\ Before(clock[r], clock'[r])
  /\ clock'[r].node = DevicePub[r] /\ clock'[r].logical <= clock[r].logical + 1

LEMMA AuthorIsNew ==
  ASSUME Honest, Base, AllGood, GroundedIn(delta), HonestInv, NEW r \in Replicas, NEW op \in Ops,
         NEW now \in Readings, NEW h \in Hashes, Author(r, op, now, h)
  PROVE  NewDelta(r, h)
<1> DEFINE ts == AdvanceSend(clock[r], now)
           c == [op |-> op, parents |-> doc[r].dag.frontier, ts |-> ts,
                 by |-> DeviceId[r], sealed |-> TRUE, sound |-> TRUE]
<1>1. /\ clock' = [clock EXCEPT ![r] = ts] /\ HasHash(c, h) /\ delta' = Put(delta, h, c)
  BY DEF Author, Publish
<1>2. clock[r] \in Timestamps /\ now \in Nat /\ clock \in [Replicas -> Timestamps]
  BY ReadingsAreNumbers DEF Base
<1>3. clock[r].logical + 1 < LogicalWidth
  <2>1. PICK x \in Exists : clock[r].logical <= x
    BY DEF HonestInv, ClocksRun
  <2>2. x \in Nat /\ x + 1 < LogicalWidth
    BY HashesAreOrdered DEF Base, Honest
  <2> QED
    BY <1>2, <2>1, <2>2, WidthIsPositive DEF Timestamps
<1>4. /\ Before(clock[r], ts) /\ ts.node = clock[r].node /\ ts.logical <= clock[r].logical + 1
      /\ ts \in Timestamps
  BY <1>2, <1>3, ClockAdvances, AdvanceType
<1> HIDE DEF ts
<1>5. clock[r].node = DevicePub[r]
  BY DEF HonestInv, ClocksRun
<1>6. ASSUME NEW x \in Exists PROVE delta[x].ts # ts
  <2>0. delta[x].ts \in Timestamps
    BY DEF Base, ContentOK, Exists
  <2>1. CASE x = Genesis
    <3>1. delta[x].ts = ZeroTs
      BY <2>1 DEF GroundedIn
    <3>2. NotAfter(ZeroTs, clock[r])
      BY <1>2, WidthIsPositive DEF NotAfter, Before, ZeroTs, Timestamps
    <3> QED
      BY <1>2, <1>4, <2>0, <3>1, <3>2, TimestampsAreOrdered DEF NotAfter
  <2>2. CASE x # Genesis
    <3>1. PICK q \in Replicas : /\ delta[x].ts.node = DevicePub[q]
                                /\ NotAfter(delta[x].ts, clock[q])
      BY <2>2 DEF HonestInv, Stamped
    <3>2. delta[x].ts = ts => q = r
      BY <1>4, <1>5, <3>1 DEF Honest
    <3> QED
      BY <1>2, <1>4, <2>0, <3>1, <3>2, TimestampsAreOrdered DEF NotAfter
  <2> QED
    BY <2>1, <2>2
<1>7. h \notin Exists /\ \A x \in Exists : x < h
  <2>1. ~ \E x \in Exists : SameContent(c, x)
    BY <1>6 DEF SameContent
  <2> QED
    BY <1>1, <2>1 DEF HasHash
<1>8. clock'[r] = ts /\ \A q \in Replicas \ {r} : clock'[q] = clock[q]
  BY <1>1, <1>2
<1>9. Exists' = Exists \cup {h} /\ delta'[h] = c /\ \A g \in Exists : delta'[g] = delta[g]
  BY <1>1, <1>7 DEF Put, Exists
<1>10. c.ts = ts /\ c.by = DeviceId[r] /\ c.parents = doc[r].dag.frontier /\ h \in Nat
  BY HashesAreOrdered
<1> HIDE DEF c
<1> QED
  BY <1>4, <1>5, <1>7, <1>8, <1>9, <1>10 DEF NewDelta

LEMMA NewDeltaStamped ==
  ASSUME Honest, Base, HonestInv, GroundedIn(delta), NEW r \in Replicas, NEW h, NewDelta(r, h)
  PROVE  ClocksRun' /\ Stamped' /\ Dated(delta')
<1>0. /\ \A q \in Replicas : clock[q] \in Timestamps /\ clock'[q] \in Timestamps
      /\ \A g \in Exists : delta[g].ts \in Timestamps
      /\ Exists \subseteq Nat
  BY HashesAreOrdered DEF Base, NewDelta, ContentOK, Exists
<1>1. \A q \in Replicas : NotAfter(clock[q], clock'[q])
  BY <1>0 DEF NewDelta, NotAfter
<1>2. ClocksRun'
  <2>1. ASSUME NEW q \in Replicas
        PROVE  clock'[q].node = DevicePub[q] /\ \E x \in Exists' : clock'[q].logical <= x
    <3>1. PICK x \in Exists : clock[q].logical <= x
      BY DEF HonestInv, ClocksRun
    <3>2. CASE q = r
      <4>1. x < h /\ h \in Nat /\ x \in Nat /\ h \in Exists'
        BY <1>0 DEF NewDelta
      <4>2. clock'[q].logical <= clock[q].logical + 1 /\ clock'[q].node = DevicePub[q]
        BY <3>2 DEF NewDelta
      <4>3. clock[q].logical \in Nat /\ clock'[q].logical \in Nat
        BY <1>0, WidthIsPositive DEF Timestamps
      <4> QED
        BY <3>1, <4>1, <4>2, <4>3
    <3>3. CASE q # r
      BY <3>1, <3>3 DEF NewDelta, HonestInv, ClocksRun
    <3> QED
      BY <3>2, <3>3
  <2> QED
    BY <2>1 DEF ClocksRun
<1>3. Stamped'
  <2>1. ASSUME NEW g \in Exists' \ {Genesis}
        PROVE  \E q \in Replicas : /\ delta'[g].ts.node = DevicePub[q]
                                   /\ NotAfter(delta'[g].ts, clock'[q])
                                   /\ delta'[g].by = DeviceId[q]
    <3>1. CASE g = h
      BY <3>1 DEF NewDelta, NotAfter
    <3>2. CASE g \in Exists
      <4>1. PICK q \in Replicas : /\ delta[g].ts.node = DevicePub[q]
                                  /\ NotAfter(delta[g].ts, clock[q])
                                  /\ delta[g].by = DeviceId[q]
        BY <3>2 DEF HonestInv, Stamped
      <4>2. NotAfter(delta[g].ts, clock'[q])
        BY <1>0, <1>1, <3>2, <4>1, TimestampsAreOrdered
      <4> QED
        BY <3>2, <4>1, <4>2 DEF NewDelta
    <3> QED
      BY <3>1, <3>2 DEF NewDelta
  <2> QED
    BY <2>1 DEF Stamped
<1>4. ASSUME NEW g \in Exists
      PROVE  delta[g].ts # delta'[h].ts
  <2>1. CASE g = Genesis
    <3>1. NotAfter(ZeroTs, clock[r])
      BY <1>0, WidthIsPositive DEF NotAfter, Before, ZeroTs, Timestamps
    <3>2. Before(ZeroTs, clock'[r])
      BY <1>0, <3>1, TimestampsAreOrdered DEF NewDelta
    <3> QED
      BY <1>0, <2>1, <3>2, TimestampsAreOrdered DEF NewDelta, GroundedIn, NotAfter
  <2>2. CASE g # Genesis
    <3>1. PICK q \in Replicas : delta[g].ts.node = DevicePub[q] /\ NotAfter(delta[g].ts, clock[q])
      BY <2>2 DEF HonestInv, Stamped
    <3>2. delta[g].ts = delta'[h].ts => q = r
      BY <3>1 DEF NewDelta, Honest
    <3>3. q = r => Before(delta[g].ts, clock'[r])
      BY <1>0, <3>1, TimestampsAreOrdered DEF NewDelta
    <3> QED
      BY <1>0, <3>2, <3>3, TimestampsAreOrdered DEF NewDelta, NotAfter
  <2> QED
    BY <2>1, <2>2
<1>5. Before(ZeroTs, delta'[h].ts)
  <2>1. NotAfter(ZeroTs, clock[r])
    BY <1>0, WidthIsPositive DEF NotAfter, Before, ZeroTs, Timestamps
  <2> QED
    BY <1>0, <2>1, TimestampsAreOrdered DEF NewDelta
<1>6. Dated(delta')
  <2>1. DOMAIN delta' = Exists \cup {h} /\ \A g \in Exists : delta'[g] = delta[g]
    BY DEF NewDelta, Exists
  <2>2. /\ \A g, x \in Exists : delta[g].ts = delta[x].ts => g = x
        /\ \A g \in Exists \ {Genesis} : Before(ZeroTs, delta[g].ts)
    BY DEF HonestInv, Dated, Exists
  <2>3. \A g, x \in DOMAIN delta' : delta'[g].ts = delta'[x].ts => g = x
    BY <1>4, <2>1, <2>2
  <2>4. \A g \in DOMAIN delta' \ {Genesis} : Before(ZeroTs, delta'[g].ts)
    BY <1>5, <2>1, <2>2
  <2> QED
    BY <2>3, <2>4 DEF Dated
<1> QED
  BY <1>2, <1>3, <1>6

\* A new delta has all its author's replica holds in its past.
LEMMA NewDeltaPast ==
  ASSUME NEW L, ContentOK(L), GroundedIn(L), NEW d, GoodDoc(L, d), NEW h \in DOMAIN L,
         L[h].parents = d.dag.frontier
  PROVE  PastIn(L, h) = d.dag.held
<1> DEFINE H == d.dag.held
           P == L[h].parents
           W == Visited(L, H, P, {})
<1>1. H \in SUBSET DOMAIN L /\ Referenced(L, H) \subseteq H
  BY DEF GoodDoc, IsDocument, CompleteIn
<1>2. P \subseteq H
  BY FrontierIsHeld
<1>3. P \in SUBSET DOMAIN L /\ \A g \in DOMAIN L : L[g].parents \subseteq DOMAIN L
  BY DEF ContentOK
<1>4. TraversalClosed(L, H, P, {}, W)
  BY <1>3, VisitedIsClosed
<1>5. P \subseteq W /\ \A g \in W \cap H : L[g].parents \subseteq W
  BY <1>4 DEF TraversalClosed
<1>6. PastIn(L, h) = W \cap H
  <2>1. PastIn(L, h) = Closure(L, H, P)
    BY <1>2, PastIsHeld
  <2> QED
    BY <2>1 DEF Closure
<1> HIDE DEF W
<1>7. H \subseteq W
  BY <1>5, HeadsReachAll
<1> QED
  BY <1>6, <1>7

\* A delta that is admissible was so from the start: who adds a key later adds
\* the key its past adds.
LEMMA AdmissibleBefore ==
  ASSUME OneKeyPerId, NEW L, NEW M, ContentOK(L), ContentOK(M), ByOps(M), ExtendsContent(L, M),
         NEW h \in DOMAIN L, M[h].sealed => L[h].sealed, NEW by, Admissible(M, h, by)
  PROVE  Admissible(L, h, by)
<1>1. PastIn(M, h) = PastIn(L, h) /\ PastIn(L, h) \subseteq DOMAIN L
  BY PastExtends
<1>2. \A g \in DOMAIN L : M[g].op = L[g].op /\ M[g].ts = L[g].ts
  BY DEF ExtendsContent
<1>3. L[h].sealed /\ L[h].sound /\ L[h].parents # {}
  BY DEF Admissible, ExtendsContent
<1>4. /\ HasAuthorisingDelta(L, PastIn(L, h), by)
      /\ ~ HasRevokingDelta(L, PastIn(L, h), by)
      /\ ~ HasDeactivateDelta(L, PastIn(L, h))
  BY <1>1, <1>2 DEF Admissible, HasAuthorisingDelta, HasRevokingDelta, HasDeactivateDelta
<1>5. \E g \in DOMAIN L : L[g].op.type = "AddVM" /\ L[g].op.id = by /\ L[g].op.pk = L[h].ts.node
  <2>1. PICK g \in DOMAIN M : /\ M[g].op.type = "AddVM" /\ M[g].op.id = by
                              /\ M[g].op.pk = M[h].ts.node
    BY DEF Admissible
  <2>2. PICK x \in DOMAIN L : L[x].op.type = "AddVM" /\ L[x].op.id = by
    BY <1>1, <1>4 DEF HasAuthorisingDelta, Adds
  <2>3. M[x].op \in Ops \cup {GenesisOp} /\ M[g].op \in Ops \cup {GenesisOp}
    BY <2>1, <2>2 DEF ByOps, ExtendsContent
  <2>4. L[x].op.pk = M[g].op.pk
    BY <1>2, <2>1, <2>2, <2>3 DEF OneKeyPerId
  <2> QED
    BY <1>2, <2>1, <2>2, <2>4
<1> QED
  BY <1>3, <1>4, <1>5 DEF Admissible

LEMMA OnFrontierIsDecided ==
  ASSUME NEW L, ContentOK(L), NEW d, GoodDoc(L, d), NEW h \in DOMAIN L, NEW by,
         L[h].parents = d.dag.frontier
  PROVE  ~ IsPending(L, d, h, by)
<1> DEFINE H == d.dag.held
           V == Visited(L, H, L[h].parents, {})
<1>1. H \in SUBSET DOMAIN L /\ Referenced(L, H) \subseteq H
  BY DEF GoodDoc, IsDocument, CompleteIn
<1>2. L[h].parents \in SUBSET H
  BY FrontierIsHeld
<1>3. V \ H = {}
  BY <1>1, <1>2, VisitedWithinComplete
<1> HIDE DEF V
<1> QED
  BY <1>3 DEF IsPending, Verdict, VerifyCausal, VerifyRoot, Decide, V,
     Valid, Invalid, Unknown, IsResolved

LEMMA AuthorIsNext ==
  ASSUME NEW r \in Replicas, NEW op \in Ops, NEW now \in Readings, NEW h \in Hashes,
         Author(r, op, now, h)
  PROVE  Next
BY DEF Next

LEMMA AuthorChained ==
  ASSUME Honest, Base, AllGood, AllBacked, GroundedIn(delta), GroundedIn(delta'), HonestInv,
         NEW r \in Replicas, NEW op \in Ops, NEW now \in Readings, NEW h \in Hashes,
         Author(r, op, now, h), ByOps(delta')
  PROVE  Chained' /\ OwnKept'
<1> DEFINE M == delta'
           d == doc[r]
<1>1. NewDelta(r, h)
  BY AuthorIsNew
<1>2. Base' /\ AllGood' /\ ExtendsContent(delta, delta')
  BY AuthorStep
<1>3. /\ ContentOK(delta) /\ ContentOK(M) /\ ExtendsContent(delta, M) /\ ByOps(M)
      /\ GroundedIn(M) /\ OneKeyPerId
  BY <1>2 DEF Base, Honest
<1>4. DOMAIN M = Exists \cup {h} /\ DOMAIN delta = Exists /\ \A g \in Exists : M[g] = delta[g]
  BY <1>1 DEF NewDelta, Exists
<1>5. h \notin Exists /\ M[h].by = DeviceId[r] /\ M[h].parents = d.dag.frontier /\ M[h].ts = clock'[r]
  BY <1>1 DEF NewDelta
<1>6. GoodDoc(delta, d) /\ Backed(delta, d)
  BY DEF AllGood, AllBacked
<1>7. doc' = [doc EXCEPT ![r] = MergeVerifiedDelta(M, d, h, DeviceId[r], TRUE)]
  BY DEF Author
<1>8. doc = [q \in Replicas |-> doc[q]]
  BY DEF Base
<1> HIDE DEF M
<1>9. GoodDoc(M, d) /\ Backed(M, d)
  BY <1>3, <1>6, GoodDocExtends, BackedExtends
<1>10. h \in DOMAIN M /\ h \notin d.dag.held
  <2>1. d.dag.held \subseteq Exists
    BY <1>6 DEF GoodDoc, IsDocument, Exists
  <2> QED
    BY <1>4, <1>5, <2>1
<1>11. PastIn(M, h) = d.dag.held
  BY <1>3, <1>5, <1>9, <1>10, NewDeltaPast
<1>12. ASSUME NEW g \in Exists, NEW by, Admissible(M, g, by) PROVE Admissible(delta, g, by)
  <2>1. M[g].sealed => delta[g].sealed
    BY <1>4
  <2> QED
    BY <1>3, <1>4, <1>12, <2>1, AdmissibleBefore
<1>13. \A g \in Exists : PastIn(M, g) = PastIn(delta, g)
  BY <1>3, <1>4, PastExtends
<1>14. /\ clock[r] \in Timestamps /\ clock'[r] \in Timestamps
       /\ \A g \in Exists : delta[g].ts \in Timestamps
  BY <1>1 DEF Base, NewDelta, ContentOK, Exists
<1>15. ASSUME NEW g \in Exists' \ {Genesis}, NEW x \in Exists' \ {Genesis},
              M[g].ts.node = M[x].ts.node, Before(M[g].ts, M[x].ts), Admissible(M, g, M[g].by)
       PROVE  g \in PastIn(M, x)
  <2>1. g # h
    <3> SUFFICES ASSUME g = h PROVE FALSE
      OBVIOUS
    <3>1. CASE x = h
      BY <1>5, <1>14, <1>15, <3>1, TimestampsAreOrdered DEF NotAfter
    <3>2. CASE x # h
      <4>1. x \in Exists \ {Genesis} /\ M[x] = delta[x]
        BY <1>4, <3>2 DEF M, Exists
      <4>2. PICK q \in Replicas : /\ delta[x].ts.node = DevicePub[q]
                                  /\ NotAfter(delta[x].ts, clock[q])
        BY <4>1 DEF HonestInv, Stamped
      <4>3. q = r
        BY <1>1, <1>5, <1>15, <4>1, <4>2 DEF Honest, NewDelta
      <4>4. Before(clock[r], clock'[r]) /\ Before(clock'[r], delta[x].ts)
        BY <1>1, <1>5, <1>15, <4>1 DEF NewDelta
      <4> QED
        BY <1>14, <4>1, <4>2, <4>3, <4>4, TimestampsAreOrdered DEF NotAfter
    <3> QED
      BY <3>1, <3>2
  <2>2. g \in Exists \ {Genesis} /\ M[g] = delta[g] /\ Admissible(delta, g, delta[g].by)
    BY <1>4, <1>12, <1>15, <2>1 DEF M, Exists
  <2>3. CASE x = h
    <3>1. delta[g].ts.node = DevicePub[r]
      BY <1>1, <1>5, <1>15, <2>2, <2>3 DEF NewDelta
    <3> QED
      BY <1>11, <2>2, <2>3, <3>1 DEF HonestInv, OwnKept
  <2>4. CASE x # h
    <3>1. x \in Exists \ {Genesis} /\ M[x] = delta[x]
      BY <1>4, <2>4 DEF M, Exists
    <3>2. g \in PastIn(delta, x)
      BY <1>15, <2>2, <3>1 DEF HonestInv, Chained
    <3> QED
      BY <1>13, <3>1, <3>2
  <2> QED
    BY <2>3, <2>4
<1>16. ASSUME NEW q \in Replicas, NEW g \in Exists' \ {Genesis},
              M[g].ts.node = DevicePub[q], Admissible(M, g, M[g].by)
       PROVE  g \in doc'[q].dag.held
  <2>1. CASE g = h
    <3>1. q = r
      BY <1>1, <1>5, <1>16, <2>1 DEF NewDelta, Honest
    <3>2. Admissible(M, h, DeviceId[r])
      BY <1>5, <1>16, <2>1
    <3>3. ~ IsPending(M, d, h, DeviceId[r])
      BY <1>3, <1>5, <1>9, <1>10, OnFrontierIsDecided
    <3>4. Admits(M, d, h, DeviceId[r], TRUE)
      BY <1>3, <1>9, <1>10, <3>2, <3>3, AdmissibleIsAdmitted
    <3>5. doc'[r] = Apply(M, d, h, DeviceId[r])
      BY <1>7, <1>8, <3>4 DEF MergeVerifiedDelta
    <3>6. M[h].sealed
      BY <3>2 DEF Admissible
    <3>7. Apply(M, d, h, DeviceId[r]).dag.held = d.dag.held \cup {h}
      <4> DEFINE sig == TRUE
      <4>1. (sig => M[h].sealed) /\ Admits(M, d, h, DeviceId[r], sig)
        BY <3>4, <3>6
      <4> HIDE DEF sig
      <4> QED
        BY <1>3, <1>9, <1>10, <4>1, ApplyKeepsGood
    <3> QED
      BY <2>1, <3>1, <3>5, <3>7
  <2>2. CASE g # h
    <3>1. g \in Exists \ {Genesis} /\ M[g] = delta[g] /\ Admissible(delta, g, delta[g].by)
      BY <1>4, <1>12, <1>16, <2>2 DEF M, Exists
    <3>2. g \in doc[q].dag.held
      BY <1>16, <3>1 DEF HonestInv, OwnKept
    <3>3. doc[q].dag.held \subseteq doc'[q].dag.held
      BY <1>2, HistoryStays, AuthorIsNext DEF HistoryKept
    <3> QED
      BY <3>2, <3>3
  <2> QED
    BY <2>1, <2>2
<1>17. Chained'
  BY <1>15 DEF Chained, M
<1>18. OwnKept'
  BY <1>16 DEF OwnKept, M
<1> QED
  BY <1>17, <1>18

\* Only Author makes deltas and moves clocks where no device is rogue.
LEMMA StepKinds ==
  ASSUME Rogues = {}, [Next]_vars
  PROVE  \/ \E r \in Replicas, op \in Ops, now \in Readings, h \in Hashes : Author(r, op, now, h)
         \/ UNCHANGED <<delta, clock>>
<1>1. ASSUME NEW r \in Replicas, NEW op \in Ops, NEW now \in Readings, NEW h \in Hashes,
             NEW parents, NEW node, NEW sound, Craft(r, op, parents, node, sound, now, h)
      PROVE  FALSE
  BY <1>1 DEF Craft
<1>2. ASSUME NEW r \in Replicas, NEW h \in Exists, NEW p \in Proofs(h), Deliver(r, h, p)
      PROVE  UNCHANGED <<delta, clock>>
  BY <1>2 DEF Deliver
<1>3. ASSUME NEW r \in Replicas, NEW q \in Replicas, MergeState(r, q) \/ ImportFrom(r, q)
      PROVE  UNCHANGED <<delta, clock>>
  BY <1>3 DEF MergeState, ImportFrom, StartImport
<1>4. ASSUME NEW r \in Replicas, NEW deltas \in SUBSET Exists, NEW target \in deltas,
             ImportCrafted(r, target, deltas)
      PROVE  UNCHANGED <<delta, clock>>
  BY <1>4 DEF ImportCrafted, StartImport
<1>5. ASSUME NEW h \in work.todo, Skip(h)
      PROVE  UNCHANGED <<delta, clock>>
  BY <1>5 DEF Skip
<1>6. ASSUME NEW h \in work.todo, NEW p \in BundledProofs(h), Replay(h, p) \/ Abort(h, p)
      PROVE  UNCHANGED <<delta, clock>>
  BY <1>6 DEF Replay, Abort
<1>7. CASE Commit
  BY <1>7 DEF Commit
<1>8. CASE UNCHANGED vars
  BY <1>8 DEF vars
<1> QED
  BY <1>1, <1>2, <1>3, <1>4, <1>5, <1>6, <1>7, <1>8 DEF Next

LEMMA LogsStayAsSigned ==
  ASSUME Honest, Base, AllGood, HonestInv, AllEvolve, \A g \in Exists : delta'[g].by = delta[g].by
  PROVE  LogsAsSigned'
<1> DEFINE M == delta'
<1>1. ContentOK(M) /\ ContentOK(delta) /\ ExtendsContent(delta, M) /\ AsSigned
  BY DEF AllEvolve, Base, Honest, HonestInv, AsSigned
<1>2. \A d \in Documents : GoodDoc(delta, d)
  BY DEF AllGood, Documents
<1>3. ASSUME NEW d \in Documents
      PROVE  /\ GoodDoc(M, d) /\ DOMAIN d.log = d.dag.held
             /\ \A g \in d.dag.held : d.log[g] = M[g].by
  <2>1. GoodDoc(M, d)
    BY <1>1, <1>2, GoodDocExtends
  <2>2. d.dag.held \subseteq Exists /\ DOMAIN d.log = d.dag.held
    BY <1>2 DEF GoodDoc, IsDocument, Exists
  <2> QED
    BY <2>1, <2>2 DEF HonestInv, LogsAsSigned
<1>4. ASSUME NEW x \in Documents'
      PROVE  \A g \in x.dag.held : x.log[g] = M[g].by
  <2>1. Evolves(M, Documents, x)
    BY DEF AllEvolve
  <2> HIDE DEF M
  <2>2. CASE x \in Documents
    BY <1>3, <2>2
  <2>3. ASSUME NEW d \in Documents, NEW h \in DOMAIN M, NEW by, NEW sig, sig => M[h].sealed,
               Admits(M, d, h, by, sig), by = M[h].by, x = Apply(M, d, h, by)
        PROVE  \A g \in x.dag.held : x.log[g] = M[g].by
    <3>1. GoodDoc(M, d)
      BY <1>3
    <3>2. x.dag.held = d.dag.held \cup {h}
      BY <1>1, <2>3, <3>1, ApplyKeepsGood
    <3>3. Applied(M, d, h, by, x)
      BY <1>1, <2>3, <3>1, ApplyChanges
    <3>4. x.log = Put(d.log, h, by)
      BY <3>3 DEF Applied
    <3> QED
      BY <1>3, <2>3, <3>2, <3>4 DEF Put
  <2>4. ASSUME NEW a \in Documents, NEW b \in Documents, x = Join(M, a, b)
        PROVE  \A g \in x.dag.held : x.log[g] = M[g].by
    <3>1. x.dag.held = a.dag.held \cup b.dag.held
      BY <1>1, <1>3, <2>4, JoinKeepsGood
    <3>2. x.log = [g \in DOMAIN a.log \cup DOMAIN b.log |->
                     IF g \in DOMAIN a.log THEN a.log[g] ELSE b.log[g]]
      BY <2>4 DEF Join, JoinFields
    <3> QED
      BY <1>3, <3>1, <3>2
  <2> QED
    BY <1>1, <2>1, <2>2, <2>3, <2>4 DEF Evolves
<1> QED
  BY <1>4 DEF LogsAsSigned, M

LEMMA BundlesStayAsSigned ==
  ASSUME Honest, Base, AllGood, HonestInv, [Next]_vars
  PROVE  VouchedAsSigned'
<1>1. work' = Idle => VouchedAsSigned'
  BY DEF VouchedAsSigned
<1>2. UNCHANGED <<delta, work>> => VouchedAsSigned'
  BY DEF VouchedAsSigned, HonestInv
<1>3. ASSUME UNCHANGED delta, work # Idle, work'.vouched = work.vouched
      PROVE  VouchedAsSigned'
  BY <1>3 DEF VouchedAsSigned, HonestInv
<1>4. ASSUME NEW r \in Replicas, NEW op \in Ops, NEW now \in Readings, NEW h \in Hashes,
             Author(r, op, now, h)
      PROVE  VouchedAsSigned'
  BY <1>1, <1>4 DEF Author
<1>5. ASSUME NEW r \in Replicas, NEW op \in Ops, NEW now \in Readings, NEW h \in Hashes,
             NEW parents, NEW node, NEW sound, Craft(r, op, parents, node, sound, now, h)
      PROVE  VouchedAsSigned'
  BY <1>5 DEF Craft, Honest
<1>6. ASSUME NEW r \in Replicas, NEW h \in Exists, NEW p \in Proofs(h), Deliver(r, h, p)
      PROVE  VouchedAsSigned'
  BY <1>2, <1>6 DEF Deliver
<1>7. ASSUME NEW r \in Replicas, NEW q \in Replicas, MergeState(r, q)
      PROVE  VouchedAsSigned'
  BY <1>2, <1>7 DEF MergeState
<1>8. ASSUME NEW r \in Replicas, NEW q \in Replicas, ImportFrom(r, q)
      PROVE  VouchedAsSigned'
  <2>1. UNCHANGED delta /\ work'.vouched = doc[q].log
    BY <1>8 DEF ImportFrom, StartImport
  <2>2. doc[q] \in Documents /\ DOMAIN doc[q].log = doc[q].dag.held
    BY DEF AllGood, GoodDoc, IsDocument, Documents
  <2> QED
    BY <2>1, <2>2 DEF VouchedAsSigned, HonestInv, LogsAsSigned
<1>9. ASSUME NEW r \in Replicas, NEW deltas \in SUBSET Exists, NEW target \in deltas,
             ImportCrafted(r, target, deltas)
      PROVE  VouchedAsSigned'
  BY <1>9 DEF ImportCrafted, Honest
<1>10. ASSUME NEW h \in work.todo, Skip(h)
       PROVE  VouchedAsSigned'
  <2>1. UNCHANGED delta /\ work # Idle /\ work' = [work EXCEPT !.todo = @ \ {h}]
    BY <1>10 DEF Skip
  <2>2. work'.vouched = work.vouched
    BY <2>1 DEF Base, WorkOK
  <2> QED
    BY <1>3, <2>1, <2>2
<1>11. ASSUME NEW h \in work.todo, NEW p \in BundledProofs(h), Replay(h, p)
       PROVE  VouchedAsSigned'
  <2> DEFINE e == Apply(delta, work.copy, h, p.by)
  <2>1. UNCHANGED delta /\ work # Idle /\ work' = [work EXCEPT !.todo = @ \ {h}, !.copy = e]
    BY <1>11 DEF Replay
  <2> HIDE DEF e
  <2>2. work'.vouched = work.vouched
    BY <2>1 DEF Base, WorkOK
  <2> QED
    BY <1>3, <2>1, <2>2
<1>12. ASSUME NEW h \in work.todo, NEW p \in BundledProofs(h), Abort(h, p)
       PROVE  VouchedAsSigned'
  BY <1>1, <1>12 DEF Abort
<1>13. CASE Commit
  BY <1>1, <1>13 DEF Commit
<1>14. CASE UNCHANGED vars
  BY <1>2, <1>14 DEF vars
<1> QED
  BY <1>4, <1>5, <1>6, <1>7, <1>8, <1>9, <1>10, <1>11, <1>12, <1>13, <1>14 DEF Next

LEMMA HonestInit == Honest /\ Init => HonestInv
<1> SUFFICES ASSUME Honest, Init PROVE HonestInv
  OBVIOUS
<1>1. /\ Exists = {Genesis} /\ delta[Genesis] = GenesisDelta /\ Genesis \in Nat
      /\ DOMAIN delta = {Genesis}
  BY HashesAreOrdered DEF Init, Exists
<1>2. ClocksRun
  BY <1>1 DEF Init, ClocksRun, Genesis
<1>3. Stamped /\ Dated(delta) /\ Chained /\ OwnKept
  BY <1>1 DEF Stamped, Dated, Chained, OwnKept
<1>4. \A d \in Documents : d = NewDocument
  BY DEF Init, Documents
<1>5. /\ NewDocument.dag.held = {Genesis} /\ NewDocument.log[Genesis] = GenesisId
      /\ GenesisDelta.by = GenesisId
  BY DEF NewDocument, GenesisDelta
<1>6. LogsAsSigned
  BY <1>1, <1>4, <1>5 DEF LogsAsSigned
<1>7. VouchedAsSigned
  BY DEF Init, VouchedAsSigned
<1> QED
  BY <1>2, <1>3, <1>6, <1>7 DEF HonestInv

LEMMA HonestStays ==
  ASSUME Honest, Base, AllGood, AllBacked, GroundedIn(delta), HonestInv, [Next]_vars,
         Base', AllGood', AllBacked'
  PROVE  HonestInv'
<1>1. AllEvolve /\ GroundedIn(delta') /\ ByOps(delta')
  <2>1. AllEvolve
    BY DocumentsEvolve
  <2>2. GroundedIn(delta')
    BY NextGrounded
  <2> QED
    BY <2>1, <2>2 DEF AllBacked
<1>2. VouchedAsSigned'
  BY BundlesStayAsSigned
<1>3. ASSUME NEW r \in Replicas, NEW op \in Ops, NEW now \in Readings, NEW h \in Hashes,
             Author(r, op, now, h)
      PROVE  HonestInv'
  <2>1. NewDelta(r, h)
    BY <1>3, AuthorIsNew
  <2>2. ClocksRun' /\ Stamped' /\ Dated(delta')
    BY <2>1, NewDeltaStamped
  <2>3. Chained' /\ OwnKept'
    BY <1>1, <1>3, AuthorChained
  <2>4. \A g \in Exists : delta'[g].by = delta[g].by
    BY <2>1 DEF NewDelta
  <2>5. LogsAsSigned'
    BY <1>1, <2>4, LogsStayAsSigned
  <2> QED
    BY <1>2, <2>2, <2>3, <2>5 DEF HonestInv
<1>4. CASE UNCHANGED <<delta, clock>>
  <2>1. ClocksRun' /\ Stamped' /\ Dated(delta') /\ Chained'
    BY <1>4 DEF HonestInv, ClocksRun, Stamped, Dated, Chained, Exists
  <2>2. \A r \in Replicas : doc[r].dag.held \subseteq doc'[r].dag.held
    BY HistoryStays DEF HistoryKept
  <2>3. OwnKept'
    BY <1>4, <2>2 DEF HonestInv, OwnKept, Exists
  <2>4. LogsAsSigned'
    BY <1>1, <1>4, LogsStayAsSigned
  <2> QED
    BY <1>2, <2>1, <2>3, <2>4 DEF HonestInv
<1>5. Rogues = {}
  BY DEF Honest
<1> QED
  BY <1>3, <1>4, <1>5, StepKinds

\* The devices' chains leave no gaps.
LEMMA ChainsHaveNoGaps ==
  ASSUME Base, AllGood, AllBacked, GroundedIn(delta), HonestInv, NEW d \in Documents,
         NEW e \in Documents, MeansServices(delta, d)
  PROVE  NoGapTo(delta, d, e)
<1>1. GoodDoc(delta, d) /\ GoodDoc(delta, e) /\ Backed(delta, e) /\ ContentOK(delta)
  BY DEF AllGood, AllBacked, Documents, Base
<1>2. SUFFICES ASSUME NEW h \in ServicesIn(delta, e.dag.held),
                      Seen(d.services.context, delta[h].ts)
               PROVE  h \in d.dag.held
  BY DEF NoGapTo
<1>3. PICK x \in ServicesIn(delta, d.dag.held) :
        delta[x].ts.node = delta[h].ts.node /\ NotAfter(delta[h].ts, delta[x].ts)
  BY <1>2 DEF MeansServices, ContextOf, Seen
<1>4. x \in d.dag.held /\ h \in e.dag.held
  BY DEF ServicesIn, TypeIn
<1>5. d.dag.held \subseteq Exists /\ e.dag.held \subseteq Exists
  BY <1>1 DEF GoodDoc, IsDocument, Exists
<1>6. CASE delta[h].ts = delta[x].ts
  BY <1>4, <1>5, <1>6 DEF HonestInv, Dated, Exists
<1>7. CASE h = Genesis
  BY <1>1, <1>7 DEF GoodDoc, IsDocument
<1>8. x # Genesis
  BY DEF GroundedIn, GenesisOp, ServicesIn, TypeIn
<1>9. CASE h # Genesis /\ delta[h].ts # delta[x].ts
  <2>1. Before(delta[h].ts, delta[x].ts)
    BY <1>3, <1>9 DEF NotAfter
  <2>2. Admissible(delta, h, e.log[h])
    BY <1>1, <1>4, <1>9, HeldIsAdmissible
  <2>3. e.log[h] = delta[h].by
    BY <1>4 DEF HonestInv, LogsAsSigned
  <2>4. h \in PastIn(delta, x)
    BY <1>3, <1>4, <1>5, <1>8, <1>9, <2>1, <2>2, <2>3 DEF HonestInv, Chained
  <2>5. PastIn(delta, x) \subseteq d.dag.held
    BY <1>1, <1>4, PastOfHeld
  <2> QED
    BY <2>4, <2>5
<1> QED
  BY <1>6, <1>7, <1>9

----------------------------------------------------------------------------
(* The state of every document is what its history means *)

AllMean == \A d \in Documents : MeansAll(delta, d)

LEMMA InitMeans == Init => AllMean
<1> SUFFICES ASSUME Init, NEW d \in Documents PROVE MeansAll(delta, d)
  BY DEF AllMean
<1>1. d = NewDocument /\ delta[Genesis] = GenesisDelta /\ DOMAIN delta = {Genesis}
  BY DEF Init, Documents
<1>2. /\ d.dag.held = {Genesis} /\ d.creds = {} /\ d.updated = 0 /\ d.active = NoActiveKey
      /\ d.aka = EmptyReg /\ d.data = EmptyMap
      /\ d.services.live = EmptyMap /\ d.services.context = EmptyMap
  BY <1>1 DEF NewDocument, EmptyServices
<1>3. delta[Genesis].op.type = "AddVM" /\ delta[Genesis].ts.wall = 0
  BY <1>1 DEF GenesisDelta, GenesisOp, ZeroTs
<1>4. \A type \in OpTypes \ {"AddVM"} : TypeIn(delta, {Genesis}, type) = {}
  BY <1>3 DEF TypeIn
<1>5. MeansPlain(delta, d)
  <2>1. RotationsIn(delta, {Genesis}) = {NoActiveKey}
    BY <1>4 DEF RotationsIn, OpTypes
  <2>2. ~ OlderKey(NoActiveKey, NoActiveKey)
    BY DEF OlderKey, NoActiveKey
  <2>3. TypeIn(delta, {Genesis}, "RevokeCredential") = {}
    BY <1>4 DEF OpTypes
  <2>4. d.creds = {delta[h].op.cred : h \in TypeIn(delta, {Genesis}, "RevokeCredential")}
    BY <1>2, <2>3
  <2>5. /\ d.updated \in {delta[h].ts.wall : h \in {Genesis}}
        /\ \A h \in {Genesis} : delta[h].ts.wall <= d.updated
    BY <1>2, <1>3
  <2> QED
    BY <1>2, <2>1, <2>2, <2>4, <2>5 DEF MeansPlain
<1>6. MeansRegisters(delta, d)
  <2>1. KeysIn(delta, {Genesis}) = {} /\ TypeIn(delta, {Genesis}, "SetAka") = {}
    BY <1>4 DEF KeysIn, OpTypes
  <2> QED
    BY <1>2, <2>1 DEF MeansRegisters, RegisterOf, EmptyMap
<1>7. MeansServices(delta, d)
  <2>1. LiveIn(delta, {Genesis}) = {} /\ ServicesIn(delta, {Genesis}) = {}
    BY <1>4 DEF LiveIn, ServicesIn, OpTypes
  <2> QED
    BY <1>2, <2>1 DEF MeansServices, LiveMap, ContextOf, EmptyMap
<1> QED
  BY <1>5, <1>6, <1>7 DEF MeansAll

LEMMA NoGapExtends ==
  ASSUME NEW L, NEW M, ExtendsContent(L, M), NEW a, NEW b, GoodDoc(L, b), NoGapTo(L, a, b)
  PROVE  NoGapTo(M, a, b)
<1>1. \A h \in b.dag.held : M[h].op = L[h].op /\ M[h].ts = L[h].ts
  BY DEF GoodDoc, IsDocument, ExtendsContent
<1>2. ServicesIn(M, b.dag.held) = ServicesIn(L, b.dag.held)
  BY <1>1 DEF ServicesIn, TypeIn
<1>3. ServicesIn(L, b.dag.held) \subseteq b.dag.held
  BY DEF ServicesIn, TypeIn
<1> QED
  BY <1>1, <1>2, <1>3 DEF NoGapTo

LEMMA MeaningStays ==
  ASSUME Honest, Base, AllGood, AllBacked, GroundedIn(delta), HonestInv, AllMean, AllEvolve,
         GroundedIn(delta'), ByOps(delta'), Dated(delta')
  PROVE  AllMean'
<1> DEFINE M == delta'
<1>1. /\ ContentOK(M) /\ ContentOK(delta) /\ ExtendsContent(delta, M) /\ AsSigned
      /\ GroundedIn(M) /\ ByOps(M) /\ Dated(M)
  BY DEF AllEvolve, Base, Honest, HonestInv, AsSigned
<1>2. \A x \in Documents' : Evolves(M, Documents, x)
  BY DEF AllEvolve
<1>3. \A d \in Documents : GoodDoc(delta, d) /\ MeansAll(delta, d)
  BY DEF AllGood, Documents, AllMean
<1> HIDE DEF M
<1>4. ASSUME NEW d \in Documents
      PROVE  GoodDoc(M, d) /\ MeansPlain(M, d) /\ MeansRegisters(M, d) /\ MeansServices(M, d)
  <2>1. GoodDoc(delta, d) /\ MeansPlain(delta, d) /\ MeansRegisters(delta, d) /\ MeansServices(delta, d)
    BY <1>3 DEF MeansAll
  <2>2. GoodDoc(M, d)
    BY <1>1, <2>1, GoodDocExtends
  <2>3. MeansPlain(M, d) /\ MeansRegisters(M, d)
    BY <1>1, <2>1, PlainExtends, RegistersExtend
  <2>4. MeansServices(M, d)
    BY <1>1, <2>1, ServicesExtend
  <2> QED
    BY <2>2, <2>3, <2>4
<1>5. ASSUME NEW a \in Documents, NEW b \in Documents PROVE NoGapTo(M, a, b)
  <2>1. GoodDoc(delta, b) /\ MeansServices(delta, a)
    BY <1>3 DEF MeansAll
  <2>2. NoGapTo(delta, a, b)
    BY <2>1, ChainsHaveNoGaps
  <2> QED
    BY <1>1, <2>1, <2>2, NoGapExtends
<1>6. ASSUME NEW x \in Documents' PROVE MeansAll(M, x)
  <2>1. CASE x \in Documents
    BY <1>4, <2>1 DEF MeansAll
  <2>2. ASSUME NEW d \in Documents, NEW h \in DOMAIN M, NEW by, NEW sig, sig => M[h].sealed,
               Admits(M, d, h, by, sig), x = Apply(M, d, h, by)
        PROVE  MeansAll(M, x)
    <3>0. GoodDoc(M, d) /\ MeansPlain(M, d) /\ MeansRegisters(M, d) /\ MeansServices(M, d)
      BY <1>4
    <3>1. MeansPlain(M, x)
      BY <1>1, <2>2, <3>0, ApplyKeepsPlain
    <3>2. MeansRegisters(M, x)
      BY <1>1, <2>2, <3>0, ApplyKeepsRegisters
    <3>3. MeansServices(M, x)
      BY <1>1, <2>2, <3>0, ApplyKeepsServices
    <3> QED
      BY <3>1, <3>2, <3>3 DEF MeansAll
  <2>3. ASSUME NEW a \in Documents, NEW b \in Documents, x = Join(M, a, b)
        PROVE  MeansAll(M, x)
    <3>0. /\ GoodDoc(M, a) /\ MeansPlain(M, a) /\ MeansRegisters(M, a) /\ MeansServices(M, a)
          /\ GoodDoc(M, b) /\ MeansPlain(M, b) /\ MeansRegisters(M, b) /\ MeansServices(M, b)
          /\ NoGapTo(M, a, b) /\ NoGapTo(M, b, a)
      BY <1>4, <1>5
    <3>1. MeansPlain(M, x)
      BY <1>1, <2>3, <3>0, JoinKeepsPlain
    <3>2. MeansRegisters(M, x)
      BY <1>1, <2>3, <3>0, JoinKeepsRegisters
    <3>3. MeansServices(M, x)
      BY <1>1, <2>3, <3>0, JoinKeepsServices
    <3> QED
      BY <3>1, <3>2, <3>3 DEF MeansAll
  <2> QED
    BY <1>2, <2>1, <2>2, <2>3 DEF Evolves
<1> QED
  BY <1>6 DEF AllMean, M

\* The inductive invariant of the theorems below, for any devices and for
\* devices that go by the protocol.
Core == Base /\ AllGood /\ AllBacked /\ GroundedIn(delta)

LEMMA CoreHolds == Spec => []Core
<1>1. DocInv => Base /\ AllGood
  BY InvByDocument
<1>2. Init => GroundedIn(delta)
  BY InitGrounded
<1>3. DocInv /\ GroundedIn(delta) /\ [Next]_vars => GroundedIn(delta)'
  BY <1>1, NextGrounded
<1>4. Spec => []GroundedIn(delta)
  BY <1>2, <1>3, DocInvariant, PTL DEF Spec
<1>5. DocInv /\ AllBacked /\ GroundedIn(delta) => Core
  BY <1>1 DEF Core
<1> QED
  BY <1>4, <1>5, DocInvariant, FieldsAreBacked, PTL

StateInv == HonestInv /\ AllMean

LEMMA StateInvHolds ==
  ASSUME Honest
  PROVE  Spec => []StateInv
<1>1. Init => StateInv
  BY HonestInit, InitMeans DEF StateInv
<1>2. ASSUME Core, Core', StateInv, [Next]_vars
      PROVE  StateInv'
  <2>1. Base /\ AllGood /\ AllBacked /\ GroundedIn(delta) /\ HonestInv /\ AllMean
    BY <1>2 DEF Core, StateInv
  <2>2. Base' /\ AllGood' /\ AllBacked' /\ GroundedIn(delta')
    BY <1>2 DEF Core
  <2>3. HonestInv'
    BY <1>2, <2>1, <2>2, HonestStays
  <2>4. AllEvolve
    BY <1>2, <2>1, DocumentsEvolve
  <2>5. ByOps(delta') /\ Dated(delta')
    BY <2>2, <2>3 DEF AllBacked, HonestInv
  <2>6. AllMean'
    BY <2>1, <2>2, <2>4, <2>5, MeaningStays
  <2> QED
    BY <2>3, <2>6 DEF StateInv
<1>3. Core /\ Core' /\ StateInv /\ [Next]_vars => StateInv'
  BY <1>2
<1> QED
  BY <1>1, <1>3, CoreHolds, PTL DEF Spec

\* Strong eventual consistency: whatever deltas a document holds and however
\* they arrived (Document::merge, merge_verified_bundle, merge_state), its
\* fields are those the set of deltas means.  For any number of replicas and
\* deltas, all operations, and clocks that stand still or jump.
THEOREM StatesAreHistories ==
  ASSUME Honest
  PROVE  Spec => []StateIsHistory
<1>1. ASSUME Core, StateInv
      PROVE  StateIsHistory
  <2>1. ContentOK(delta) /\ ByOps(delta) /\ GroundedIn(delta) /\ Dated(delta)
    BY <1>1 DEF Core, StateInv, Base, AllBacked, HonestInv
  <2>2. \A d \in Documents : GoodDoc(delta, d) /\ Backed(delta, d) /\ MeansAll(delta, d)
    BY <1>1 DEF Core, StateInv, AllGood, AllBacked, AllMean, Documents
  <2>3. \A d \in Documents : State(d) = Meaning(d.dag.held)
    BY <2>1, <2>2, StateOfHistory
  <2> QED
    BY <2>3 DEF StateIsHistory
<1>2. Core /\ StateInv => StateIsHistory
  BY <1>1
<1> QED
  BY <1>2, CoreHolds, StateInvHolds, PTL

\* The version vector of ServiceEndpoints is sound: a document that has seen a
\* dot of a node holds every service delta of that node up to it.
THEOREM DotsAreContiguous ==
  ASSUME Honest
  PROVE  Spec => []DotsHaveNoGaps
<1>1. ASSUME Core, StateInv
      PROVE  DotsHaveNoGaps
  <2>1. Base /\ AllGood /\ AllBacked /\ GroundedIn(delta) /\ HonestInv
    BY <1>1 DEF Core, StateInv
  <2>2. \A d \in Documents : MeansServices(delta, d)
    BY <1>1 DEF StateInv, AllMean, MeansAll
  <2>3. \A d, e \in Documents : NoGapTo(delta, d, e)
    BY <2>1, <2>2, ChainsHaveNoGaps
  <2>4. \A e : OfType(e.dag.held, "AddService") \cup OfType(e.dag.held, "RemoveService")
                 = ServicesIn(delta, e.dag.held)
    BY DEF OfType, ServicesIn, TypeIn
  <2> QED
    BY <2>3, <2>4 DEF DotsHaveNoGaps, NoGapTo
<1>2. Core /\ StateInv => DotsHaveNoGaps
  BY <1>1
<1> QED
  BY <1>2, CoreHolds, StateInvHolds, PTL

----------------------------------------------------------------------------
(* What a resolver answers *)

\* One versionId, one answer: everything of the answer but the time of the
\* last update is a function of what version_id hashes.
THEOREM VersionsIdentifyDocuments == Spec => []VersionIdentifiesDocument
<1>1. ASSUME NEW a, NEW b, VersionId(a) = VersionId(b)
      PROVE  [Resolution(a) EXCEPT !.metadata.updated = 0]
               = [Resolution(b) EXCEPT !.metadata.updated = 0]
  <2>1. /\ a.vms = b.vms /\ Entries(a.services) = Entries(b.services)
        /\ Values(a.data, DOMAIN a.data) = Values(b.data, DOMAIN b.data)
        /\ a.aka.val = b.aka.val /\ a.revoked = b.revoked /\ a.deactivated = b.deactivated
    BY <1>1 DEF VersionId
  <2>2. DOMAIN a.data = DOMAIN b.data /\ \A k \in DOMAIN a.data : a.data[k].val = b.data[k].val
    BY <2>1 DEF Values
  <2>3. Extra(a.data) = Extra(b.data)
    BY <2>2 DEF Extra, Values
  <2>4. VerificationMethod(a) = VerificationMethod(b)
    BY <2>1 DEF VerificationMethod, Authorised
  <2>5. \A rel : Holders(a, rel) = Holders(b, rel)
    BY <2>4 DEF Holders
  <2>6. Asserting(a) = Asserting(b)
    BY <2>4, <2>5 DEF Asserting
  <2>7. Twins(a) = Twins(b)
    BY <2>6 DEF Twins
  <2>8. DidDocument(a) = DidDocument(b)
    BY <2>1, <2>3, <2>4, <2>5, <2>7 DEF DidDocument
  <2>9. GenesisKey(a) = GenesisKey(b)
    BY <2>1 DEF GenesisKey
  <2>10. [Metadata(a) EXCEPT !.updated = 0] = [Metadata(b) EXCEPT !.updated = 0]
    BY <1>1, <2>1, <2>9 DEF Metadata
  <2> QED
    BY <2>8, <2>10 DEF Resolution
<1>2. VersionIdentifiesDocument
  BY <1>1 DEF VersionIdentifiesDocument
<1> QED
  BY <1>2, PTL

\* The answer is the empty one just for a document that was deactivated.
LEMMA EmptyAnswer ==
  ASSUME NEW d, d.deactivated \in BOOLEAN
  PROVE  d.deactivated <=> DidDocument(d) = NoDocument
<1>1. CASE d.deactivated
  BY <1>1 DEF DidDocument
<1>2. CASE ~ d.deactivated
  <2>1. "methods" \in DOMAIN DidDocument(d)
    BY <1>2 DEF DidDocument
  <2>2. "methods" \notin DOMAIN NoDocument
    BY DEF NoDocument
  <2> QED
    BY <1>2, <2>1, <2>2
<1> QED
  BY <1>1, <1>2

\* A key that a resolver hides stays hidden, a DID that was deactivated stays
\* without a document, for any devices and any altered proofs.
THEOREM RevokedKeysStayHidden == Spec => RevokedStaysHidden
<1> DEFINE Hidden(r) ==
      /\ DidDocument(doc[r]) = NoDocument => DidDocument(doc[r])' = NoDocument
      /\ \A e \in doc[r].vms \ VerificationMethod(doc[r]) : e \notin VerificationMethod(doc[r])'
<1>1. ASSUME Core, Core', [Next]_vars, NEW r \in Replicas
      PROVE  Hidden(r)
  <2>1. /\ Base /\ AllGood /\ Base' /\ AllGood'
        /\ GoodDoc(delta, doc[r]) /\ Backed(delta, doc[r]) /\ Backed(delta', doc'[r])
    BY <1>1 DEF Core, AllGood, AllBacked
  <2>2. ExtendsContent(delta, delta') /\ doc[r].dag.held \subseteq doc'[r].dag.held
    BY <1>1, <2>1, HistoryStays DEF HistoryKept
  <2>3. \A h \in doc[r].dag.held : delta'[h].op = delta[h].op
    BY <2>1, <2>2 DEF ExtendsContent, GoodDoc, IsDocument
  <2>4. /\ doc[r].deactivated = HasDeactivateDelta(delta, doc[r].dag.held)
        /\ doc'[r].deactivated = HasDeactivateDelta(delta', doc'[r].dag.held)
    BY <2>1 DEF Backed
  <2>5. /\ HasDeactivateDelta(delta, doc[r].dag.held) \in BOOLEAN
        /\ HasDeactivateDelta(delta', doc'[r].dag.held) \in BOOLEAN
        /\ HasDeactivateDelta(delta, doc[r].dag.held) =>
             HasDeactivateDelta(delta', doc'[r].dag.held)
    BY <2>2, <2>3 DEF HasDeactivateDelta
  <2>6. DidDocument(doc[r]) = NoDocument => DidDocument(doc'[r]) = NoDocument
    BY <2>4, <2>5, EmptyAnswer
  <2>7. \A id \in doc[r].revoked : id \in doc'[r].revoked
    BY <2>1, <2>2, <2>3 DEF Backed, HasRevokingDelta
  <2>8. \A e \in doc[r].vms \ VerificationMethod(doc[r]) : e \notin VerificationMethod(doc'[r])
    BY <2>7 DEF VerificationMethod, Authorised
  <2>9. DidDocument(doc[r])' = DidDocument(doc'[r]) /\ VerificationMethod(doc[r])' = VerificationMethod(doc'[r])
    BY DEF DidDocument, VerificationMethod
  <2> QED
    BY <2>6, <2>8, <2>9
<1>2. Core /\ Core' /\ [Next]_vars => \A r \in Replicas : Hidden(r)
  BY <1>1
<1>3. Core /\ Core' /\ [Next]_vars => [\A r \in Replicas : Hidden(r)]_vars
  BY <1>2
<1> QED
  BY <1>3, CoreHolds, PTL DEF Spec, RevokedStaysHidden

\* The closure that goes with an answer is the history, its target one of the
\* heads.
LEMMA ClosureIsHistory ==
  ASSUME Core, NEW d \in Documents
  PROVE  /\ ClosureBundle(d) = d.dag.held
         /\ Target(d) \in d.dag.held
         /\ \A h \in d.dag.held : delta[h].parents \subseteq d.dag.held
<1>1. ContentOK(delta) /\ GroundedIn(delta) /\ GoodDoc(delta, d)
  BY DEF Core, Base, AllGood, Documents
<1>2. ExportBundle(delta, d) = d.dag.held
  BY <1>1, ClosuresOfHeads
<1>3. ClosureBundle(d) = ExportBundle(delta, d)
  BY DEF ClosureBundle, ExportBundle
<1>4. d.dag.held \subseteq DOMAIN delta /\ Genesis \in d.dag.held
      /\ Referenced(delta, d.dag.held) \subseteq d.dag.held
  BY <1>1 DEF GoodDoc, IsDocument, CompleteIn
<1>5. d.dag.frontier # {}
  <2>1. SUFFICES ASSUME d.dag.frontier = {} PROVE FALSE
    OBVIOUS
  <2>2. d.dag.held \subseteq {}
    BY <1>1, <2>1, HeadsReachAll
  <2> QED
    BY <1>4, <2>2
<1>6. d.dag.frontier \subseteq d.dag.held
  BY <1>1, FrontierIsHeld
<1>7. PICK m \in d.dag.frontier : \A x \in d.dag.frontier : x <= m
  BY <1>1, <1>4, <1>5, <1>6 DEF GroundedIn
<1>8. Target(d) \in d.dag.frontier
  BY <1>7 DEF Target
<1> QED
  BY <1>2, <1>3, <1>4, <1>6, <1>8 DEF Referenced

\* The genesis key is named, revoked or not.
LEMMA GenesisKeyIsNamed ==
  ASSUME Core, NEW d \in Documents
  PROVE  GenesisKey(d) = {GenesisPub}
<1>1. GroundedIn(delta) /\ GoodDoc(delta, d) /\ Backed(delta, d)
  BY DEF Core, AllGood, AllBacked, Documents
<1>2. Genesis \in d.dag.held /\ delta[Genesis].op = GenesisOp
  BY <1>1 DEF GoodDoc, IsDocument, GroundedIn
<1>3. Method(GenesisOp) \in d.vms /\ Method(GenesisOp).pk = GenesisPub
  BY <1>1, <1>2 DEF Backed, GenesisOp, Method
<1> QED
  BY <1>3 DEF GenesisKey, DerivesDid

\* What a resolver answers is evidence for itself: the closure it hands out
\* passes the structural check of a verifier that has the genesis delta alone
\* and means the state the document was projected from.
THEOREM AnswersAreEvidence ==
  ASSUME Honest
  PROVE  Spec => []AnswerIsEvidence
<1>1. ASSUME Core, StateIsHistory
      PROVE  AnswerIsEvidence
  <2> SUFFICES ASSUME NEW d \in Documents
               PROVE  /\ Answer(d, TRUE).resolution.metadata.genesisKey = {GenesisPub}
                      /\ BundleSound(delta, {Genesis}, Target(d), Answer(d, TRUE).closure)
                      /\ Meaning(Answer(d, TRUE).closure) = State(d)
                      /\ Answer(d, TRUE).gone
                           <=> Answer(d, TRUE).resolution.document = NoDocument
    BY DEF AnswerIsEvidence
  <2>1. /\ Answer(d, TRUE).resolution = Resolution(d)
        /\ Answer(d, TRUE).gone = d.deactivated
        /\ Answer(d, TRUE).closure = ClosureBundle(d)
    BY DEF Answer
  <2>2. Resolution(d).metadata.genesisKey = GenesisKey(d) /\ Resolution(d).document = DidDocument(d)
    BY DEF Resolution, Metadata
  <2>3. GenesisKey(d) = {GenesisPub}
    BY <1>1, GenesisKeyIsNamed
  <2>4. /\ ClosureBundle(d) = d.dag.held /\ Target(d) \in d.dag.held
        /\ \A h \in d.dag.held : delta[h].parents \subseteq d.dag.held
    BY <1>1, ClosureIsHistory
  <2>5. BundleSound(delta, {Genesis}, Target(d), ClosureBundle(d))
    BY <2>4 DEF BundleSound
  <2>6. Meaning(ClosureBundle(d)) = State(d)
    BY <1>1, <2>4 DEF StateIsHistory
  <2>7. d.deactivated = HasDeactivateDelta(delta, d.dag.held)
    BY <1>1 DEF Core, AllBacked, Documents, Backed
  <2>8. d.deactivated \in BOOLEAN
    BY <2>7 DEF HasDeactivateDelta
  <2>9. d.deactivated <=> DidDocument(d) = NoDocument
    BY <2>8, EmptyAnswer
  <2> QED
    BY <2>1, <2>2, <2>3, <2>5, <2>6, <2>9
<1>2. Core /\ StateIsHistory => AnswerIsEvidence
  BY <1>1
<1> QED
  BY <1>2, CoreHolds, StatesAreHistories, PTL

\* The verification methods of a document, one key to an id.
LEMMA MethodsOfDeltas ==
  ASSUME Core, OneKeyPerId, NEW d \in Documents
  PROVE  /\ \A e \in d.vms :
              /\ e = [id |-> e.id, pk |-> e.pk] /\ e.id \in KeyIds /\ e.pk \in Nat
              /\ \E h \in d.dag.held :
                   delta[h].op.type = "AddVM" /\ delta[h].op.id = e.id /\ delta[h].op.pk = e.pk
         /\ \A e, f \in d.vms : e.id = f.id => e = f
<1>1. /\ ByOps(delta) /\ Backed(delta, d) /\ d.dag.held \subseteq DOMAIN delta
  BY DEF Core, AllGood, AllBacked, Documents, GoodDoc, IsDocument
<1>2. \A h \in d.dag.held : delta[h].op.type = "AddVM" =>
        delta[h].op.id \in KeyIds /\ delta[h].op.pk \in Nat
  BY <1>1, OpsAreOps, GenesisIdIsKeyId, GenesisPubIsNode, NodesAreNumbers DEF ByOps, GenesisOp
<1>3. \A e \in d.vms : \E h \in d.dag.held : delta[h].op.type = "AddVM" /\ e = Method(delta[h].op)
  BY <1>1 DEF Backed
<1>4. \A g, h \in d.dag.held :
        delta[g].op.type = "AddVM" /\ delta[h].op.type = "AddVM" /\ delta[g].op.id = delta[h].op.id
          => delta[g].op.pk = delta[h].op.pk
  BY <1>1 DEF ByOps, OneKeyPerId
<1>5. ASSUME NEW e \in d.vms
      PROVE  /\ e = [id |-> e.id, pk |-> e.pk] /\ e.id \in KeyIds /\ e.pk \in Nat
             /\ \E h \in d.dag.held :
                  delta[h].op.type = "AddVM" /\ delta[h].op.id = e.id /\ delta[h].op.pk = e.pk
  <2>1. PICK h \in d.dag.held : delta[h].op.type = "AddVM" /\ e = Method(delta[h].op)
    BY <1>3
  <2>2. e.id = delta[h].op.id /\ e.pk = delta[h].op.pk /\ e = [id |-> e.id, pk |-> e.pk]
    BY <2>1 DEF Method
  <2> QED
    BY <1>2, <2>1, <2>2
<1> QED
  BY <1>4, <1>5

\* A document has finitely many verification methods: the deltas are bounded
\* by the newest one.
LEMMA MethodsAreFinite ==
  ASSUME Core, NEW d \in Documents
  PROVE  IsFiniteSet(d.vms)
<1>1. /\ GroundedIn(delta) /\ Backed(delta, d) /\ d.dag.held \subseteq DOMAIN delta
      /\ Genesis \in d.dag.held
  BY DEF Core, AllGood, AllBacked, Documents, GoodDoc, IsDocument
<1> DEFINE A == {h \in d.dag.held : delta[h].op.type = "AddVM"}
           f == [h \in A |-> Method(delta[h].op)]
<1>2. PICK m \in d.dag.held : \A x \in d.dag.held : x <= m
  BY <1>1 DEF GroundedIn
<1>3. A \in SUBSET Nat /\ m \in Nat /\ \A x \in A : x <= m
  BY <1>1, <1>2 DEF GroundedIn
<1>4. \A h \in A : Method(delta[h].op) \in d.vms
  BY <1>1 DEF Backed
<1>5. \A e \in d.vms : \E h \in A : e = Method(delta[h].op)
  BY <1>1 DEF Backed
<1>6. f \in [A -> d.vms] /\ \A e \in d.vms : \E h \in A : f[h] = e
  BY <1>4, <1>5
<1> HIDE DEF A, f
<1>7. f \in Surjection(A, d.vms)
  BY <1>6 DEF Surjection
<1>8. IsFiniteSet(A)
  BY <1>3, FS_BoundedSetOfNaturals
<1> QED
  BY <1>7, <1>8, FS_Surjection

\* Twins of different keys have different numbers.
LEMMA TwinsAreNumberedApart ==
  ASSUME Core, OneKeyPerId, NEW d \in Documents,
         NEW e \in Asserting(d), NEW g \in Asserting(d), IdRank[e.id] < IdRank[g.id]
  PROVE  Cardinality({f \in Asserting(d) : Precedes(f, e)})
           # Cardinality({f \in Asserting(d) : Precedes(f, g)})
<1> DEFINE B(x) == {f \in Asserting(d) : Precedes(f, x)}
<1>1. Asserting(d) \subseteq d.vms
  BY DEF Asserting, VerificationMethod
<1>2. \A x \in d.vms : x.id \in KeyIds /\ x.pk \in Nat /\ IdRank[x.id] \in Nat
  BY MethodsOfDeltas, IdsAreOrdered
<1>3. B(e) \subseteq B(g)
  BY <1>1, <1>2 DEF Precedes
<1>4. e \in B(g) /\ e \notin B(e)
  BY <1>1, <1>2 DEF Precedes
<1>5. IsFiniteSet(Asserting(d))
  BY <1>1, MethodsAreFinite, FS_Subset
<1>6. B(g) \in SUBSET Asserting(d)
  OBVIOUS
<1> HIDE DEF B
<1>7. IsFiniteSet(B(g))
  BY <1>5, <1>6, FS_Subset
<1>8. Cardinality(B(g)) = Cardinality(B(e)) => B(g) = B(e)
  BY <1>3, <1>7, FS_Subset
<1>9. Cardinality(B(e)) # Cardinality(B(g))
  BY <1>4, <1>8
<1> QED
  BY <1>9 DEF B

\* A JsonWebKey twin restates an authority the deltas carry, under a number no
\* other twin has; for any devices and any altered proofs, as long as an id
\* stands for one key.
THEOREM TwinsAreBacked ==
  ASSUME OneKeyPerId
  PROVE  Spec => []TwinsRestateAuthority
<1>1. ASSUME Core
      PROVE  TwinsRestateAuthority
  <2>1. ASSUME NEW d \in Documents, NEW t \in Twins(d)
        PROVE  \E h \in ClosureBundle(d) :
                 /\ delta[h].op.type = "AddVM" /\ delta[h].op.pk = t.pk
                 /\ "assertionMethod" \in Relationships[t.pk]
                 /\ ~ HasRevokingDelta(delta, d.dag.held, delta[h].op.id)
    <3> DEFINE N(x) == Cardinality({f \in Asserting(d) : Precedes(f, x)})
    <3>0. PICK e \in Asserting(d) : t = [index |-> N(e), pk |-> e.pk]
      BY <2>1 DEF Twins
    <3> HIDE DEF N
    <3>1. t.pk = e.pk
      BY <3>0
    <3>2. e \in VerificationMethod(d) /\ e.id \in Holders(d, "assertionMethod")
      BY <3>1 DEF Asserting
    <3>3. PICK m \in VerificationMethod(d) :
            "assertionMethod" \in Relationships[m.pk] /\ m.id = e.id
      BY <3>2 DEF Holders
    <3>4. e \in d.vms /\ m \in d.vms /\ e.id \notin d.revoked
      BY <3>2, <3>3 DEF VerificationMethod, Authorised
    <3>5. m = e
      BY <1>1, <3>3, <3>4, MethodsOfDeltas
    <3>6. PICK h \in d.dag.held :
            delta[h].op.type = "AddVM" /\ delta[h].op.id = e.id /\ delta[h].op.pk = e.pk
      BY <1>1, <3>4, MethodsOfDeltas
    <3>7. ~ HasRevokingDelta(delta, d.dag.held, e.id)
      BY <1>1, <3>4 DEF Core, AllBacked, Documents, Backed
    <3>8. ClosureBundle(d) = d.dag.held
      BY <1>1, ClosureIsHistory
    <3> QED
      BY <3>1, <3>3, <3>5, <3>6, <3>7, <3>8
  <2>2. ASSUME NEW d \in Documents, NEW t \in Twins(d), NEW u \in Twins(d), u.index = t.index
        PROVE  u = t
    <3> DEFINE N(x) == Cardinality({f \in Asserting(d) : Precedes(f, x)})
    <3>1. PICK e \in Asserting(d) : t = [index |-> N(e), pk |-> e.pk]
      BY <2>2 DEF Twins
    <3>2. PICK g \in Asserting(d) : u = [index |-> N(g), pk |-> g.pk]
      BY <2>2 DEF Twins
    <3>3. N(e) = N(g)
      <4> HIDE DEF N
      <4> QED
        BY <2>2, <3>1, <3>2
    <3>4. e \in d.vms /\ g \in d.vms
      BY DEF Asserting, VerificationMethod
    <3>5. e.id \in KeyIds /\ g.id \in KeyIds /\ (e.id = g.id => e = g)
      BY <1>1, <3>4, MethodsOfDeltas
    <3>6. IdRank[e.id] \in Nat /\ IdRank[g.id] \in Nat
          /\ (IdRank[e.id] = IdRank[g.id] => e.id = g.id)
      BY <3>5, IdsAreOrdered
    <3>7. ~ (IdRank[e.id] < IdRank[g.id])
      BY <1>1, <3>3, TwinsAreNumberedApart
    <3>8. ~ (IdRank[g.id] < IdRank[e.id])
      BY <1>1, <3>3, TwinsAreNumberedApart
    <3>9. e = g
      BY <3>5, <3>6, <3>7, <3>8
    <3> QED
      BY <3>1, <3>2, <3>9
  <2> QED
    BY <2>1, <2>2 DEF TwinsRestateAuthority
<1>2. Core => TwinsRestateAuthority
  BY <1>1
<1> QED
  BY <1>2, CoreHolds, PTL
=============================================================================
