--------------------------- MODULE DocumentProofs ---------------------------
(***************************************************************************)
(* Document for any number of replicas, keys and deltas, with rogue        *)
(* devices and altered proofs: no replica ever holds a delta whose causal  *)
(* past it lacks, or one that was not signed by a key its own causal past  *)
(* authorises.                                                             *)
(*                                                                         *)
(* The invariant is stated per document, over the content L of the deltas  *)
(* that exist; a step either extends L or turns one good document into     *)
(* another by applying an admitted delta or by joining two good ones.      *)
(***************************************************************************)
EXTENDS Document, DeltaDagLemmas

\* What the induction carries for one document.
GoodDoc(L, d) ==
  /\ IsDocument(L, d)
  /\ CompleteIn(L, d)
  /\ d.vms # {}
  /\ \A e \in d.vms : HasAuthorisingDelta(L, d.dag.held, e.id)
  /\ \A h \in d.dag.held \ {Genesis} : AuthorisedIn(L, d, h)

\* M has every delta of L, unchanged but perhaps newly signed.
ExtendsContent(L, M) ==
  /\ DOMAIN L \subseteq DOMAIN M
  /\ \A h \in DOMAIN L :
       /\ M[h].op = L[h].op /\ M[h].parents = L[h].parents
       /\ M[h].ts = L[h].ts /\ M[h].sound = L[h].sound
       /\ L[h].sealed => M[h].sealed

----------------------------------------------------------------------------
(* Causal pasts *)

\* The past of a delta does not change when deltas come into existence.
LEMMA PastExtends ==
  ASSUME NEW L, NEW M, ContentOK(L), ContentOK(M), ExtendsContent(L, M),
         NEW h \in DOMAIN L
  PROVE  PastIn(M, h) = PastIn(L, h) /\ PastIn(L, h) \subseteq DOMAIN L
<1> DEFINE P == L[h].parents
<1>1. P \in SUBSET DOMAIN L /\ M[h].parents = P
  BY DEF ContentOK, ExtendsContent
<1>2. /\ \A g \in DOMAIN L : L[g].parents \subseteq DOMAIN L
      /\ \A g \in DOMAIN M : M[g].parents \subseteq DOMAIN M
      /\ \A g \in DOMAIN L : M[g].parents = L[g].parents
      /\ DOMAIN L \subseteq DOMAIN M
  BY DEF ContentOK, ExtendsContent
<1>3. Visited(L, DOMAIN L, P, {}) \subseteq DOMAIN L
  BY DEF Visited
<1>4. Missing(L, DOMAIN L, P) = {}
  BY <1>3 DEF Missing
<1> HIDE DEF P
<1>5. Visited(M, DOMAIN M, P, {}) = Visited(L, DOMAIN L, P, {})
  <2> DEFINE H == DOMAIN L
             G == DOMAIN M
  <2>1. H \in SUBSET DOMAIN L /\ G \in SUBSET DOMAIN M /\ H \subseteq G
    BY <1>2
  <2>2. (\A g \in H : M[g].parents = L[g].parents) /\ Missing(L, H, P) = {}
    BY <1>2, <1>4
  <2>3. P \in SUBSET DOMAIN L
    BY <1>1
  <2> HIDE DEF H, G
  <2>4. Visited(M, G, P, {}) = Visited(L, H, P, {})
    BY <1>2, <2>1, <2>2, <2>3, PastIsStable, SMTT(60)
  <2> QED
    BY <2>4 DEF H, G
<1>6. PastIn(M, h) = Visited(M, DOMAIN M, P, {}) \cap DOMAIN M
  BY <1>1 DEF PastIn, Closure
<1>7. PastIn(L, h) = Visited(L, DOMAIN L, P, {}) \cap DOMAIN L
  BY DEF PastIn, Closure, P
<1> QED
  BY <1>2, <1>3, <1>5, <1>6, <1>7

\* If nothing of the past is missing on a replica, the past it sees is the past.
LEMMA PastWhereHeld ==
  ASSUME NEW L, ContentOK(L), NEW H \in SUBSET DOMAIN L, NEW h \in DOMAIN L,
         Visited(L, H, L[h].parents, {}) \ H = {}
  PROVE  /\ PastIn(L, h) = Visited(L, H, L[h].parents, {}) \cap H
         /\ L[h].parents \subseteq H
<1> DEFINE P == L[h].parents
<1>1. P \in SUBSET DOMAIN L /\ \A g \in DOMAIN L : L[g].parents \subseteq DOMAIN L
  BY DEF ContentOK
<1>2. Missing(L, H, P) = {}
  BY DEF Missing
<1>3. P \subseteq Visited(L, H, P, {})
  BY <1>1, VisitedIsClosed DEF TraversalClosed
<1>4. /\ Visited(L, DOMAIN L, P, {}) = Visited(L, H, P, {})
      /\ Visited(L, H, P, {}) \subseteq H
  <2> HIDE DEF P
  <2> QED
    BY <1>1, <1>2, PastIsStable
<1> QED
  BY <1>3, <1>4 DEF PastIn, Closure

----------------------------------------------------------------------------
(* New deltas in existence *)

LEMMA GoodDocExtends ==
  ASSUME NEW L, NEW M, ContentOK(L), ContentOK(M), ExtendsContent(L, M),
         NEW d, GoodDoc(L, d)
  PROVE  GoodDoc(M, d)
<1>1. d.dag.held \subseteq DOMAIN L
  BY DEF GoodDoc, IsDocument
<1>2. IsDocument(M, d)
  BY <1>1 DEF GoodDoc, IsDocument, ExtendsContent
<1>3. CompleteIn(M, d)
  <2>1. \A h \in d.dag.held : M[h].parents = L[h].parents
    BY <1>1 DEF ExtendsContent
  <2>2. RebuildDag(M, d.dag.held) = RebuildDag(L, d.dag.held)
    BY <2>1, RebuildOfSameParents
  <2>3. Referenced(M, d.dag.held) = Referenced(L, d.dag.held)
    BY <2>1 DEF Referenced
  <2> QED
    BY <2>2, <2>3 DEF GoodDoc, CompleteIn
<1>4. \A e \in d.vms : HasAuthorisingDelta(M, d.dag.held, e.id)
  <2>1. \A h \in d.dag.held : M[h].op = L[h].op
    BY <1>1 DEF ExtendsContent
  <2> QED
    BY <2>1 DEF GoodDoc, HasAuthorisingDelta
<1>5. ASSUME NEW h \in d.dag.held \ {Genesis}
      PROVE  AuthorisedIn(M, d, h)
  <2>1. h \in DOMAIN L /\ AuthorisedIn(L, d, h)
    BY <1>1 DEF GoodDoc
  <2>2. PastIn(M, h) = PastIn(L, h) /\ PastIn(L, h) \subseteq DOMAIN L
    BY <2>1, PastExtends
  <2>3. \A g \in PastIn(L, h) : M[g].op = L[g].op
    BY <2>2 DEF ExtendsContent
  <2>4. /\ HasAuthorisingDelta(M, PastIn(M, h), d.log[h])
        /\ ~ HasRevokingDelta(M, PastIn(M, h), d.log[h])
        /\ ~ HasDeactivateDelta(M, PastIn(M, h))
    BY <2>1, <2>2, <2>3
    DEF AuthorisedIn, HasAuthorisingDelta, HasRevokingDelta, HasDeactivateDelta
  <2>5. /\ M[h].sealed /\ M[h].sound /\ M[h].parents # {}
        /\ [id |-> d.log[h], pk |-> M[h].ts.node] \in d.vms
    BY <2>1 DEF AuthorisedIn, ExtendsContent
  <2> QED
    BY <2>4, <2>5 DEF AuthorisedIn
<1> QED
  BY <1>2, <1>3, <1>4, <1>5 DEF GoodDoc

----------------------------------------------------------------------------
(* Applying an admitted delta *)

\* What Document::apply_op does to the parts the invariant speaks of.
LEMMA ApplyOpParts ==
  ASSUME NEW L, NEW d, NEW h, IsDocument(L, d), L[h].op.type \in OpTypes
  PROVE  LET e == ApplyOp(L, d, h)
         IN  /\ e = [vms |-> e.vms, services |-> e.services, data |-> e.data,
                     aka |-> e.aka, active |-> e.active, creds |-> e.creds,
                     revoked |-> e.revoked, deactivated |-> e.deactivated,
                     updated |-> e.updated, log |-> e.log, dag |-> e.dag]
             /\ e.log = d.log /\ e.dag = d.dag
             /\ e.vms = IF L[h].op.type = "AddVM"
                          THEN d.vms \cup {[id |-> L[h].op.id, pk |-> L[h].op.pk]}
                          ELSE d.vms
<1> DEFINE op == L[h].op
<1>1. CASE op.type = "AddVM"
  BY <1>1 DEF ApplyOp, AddMethod, IsDocument
<1>2. CASE op.type = "AddService"
  BY <1>2 DEF ApplyOp, IsDocument
<1>3. CASE op.type = "RemoveService"
  BY <1>3 DEF ApplyOp, IsDocument
<1>4. CASE op.type = "SetAka"
  BY <1>4 DEF ApplyOp, IsDocument
<1>5. CASE op.type = "SetData"
  BY <1>5 DEF ApplyOp, IsDocument
<1>6. CASE op.type = "RotateKey"
  BY <1>6 DEF ApplyOp, IsDocument
<1>7. CASE op.type = "RevokeCredential"
  BY <1>7 DEF ApplyOp, IsDocument
<1>8. CASE op.type = "RevokeVM"
  BY <1>8 DEF ApplyOp, IsDocument
<1>9. CASE op.type = "Deactivate"
  BY <1>9 DEF ApplyOp, IsDocument
<1> QED
  BY <1>1, <1>2, <1>3, <1>4, <1>5, <1>6, <1>7, <1>8, <1>9 DEF OpTypes

\* The verdicts on which Document::merge lets a delta through: nothing of the
\* past is missing, nothing in it revokes the signer or deactivates, and the
\* signer is added there or by no delta that is held.
LEMMA AdmittedVerdict ==
  ASSUME NEW L, NEW d, NEW h, NEW by, d.dag.held # {}, CausallyAdmitted(L, d, h, by)
  PROVE  LET H == d.dag.held
             V == Visited(L, H, L[h].parents, {})
         IN  /\ L[h].parents # {}
             /\ V \ H = {}
             /\ ~ HasRevokingDelta(L, V \cap H, by)
             /\ ~ HasDeactivateDelta(L, V \cap H)
             /\ \/ HasAuthorisingDelta(L, V \cap H, by)
                \/ ~ HasAuthorisingDelta(L, H, by)
<1> DEFINE H == d.dag.held
           P == L[h].parents
           V == Visited(L, H, P, {})
           v == Verdict(L, d, h, by)
<1>1. \/ v = Valid
      \/ v = Invalid(SignerNotAuthorised) /\ P # {} /\ ~ HasAuthorisingDelta(L, H, by)
  BY DEF CausallyAdmitted
<1>2. P # {}
  <2> SUFFICES ASSUME P = {}
               PROVE  FALSE
    OBVIOUS
  <2>1. v = Invalid(SignerNotAuthorised)
    BY DEF Verdict, VerifyCausal, VerifyRoot
  <2>2. v # Valid
    BY <2>1 DEF Invalid, Valid
  <2> QED
    BY <1>1, <2>2
<1>3. v = Decide(L, V \cap H, V \ H, by)
  BY <1>2 DEF Verdict, VerifyCausal
<1> HIDE DEF v, V
<1>4. v.kind = "Valid" \/ v.reason = SignerNotAuthorised
  BY <1>1 DEF Valid, Invalid
<1>5. v.kind # "Unknown"
  BY <1>1 DEF Valid, Invalid
<1>6. ~ HasRevokingDelta(L, V \cap H, by) /\ ~ HasDeactivateDelta(L, V \cap H)
  BY <1>3, <1>4 DEF Decide, Valid, Invalid, Unknown, SignerNotAuthorised, Revoked, Deactivated
<1>7. V \ H = {}
  BY <1>3, <1>5, <1>6 DEF Decide, Unknown
<1>8. v = Valid => HasAuthorisingDelta(L, V \cap H, by)
  BY <1>3, <1>6, <1>7 DEF Decide, Valid, Invalid
<1> QED
  BY <1>1, <1>2, <1>6, <1>7, <1>8 DEF V

\* Document::merge_verified_delta turns a good document into a good one.
LEMMA ApplyKeepsGood ==
  ASSUME NEW L, ContentOK(L), NEW d, GoodDoc(L, d), NEW h \in DOMAIN L, NEW by, NEW sig,
         sig => L[h].sealed, Admits(L, d, h, by, sig)
  PROVE  /\ GoodDoc(L, Apply(L, d, h, by))
         /\ Apply(L, d, h, by).dag.held = d.dag.held \cup {h}
         /\ L[h].parents \subseteq d.dag.held
<1> DEFINE H == d.dag.held
           V == Visited(L, H, L[h].parents, {})
           e == ApplyOp(L, d, h)
           f == Apply(L, d, h, by)
<1>1. H \subseteq DOMAIN L /\ Genesis \in H /\ h \notin H
  BY DEF GoodDoc, IsDocument, Admits
<1>2. /\ L[h].parents # {} /\ V \ H = {}
      /\ ~ HasRevokingDelta(L, V \cap H, by)
      /\ ~ HasDeactivateDelta(L, V \cap H)
      /\ HasAuthorisingDelta(L, V \cap H, by) \/ ~ HasAuthorisingDelta(L, H, by)
  <2>1. CausallyAdmitted(L, d, h, by) /\ H # {}
    BY <1>1 DEF Admits, MergeAccepts
  <2> QED
    BY <2>1, AdmittedVerdict
<1>3. PastIn(L, h) = V \cap H /\ L[h].parents \subseteq H
  BY <1>1, <1>2, PastWhereHeld
<1>4. [id |-> by, pk |-> L[h].ts.node] \in d.vms
  BY DEF Admits, VerifySignature
<1>5. HasAuthorisingDelta(L, H, by)
  BY <1>4 DEF GoodDoc
<1>6. HasAuthorisingDelta(L, PastIn(L, h), by)
  BY <1>2, <1>3, <1>5
<1>7. /\ e = [vms |-> e.vms, services |-> e.services, data |-> e.data,
              aka |-> e.aka, active |-> e.active, creds |-> e.creds,
              revoked |-> e.revoked, deactivated |-> e.deactivated,
              updated |-> e.updated, log |-> e.log, dag |-> e.dag]
      /\ e.log = d.log /\ e.dag = d.dag
      /\ e.vms = IF L[h].op.type = "AddVM"
                   THEN d.vms \cup {[id |-> L[h].op.id, pk |-> L[h].op.pk]}
                   ELSE d.vms
  <2>1. IsDocument(L, d) /\ L[h].op.type \in OpTypes
    BY DEF GoodDoc, ContentOK
  <2> QED
    BY <2>1, ApplyOpParts
<1>8. d.vms \subseteq e.vms
  BY <1>7
<1> HIDE DEF e
<1>9. f = [e EXCEPT !.dag = Insert(L, d.dag, h), !.log = Put(d.log, h, by)]
  BY <1>7 DEF Apply, e
<1>10. Insert(L, d.dag, h) = RebuildDag(L, H \cup {h})
  <2>1. Insert(L, RebuildDag(L, H), h) = RebuildDag(L, H \cup {h})
    BY InsertRebuilds
  <2>2. d.dag = RebuildDag(L, H)
    BY DEF GoodDoc, CompleteIn
  <2> QED
    BY <2>1, <2>2
<1>11. RebuildDag(L, H \cup {h}).held = H \cup {h}
  BY DEF RebuildDag, InsertAll, EmptyDag
<1> HIDE DEF f
<1>12. /\ f = [vms |-> f.vms, services |-> f.services, data |-> f.data,
               aka |-> f.aka, active |-> f.active, creds |-> f.creds,
               revoked |-> f.revoked, deactivated |-> f.deactivated,
               updated |-> f.updated, log |-> f.log, dag |-> f.dag]
       /\ f.vms = e.vms
       /\ f.dag = RebuildDag(L, H \cup {h})
       /\ f.log = Put(d.log, h, by)
  BY <1>7, <1>9, <1>10
<1>13. f.dag.held = H \cup {h}
  BY <1>11, <1>12
<1>14. DOMAIN d.log = H
  BY DEF GoodDoc, IsDocument
<1>15. /\ f.log = [g \in H \cup {h} |-> f.log[g]]
       /\ f.log[h] = by /\ \A g \in H : f.log[g] = d.log[g]
  BY <1>1, <1>12, <1>14 DEF Put
<1>16. IsDocument(L, f)
  BY <1>1, <1>12, <1>13, <1>15 DEF IsDocument
<1>17. CompleteIn(L, f)
  <2>1. Referenced(L, H) \subseteq H
    BY DEF GoodDoc, CompleteIn
  <2>2. Referenced(L, H \cup {h}) \subseteq H \cup {h}
    BY <1>3, <2>1 DEF Referenced
  <2> QED
    BY <1>12, <1>13, <2>2 DEF CompleteIn
<1>18. f.vms # {} /\ \A k \in f.vms : HasAuthorisingDelta(L, f.dag.held, k.id)
  <2>1. \A k \in d.vms : HasAuthorisingDelta(L, H, k.id)
    BY DEF GoodDoc
  <2>2. \A k \in d.vms : HasAuthorisingDelta(L, H \cup {h}, k.id)
    BY <2>1 DEF HasAuthorisingDelta
  <2>3. L[h].op.type = "AddVM" => HasAuthorisingDelta(L, H \cup {h}, L[h].op.id)
    BY DEF HasAuthorisingDelta, Adds
  <2>4. f.vms # {}
    BY <1>8, <1>12 DEF GoodDoc
  <2>5. ASSUME NEW k \in f.vms
        PROVE  HasAuthorisingDelta(L, H \cup {h}, k.id)
    <3>1. CASE k \in d.vms
      BY <2>2, <3>1
    <3>2. CASE k \notin d.vms
      <4>1. L[h].op.type = "AddVM" /\ k = [id |-> L[h].op.id, pk |-> L[h].op.pk]
        BY <1>7, <1>12, <3>2
      <4>2. k.id = L[h].op.id
        BY <4>1
      <4> QED
        BY <2>3, <4>1, <4>2
    <3> QED
      BY <3>1, <3>2
  <2> QED
    BY <1>13, <2>4, <2>5
<1>19. ASSUME NEW g \in H \ {Genesis}
       PROVE  AuthorisedIn(L, f, g)
  BY <1>8, <1>12, <1>15 DEF GoodDoc, AuthorisedIn
<1>20. AuthorisedIn(L, f, h)
  <2>1. L[h].sealed /\ L[h].sound
    BY DEF Admits, VerifySignature, MergeAccepts, PassesGates
  <2>2. [id |-> by, pk |-> L[h].ts.node] \in f.vms
    BY <1>4, <1>8, <1>12
  <2> QED
    BY <1>2, <1>3, <1>6, <1>15, <2>1, <2>2 DEF AuthorisedIn
<1> QED
  BY <1>3, <1>13, <1>16, <1>17, <1>18, <1>19, <1>20 DEF GoodDoc, f

----------------------------------------------------------------------------
(* Joining two documents *)

\* Document::merge_state of good documents is good: it takes the deltas along
\* with the fields.
LEMMA JoinKeepsGood ==
  ASSUME NEW L, ContentOK(L), NEW a, NEW b, GoodDoc(L, a), GoodDoc(L, b)
  PROVE  /\ GoodDoc(L, Join(L, a, b))
         /\ Join(L, a, b).dag.held = a.dag.held \cup b.dag.held
<1> DEFINE A == a.dag.held
           B == b.dag.held
           f == Join(L, a, b)
<1>1. A \subseteq DOMAIN L /\ B \subseteq DOMAIN L /\ Genesis \in A
  BY DEF GoodDoc, IsDocument
<1>2. DOMAIN a.log = A /\ DOMAIN b.log = B
  BY DEF GoodDoc, IsDocument
<1>3. InsertAll(L, a.dag, B) = RebuildDag(L, A \cup B)
  <2>1. InsertAll(L, RebuildDag(L, A), B) = RebuildDag(L, A \cup B)
    BY InsertAllRebuilds
  <2>2. a.dag = RebuildDag(L, A)
    BY DEF GoodDoc, CompleteIn
  <2> QED
    BY <2>1, <2>2
<1>4. RebuildDag(L, A \cup B).held = A \cup B
  BY DEF RebuildDag, InsertAll, EmptyDag
<1> DEFINE log == [h \in A \cup B |-> IF h \in A THEN a.log[h] ELSE b.log[h]]
<1>5. f = [JoinFields(L, a, b) EXCEPT !.log = log, !.dag = RebuildDag(L, A \cup B)]
  BY <1>2, <1>3 DEF Join
<1>6. /\ f = [vms |-> f.vms, services |-> f.services, data |-> f.data,
              aka |-> f.aka, active |-> f.active, creds |-> f.creds,
              revoked |-> f.revoked, deactivated |-> f.deactivated,
              updated |-> f.updated, log |-> f.log, dag |-> f.dag]
      /\ f.vms = a.vms \cup b.vms
      /\ f.log = log
      /\ f.dag = RebuildDag(L, A \cup B)
  <2> HIDE DEF f, log
  <2> QED
    BY <1>5 DEF JoinFields
<1> HIDE DEF f
<1>7. f.dag.held = A \cup B
  BY <1>4, <1>6
<1>8. IsDocument(L, f)
  <2>1. f.log = [h \in A \cup B |-> f.log[h]]
    BY <1>6
  <2> QED
    BY <1>1, <1>6, <1>7, <2>1 DEF IsDocument
<1>9. CompleteIn(L, f)
  <2>1. Referenced(L, A) \subseteq A /\ Referenced(L, B) \subseteq B
    BY DEF GoodDoc, CompleteIn
  <2>2. Referenced(L, A \cup B) \subseteq A \cup B
    BY <2>1 DEF Referenced
  <2> QED
    BY <1>6, <1>7, <2>2 DEF CompleteIn
<1>10. f.vms # {} /\ \A e \in f.vms : HasAuthorisingDelta(L, f.dag.held, e.id)
  <2>1. f.vms # {}
    BY <1>6 DEF GoodDoc
  <2>2. \A e \in a.vms : HasAuthorisingDelta(L, A \cup B, e.id)
    BY DEF GoodDoc, HasAuthorisingDelta
  <2>3. \A e \in b.vms : HasAuthorisingDelta(L, A \cup B, e.id)
    BY DEF GoodDoc, HasAuthorisingDelta
  <2> QED
    BY <1>6, <1>7, <2>1, <2>2, <2>3
<1>11. ASSUME NEW h \in A \ {Genesis}
       PROVE  AuthorisedIn(L, f, h)
  <2>1. f.log[h] = a.log[h] /\ a.vms \subseteq f.vms
    BY <1>6
  <2> QED
    BY <2>1 DEF GoodDoc, AuthorisedIn
<1>12. ASSUME NEW h \in B \ {Genesis}, h \notin A
       PROVE  AuthorisedIn(L, f, h)
  <2>1. f.log[h] = b.log[h] /\ b.vms \subseteq f.vms
    BY <1>6, <1>12
  <2> QED
    BY <2>1 DEF GoodDoc, AuthorisedIn
<1> QED
  BY <1>7, <1>8, <1>9, <1>10, <1>11, <1>12 DEF GoodDoc, f

----------------------------------------------------------------------------
(* Contents *)

\* The clock of a device keeps its type.
LEMMA AdvanceType ==
  ASSUME NEW t \in Timestamps, NEW now \in Nat
  PROVE  AdvanceSend(t, now) \in Timestamps
<1>1. MaxOf(now, t.wall) \in Nat
  BY DEF MaxOf, Timestamps
<1>2. Bump(t.logical) \in 0 .. LogicalWidth - 1 /\ 0 \in 0 .. LogicalWidth - 1
  BY WidthIsPositive DEF Bump, Timestamps
<1>3. t.node \in Nat
  BY DEF Timestamps
<1> QED
  BY <1>1, <1>2, <1>3 DEF AdvanceSend, Timestamps

\* A new delta, or a new proof for an old one, extends the contents.
LEMMA PublishExtends ==
  ASSUME ContentOK(delta), NEW c, NEW h \in Hashes, Publish(c, h),
         c.parents \subseteq Exists, c.op.type \in OpTypes, c.ts \in Timestamps,
         c.by \in KeyIds, h \in Exists => c.sealed
  PROVE  /\ ContentOK(delta') /\ ExtendsContent(delta, delta')
         /\ Exists' = Exists \cup {h}
         /\ delta' = [g \in Exists' |-> delta'[g]]
         /\ delta'[h] = c
<1>1. delta' = [x \in Exists \cup {h} |-> IF x = h THEN c ELSE delta[x]]
  BY DEF Publish, Put, Exists
<1>2. Exists' = Exists \cup {h}
  BY <1>1 DEF Exists
<1>3. delta'[h] = c /\ \A g \in Exists \ {h} : delta'[g] = delta[g]
  BY <1>1
<1>4. ContentOK(delta')
  <2> SUFFICES ASSUME NEW g \in Exists \cup {h}
               PROVE  /\ delta'[g].parents \subseteq Exists \cup {h}
                      /\ delta'[g].op.type \in OpTypes
                      /\ delta'[g].ts \in Timestamps
                      /\ delta'[g].by \in KeyIds
    BY <1>2 DEF ContentOK, Exists
  <2>1. CASE g = h
    BY <1>3, <2>1
  <2>2. CASE g # h
    BY <1>3, <2>2 DEF ContentOK, Exists
  <2> QED
    BY <2>1, <2>2
<1>5. ExtendsContent(delta, delta')
  <2> SUFFICES ASSUME NEW g \in Exists
               PROVE  /\ delta'[g].op = delta[g].op /\ delta'[g].parents = delta[g].parents
                      /\ delta'[g].ts = delta[g].ts /\ delta'[g].sound = delta[g].sound
                      /\ delta[g].sealed => delta'[g].sealed
    BY <1>2 DEF ExtendsContent, Exists
  <2>1. CASE g = h
    <3>1. SameContent(c, h)
      BY <2>1 DEF Publish, HasHash
    <3> QED
      BY <1>3, <2>1, <3>1 DEF SameContent
  <2>2. CASE g # h
    BY <1>3, <2>2
  <2> QED
    BY <2>1, <2>2
<1> QED
  BY <1>1, <1>2, <1>3, <1>4, <1>5

----------------------------------------------------------------------------
(* The invariant *)

\* The part of the type invariant that is not about single documents.
Base ==
  /\ Exists \subseteq Hashes /\ ContentOK(delta)
  /\ delta = [h \in Exists |-> delta[h]]
  /\ clock \in [Replicas -> Timestamps]
  /\ doc = [r \in Replicas |-> doc[r]]
  /\ WorkOK

AllGood ==
  /\ \A r \in Replicas : GoodDoc(delta, doc[r])
  /\ work # Idle => GoodDoc(delta, work.copy)

\* DocInv, arranged by document.
LEMMA InvByDocument == DocInv <=> Base /\ AllGood
<1>1. AllGood <=> \A d \in Documents : GoodDoc(delta, d)
  BY DEF AllGood, Documents
<1>2. DocInv <=> Base /\ \A d \in Documents : GoodDoc(delta, d)
  BY DEF DocInv, Base, TypeOK, HistoryComplete, KeysHaveDeltas, OnlyAuthorised, GoodDoc
<1> QED
  BY <1>1, <1>2

\* What Document::merge_verified_delta may do to a good document.
LEMMA MergeOutcome ==
  ASSUME NEW L, ContentOK(L), NEW d, GoodDoc(L, d), NEW h \in DOMAIN L, NEW by, NEW sig,
         sig => L[h].sealed
  PROVE  LET e == MergeVerifiedDelta(L, d, h, by, sig)
         IN  /\ GoodDoc(L, e)
             /\ \/ e.dag.held = d.dag.held
                \/ e.dag.held = d.dag.held \cup {h} /\ L[h].parents \subseteq d.dag.held
<1>1. CASE Admits(L, d, h, by, sig)
  BY <1>1, ApplyKeepsGood DEF MergeVerifiedDelta
<1>2. CASE ~ Admits(L, d, h, by, sig)
  BY <1>2 DEF MergeVerifiedDelta
<1> QED
  BY <1>1, <1>2

\* No proof carries a signature that was not made.
LEMMA ProofsAreSealed ==
  ASSUME NEW h \in Exists
  PROVE  /\ \A p \in Proofs(h) : p.sig => delta[h].sealed
         /\ \A p \in BundledProofs(h) : p.sig => delta[h].sealed
BY DEF Proofs, BundledProofs

\* If one document changes to a good one and nothing else does.
LEMMA OneDocChanges ==
  ASSUME Base, AllGood, work = Idle, NEW r \in Replicas, NEW e, GoodDoc(delta, e),
         doc' = [doc EXCEPT ![r] = e], UNCHANGED <<delta, clock, work>>
  PROVE  Base' /\ AllGood'
<1>1. doc' = [q \in Replicas |-> doc'[q]] /\ doc'[r] = e
      /\ \A q \in Replicas \ {r} : doc'[q] = doc[q]
  BY DEF Base
<1>2. work' = Idle
  OBVIOUS
<1>3. WorkOK'
  BY <1>2 DEF WorkOK
<1>4. Base'
  BY <1>1, <1>3 DEF Base, Exists
<1>5. AllGood'
  BY <1>1, <1>2 DEF AllGood
<1> QED
  BY <1>4, <1>5

LEMMA InitGood == Init => Base /\ AllGood
<1> SUFFICES ASSUME Init
             PROVE  Base /\ AllGood
  OBVIOUS
<1>1. Exists = {Genesis} /\ delta[Genesis] = GenesisDelta
  BY DEF Init, Exists
<1>2. ContentOK(delta)
  <2>1. ZeroTs \in Timestamps
    BY WidthIsPositive DEF ZeroTs, Timestamps
  <2> QED
    BY <1>1, <2>1, GenesisIdIsKeyId
    DEF ContentOK, Exists, GenesisDelta, GenesisOp, OpTypes
<1>3. clock \in [Replicas -> Timestamps]
  <2>1. \A r \in Replicas : DevicePub[r] \in Nat
    BY DevicesAreNodes, NodesAreNumbers
  <2> QED
    BY <2>1, WidthIsPositive DEF Init, Timestamps
<1>4. Base
  BY <1>1, <1>2, <1>3, HashesAreOrdered DEF Base, Init, Exists, WorkOK
<1>5. GoodDoc(delta, NewDocument)
  <2> DEFINE d == NewDocument
  <2>1. /\ d = [vms |-> d.vms, services |-> d.services, data |-> d.data, aka |-> d.aka,
                active |-> d.active, creds |-> d.creds, revoked |-> d.revoked,
                deactivated |-> d.deactivated, updated |-> d.updated, log |-> d.log,
                dag |-> d.dag]
        /\ d.dag = [held |-> {Genesis}, referenced |-> {}, frontier |-> {Genesis}]
        /\ d.log = [h \in {Genesis} |-> GenesisId]
        /\ d.vms = {[id |-> GenesisId, pk |-> GenesisPub]}
    BY DEF NewDocument
  <2>2. d.dag.held = {Genesis}
    BY <2>1
  <2>3. Referenced(delta, {Genesis}) = {}
    BY <1>1 DEF Referenced, GenesisDelta
  <2>4. Leaves(delta, {Genesis}) = {Genesis}
    BY <2>3 DEF Leaves
  <2> HIDE DEF d
  <2>5. IsDocument(delta, d)
    BY <1>1, <2>1, <2>2 DEF IsDocument, Exists
  <2>6. CompleteIn(delta, d)
    BY <2>1, <2>2, <2>3, <2>4 DEF CompleteIn, RebuildDag, InsertAll, EmptyDag
  <2>7. \A e \in d.vms : HasAuthorisingDelta(delta, d.dag.held, e.id)
    BY <1>1, <2>1, <2>2 DEF HasAuthorisingDelta, Adds, GenesisDelta, GenesisOp
  <2>8. d.vms # {} /\ d.dag.held \ {Genesis} = {}
    BY <2>1, <2>2
  <2> QED
    BY <2>5, <2>6, <2>7, <2>8 DEF GoodDoc, d
<1>6. AllGood
  BY <1>5 DEF AllGood, Init
<1> QED
  BY <1>4, <1>6

----------------------------------------------------------------------------
(* The steps *)

\* The frontier of a good document consists of deltas it holds.
LEMMA FrontierIsHeld ==
  ASSUME NEW L, NEW d, GoodDoc(L, d)
  PROVE  d.dag.frontier \subseteq d.dag.held
<1>1. d.dag = RebuildDag(L, d.dag.held)
  BY DEF GoodDoc, CompleteIn
<1> DEFINE H == d.dag.held
<1>2. RebuildDag(L, H).frontier = Leaves(L, H)
  BY DEF RebuildDag, InsertAll, EmptyDag
<1>3. Leaves(L, H) \subseteq H
  BY DEF Leaves
<1> HIDE DEF H
<1> QED
  BY <1>1, <1>2, <1>3 DEF H

\* New contents: every document stays good.
LEMMA ContentGrows ==
  ASSUME Base, AllGood, ContentOK(delta'), ExtendsContent(delta, delta')
  PROVE  /\ \A r \in Replicas : GoodDoc(delta', doc[r])
         /\ work # Idle => GoodDoc(delta', work.copy)
BY GoodDocExtends DEF Base, AllGood

LEMMA AuthorStep ==
  ASSUME Base, AllGood, NEW r \in Replicas, NEW op \in Ops, NEW now \in Readings,
         NEW h \in Hashes, Author(r, op, now, h)
  PROVE  /\ Base' /\ AllGood'
         /\ ExtendsContent(delta, delta')
         /\ Exists' = Exists \cup {h}
         /\ \A g \in Exists : delta'[g].parents = delta[g].parents
         /\ delta'[h].parents \subseteq doc[r].dag.held
         /\ \A q \in Replicas \ {r} : doc'[q] = doc[q]
         /\ doc'[r].dag.held \in {doc[r].dag.held, doc[r].dag.held \cup {h}}
<1> DEFINE ts == AdvanceSend(clock[r], now)
           c == [op |-> op, parents |-> doc[r].dag.frontier, ts |-> ts,
                 by |-> DeviceId[r], sealed |-> TRUE, sound |-> TRUE]
           e == MergeVerifiedDelta(delta', doc[r], h, DeviceId[r], TRUE)
<1>1. /\ work = Idle /\ work' = work
      /\ clock' = [clock EXCEPT ![r] = ts]
      /\ Publish(c, h)
      /\ doc' = [doc EXCEPT ![r] = e]
  BY DEF Author
<1>2. ts \in Timestamps
  BY ReadingsAreNumbers, AdvanceType DEF Base
<1>3. doc[r].dag.frontier \subseteq doc[r].dag.held /\ doc[r].dag.held \subseteq Exists
  BY FrontierIsHeld DEF AllGood, GoodDoc, IsDocument, Exists
<1>4. /\ ContentOK(delta') /\ ExtendsContent(delta, delta')
      /\ Exists' = Exists \cup {h}
      /\ delta' = [g \in Exists' |-> delta'[g]]
      /\ delta'[h] = c
  <2>1. /\ c.parents \subseteq Exists /\ c.op.type \in OpTypes /\ c.ts \in Timestamps
        /\ c.by \in KeyIds /\ c.sealed
    BY <1>2, <1>3, OpsAreOps, DevicesHaveIds
  <2> HIDE DEF c
  <2> QED
    BY <1>1, <2>1, PublishExtends DEF Base
<1>5. GoodDoc(delta', doc[r]) /\ \A q \in Replicas : GoodDoc(delta', doc[q])
  BY <1>4, ContentGrows
<1>6. h \in DOMAIN delta' /\ delta'[h].sealed /\ delta'[h].parents \subseteq doc[r].dag.held
  BY <1>3, <1>4 DEF Exists
<1>7. /\ GoodDoc(delta', e)
      /\ e.dag.held \in {doc[r].dag.held, doc[r].dag.held \cup {h}}
  <2> DEFINE L == delta'
             d == doc[r]
             sig == TRUE
  <2>1. ContentOK(L) /\ GoodDoc(L, d) /\ h \in DOMAIN L /\ (sig => L[h].sealed)
    BY <1>4, <1>5, <1>6
  <2>2. e = MergeVerifiedDelta(L, d, h, DeviceId[r], sig)
    OBVIOUS
  <2> HIDE DEF L, d, sig, e, c
  <2>3. /\ GoodDoc(L, e)
        /\ e.dag.held = d.dag.held \/ e.dag.held = d.dag.held \cup {h}
    BY <2>1, <2>2, MergeOutcome
  <2> QED
    BY <2>3 DEF L, d
<1> HIDE DEF e, c, ts
<1>8. doc' = [q \in Replicas |-> doc'[q]] /\ doc'[r] = e
      /\ \A q \in Replicas \ {r} : doc'[q] = doc[q]
  BY <1>1 DEF Base
<1>9. WorkOK'
  BY <1>1 DEF WorkOK
<1>10. Base'
  BY <1>1, <1>2, <1>4, <1>8, <1>9 DEF Base
<1>11. AllGood'
  BY <1>1, <1>5, <1>7, <1>8 DEF AllGood
<1>12. \A g \in Exists : delta'[g].parents = delta[g].parents
  BY <1>4 DEF ExtendsContent, Exists
<1> QED
  BY <1>4, <1>6, <1>7, <1>8, <1>10, <1>11, <1>12

LEMMA CraftStep ==
  ASSUME Base, AllGood, NEW r \in Replicas, NEW op \in Ops, NEW now \in Readings,
         NEW h \in Hashes, NEW parents \in SUBSET Exists, NEW node \in Nodes,
         NEW sound, Craft(r, op, parents, node, sound, now, h)
  PROVE  /\ Base' /\ AllGood'
         /\ ExtendsContent(delta, delta')
         /\ h \notin Exists
         /\ Exists' = Exists \cup {h}
         /\ \A g \in Exists : delta'[g].parents = delta[g].parents
         /\ delta'[h].parents = parents
         /\ doc' = doc
<1> DEFINE tick == AdvanceSend(clock[r], now)
           c == [op |-> op, parents |-> parents, ts |-> [tick EXCEPT !.node = node],
                 by |-> DeviceId[r], sealed |-> node = DevicePub[r], sound |-> sound]
<1>1. /\ work = Idle /\ work' = work /\ doc' = doc
      /\ clock' = [clock EXCEPT ![r] = tick]
      /\ h \notin Exists
      /\ Publish(c, h)
  BY DEF Craft
<1>2. tick \in Timestamps
  BY ReadingsAreNumbers, AdvanceType DEF Base
<1>3. [tick EXCEPT !.node = node] \in Timestamps
  BY <1>2, NodesAreNumbers DEF Timestamps
<1>4. /\ ContentOK(delta') /\ ExtendsContent(delta, delta')
      /\ Exists' = Exists \cup {h}
      /\ delta' = [g \in Exists' |-> delta'[g]]
      /\ delta'[h] = c
  <2>1. /\ c.parents \subseteq Exists /\ c.op.type \in OpTypes /\ c.ts \in Timestamps
        /\ c.by \in KeyIds
    BY <1>3, OpsAreOps, DevicesHaveIds
  <2> HIDE DEF c
  <2> QED
    BY <1>1, <2>1, PublishExtends DEF Base
<1>5. \A q \in Replicas : GoodDoc(delta', doc[q])
  BY <1>4, ContentGrows
<1>6. delta'[h].parents = parents
  BY <1>4
<1> HIDE DEF c, tick
<1>7. WorkOK'
  BY <1>1 DEF WorkOK
<1>8. doc' = [q \in Replicas |-> doc'[q]]
  BY <1>1 DEF Base
<1>9. Base'
  BY <1>1, <1>2, <1>4, <1>7, <1>8 DEF Base
<1>10. AllGood'
  BY <1>1, <1>5 DEF AllGood
<1>11. \A g \in Exists : delta'[g].parents = delta[g].parents
  BY <1>4 DEF ExtendsContent, Exists
<1> QED
  BY <1>1, <1>4, <1>6, <1>9, <1>10, <1>11

LEMMA DeliverStep ==
  ASSUME Base, AllGood, NEW r \in Replicas, NEW h \in Exists, NEW p \in Proofs(h),
         Deliver(r, h, p)
  PROVE  /\ Base' /\ AllGood'
         /\ \A q \in Replicas \ {r} : doc'[q] = doc[q]
         /\ \/ doc'[r].dag.held = doc[r].dag.held
            \/ doc'[r].dag.held = doc[r].dag.held \cup {h}
<1> DEFINE e == MergeVerifiedDelta(delta, doc[r], h, p.by, p.sig)
<1>1. /\ work = Idle /\ UNCHANGED <<delta, clock, work>>
      /\ doc' = [doc EXCEPT ![r] = e]
  BY DEF Deliver
<1>2. /\ GoodDoc(delta, e)
      /\ e.dag.held = doc[r].dag.held \/ e.dag.held = doc[r].dag.held \cup {h}
  <2>1. p.sig => delta[h].sealed
    BY ProofsAreSealed
  <2>2. ContentOK(delta) /\ GoodDoc(delta, doc[r]) /\ h \in DOMAIN delta
    BY DEF Base, AllGood, Exists
  <2> QED
    BY <2>1, <2>2, MergeOutcome
<1> HIDE DEF e
<1>3. Base' /\ AllGood'
  BY <1>1, <1>2, OneDocChanges
<1>4. doc'[r] = e /\ \A q \in Replicas \ {r} : doc'[q] = doc[q]
  BY <1>1 DEF Base
<1> QED
  BY <1>2, <1>3, <1>4

LEMMA MergeStateStep ==
  ASSUME Base, AllGood, NEW r \in Replicas, NEW q \in Replicas, MergeState(r, q)
  PROVE  /\ Base' /\ AllGood'
         /\ \A s \in Replicas \ {r} : doc'[s] = doc[s]
         /\ doc'[r].dag.held = doc[r].dag.held \cup doc[q].dag.held
<1> DEFINE e == Join(delta, doc[r], doc[q])
<1>1. /\ work = Idle /\ UNCHANGED <<delta, clock, work>>
      /\ doc' = [doc EXCEPT ![r] = e]
  BY DEF MergeState
<1>2. GoodDoc(delta, e) /\ e.dag.held = doc[r].dag.held \cup doc[q].dag.held
  BY JoinKeepsGood DEF Base, AllGood
<1> HIDE DEF e
<1>3. Base' /\ AllGood'
  BY <1>1, <1>2, OneDocChanges
<1>4. doc'[r] = e /\ \A s \in Replicas \ {r} : doc'[s] = doc[s]
  BY <1>1 DEF Base
<1> QED
  BY <1>2, <1>3, <1>4

\* Bundle import: the copy starts as the document, and each step keeps it good.
LEMMA StartImportStep ==
  ASSUME Base, AllGood, NEW r \in Replicas, NEW target, NEW deltas \in SUBSET Exists,
         NEW vouched, StartImport(r, target, deltas, vouched)
  PROVE  Base' /\ AllGood' /\ UNCHANGED <<delta, doc>>
<1>1. /\ UNCHANGED <<delta, doc, clock>>
      /\ work' = [to |-> r, copy |-> doc[r], todo |-> deltas, vouched |-> vouched]
  BY DEF StartImport
<1>2. WorkOK'
  BY <1>1 DEF WorkOK, Exists
<1>3. Base'
  BY <1>1, <1>2 DEF Base, Exists
<1>4. AllGood'
  BY <1>1 DEF AllGood
<1> QED
  BY <1>1, <1>3, <1>4

LEMMA SkipStep ==
  ASSUME Base, AllGood, NEW h, Skip(h)
  PROVE  Base' /\ AllGood' /\ UNCHANGED <<delta, doc>>
<1>1. /\ work # Idle /\ UNCHANGED <<delta, doc, clock>>
      /\ work' = [work EXCEPT !.todo = @ \ {h}]
  BY DEF Skip
<1>2. /\ work = [to |-> work.to, copy |-> work.copy, todo |-> work.todo,
                 vouched |-> work.vouched]
      /\ work.to \in Replicas /\ work.todo \subseteq Exists
      /\ doc[work.to].dag.held \subseteq work.copy.dag.held
  BY <1>1 DEF Base, WorkOK
<1>3. work' = [to |-> work.to, copy |-> work.copy, todo |-> work.todo \ {h},
               vouched |-> work.vouched]
  BY <1>1, <1>2
<1>4. WorkOK'
  BY <1>1, <1>2, <1>3 DEF WorkOK, Exists
<1>5. Base'
  BY <1>1, <1>4 DEF Base, Exists
<1>6. AllGood'
  BY <1>1, <1>3 DEF AllGood
<1> QED
  BY <1>1, <1>5, <1>6

LEMMA ReplayStep ==
  ASSUME Base, AllGood, NEW h, NEW p \in BundledProofs(h), Replay(h, p)
  PROVE  Base' /\ AllGood' /\ UNCHANGED <<delta, doc>>
<1> DEFINE e == Apply(delta, work.copy, h, p.by)
<1>1. /\ work # Idle /\ UNCHANGED <<delta, doc, clock>>
      /\ Admits(delta, work.copy, h, p.by, p.sig)
      /\ work' = [work EXCEPT !.todo = @ \ {h}, !.copy = e]
      /\ h \in work.todo
  BY DEF Replay, Ready
<1>2. /\ work = [to |-> work.to, copy |-> work.copy, todo |-> work.todo,
                 vouched |-> work.vouched]
      /\ work.to \in Replicas /\ work.todo \subseteq Exists
      /\ doc[work.to].dag.held \subseteq work.copy.dag.held
  BY <1>1 DEF Base, WorkOK
<1>3. GoodDoc(delta, e) /\ e.dag.held = work.copy.dag.held \cup {h}
  <2>1. h \in Exists
    BY <1>1, <1>2
  <2>2. p.sig => delta[h].sealed
    BY <2>1, ProofsAreSealed
  <2>3. ContentOK(delta) /\ GoodDoc(delta, work.copy) /\ h \in DOMAIN delta
    BY <1>1, <2>1 DEF Base, AllGood, Exists
  <2> QED
    BY <1>1, <2>2, <2>3, ApplyKeepsGood
<1> HIDE DEF e
<1>4. work' = [to |-> work.to, copy |-> e, todo |-> work.todo \ {h},
               vouched |-> work.vouched]
  BY <1>1, <1>2
<1>5. WorkOK'
  BY <1>1, <1>2, <1>3, <1>4 DEF WorkOK, Exists
<1>6. Base'
  BY <1>1, <1>5 DEF Base, Exists
<1>7. AllGood'
  BY <1>1, <1>3, <1>4 DEF AllGood
<1> QED
  BY <1>1, <1>6, <1>7

LEMMA AbortStep ==
  ASSUME Base, AllGood, NEW h, NEW p, Abort(h, p)
  PROVE  Base' /\ AllGood' /\ UNCHANGED <<delta, doc>>
<1>1. UNCHANGED <<delta, doc, clock>> /\ work' = Idle
  BY DEF Abort
<1>2. WorkOK'
  BY <1>1 DEF WorkOK
<1>3. Base'
  BY <1>1, <1>2 DEF Base, Exists
<1>4. AllGood'
  BY <1>1 DEF AllGood
<1> QED
  BY <1>1, <1>3, <1>4

LEMMA CommitStep ==
  ASSUME Base, AllGood, Commit
  PROVE  /\ Base' /\ AllGood' /\ UNCHANGED delta
         /\ work.to \in Replicas
         /\ \A s \in Replicas \ {work.to} : doc'[s] = doc[s]
         /\ doc'[work.to] = work.copy
         /\ doc[work.to].dag.held \subseteq work.copy.dag.held
         /\ GoodDoc(delta, work.copy)
<1>1. /\ work # Idle /\ work' = Idle /\ UNCHANGED <<delta, clock>>
      /\ doc' = [doc EXCEPT ![work.to] = work.copy]
  BY DEF Commit
<1>2. work.to \in Replicas /\ doc[work.to].dag.held \subseteq work.copy.dag.held
  BY <1>1 DEF Base, WorkOK
<1>3. GoodDoc(delta, work.copy)
  BY <1>1 DEF AllGood
<1>4. doc' = [q \in Replicas |-> doc'[q]] /\ doc'[work.to] = work.copy
      /\ \A q \in Replicas \ {work.to} : doc'[q] = doc[q]
  BY <1>1, <1>2 DEF Base
<1>5. WorkOK'
  BY <1>1 DEF WorkOK
<1>6. Base'
  BY <1>1, <1>4, <1>5 DEF Base, Exists
<1>7. AllGood'
  BY <1>1, <1>3, <1>4 DEF AllGood
<1> QED
  BY <1>1, <1>2, <1>3, <1>4, <1>6, <1>7

----------------------------------------------------------------------------
(* The theorems *)

\* Deltas of a bundle made by export_bundle exist.
LEMMA ExportsExist ==
  ASSUME NEW L, NEW d
  PROVE  ExportBundle(L, d) \subseteq DOMAIN L
BY DEF ExportBundle, ExtractClosure, Visited

\* DocInv is an invariant: types, complete histories, and no delta without an
\* authorised signature, on every replica and on the working copy of an import,
\* for any number of replicas, rogue devices included.
THEOREM DocInvariant == Spec => []DocInv
<1>1. Init => DocInv
  BY InitGood, InvByDocument
<1>2. DocInv /\ [Next]_vars => DocInv'
  <2> SUFFICES ASSUME Base, AllGood, [Next]_vars
               PROVE  Base' /\ AllGood'
    <3>1. DocInv => Base /\ AllGood
      BY InvByDocument
    <3>2. Base' /\ AllGood' => DocInv'
      BY InvByDocument, PTL
    <3> QED
      BY <3>1, <3>2
  <2>1. ASSUME NEW r \in Replicas, NEW op \in Ops, NEW now \in Readings, NEW h \in Hashes,
               Author(r, op, now, h)
        PROVE  Base' /\ AllGood'
    BY <2>1, AuthorStep
  <2>2. ASSUME NEW r \in Replicas, NEW op \in Ops, NEW now \in Readings, NEW h \in Hashes,
               NEW parents \in SUBSET Exists, NEW node \in Nodes, NEW sound \in BOOLEAN,
               Craft(r, op, parents, node, sound, now, h)
        PROVE  Base' /\ AllGood'
    BY <2>2, CraftStep
  <2>3. ASSUME NEW r \in Replicas, NEW h \in Exists, NEW p \in Proofs(h), Deliver(r, h, p)
        PROVE  Base' /\ AllGood'
    BY <2>3, DeliverStep
  <2>4. ASSUME NEW r \in Replicas, NEW q \in Replicas, MergeState(r, q)
        PROVE  Base' /\ AllGood'
    BY <2>4, MergeStateStep
  <2>5. ASSUME NEW r \in Replicas, NEW q \in Replicas, ImportFrom(r, q)
        PROVE  Base' /\ AllGood'
    <3>1. PICK head \in doc[q].dag.frontier :
            StartImport(r, head, ExportBundle(delta, doc[q]), doc[q].log)
      BY <2>5 DEF ImportFrom
    <3>2. ExportBundle(delta, doc[q]) \in SUBSET Exists
      BY ExportsExist DEF Exists
    <3> QED
      BY <3>1, <3>2, StartImportStep
  <2>6. ASSUME NEW r \in Replicas, NEW deltas \in SUBSET Exists, NEW target \in deltas,
               ImportCrafted(r, target, deltas)
        PROVE  Base' /\ AllGood'
    <3>1. StartImport(r, target, deltas, EmptyMap)
      BY <2>6 DEF ImportCrafted
    <3> QED
      BY <3>1, StartImportStep
  <2>7. ASSUME NEW h \in work.todo, Skip(h)
        PROVE  Base' /\ AllGood'
    BY <2>7, SkipStep
  <2>8. ASSUME NEW h \in work.todo, NEW p \in BundledProofs(h), Replay(h, p)
        PROVE  Base' /\ AllGood'
    BY <2>8, ReplayStep
  <2>9. ASSUME NEW h \in work.todo, NEW p \in BundledProofs(h), Abort(h, p)
        PROVE  Base' /\ AllGood'
    BY <2>9, AbortStep
  <2>10. CASE Commit
    BY <2>10, CommitStep
  <2>11. CASE UNCHANGED vars
    BY <2>11 DEF vars, Base, AllGood, Exists, WorkOK
  <2> QED
    BY <2>1, <2>2, <2>3, <2>4, <2>5, <2>6, <2>7, <2>8, <2>9, <2>10, <2>11 DEF Next
<1> QED
  BY <1>1, <1>2, PTL DEF Spec

\* The type invariant.
THEOREM TypeCorrect == Spec => []TypeOK
<1>1. DocInv => TypeOK
  BY DEF DocInv
<1> QED
  BY <1>1, DocInvariant, PTL

\* A document never holds a delta without its ancestors.
THEOREM HistoriesAreComplete == Spec => []HistoryComplete
<1>1. DocInv => HistoryComplete
  BY DEF DocInv
<1> QED
  BY <1>1, DocInvariant, PTL

\* Every delta in a document was signed by a key its causal past authorises.
THEOREM OnlyAuthorisedDeltas == Spec => []OnlyAuthorised
<1>1. DocInv => OnlyAuthorised
  BY DEF DocInv
<1> QED
  BY <1>1, DocInvariant, PTL

----------------------------------------------------------------------------
(* Verdicts *)

\* More history only lengthens the part of a past that is seen.
LEMMA VisitedGrows ==
  ASSUME NEW L, NEW M, ContentOK(L), ContentOK(M), ExtendsContent(L, M),
         NEW held \in SUBSET DOMAIN L, NEW more \in SUBSET DOMAIN M, held \subseteq more,
         NEW P \in SUBSET DOMAIN L
  PROVE  /\ Visited(L, held, P, {}) \subseteq Visited(M, more, P, {})
         /\ Visited(L, held, P, {}) \subseteq DOMAIN L
         /\ Visited(M, more, P, {}) \subseteq DOMAIN M
<1> DEFINE V == Visited(L, held, P, {})
           W == Visited(M, more, P, {})
<1>1. V \subseteq DOMAIN L
  BY VisitedIsClosed DEF ContentOK
<1>2. W \subseteq DOMAIN M /\ TraversalClosed(M, more, P, {}, W)
  <2>1. P \in SUBSET DOMAIN M
    BY DEF ExtendsContent
  <2> QED
    BY <2>1, VisitedIsClosed DEF ContentOK
<1>3. \A h \in held : M[h].parents = L[h].parents /\ L[h].parents \subseteq DOMAIN L
  BY DEF ExtendsContent, ContentOK
<1> HIDE DEF V, W
<1>4. TraversalClosed(L, held, P, {}, W \cap DOMAIN L)
  BY <1>2, <1>3 DEF TraversalClosed
<1>5. V \subseteq W \cap DOMAIN L
  BY <1>4, VisitedIsLeast DEF V
<1> QED
  BY <1>1, <1>2, <1>5 DEF V, W

\* verify_causal does not change its mind: a refusal rests on a delta of the
\* past that stays, any other decision on a past that is complete.
LEMMA DecisionStands ==
  ASSUME NEW L, NEW M, ContentOK(L), ContentOK(M), ExtendsContent(L, M),
         NEW held \in SUBSET DOMAIN L, NEW more \in SUBSET DOMAIN M, held \subseteq more,
         held # {}, NEW h \in DOMAIN L, NEW by,
         IsResolved(VerifyCausal(L, held, L[h].op, L[h].parents, by))
  PROVE  VerifyCausal(M, more, M[h].op, M[h].parents, by).kind =
         VerifyCausal(L, held, L[h].op, L[h].parents, by).kind
<1> DEFINE P == L[h].parents
           V == Visited(L, held, P, {})
           W == Visited(M, more, P, {})
<1>1. M[h].op = L[h].op /\ M[h].parents = P /\ P \in SUBSET DOMAIN L
  BY DEF ExtendsContent, ContentOK
<1>2. CASE P = {}
  BY <1>1, <1>2 DEF VerifyCausal, VerifyRoot
<1>3. CASE P # {}
  <2>1. V \subseteq W /\ V \subseteq DOMAIN L /\ W \subseteq DOMAIN M
    BY <1>1, VisitedGrows
  <2>2. /\ VerifyCausal(L, held, L[h].op, L[h].parents, by) = Decide(L, V \cap held, V \ held, by)
        /\ VerifyCausal(M, more, M[h].op, M[h].parents, by) = Decide(M, W \cap more, W \ more, by)
    BY <1>1, <1>3 DEF VerifyCausal
  <2>3. \A g \in DOMAIN L : M[g].op = L[g].op
    BY DEF ExtendsContent
  <2>4. ASSUME V \ held = {} PROVE W = V
    <3>1. Missing(L, held, P) = {}
      BY <2>4 DEF Missing
    <3>2. /\ \A g \in DOMAIN L : L[g].parents \subseteq DOMAIN L
          /\ \A g \in DOMAIN M : M[g].parents \subseteq DOMAIN M
          /\ \A g \in held : M[g].parents = L[g].parents
          /\ DOMAIN L \subseteq DOMAIN M
      BY DEF ContentOK, ExtendsContent
    <3> HIDE DEF P
    <3> QED
      BY <1>1, <3>1, <3>2, PastIsStable
  <2> HIDE DEF V, W, P
  <2>5. CASE HasRevokingDelta(L, V \cap held, by) \/ HasDeactivateDelta(L, V \cap held)
    <3>1. HasRevokingDelta(M, W \cap more, by) \/ HasDeactivateDelta(M, W \cap more)
      BY <2>1, <2>3, <2>5 DEF HasRevokingDelta, HasDeactivateDelta
    <3> QED
      BY <2>2, <2>5, <3>1 DEF Decide, Invalid
  <2>6. CASE ~ HasRevokingDelta(L, V \cap held, by) /\ ~ HasDeactivateDelta(L, V \cap held)
    <3>1. V \ held = {}
      BY <2>2, <2>6 DEF Decide, Unknown, IsResolved
    <3>2. W = V /\ W \cap more = V \cap held /\ W \ more = {}
      BY <2>4, <3>1
    <3>3. /\ HasRevokingDelta(M, V \cap held, by) <=> HasRevokingDelta(L, V \cap held, by)
          /\ HasDeactivateDelta(M, V \cap held) <=> HasDeactivateDelta(L, V \cap held)
          /\ HasAuthorisingDelta(M, V \cap held, by) <=> HasAuthorisingDelta(L, V \cap held, by)
      BY <2>1, <2>3 DEF HasRevokingDelta, HasDeactivateDelta, HasAuthorisingDelta
    <3>4. Decide(M, W \cap more, W \ more, by) = Decide(L, V \cap held, V \ held, by)
      BY <3>1, <3>2, <3>3 DEF Decide
    <3> QED
      BY <2>2, <3>4
  <2> QED
    BY <2>5, <2>6
<1> QED
  BY <1>2, <1>3

\* Contents stay and replicas only gain deltas.
HistoryKept ==
  /\ ExtendsContent(delta, delta')
  /\ \A s \in Replicas : doc[s].dag.held \subseteq doc'[s].dag.held

LEMMA HistoryStays ==
  ASSUME Base, AllGood, Base', AllGood', [Next]_vars
  PROVE  HistoryKept
<1>a. UNCHANGED delta => ExtendsContent(delta, delta')
  BY DEF ExtendsContent
<1>b. UNCHANGED <<delta, doc>> => HistoryKept
  BY <1>a DEF HistoryKept
<1>1. ASSUME NEW r \in Replicas, NEW op \in Ops, NEW now \in Readings, NEW h \in Hashes,
             Author(r, op, now, h)
      PROVE  HistoryKept
  BY <1>1, AuthorStep DEF HistoryKept
<1>2. ASSUME NEW r \in Replicas, NEW op \in Ops, NEW now \in Readings, NEW h \in Hashes,
             NEW parents \in SUBSET Exists, NEW node \in Nodes, NEW sound \in BOOLEAN,
             Craft(r, op, parents, node, sound, now, h)
      PROVE  HistoryKept
  BY <1>2, CraftStep DEF HistoryKept
<1>3. ASSUME NEW r \in Replicas, NEW h \in Exists, NEW p \in Proofs(h), Deliver(r, h, p)
      PROVE  HistoryKept
  <2>1. UNCHANGED delta
    BY <1>3 DEF Deliver
  <2> QED
    BY <1>3, <1>a, <2>1, DeliverStep DEF HistoryKept
<1>4. ASSUME NEW r \in Replicas, NEW q \in Replicas, MergeState(r, q)
      PROVE  HistoryKept
  <2>1. UNCHANGED delta
    BY <1>4 DEF MergeState
  <2> QED
    BY <1>4, <1>a, <2>1, MergeStateStep DEF HistoryKept
<1>5. ASSUME NEW r \in Replicas, NEW q \in Replicas, ImportFrom(r, q)
      PROVE  HistoryKept
  BY <1>5, <1>b DEF ImportFrom, StartImport
<1>6. ASSUME NEW r \in Replicas, NEW deltas \in SUBSET Exists, NEW target \in deltas,
             ImportCrafted(r, target, deltas)
      PROVE  HistoryKept
  BY <1>6, <1>b DEF ImportCrafted, StartImport
<1>7. ASSUME NEW h \in work.todo, Skip(h)
      PROVE  HistoryKept
  BY <1>7, <1>b DEF Skip
<1>8. ASSUME NEW h \in work.todo, NEW p \in BundledProofs(h), Replay(h, p)
      PROVE  HistoryKept
  BY <1>8, <1>b DEF Replay
<1>9. ASSUME NEW h \in work.todo, NEW p \in BundledProofs(h), Abort(h, p)
      PROVE  HistoryKept
  BY <1>9, <1>b DEF Abort
<1>10. CASE Commit
  <2>1. UNCHANGED delta
    BY <1>10 DEF Commit
  <2> QED
    BY <1>10, <1>a, <2>1, CommitStep DEF HistoryKept
<1>11. CASE UNCHANGED vars
  BY <1>11, <1>b DEF vars
<1> QED
  BY <1>1, <1>2, <1>3, <1>4, <1>5, <1>6, <1>7, <1>8, <1>9, <1>10, <1>11 DEF Next

\* A verdict on a delta other than Unknown never changes on a replica, for any
\* number of replicas and deltas and whatever rogue devices author: the claim of
\* causal.rs that more history "never reverses a resolved result".
THEOREM VerdictsAreFinal == Spec => VerdictIsFinal
<1> DEFINE Final == \A r \in Replicas, h \in Exists \ {Genesis}, by \in KeyIds :
             ~ IsPending(delta, doc[r], h, by) =>
               Verdict(delta, doc[r], h, by)'.kind = Verdict(delta, doc[r], h, by).kind
<1>1. DocInv /\ DocInv' /\ [Next]_vars => Final
  <2> SUFFICES ASSUME Base, AllGood, Base', AllGood', [Next]_vars,
                      NEW r \in Replicas, NEW h \in Exists, NEW by \in KeyIds,
                      ~ IsPending(delta, doc[r], h, by)
               PROVE  Verdict(delta, doc[r], h, by)'.kind = Verdict(delta, doc[r], h, by).kind
    <3>1. DocInv => Base /\ AllGood
      BY InvByDocument
    <3>2. DocInv' => Base' /\ AllGood'
      BY InvByDocument, PTL
    <3> QED
      BY <3>1, <3>2
  <2> DEFINE L == delta
             M == delta'
             held == doc[r].dag.held
             more == doc'[r].dag.held
  <2>1. ExtendsContent(L, M) /\ held \subseteq more
    BY HistoryStays DEF HistoryKept
  <2>2. ContentOK(L) /\ ContentOK(M)
    BY DEF Base, ContentOK
  <2>3. /\ held \in SUBSET DOMAIN L /\ held # {} /\ more \in SUBSET DOMAIN M
        /\ h \in DOMAIN L
    BY DEF AllGood, GoodDoc, IsDocument, Exists
  <2>4. IsResolved(VerifyCausal(L, held, L[h].op, L[h].parents, by))
    BY DEF IsPending, Verdict
  <2>5. /\ Verdict(delta, doc[r], h, by) = VerifyCausal(L, held, L[h].op, L[h].parents, by)
        /\ Verdict(delta, doc[r], h, by)' = VerifyCausal(M, more, M[h].op, M[h].parents, by)
    BY DEF Verdict
  <2> HIDE DEF L, M, held, more
  <2>6. VerifyCausal(M, more, M[h].op, M[h].parents, by).kind =
        VerifyCausal(L, held, L[h].op, L[h].parents, by).kind
    BY <2>1, <2>2, <2>3, <2>4, DecisionStands
  <2> QED
    BY <2>5, <2>6
<1> QED
  BY <1>1, DocInvariant, PTL DEF Spec, VerdictIsFinal

\* Every verification method of a document came with a delta it holds.
THEOREM KeysAlwaysHaveDeltas == Spec => []KeysHaveDeltas
<1>1. DocInv => KeysHaveDeltas
  BY DEF DocInv
<1> QED
  BY <1>1, DocInvariant, PTL

----------------------------------------------------------------------------
(* Agreement on admission, where an id stands for one key *)

\* What the run duplicate_id shows to be needed.
OneKeyPerId ==
  \A a, b \in Ops \cup {GenesisOp} :
    a.type = "AddVM" /\ b.type = "AddVM" /\ a.id = b.id => a.pk = b.pk

ByOps(L) == \A h \in DOMAIN L : L[h].op \in Ops \cup {GenesisOp}

\* The fields on which admission looks say what the deltas say.
Method(op) == [id |-> op.id, pk |-> op.pk]

Backed(L, d) ==
  /\ \A e \in d.vms : \E h \in d.dag.held : L[h].op.type = "AddVM" /\ e = Method(L[h].op)
  /\ \A h \in d.dag.held : L[h].op.type = "AddVM" => Method(L[h].op) \in d.vms
  /\ d.deactivated = HasDeactivateDelta(L, d.dag.held)
  /\ \A id : id \in d.revoked <=> HasRevokingDelta(L, d.dag.held, id)

\* Whether a delta with a proof by this key id is to be admitted: no replica
\* comes into it.
Admissible(L, h, by) ==
  /\ L[h].sealed /\ L[h].sound /\ L[h].parents # {}
  /\ HasAuthorisingDelta(L, PastIn(L, h), by)
  /\ ~ HasRevokingDelta(L, PastIn(L, h), by)
  /\ ~ HasDeactivateDelta(L, PastIn(L, h))
  /\ \E g \in DOMAIN L :
       L[g].op.type = "AddVM" /\ L[g].op.id = by /\ L[g].op.pk = L[h].ts.node

LEMMA HeldIsAdmissible ==
  ASSUME NEW L, NEW d, GoodDoc(L, d), Backed(L, d), NEW h \in d.dag.held \ {Genesis}
  PROVE  Admissible(L, h, d.log[h])
<1>1. AuthorisedIn(L, d, h) /\ d.dag.held \subseteq DOMAIN L
  BY DEF GoodDoc, IsDocument
<1>2. PICK g \in d.dag.held : L[g].op.type = "AddVM" /\
        [id |-> d.log[h], pk |-> L[h].ts.node] = Method(L[g].op)
  BY <1>1 DEF AuthorisedIn, Backed
<1>3. L[g].op.id = d.log[h] /\ L[g].op.pk = L[h].ts.node
  BY <1>2 DEF Method
<1> QED
  BY <1>1, <1>2, <1>3 DEF AuthorisedIn, Admissible

LEMMA AdmittedIsAdmissible ==
  ASSUME NEW L, ContentOK(L), NEW d, GoodDoc(L, d), Backed(L, d), NEW h \in DOMAIN L,
         NEW by, NEW sig, sig => L[h].sealed, Admits(L, d, h, by, sig)
  PROVE  Admissible(L, h, by) /\ sig
<1> DEFINE f == Apply(L, d, h, by)
<1>1. GoodDoc(L, f) /\ f.dag.held = d.dag.held \cup {h}
  BY ApplyKeepsGood
<1>2. h # Genesis /\ d.dag.held \subseteq DOMAIN L
  BY DEF Admits, GoodDoc, IsDocument
<1>3. f.log[h] = by
  <2>1. IsDocument(L, d) /\ L[h].op.type \in OpTypes
    BY DEF GoodDoc, ContentOK
  <2> DEFINE e == ApplyOp(L, d, h)
  <2>2. /\ e = [vms |-> e.vms, services |-> e.services, data |-> e.data,
                aka |-> e.aka, active |-> e.active, creds |-> e.creds,
                revoked |-> e.revoked, deactivated |-> e.deactivated,
                updated |-> e.updated, log |-> e.log, dag |-> e.dag]
        /\ f = [e EXCEPT !.dag = Insert(L, @, h), !.log = Put(@, h, by)]
    BY <2>1, ApplyOpParts DEF Apply
  <2> HIDE DEF e, f
  <2>3. f.log = Put(e.log, h, by)
    BY <2>2
  <2> QED
    BY <2>3 DEF Put
<1> HIDE DEF f
<1>4. AuthorisedIn(L, f, h)
  BY <1>1, <1>2 DEF GoodDoc
<1>5. [id |-> by, pk |-> L[h].ts.node] \in d.vms /\ sig
  BY DEF Admits, VerifySignature
<1>6. PICK g \in d.dag.held : L[g].op.type = "AddVM" /\
        [id |-> by, pk |-> L[h].ts.node] = Method(L[g].op)
  BY <1>5 DEF Backed
<1>7. L[g].op.id = by /\ L[g].op.pk = L[h].ts.node
  BY <1>6 DEF Method
<1> QED
  BY <1>2, <1>3, <1>4, <1>5, <1>6, <1>7 DEF AuthorisedIn, Admissible

\* A replica that can decide about an admissible delta takes it.
LEMMA AdmissibleIsAdmitted ==
  ASSUME OneKeyPerId, NEW L, ContentOK(L), ByOps(L), NEW d, GoodDoc(L, d), Backed(L, d),
         NEW h \in DOMAIN L, h \notin d.dag.held, NEW by, Admissible(L, h, by),
         ~ IsPending(L, d, h, by)
  PROVE  Admits(L, d, h, by, TRUE)
<1> DEFINE H == d.dag.held
           P == L[h].parents
           V == Visited(L, H, P, {})
           W == Visited(L, DOMAIN L, P, {})
<1>1. H \subseteq DOMAIN L /\ P # {} /\ P \in SUBSET DOMAIN L
  BY DEF GoodDoc, IsDocument, Admissible, ContentOK
<1>2. V \subseteq W /\ W \subseteq DOMAIN L
  <2>1. ExtendsContent(L, L) /\ DOMAIN L \in SUBSET DOMAIN L
    BY DEF ExtendsContent
  <2> HIDE DEF P
  <2> QED
    BY <1>1, <2>1, VisitedGrows
<1>3. PastIn(L, h) = W
  BY <1>2 DEF PastIn, Closure
<1>4. Verdict(L, d, h, by) = Decide(L, V \cap H, V \ H, by)
  BY <1>1 DEF Verdict, VerifyCausal
<1> HIDE DEF V, W
<1>5. ~ HasRevokingDelta(L, V \cap H, by) /\ ~ HasDeactivateDelta(L, V \cap H)
  BY <1>2, <1>3 DEF Admissible, HasRevokingDelta, HasDeactivateDelta
<1>6. V \ H = {}
  BY <1>4, <1>5 DEF IsPending, IsResolved, Decide, Unknown
<1>7. PastIn(L, h) = V \cap H
  BY <1>1, <1>6, PastWhereHeld DEF V
<1>8. Verdict(L, d, h, by) = Valid
  BY <1>4, <1>5, <1>6, <1>7 DEF Decide, Admissible
<1>9. PICK g \in H : L[g].op.type = "AddVM" /\ L[g].op.id = by
  BY <1>7 DEF Admissible, HasAuthorisingDelta, Adds
<1>10. \A x \in DOMAIN L : L[x].op.type = "AddVM" /\ L[x].op.id = by => L[x].op.pk = L[h].ts.node
  BY DEF OneKeyPerId, ByOps, Admissible
<1>11. [id |-> by, pk |-> L[h].ts.node] \in d.vms
  <2>1. Method(L[g].op) \in d.vms
    BY <1>9 DEF Backed
  <2> QED
    BY <1>1, <1>9, <1>10, <2>1 DEF Method
<1>12. ASSUME NEW e \in d.vms, e.id = by PROVE L[h].ts.node <= e.pk
  <2>1. PICK x \in H : L[x].op.type = "AddVM" /\ e = Method(L[x].op)
    BY DEF Backed
  <2>2. e.pk = L[h].ts.node
    BY <1>1, <1>10, <1>12, <2>1 DEF Method
  <2>3. L[h].ts.node \in Nat
    BY NodesAreNumbers DEF ContentOK, Timestamps
  <2> QED
    BY <2>2, <2>3
<1>13. AboveFloor(L, d, by)
  BY <1>11 DEF AboveFloor, Backed
<1> QED
  BY <1>8, <1>11, <1>12, <1>13
  DEF Admits, VerifySignature, MergeAccepts, PassesGates, CausallyAdmitted, Admissible

\* The three ways in which a document changes leave its fields backed.
LEMMA BackedExtends ==
  ASSUME NEW L, NEW M, ExtendsContent(L, M), NEW d, GoodDoc(L, d), Backed(L, d)
  PROVE  Backed(M, d)
<1>1. \A h \in d.dag.held : M[h].op = L[h].op
  BY DEF GoodDoc, IsDocument, ExtendsContent
<1>2. HasDeactivateDelta(L, d.dag.held) = HasDeactivateDelta(M, d.dag.held)
  BY <1>1 DEF HasDeactivateDelta
<1>3. \A id : HasRevokingDelta(L, d.dag.held, id) <=> HasRevokingDelta(M, d.dag.held, id)
  BY <1>1 DEF HasRevokingDelta
<1> QED
  BY <1>1, <1>2, <1>3 DEF Backed

\* What a union of histories says is what one of the two says.
LEMMA BackedByEither ==
  ASSUME NEW L, NEW H, NEW G
  PROVE  /\ HasDeactivateDelta(L, H \cup G)
              = (HasDeactivateDelta(L, H) \/ HasDeactivateDelta(L, G))
         /\ \A id : HasRevokingDelta(L, H \cup G, id)
                     <=> HasRevokingDelta(L, H, id) \/ HasRevokingDelta(L, G, id)
BY DEF HasDeactivateDelta, HasRevokingDelta

LEMMA ApplyOpFields ==
  ASSUME NEW L, NEW d, NEW h, IsDocument(L, d), L[h].op.type \in OpTypes
  PROVE  LET e == ApplyOp(L, d, h)
         IN  /\ e.revoked = IF L[h].op.type = "RevokeVM"
                              THEN d.revoked \cup {L[h].op.id} ELSE d.revoked
             /\ e.deactivated = IF L[h].op.type = "Deactivate"
                                  THEN TRUE ELSE d.deactivated
<1> DEFINE op == L[h].op
<1>1. CASE op.type = "AddVM"
  BY <1>1 DEF ApplyOp, AddMethod, IsDocument
<1>2. CASE op.type = "AddService"
  BY <1>2 DEF ApplyOp, IsDocument
<1>3. CASE op.type = "RemoveService"
  BY <1>3 DEF ApplyOp, IsDocument
<1>4. CASE op.type = "SetAka"
  BY <1>4 DEF ApplyOp, IsDocument
<1>5. CASE op.type = "SetData"
  BY <1>5 DEF ApplyOp, IsDocument
<1>6. CASE op.type = "RotateKey"
  BY <1>6 DEF ApplyOp, IsDocument
<1>7. CASE op.type = "RevokeCredential"
  BY <1>7 DEF ApplyOp, IsDocument
<1>8. CASE op.type = "RevokeVM"
  BY <1>8 DEF ApplyOp, IsDocument, Revoke
<1>9. CASE op.type = "Deactivate"
  BY <1>9 DEF ApplyOp, IsDocument, Latch
<1> QED
  BY <1>1, <1>2, <1>3, <1>4, <1>5, <1>6, <1>7, <1>8, <1>9 DEF OpTypes

LEMMA ApplyKeepsBacked ==
  ASSUME NEW L, ContentOK(L), NEW d, GoodDoc(L, d), Backed(L, d), NEW h \in DOMAIN L,
         NEW by, NEW sig, sig => L[h].sealed, Admits(L, d, h, by, sig)
  PROVE  Backed(L, Apply(L, d, h, by))
<1> DEFINE H == d.dag.held
           e == ApplyOp(L, d, h)
           f == Apply(L, d, h, by)
<1>1. f.dag.held = H \cup {h}
  BY ApplyKeepsGood
<1>2. IsDocument(L, d) /\ L[h].op.type \in OpTypes
  BY DEF GoodDoc, ContentOK
<1>3. /\ e = [vms |-> e.vms, services |-> e.services, data |-> e.data,
              aka |-> e.aka, active |-> e.active, creds |-> e.creds,
              revoked |-> e.revoked, deactivated |-> e.deactivated,
              updated |-> e.updated, log |-> e.log, dag |-> e.dag]
      /\ e.vms = IF L[h].op.type = "AddVM" THEN d.vms \cup {Method(L[h].op)} ELSE d.vms
  <2>1. Method(L[h].op) = [id |-> L[h].op.id, pk |-> L[h].op.pk]
    BY DEF Method
  <2> QED
    BY <1>2, <2>1, ApplyOpParts
<1>4. /\ e.revoked = IF L[h].op.type = "RevokeVM" THEN d.revoked \cup {L[h].op.id} ELSE d.revoked
      /\ e.deactivated = IF L[h].op.type = "Deactivate" THEN TRUE ELSE d.deactivated
  BY <1>2, ApplyOpFields
<1>5. f = [e EXCEPT !.dag = Insert(L, @, h), !.log = Put(@, h, by)]
  BY DEF Apply
<1> HIDE DEF e, f
<1>6. f.vms = e.vms /\ f.revoked = e.revoked /\ f.deactivated = e.deactivated
  BY <1>3, <1>5
<1>7. /\ \A k \in f.vms : \E g \in H \cup {h} : L[g].op.type = "AddVM" /\ k = Method(L[g].op)
      /\ \A g \in H \cup {h} : L[g].op.type = "AddVM" => Method(L[g].op) \in f.vms
  BY <1>3, <1>6 DEF Backed
<1>8. f.deactivated = HasDeactivateDelta(L, H \cup {h})
  <2>1. HasDeactivateDelta(L, {h}) = (L[h].op.type = "Deactivate")
    BY DEF HasDeactivateDelta, Deactivates
  <2>2. HasDeactivateDelta(L, H \cup {h})
          = (HasDeactivateDelta(L, H) \/ HasDeactivateDelta(L, {h}))
    BY BackedByEither
  <2>3. d.deactivated = HasDeactivateDelta(L, H)
    BY DEF Backed
  <2>4. HasDeactivateDelta(L, H) \in BOOLEAN
    BY DEF HasDeactivateDelta
  <2> QED
    BY <1>4, <1>6, <2>1, <2>2, <2>3, <2>4
<1>9. \A id : id \in f.revoked <=> HasRevokingDelta(L, H \cup {h}, id)
  <2> TAKE id
  <2>1. HasRevokingDelta(L, {h}, id) <=> L[h].op.type = "RevokeVM" /\ L[h].op.id = id
    BY DEF HasRevokingDelta, Revokes
  <2>2. HasRevokingDelta(L, H \cup {h}, id)
          <=> HasRevokingDelta(L, H, id) \/ HasRevokingDelta(L, {h}, id)
    BY BackedByEither
  <2>3. id \in d.revoked <=> HasRevokingDelta(L, H, id)
    BY DEF Backed
  <2> QED
    BY <1>4, <1>6, <2>1, <2>2, <2>3
<1> QED
  BY <1>1, <1>7, <1>8, <1>9 DEF Backed, f

LEMMA JoinKeepsBacked ==
  ASSUME NEW L, ContentOK(L), NEW a, NEW b, GoodDoc(L, a), GoodDoc(L, b),
         Backed(L, a), Backed(L, b)
  PROVE  Backed(L, Join(L, a, b))
<1> DEFINE H == a.dag.held \cup b.dag.held
           f == Join(L, a, b)
<1>1. f.dag.held = H
  BY JoinKeepsGood
<1>2. /\ f.vms = a.vms \cup b.vms /\ f.revoked = a.revoked \cup b.revoked
      /\ f.deactivated = (a.deactivated \/ b.deactivated)
  BY DEF Join, JoinFields, Latch
<1> HIDE DEF f
<1>3. /\ \A e \in f.vms : \E h \in H : L[h].op.type = "AddVM" /\ e = Method(L[h].op)
      /\ \A h \in H : L[h].op.type = "AddVM" => Method(L[h].op) \in f.vms
  BY <1>2 DEF Backed
<1>4. f.deactivated = HasDeactivateDelta(L, H)
  <2>1. /\ a.deactivated = HasDeactivateDelta(L, a.dag.held)
        /\ b.deactivated = HasDeactivateDelta(L, b.dag.held)
    BY DEF Backed
  <2>2. HasDeactivateDelta(L, H)
          = (HasDeactivateDelta(L, a.dag.held) \/ HasDeactivateDelta(L, b.dag.held))
    BY BackedByEither
  <2> QED
    BY <1>2, <2>1, <2>2
<1>5. \A id : id \in f.revoked <=> HasRevokingDelta(L, H, id)
  <2>1. /\ \A id : id \in a.revoked <=> HasRevokingDelta(L, a.dag.held, id)
        /\ \A id : id \in b.revoked <=> HasRevokingDelta(L, b.dag.held, id)
    BY DEF Backed
  <2> QED
    BY <1>2, <2>1, BackedByEither
<1> QED
  BY <1>1, <1>2, <1>3, <1>4, <1>5 DEF Backed, f

\* The import of an exported bundle: what is left of it is closed upwards from
\* the working copy, and every delta of it is admissible.
WorkFits ==
  work # Idle =>
    /\ \A h \in work.todo : delta[h].parents \subseteq work.todo \cup work.copy.dag.held
    /\ DOMAIN work.vouched # {} =>
         \A h \in work.todo \ {Genesis} :
           h \in DOMAIN work.vouched /\ Admissible(delta, h, work.vouched[h])

AllBacked ==
  /\ ByOps(delta)
  /\ \A r \in Replicas : Backed(delta, doc[r])
  /\ work # Idle => Backed(delta, work.copy)
  /\ WorkFits

LEMMA InitBacked == Init => AllBacked
<1> SUFFICES ASSUME Init PROVE AllBacked
  OBVIOUS
<1>1. DOMAIN delta = {Genesis} /\ delta[Genesis].op = GenesisOp
  BY DEF Init, GenesisDelta
<1>2. /\ NewDocument.vms = {[id |-> GenesisId, pk |-> GenesisPub]}
      /\ NewDocument.dag.held = {Genesis}
      /\ NewDocument.deactivated = FALSE /\ NewDocument.revoked = {}
  BY DEF NewDocument
<1>3. GenesisOp.type = "AddVM" /\ Method(GenesisOp) = [id |-> GenesisId, pk |-> GenesisPub]
  BY DEF GenesisOp, Method
<1>4. Backed(delta, NewDocument)
  <2>1. HasDeactivateDelta(delta, {Genesis}) = FALSE
    BY <1>1, <1>3 DEF HasDeactivateDelta, Deactivates
  <2>2. \A id : ~ HasRevokingDelta(delta, {Genesis}, id)
    BY <1>1, <1>3 DEF HasRevokingDelta, Revokes
  <2> QED
    BY <1>1, <1>2, <1>3, <2>1, <2>2 DEF Backed
<1> QED
  BY <1>1, <1>4 DEF AllBacked, ByOps, WorkFits, Init

\* What Document::merge_verified_delta does, admitted or not.
LEMMA MergeKeepsBacked ==
  ASSUME NEW L, ContentOK(L), NEW d, GoodDoc(L, d), Backed(L, d), NEW h \in DOMAIN L,
         NEW by, NEW sig, sig => L[h].sealed
  PROVE  Backed(L, MergeVerifiedDelta(L, d, h, by, sig))
BY ApplyKeepsBacked DEF MergeVerifiedDelta

LEMMA AuthorBacked ==
  ASSUME Base, AllGood, AllBacked, NEW r \in Replicas, NEW op \in Ops, NEW now \in Readings,
         NEW h \in Hashes, Author(r, op, now, h)
  PROVE  AllBacked'
<1> DEFINE M == delta'
           e == MergeVerifiedDelta(M, doc[r], h, DeviceId[r], TRUE)
<1>1. /\ ExtendsContent(delta, M) /\ ContentOK(M)
      /\ DOMAIN M = DOMAIN delta \cup {h}
  BY AuthorStep DEF Base, Exists, ContentOK
<1>2. M[h].op = op /\ M[h].sealed
  BY DEF Author, Publish, Put
<1>3. work' = Idle /\ doc' = [doc EXCEPT ![r] = e]
  BY DEF Author
<1>4. \A q \in Replicas : GoodDoc(M, doc[q]) /\ Backed(M, doc[q])
  BY <1>1, GoodDocExtends, BackedExtends DEF AllGood, AllBacked, Base
<1>5. Backed(M, e)
  <2>1. h \in DOMAIN M /\ GoodDoc(M, doc[r]) /\ Backed(M, doc[r])
    BY <1>1, <1>4
  <2> HIDE DEF M
  <2> QED
    BY <1>1, <1>2, <2>1, MergeKeepsBacked
<1>6. ByOps(M)
  BY <1>1, <1>2 DEF AllBacked, ByOps, ExtendsContent
<1> HIDE DEF e
<1>7. \A q \in Replicas : doc'[q] = IF q = r THEN e ELSE doc[q]
  BY <1>3 DEF Base
<1>8. \A q \in Replicas : Backed(M, doc'[q])
  BY <1>4, <1>5, <1>7
<1> QED
  BY <1>3, <1>6, <1>8 DEF AllBacked, WorkFits, ByOps, Backed

LEMMA CraftBacked ==
  ASSUME Base, AllGood, AllBacked, NEW r \in Replicas, NEW op \in Ops, NEW now \in Readings,
         NEW h \in Hashes, NEW parents \in SUBSET Exists, NEW node \in Nodes,
         NEW sound, Craft(r, op, parents, node, sound, now, h)
  PROVE  AllBacked'
<1> DEFINE M == delta'
<1>1. ExtendsContent(delta, M) /\ DOMAIN M = DOMAIN delta \cup {h}
  BY CraftStep DEF Exists
<1>2. M[h].op = op /\ work' = Idle /\ doc' = doc
  BY DEF Craft, Publish, Put
<1>3. \A q \in Replicas : Backed(M, doc'[q])
  BY <1>1, <1>2, BackedExtends DEF AllGood, AllBacked
<1>4. ByOps(M)
  BY <1>1, <1>2 DEF AllBacked, ByOps, ExtendsContent
<1> QED
  BY <1>2, <1>3, <1>4 DEF AllBacked, WorkFits, ByOps, Backed

\* One document changes to a backed one and no import is under way.
LEMMA OneBackedChanges ==
  ASSUME Base, AllBacked, work = Idle, NEW r \in Replicas, NEW e, Backed(delta, e),
         doc' = [doc EXCEPT ![r] = e], UNCHANGED <<delta, work>>
  PROVE  AllBacked'
<1>1. \A q \in Replicas : doc'[q] = IF q = r THEN e ELSE doc[q]
  BY DEF Base
<1>2. \A q \in Replicas : Backed(delta, doc'[q])
  BY <1>1 DEF AllBacked
<1> QED
  BY <1>2 DEF AllBacked, WorkFits, ByOps, Backed

LEMMA DeliverBacked ==
  ASSUME Base, AllGood, AllBacked, NEW r \in Replicas, NEW h \in Exists, NEW p \in Proofs(h),
         Deliver(r, h, p)
  PROVE  AllBacked'
<1> DEFINE e == MergeVerifiedDelta(delta, doc[r], h, p.by, p.sig)
<1>1. Backed(delta, e)
  <2>1. p.sig => delta[h].sealed
    BY ProofsAreSealed
  <2> QED
    BY <2>1, MergeKeepsBacked DEF Base, AllGood, AllBacked, Exists
<1>2. work = Idle /\ doc' = [doc EXCEPT ![r] = e] /\ UNCHANGED <<delta, work>>
  BY DEF Deliver
<1> HIDE DEF e
<1> QED
  BY <1>1, <1>2, OneBackedChanges

LEMMA MergeStateBacked ==
  ASSUME Base, AllGood, AllBacked, NEW r \in Replicas, NEW q \in Replicas, MergeState(r, q)
  PROVE  AllBacked'
<1> DEFINE e == Join(delta, doc[r], doc[q])
<1>1. Backed(delta, e)
  BY JoinKeepsBacked DEF Base, AllGood, AllBacked
<1>2. work = Idle /\ doc' = [doc EXCEPT ![r] = e] /\ UNCHANGED <<delta, work>>
  BY DEF MergeState
<1> HIDE DEF e
<1> QED
  BY <1>1, <1>2, OneBackedChanges

\* A bundle with proofs is one of deltas that its maker held.
LEMMA StartImportBacked ==
  ASSUME Base, AllGood, AllBacked, NEW r \in Replicas, NEW target, NEW deltas \in SUBSET Exists,
         NEW vouched, StartImport(r, target, deltas, vouched),
         DOMAIN vouched # {} =>
           \A h \in deltas \ {Genesis} :
             h \in DOMAIN vouched /\ Admissible(delta, h, vouched[h])
  PROVE  AllBacked'
<1>1. /\ UNCHANGED <<delta, doc>>
      /\ work' = [to |-> r, copy |-> doc[r], todo |-> deltas, vouched |-> vouched]
      /\ \A h \in deltas : delta[h].parents \subseteq deltas \cup doc[r].dag.held
  BY DEF StartImport, BundleSound
<1>2. work'.copy = doc[r] /\ work'.todo = deltas /\ work'.vouched = vouched
  BY <1>1
<1>3. ByOps(delta)' /\ (\A q \in Replicas : Backed(delta, doc[q]))' /\ Backed(delta, work.copy)'
  BY <1>1, <1>2 DEF AllBacked, ByOps, Backed
<1>4. WorkFits'
  BY <1>1, <1>2 DEF WorkFits, Admissible, PastIn
<1> QED
  BY <1>3, <1>4 DEF AllBacked

LEMMA ImportFromBacked ==
  ASSUME Base, AllGood, AllBacked, NEW r \in Replicas, NEW q \in Replicas, ImportFrom(r, q)
  PROVE  AllBacked'
<1> DEFINE H == doc[q].dag.held
           B == ExportBundle(delta, doc[q])
<1>1. PICK head \in doc[q].dag.frontier : StartImport(r, head, B, doc[q].log)
  BY DEF ImportFrom
<1>2. B \in SUBSET Exists
  BY ExportsExist DEF Exists
<1>3. /\ GoodDoc(delta, doc[q]) /\ Backed(delta, doc[q])
      /\ H \subseteq DOMAIN delta /\ DOMAIN doc[q].log = H
      /\ \A h \in H : delta[h].parents \subseteq H
  BY DEF AllGood, AllBacked, GoodDoc, IsDocument, CompleteIn, Referenced
<1>4. B \subseteq H
  <2> SUFFICES ASSUME NEW g \in doc[q].dag.frontier
               PROVE  Visited(delta, H, {g}, {}) \subseteq H
    BY DEF ExportBundle, ExtractClosure
  <2>1. g \in H
    BY <1>3, FrontierIsHeld
  <2>2. TraversalClosed(delta, H, {g}, {}, H)
    BY <1>3, <2>1 DEF TraversalClosed
  <2> QED
    BY <1>3, <2>2, VisitedIsLeast
<1> HIDE DEF B
<1>5. \A h \in B \ {Genesis} :
        h \in DOMAIN doc[q].log /\ Admissible(delta, h, doc[q].log[h])
  BY <1>3, <1>4, HeldIsAdmissible
<1> QED
  BY <1>1, <1>2, <1>5, StartImportBacked

LEMMA ImportCraftedBacked ==
  ASSUME Base, AllGood, AllBacked, NEW r \in Replicas, NEW deltas \in SUBSET Exists,
         NEW target \in deltas, ImportCrafted(r, target, deltas)
  PROVE  AllBacked'
<1>1. StartImport(r, target, deltas, EmptyMap) /\ DOMAIN EmptyMap = {}
  BY DEF ImportCrafted, EmptyMap
<1> QED
  BY <1>1, StartImportBacked

\* A step of the replay, which leaves the working copy e and the rest of the
\* bundle.
LEMMA WorkBacked ==
  ASSUME Base, AllBacked, work # Idle, UNCHANGED <<delta, doc>>, NEW h, NEW e,
         work' = [to |-> work.to, copy |-> e, todo |-> work.todo \ {h},
                  vouched |-> work.vouched],
         Backed(delta, e), work.copy.dag.held \cup {h} \subseteq e.dag.held
  PROVE  AllBacked'
<1>1. work'.copy = e /\ work'.todo = work.todo \ {h} /\ work'.vouched = work.vouched
  OBVIOUS
<1>2. ByOps(delta)' /\ (\A q \in Replicas : Backed(delta, doc[q]))' /\ Backed(delta, work.copy)'
  BY <1>1 DEF AllBacked, ByOps, Backed
<1>3. /\ \A g \in work.todo : delta[g].parents \subseteq work.todo \cup work.copy.dag.held
      /\ DOMAIN work.vouched # {} =>
           \A g \in work.todo \ {Genesis} :
             g \in DOMAIN work.vouched /\ Admissible(delta, g, work.vouched[g])
  BY DEF AllBacked, WorkFits
<1>4. \A g \in work'.todo : delta[g].parents \subseteq work'.todo \cup work'.copy.dag.held
  BY <1>1, <1>3
<1>5. WorkFits'
  BY <1>1, <1>3, <1>4 DEF WorkFits, Admissible, PastIn
<1> QED
  BY <1>2, <1>5 DEF AllBacked

LEMMA SkipBacked ==
  ASSUME Base, AllBacked, NEW h, Skip(h)
  PROVE  AllBacked'
<1>1. /\ work # Idle /\ UNCHANGED <<delta, doc>> /\ h \in work.copy.dag.held
      /\ work' = [work EXCEPT !.todo = @ \ {h}]
  BY DEF Skip
<1>2. work' = [to |-> work.to, copy |-> work.copy, todo |-> work.todo \ {h},
               vouched |-> work.vouched]
  BY <1>1 DEF Base, WorkOK
<1>3. Backed(delta, work.copy) /\ work.copy.dag.held \cup {h} \subseteq work.copy.dag.held
  BY <1>1 DEF AllBacked
<1> QED
  BY <1>1, <1>2, <1>3, WorkBacked

LEMMA ReplayBacked ==
  ASSUME Base, AllGood, AllBacked, NEW h \in work.todo, NEW p \in BundledProofs(h), Replay(h, p)
  PROVE  AllBacked'
<1> DEFINE e == Apply(delta, work.copy, h, p.by)
<1>1. /\ work # Idle /\ UNCHANGED <<delta, doc>>
      /\ Admits(delta, work.copy, h, p.by, p.sig)
      /\ work' = [work EXCEPT !.todo = @ \ {h}, !.copy = e]
  BY DEF Replay
<1>2. h \in Exists /\ ContentOK(delta) /\ GoodDoc(delta, work.copy) /\ Backed(delta, work.copy)
  BY <1>1 DEF Base, WorkOK, AllGood, AllBacked
<1>3. p.sig => delta[h].sealed
  BY <1>2, ProofsAreSealed
<1>4. e.dag.held = work.copy.dag.held \cup {h} /\ Backed(delta, e)
  BY <1>1, <1>2, <1>3, ApplyKeepsGood, ApplyKeepsBacked DEF Exists
<1> HIDE DEF e
<1>5. work' = [to |-> work.to, copy |-> e, todo |-> work.todo \ {h},
               vouched |-> work.vouched]
  BY <1>1 DEF Base, WorkOK
<1> QED
  BY <1>1, <1>4, <1>5, WorkBacked

LEMMA NextBacked ==
  ASSUME Base, AllGood, AllBacked, [Next]_vars
  PROVE  AllBacked'
<1>1. ASSUME NEW r \in Replicas, NEW op \in Ops, NEW now \in Readings, NEW h \in Hashes,
             Author(r, op, now, h)
      PROVE  AllBacked'
  BY <1>1, AuthorBacked
<1>2. ASSUME NEW r \in Replicas, NEW op \in Ops, NEW now \in Readings, NEW h \in Hashes,
             NEW parents \in SUBSET Exists, NEW node \in Nodes, NEW sound \in BOOLEAN,
             Craft(r, op, parents, node, sound, now, h)
      PROVE  AllBacked'
  BY <1>2, CraftBacked
<1>3. ASSUME NEW r \in Replicas, NEW h \in Exists, NEW p \in Proofs(h), Deliver(r, h, p)
      PROVE  AllBacked'
  BY <1>3, DeliverBacked
<1>4. ASSUME NEW r \in Replicas, NEW q \in Replicas, MergeState(r, q)
      PROVE  AllBacked'
  BY <1>4, MergeStateBacked
<1>5. ASSUME NEW r \in Replicas, NEW q \in Replicas, ImportFrom(r, q)
      PROVE  AllBacked'
  BY <1>5, ImportFromBacked
<1>6. ASSUME NEW r \in Replicas, NEW deltas \in SUBSET Exists, NEW target \in deltas,
             ImportCrafted(r, target, deltas)
      PROVE  AllBacked'
  BY <1>6, ImportCraftedBacked
<1>7. ASSUME NEW h \in work.todo, Skip(h)
      PROVE  AllBacked'
  BY <1>7, SkipBacked
<1>8. ASSUME NEW h \in work.todo, NEW p \in BundledProofs(h), Replay(h, p)
      PROVE  AllBacked'
  BY <1>8, ReplayBacked
<1>9. ASSUME NEW h \in work.todo, NEW p \in BundledProofs(h), Abort(h, p)
      PROVE  AllBacked'
  <2>1. UNCHANGED <<delta, doc>> /\ work' = Idle
    BY <1>9 DEF Abort
  <2> QED
    BY <2>1 DEF AllBacked, WorkFits, ByOps, Backed
<1>10. CASE Commit
  <2>1. /\ work # Idle /\ work' = Idle /\ UNCHANGED delta
        /\ doc' = [doc EXCEPT ![work.to] = work.copy]
    BY <1>10 DEF Commit
  <2>2. \A q \in Replicas : doc'[q] = IF q = work.to THEN work.copy ELSE doc[q]
    BY <2>1 DEF Base
  <2>3. \A q \in Replicas : Backed(delta, doc'[q])
    BY <2>1, <2>2 DEF AllBacked
  <2> QED
    BY <2>1, <2>3 DEF AllBacked, WorkFits, ByOps, Backed
<1>11. CASE UNCHANGED vars
  BY <1>11 DEF vars, AllBacked, WorkFits, ByOps, Backed, Admissible, PastIn
<1> QED
  BY <1>1, <1>2, <1>3, <1>4, <1>5, <1>6, <1>7, <1>8, <1>9, <1>10, <1>11 DEF Next

\* What admission reads from the fields of a document, keys, revoked keys and
\* the deactivation, is what the deltas in its log say, on every path (the
\* state-import floor of Document::merge has nothing to add).
THEOREM FieldsAreBacked == Spec => []AllBacked
<1>1. DocInv => Base /\ AllGood
  BY InvByDocument
<1>2. DocInv /\ AllBacked /\ [Next]_vars => AllBacked'
  BY <1>1, NextBacked
<1> QED
  BY InitBacked, <1>2, DocInvariant, PTL DEF Spec

\* Replicas that can decide about a delta decide alike, whatever else they hold
\* and however they got it, for any number of replicas, rogue devices and
\* altered proofs included, provided no id is given to two keys
\* (document.rs, "it is order-independent").
THEOREM AdmissionAgrees ==
  ASSUME OneKeyPerId
  PROVE  Spec => []AdmissionAgreement
<1>1. DocInv /\ AllBacked => AdmissionAgreement
  <2> SUFFICES ASSUME Base, AllGood, AllBacked, NEW h \in Exists \ {Genesis},
                      NEW proof \in Proofs(h), NEW r \in Replicas, NEW q \in Replicas,
                      ~ Undecided(doc[r], h, proof), ~ Undecided(doc[q], h, proof),
                      Takes(doc[r], h, proof)
               PROVE  Takes(doc[q], h, proof)
    <3>1. DocInv => Base /\ AllGood
      BY InvByDocument
    <3> QED
      BY <3>1 DEF AdmissionAgreement
  <2>1. /\ ContentOK(delta) /\ ByOps(delta) /\ h \in DOMAIN delta
        /\ GoodDoc(delta, doc[r]) /\ GoodDoc(delta, doc[q])
        /\ Backed(delta, doc[r]) /\ Backed(delta, doc[q])
    BY DEF Base, AllGood, AllBacked, Exists
  <2>2. Admissible(delta, h, proof.by) /\ proof.sig
    <3>1. CASE h \in doc[r].dag.held
      <4>1. doc[r].log[h] = proof.by /\ proof.sig
        BY <3>1 DEF Undecided
      <4> QED
        BY <2>1, <3>1, <4>1, HeldIsAdmissible
    <3>2. CASE h \notin doc[r].dag.held
      <4>1. Admits(delta, doc[r], h, proof.by, proof.sig) /\ (proof.sig => delta[h].sealed)
        BY <3>2, ProofsAreSealed DEF Takes
      <4> QED
        BY <2>1, <4>1, AdmittedIsAdmissible
    <3> QED
      BY <3>1, <3>2
  <2>3. CASE h \notin doc[q].dag.held
    <3>1. ~ IsPending(delta, doc[q], h, proof.by)
      BY <2>3 DEF Undecided
    <3>2. Admits(delta, doc[q], h, proof.by, TRUE)
      BY <2>1, <2>2, <2>3, <3>1, AdmissibleIsAdmitted
    <3>3. Admits(delta, doc[q], h, proof.by, proof.sig)
      BY <2>2, <3>2 DEF Admits, VerifySignature
    <3> QED
      BY <3>3 DEF Takes
  <2> QED
    BY <2>3 DEF Takes
<1> QED
  BY <1>1, DocInvariant, FieldsAreBacked, PTL

\* No delta of a bundle that export_bundle made is refused during the import at
\* any other replica, provided no id is given to two keys: an import never
\* stops half way because of what the importer knows.
THEOREM ExportsReplay ==
  ASSUME OneKeyPerId
  PROVE  Spec => []ExportReplays
<1>1. DocInv /\ AllBacked => ExportReplays
  <2> SUFFICES ASSUME Base, AllGood, AllBacked, work # Idle, DOMAIN work.vouched # {},
                      NEW h \in work.todo, Ready(h), h \notin work.copy.dag.held
               PROVE  Admits(delta, work.copy, h, work.vouched[h], delta[h].sealed)
    <3>1. DocInv => Base /\ AllGood
      BY InvByDocument
    <3> QED
      BY <3>1 DEF ExportReplays
  <2> DEFINE d == work.copy
             H == d.dag.held
             by == work.vouched[h]
  <2>1. /\ ContentOK(delta) /\ ByOps(delta) /\ h \in DOMAIN delta
        /\ GoodDoc(delta, d) /\ Backed(delta, d)
    BY DEF Base, WorkOK, AllGood, AllBacked, Exists
  <2>2. H \subseteq DOMAIN delta /\ Genesis \in H /\ \A g \in H : delta[g].parents \subseteq H
    BY <2>1 DEF GoodDoc, IsDocument, CompleteIn, Referenced
  <2>3. Admissible(delta, h, by) /\ delta[h].parents \subseteq H
    BY <2>2 DEF AllBacked, WorkFits, Ready
  <2>4. Visited(delta, H, delta[h].parents, {}) \subseteq H
    <3>1. TraversalClosed(delta, H, delta[h].parents, {}, H)
      BY <2>2, <2>3 DEF TraversalClosed
    <3> QED
      BY <2>2, <3>1, VisitedIsLeast
  <2>5. ~ IsPending(delta, d, h, by)
    <3> DEFINE V == Visited(delta, H, delta[h].parents, {})
    <3>1. Verdict(delta, d, h, by) = Decide(delta, V \cap H, V \ H, by) /\ V \ H = {}
      BY <2>3, <2>4 DEF Verdict, VerifyCausal, Admissible
    <3> HIDE DEF V
    <3> QED
      BY <3>1 DEF IsPending, IsResolved, Decide, Invalid, Valid
  <2> HIDE DEF d, by
  <2>6. Admits(delta, d, h, by, TRUE)
    BY <2>1, <2>3, <2>5, AdmissibleIsAdmitted DEF d
  <2>7. delta[h].sealed
    BY <2>3 DEF Admissible
  <2> QED
    BY <2>6, <2>7 DEF Admits, VerifySignature, d, by
<1> QED
  BY <1>1, DocInvariant, FieldsAreBacked, PTL

----------------------------------------------------------------------------
(* Refinement *)

Graph == [h \in Exists |-> delta[h].parents]
Held == [r \in Replicas |-> doc[r].dag.held]

\* A step that adds deltas to one replica and creates none.
LEMMA LearnStep ==
  ASSUME Base, AllGood, Base', AllGood', NEW r \in Replicas, NEW H \in SUBSET Exists,
         UNCHANGED delta, \A q \in Replicas \ {r} : doc'[q] = doc[q],
         doc'[r].dag.held = doc[r].dag.held \cup H
  PROVE  Log!Next
<1>1. Graph' = Graph /\ DOMAIN Graph = Exists
  BY DEF Graph, Exists
<1>2. Held' = [Held EXCEPT ![r] = @ \cup H]
  BY DEF Held
<1>3. doc[r].dag.held \cup H \subseteq Exists
  BY DEF AllGood, GoodDoc, IsDocument, Exists
<1>4. \A h \in Held[r] \cup H : Graph[h] \subseteq Held[r] \cup H
  <2>1. Referenced(delta', doc'[r].dag.held) \subseteq doc'[r].dag.held
    BY DEF AllGood, GoodDoc, CompleteIn
  <2>2. \A h \in doc'[r].dag.held : delta[h].parents \subseteq doc'[r].dag.held
    BY <2>1 DEF Referenced
  <2> QED
    BY <1>3, <2>2 DEF Graph, Held
<1>5. Log!CausallyClosed(Held[r] \cup H)
  BY <1>1, <1>3, <1>4 DEF Log!CausallyClosed, Log!Known, Graph, Held
<1>6. Log!Learn(r, H)
  BY <1>1, <1>2, <1>5 DEF Log!Learn, Log!Known, Graph, Held
<1> QED
  BY <1>1, <1>6 DEF Log!Next, Log!Known, Graph

\* A step that creates a delta, and perhaps puts it into its author's replica.
LEMMA CreateStep ==
  ASSUME Base, AllGood, Base', NEW r \in Replicas, NEW h \in Hashes \ Exists,
         Exists' = Exists \cup {h},
         \A g \in Exists : delta'[g].parents = delta[g].parents,
         \A q \in Replicas \ {r} : doc'[q] = doc[q],
         delta'[h].parents \subseteq Exists,
         \/ doc'[r].dag.held = doc[r].dag.held
         \/ /\ doc'[r].dag.held = doc[r].dag.held \cup {h}
            /\ delta'[h].parents \subseteq doc[r].dag.held
  PROVE  Log!Next
<1>0. PICK parents \in SUBSET Exists : parents = delta'[h].parents
  OBVIOUS
<1>1. Graph' = [x \in Exists \cup {h} |-> IF x = h THEN parents ELSE Graph[x]]
  BY <1>0 DEF Graph
<1>2. \/ Held' = Held
      \/ parents \subseteq Held[r] /\ Held' = [Held EXCEPT ![r] = @ \cup {h}]
  BY <1>0 DEF Held
<1>3. DOMAIN Graph = Exists
  BY DEF Graph
<1>4. Log!Create(r, h, parents)
  BY <1>0, <1>1, <1>2, <1>3 DEF Log!Create, Log!Extended, Log!Known, Graph, Held
<1> QED
  BY <1>0, <1>3, <1>4 DEF Log!Next, Log!Known, Graph

\* The replicas implement the abstract log, whatever arrives in whatever order.
THEOREM RefinesLog == Spec => ImplementsLog
<1>1. Init => Log!Init
  <2> SUFFICES ASSUME Init
               PROVE  Log!Init
    OBVIOUS
  <2>1. Graph = [h \in {Genesis} |-> {}]
    BY DEF Init, Graph, Exists, GenesisDelta
  <2>2. Held = [r \in Replicas |-> {Genesis}]
    BY DEF Init, Held, NewDocument
  <2> QED
    BY <2>1, <2>2 DEF Log!Init, Graph, Held
<1>2. DocInv /\ DocInv' /\ [Next]_vars => [Log!Next]_<<Graph, Held>>
  <2> SUFFICES ASSUME Base, AllGood, Base', AllGood', [Next]_vars
               PROVE  Log!Next \/ UNCHANGED <<Graph, Held>>
    <3>1. DocInv => Base /\ AllGood
      BY InvByDocument
    <3>2. DocInv' => Base' /\ AllGood'
      BY InvByDocument, PTL
    <3> QED
      BY <3>1, <3>2
  <2>a. UNCHANGED <<delta, doc>> => UNCHANGED <<Graph, Held>>
    BY DEF Graph, Held, Exists
  <2>1. ASSUME NEW r \in Replicas, NEW op \in Ops, NEW now \in Readings, NEW h \in Hashes,
               Author(r, op, now, h)
        PROVE  Log!Next \/ UNCHANGED <<Graph, Held>>
    <3>1. /\ Exists' = Exists \cup {h}
          /\ \A g \in Exists : delta'[g].parents = delta[g].parents
          /\ delta'[h].parents \subseteq doc[r].dag.held
          /\ \A q \in Replicas \ {r} : doc'[q] = doc[q]
          /\ \/ doc'[r].dag.held = doc[r].dag.held
             \/ doc'[r].dag.held = doc[r].dag.held \cup {h}
      BY <2>1, AuthorStep
    <3>2. doc[r].dag.held \subseteq Exists
      BY DEF AllGood, GoodDoc, IsDocument, Exists
    <3>3. CASE h \notin Exists
      BY <3>1, <3>2, <3>3, CreateStep
    <3>4. CASE h \in Exists
      <4>1. Graph' = Graph
        BY <3>1, <3>4 DEF Graph
      <4>2. CASE doc'[r].dag.held = doc[r].dag.held
        <5>1. Held' = Held
          BY <3>1, <4>2 DEF Held
        <5> QED
          BY <4>1, <5>1
      <4>3. CASE doc'[r].dag.held = doc[r].dag.held \cup {h}
        <5>1. Held' = [Held EXCEPT ![r] = @ \cup {h}]
          BY <3>1, <4>3 DEF Held
        <5>2. \A g \in Held[r] \cup {h} : Graph[g] \subseteq Held[r] \cup {h}
          <6>1. \A g \in doc[r].dag.held : delta[g].parents \subseteq doc[r].dag.held
            BY DEF AllGood, GoodDoc, CompleteIn, Referenced
          <6> QED
            BY <3>1, <3>2, <3>4, <6>1 DEF Graph, Held
        <5>3. Log!CausallyClosed(Held[r] \cup {h})
          BY <3>2, <3>4, <5>2 DEF Log!CausallyClosed, Log!Known, Graph, Held
        <5>4. Log!Learn(r, {h})
          BY <3>4, <4>1, <5>1, <5>3 DEF Log!Learn, Log!Known, Graph, Held
        <5> QED
          BY <3>4, <5>4 DEF Log!Next, Log!Known, Graph
      <4> QED
        BY <3>1, <4>2, <4>3
    <3> QED
      BY <3>3, <3>4
  <2>2. ASSUME NEW r \in Replicas, NEW op \in Ops, NEW now \in Readings, NEW h \in Hashes,
               NEW parents \in SUBSET Exists, NEW node \in Nodes, NEW sound \in BOOLEAN,
               Craft(r, op, parents, node, sound, now, h)
        PROVE  Log!Next \/ UNCHANGED <<Graph, Held>>
    <3>1. /\ h \notin Exists /\ Exists' = Exists \cup {h}
          /\ \A g \in Exists : delta'[g].parents = delta[g].parents
          /\ delta'[h].parents = parents /\ doc' = doc
      BY <2>2, CraftStep
    <3> QED
      BY <3>1, CreateStep
  <2>3. ASSUME NEW r \in Replicas, NEW h \in Exists, NEW p \in Proofs(h), Deliver(r, h, p)
        PROVE  Log!Next \/ UNCHANGED <<Graph, Held>>
    <3>1. /\ \A q \in Replicas \ {r} : doc'[q] = doc[q]
          /\ \/ doc'[r].dag.held = doc[r].dag.held \cup {}
             \/ doc'[r].dag.held = doc[r].dag.held \cup {h}
      BY <2>3, DeliverStep
    <3>2. UNCHANGED delta
      BY <2>3 DEF Deliver
    <3>3. {} \in SUBSET Exists /\ {h} \in SUBSET Exists
      OBVIOUS
    <3> QED
      BY <3>1, <3>2, <3>3, LearnStep
  <2>4. ASSUME NEW r \in Replicas, NEW q \in Replicas, MergeState(r, q)
        PROVE  Log!Next \/ UNCHANGED <<Graph, Held>>
    <3>1. /\ \A s \in Replicas \ {r} : doc'[s] = doc[s]
          /\ doc'[r].dag.held = doc[r].dag.held \cup doc[q].dag.held
      BY <2>4, MergeStateStep
    <3>2. UNCHANGED delta
      BY <2>4 DEF MergeState
    <3>3. doc[q].dag.held \in SUBSET Exists
      BY DEF AllGood, GoodDoc, IsDocument, Exists
    <3> QED
      BY <3>1, <3>2, <3>3, LearnStep
  <2>5. ASSUME NEW r \in Replicas, NEW q \in Replicas, ImportFrom(r, q)
        PROVE  Log!Next \/ UNCHANGED <<Graph, Held>>
    BY <2>5, <2>a DEF ImportFrom, StartImport
  <2>6. ASSUME NEW r \in Replicas, NEW deltas \in SUBSET Exists, NEW target \in deltas,
               ImportCrafted(r, target, deltas)
        PROVE  Log!Next \/ UNCHANGED <<Graph, Held>>
    BY <2>6, <2>a DEF ImportCrafted, StartImport
  <2>7. ASSUME NEW h \in work.todo, Skip(h)
        PROVE  Log!Next \/ UNCHANGED <<Graph, Held>>
    BY <2>7, <2>a DEF Skip
  <2>8. ASSUME NEW h \in work.todo, NEW p \in BundledProofs(h), Replay(h, p)
        PROVE  Log!Next \/ UNCHANGED <<Graph, Held>>
    BY <2>8, <2>a DEF Replay
  <2>9. ASSUME NEW h \in work.todo, NEW p \in BundledProofs(h), Abort(h, p)
        PROVE  Log!Next \/ UNCHANGED <<Graph, Held>>
    BY <2>9, <2>a DEF Abort
  <2>10. CASE Commit
    <3> DEFINE r == work.to
               H == work.copy.dag.held
    <3>1. /\ r \in Replicas /\ UNCHANGED delta
          /\ \A s \in Replicas \ {r} : doc'[s] = doc[s]
          /\ doc'[r].dag.held = H
          /\ doc[r].dag.held \subseteq H
          /\ H \subseteq Exists
      BY <2>10, CommitStep DEF GoodDoc, IsDocument, Exists
    <3> HIDE DEF r, H
    <3>2. doc'[r].dag.held = doc[r].dag.held \cup H
      BY <3>1
    <3> QED
      BY <3>1, <3>2, LearnStep
  <2>11. CASE UNCHANGED vars
    BY <2>11, <2>a DEF vars
  <2> QED
    BY <2>1, <2>2, <2>3, <2>4, <2>5, <2>6, <2>7, <2>8, <2>9, <2>10, <2>11 DEF Next
<1> QED
  BY <1>1, <1>2, DocInvariant, PTL DEF Spec, ImplementsLog, Log!Spec, Graph, Held

----------------------------------------------------------------------------
(* The conjunction of admission verdicts (AdmissionResult::meet), for every *)
(* set of delta hashes: it is a semilattice, so sub-checks may be combined  *)
(* in any order and repeatedly, and a refusal stays one as the predecessors *)
(* an undecided sub-check waits for arrive.                                 *)

\* A verdict is one of the three, with what belongs to it.
LEMMA ResultCases ==
  ASSUME NEW H, NEW v \in Results(H)
  PROVE  \/ v.kind = "Valid" /\ v = Valid
         \/ v.kind = "Invalid" /\ v.reason \in RejectReasons /\ v = Invalid(v.reason)
         \/ v.kind = "Unknown" /\ v.missing \in SUBSET H /\ v = Unknown(v.missing)
  BY DEF Results, Valid, Invalid, Unknown

\* The conjunction of verdicts is a verdict; two refusals keep a reason, and
\* what is missing for either is missing for both.
THEOREM MeetIsResult ==
  ASSUME NEW H, NEW a \in Results(H), NEW b \in Results(H)
  PROVE  Meet(a, b) \in Results(H)
<1>1. CASE a.kind = "Invalid" /\ b.kind = "Invalid"
  <2>1. a.reason \in RejectReasons /\ b.reason \in RejectReasons
    BY <1>1, ResultCases DEF Valid, Unknown
  <2>2. Meet(a, b) = Invalid(a.reason) \/ Meet(a, b) = Invalid(b.reason)
    BY <1>1 DEF Meet
  <2> QED  BY <2>1, <2>2 DEF Results
<1>2. CASE a.kind # "Invalid" /\ b.kind # "Invalid"
  <2>1. a.missing \in SUBSET H /\ b.missing \in SUBSET H
    BY <1>2, ResultCases DEF Valid, Unknown
  <2>2. Meet(a, b) = Unknown(a.missing \cup b.missing) \/ Meet(a, b) = Valid
    BY <1>2 DEF Meet
  <2>3. a.missing \cup b.missing \in SUBSET H
    BY <2>1
  <2> QED  BY <2>2, <2>3 DEF Results
<1> QED  BY <1>1, <1>2 DEF Meet

\* Order does not matter (admission.rs, "the order in which sub-checks are
\* combined does not affect the result").
THEOREM MeetCommutes ==
  ASSUME NEW H, NEW a \in Results(H), NEW b \in Results(H)
  PROVE  Meet(a, b) = Meet(b, a)
<1>1. CASE a.kind = "Invalid" /\ b.kind = "Invalid"
  <2>1. a.reason \in Nat /\ b.reason \in Nat
    BY <1>1, ResultCases DEF Valid, Unknown, RejectReasons, DidMismatch, TooLarge
  <2>2. (IF b.reason < a.reason THEN b.reason ELSE a.reason)
          = (IF a.reason < b.reason THEN a.reason ELSE b.reason)
    BY <2>1
  <2> QED  BY <1>1, <2>2 DEF Meet
<1>2. CASE a.kind # "Invalid" /\ b.kind # "Invalid"
  <2>1. a.missing \cup b.missing = b.missing \cup a.missing
    OBVIOUS
  <2> QED  BY <1>2, <2>1 DEF Meet
<1> QED  BY <1>1, <1>2 DEF Meet

\* Nor does it matter that a sub-check is taken twice.
THEOREM MeetIdempotent ==
  ASSUME NEW H, NEW a \in Results(H)
  PROVE  Meet(a, a) = a
<1>1. CASE a = Valid
  BY <1>1 DEF Meet, Valid
<1>2. CASE a = Invalid(a.reason)
  <2>1. a.kind = "Invalid"
    BY <1>2 DEF Invalid
  <2> QED  BY <1>2, <2>1 DEF Meet
<1>3. CASE a = Unknown(a.missing)
  <2>1. a.kind = "Unknown" /\ a.missing \cup a.missing = a.missing
    BY <1>3 DEF Unknown
  <2> QED  BY <1>3, <2>1 DEF Meet
<1> QED  BY <1>1, <1>2, <1>3, ResultCases

\* The parts of a conjunction, as a further conjunction looks at them.
LEMMA MeetParts ==
  ASSUME NEW H, NEW a \in Results(H), NEW b \in Results(H)
  PROVE  /\ Meet(a, b).kind = "Invalid" <=> a.kind = "Invalid" \/ b.kind = "Invalid"
         /\ Meet(a, b).kind = "Unknown" <=>
              /\ a.kind # "Invalid" /\ b.kind # "Invalid"
              /\ a.kind = "Unknown" \/ b.kind = "Unknown"
         /\ a.kind # "Invalid" /\ b.kind # "Invalid" =>
              Meet(a, b).missing = a.missing \cup b.missing
         /\ a.kind = "Invalid" /\ b.kind = "Invalid" =>
              Meet(a, b).reason = IF b.reason < a.reason THEN b.reason ELSE a.reason
<1>1. CASE a.kind = "Invalid" /\ b.kind = "Invalid"
  BY <1>1 DEF Meet, Invalid
<1>2. CASE a.kind # "Invalid" /\ b.kind # "Invalid"
  <2>1. CASE a.kind = "Unknown" \/ b.kind = "Unknown"
    BY <1>2, <2>1 DEF Meet, Unknown
  <2>2. CASE a.kind # "Unknown" /\ b.kind # "Unknown"
    <3>1. a = Valid /\ b = Valid
      BY <1>2, <2>2, ResultCases
    <3> QED  BY <1>2, <2>2, <3>1 DEF Meet, Valid
  <2> QED  BY <2>1, <2>2
<1> QED  BY <1>1, <1>2 DEF Meet

\* Nor how they are grouped.
THEOREM MeetAssociates ==
  ASSUME NEW H, NEW a \in Results(H), NEW b \in Results(H), NEW c \in Results(H)
  PROVE  Meet(Meet(a, b), c) = Meet(a, Meet(b, c))
<1> DEFINE ab == Meet(a, b)
           bc == Meet(b, c)
<1>1. ab \in Results(H) /\ bc \in Results(H)
  BY MeetIsResult
<1>2. CASE a.kind # "Invalid" /\ b.kind # "Invalid" /\ c.kind # "Invalid"
  <2>1. /\ ab.kind # "Invalid" /\ ab.missing = a.missing \cup b.missing
        /\ ab.kind = "Unknown" <=> a.kind = "Unknown" \/ b.kind = "Unknown"
    BY <1>2, MeetParts
  <2>2. /\ bc.kind # "Invalid" /\ bc.missing = b.missing \cup c.missing
        /\ bc.kind = "Unknown" <=> b.kind = "Unknown" \/ c.kind = "Unknown"
    BY <1>2, MeetParts
  <2>3. (a.missing \cup b.missing) \cup c.missing = a.missing \cup (b.missing \cup c.missing)
    OBVIOUS
  <2> HIDE DEF ab, bc
  <2>4. Meet(ab, c) = Meet(a, bc)
    BY <1>2, <2>1, <2>2, <2>3 DEF Meet
  <2> QED  BY <2>4 DEF ab, bc
<1>3. CASE a.kind = "Invalid" /\ b.kind = "Invalid" /\ c.kind = "Invalid"
  <2>1. a.reason \in Nat /\ b.reason \in Nat /\ c.reason \in Nat
    BY <1>3, ResultCases DEF Valid, Unknown, RejectReasons, DidMismatch, TooLarge
  <2>2. ab.kind = "Invalid" /\ ab.reason = IF b.reason < a.reason THEN b.reason ELSE a.reason
    BY <1>3, MeetParts
  <2>3. bc.kind = "Invalid" /\ bc.reason = IF c.reason < b.reason THEN c.reason ELSE b.reason
    BY <1>3, MeetParts
  <2> HIDE DEF ab, bc
  <2>4. (IF c.reason < ab.reason THEN c.reason ELSE ab.reason)
          = (IF bc.reason < a.reason THEN bc.reason ELSE a.reason)
    BY <2>1, <2>2, <2>3
  <2>5. Meet(ab, c) = Meet(a, bc)
    BY <1>3, <2>2, <2>3, <2>4 DEF Meet
  <2> QED  BY <2>5 DEF ab, bc
<1>4. CASE a.kind = "Invalid" /\ b.kind # "Invalid"
  <2>1. ab = a
    BY <1>4 DEF Meet
  <2>2. CASE c.kind = "Invalid"
    BY <1>4, <2>2 DEF Meet
  <2>3. CASE c.kind # "Invalid"
    <3>1. bc.kind # "Invalid"
      BY <1>4, <2>3, MeetParts
    <3> HIDE DEF bc
    <3> QED  BY <1>4, <2>1, <2>3, <3>1 DEF Meet, bc
  <2> QED  BY <2>2, <2>3
<1>5. CASE a.kind = "Invalid" /\ b.kind = "Invalid" /\ c.kind # "Invalid"
  <2>a. bc = b
    BY <1>5 DEF Meet
  <2>b. ab.kind = "Invalid"
    BY <1>5, MeetParts
  <2>1. bc = b /\ ab.kind = "Invalid"
    BY <2>a, <2>b
  <2>2. Meet(ab, c) = ab /\ Meet(a, bc) = ab
    <3> HIDE DEF ab, bc
    <3>1. Meet(ab, c) = ab
      BY <1>5, <2>1 DEF Meet
    <3> QED  BY <2>1, <3>1 DEF ab
  <2> QED  BY <2>2
<1>6. CASE a.kind # "Invalid" /\ b.kind = "Invalid"
  <2>a. ab = b
    BY <1>6 DEF Meet
  <2>b. bc.kind = "Invalid"
    BY <1>6, MeetParts
  <2>1. ab = b /\ bc.kind = "Invalid"
    BY <2>a, <2>b
  <2> HIDE DEF ab, bc
  <2>2. Meet(a, bc) = bc
    BY <1>6, <2>1 DEF Meet
  <2> QED  BY <2>1, <2>2 DEF ab, bc
<1>7. CASE a.kind # "Invalid" /\ b.kind # "Invalid" /\ c.kind = "Invalid"
  <2>a. bc = c
    BY <1>7 DEF Meet
  <2>b. ab.kind # "Invalid"
    BY <1>7, MeetParts
  <2>1. bc = c /\ ab.kind # "Invalid"
    BY <2>a, <2>b
  <2> HIDE DEF ab, bc
  <2>2. Meet(ab, c) = c /\ Meet(a, c) = c
    BY <1>7, <2>1 DEF Meet
  <2> QED  BY <2>1, <2>2 DEF ab, bc
<1> QED  BY <1>2, <1>3, <1>4, <1>5, <1>6, <1>7

\* A refusal is final: when a sub-check that was undecided is decided later,
\* either way, the conjunction stays a refusal; a delta is admitted only if
\* both sub-checks admit it, and decided once both are (admission.rs: only
\* Unknown may still change).
THEOREM RefusalIsPermanent ==
  ASSUME NEW H, NEW a \in Results(H), NEW b \in Results(H), NEW later \in Results(H)
  PROVE  /\ Meet(a, b).kind = "Invalid" /\ (IsResolved(b) => later = b)
              => Meet(a, later).kind = "Invalid"
         /\ Meet(a, b) = Valid => a = Valid /\ b = Valid
         /\ IsResolved(a) /\ IsResolved(b) => IsResolved(Meet(a, b))
<1>1. Meet(a, b) = Valid => a = Valid /\ b = Valid
  <2>1. ASSUME Meet(a, b) = Valid  PROVE a.kind # "Invalid" /\ b.kind # "Invalid"
    BY <2>1, MeetParts DEF Valid
  <2>2. ASSUME Meet(a, b) = Valid  PROVE a.kind # "Unknown" /\ b.kind # "Unknown"
    BY <2>1, <2>2, MeetParts DEF Valid
  <2> QED  BY <2>1, <2>2, ResultCases
<1> QED  BY <1>1, MeetParts DEF IsResolved
=============================================================================
