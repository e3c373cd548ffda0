------------------------------ MODULE Resolve ------------------------------
(***************************************************************************)
(* What a resolver answers about a replica (Document::resolve,             *)
(* core/resolve.rs): the projection of the CRDT state to a DID document,   *)
(* its metadata and, on request, the signed deltas behind it.  It reads    *)
(* the state and changes nothing.                                          *)
(*                                                                         *)
(* The arrays of the document are sets here: their order is that of the    *)
(* sorted snapshots, a function of the state.  The creation time, which    *)
(* never changes, and the rendering as JSON are left out.                  *)
(***************************************************************************)
EXTENDS Document, FiniteSets

CONSTANTS
  Relationships,     \* public key -> the relationships its entry was added with
  Renderable,        \* the public keys jwk_from_multibase can render
  IdRank,            \* the order of the key ids
  ReservedProperties \* RESERVED_DOCUMENT_PROPERTIES

RelationshipNames ==
  {"authentication", "assertionMethod", "keyAgreement", "capabilityInvocation",
   "capabilityDelegation"}

ASSUME RelationshipsAreNamed == Relationships \in [Nodes -> SUBSET RelationshipNames]
ASSUME IdsAreOrdered ==
  IdRank \in [KeyIds -> Nat] /\ \A a, b \in KeyIds : IdRank[a] = IdRank[b] => a = b

----------------------------------------------------------------------------
(* The DID document *)

\* Add wins: a key that was added after, or beside, its revocation.
AuthorisedAddWins(d, e) ==
  \E h \in d.dag.held :
    /\ delta[h].op.type = "AddVM" /\ delta[h].op.id = e.id
    /\ ~ \E x \in d.dag.held : Revokes(delta[x].op, e.id) /\ h \in PastIn(delta, x)

\* 2P-Set: added and not revoked.
Authorised(d, e) == e.id \notin d.revoked

VerificationMethod(d) == {e \in d.vms : Authorised(d, e)}

\* The ids in the array of one relationship, before the twins.
Holders(d, rel) ==
  {e.id : e \in {m \in VerificationMethod(d) : rel \in Relationships[m.pk]}}

\* A twin for every key.
TwinsForAll(d) == VerificationMethod(d)

\* The methods whose id the assertionMethod array names.
Asserting(d) == {e \in VerificationMethod(d) : e.id \in Holders(d, "assertionMethod")}

\* The stable sort by id, on top of the order of the entries.
Precedes(e, f) ==
  IdRank[e.id] < IdRank[f.id] \/ (e.id = f.id /\ e.pk < f.pk)

\* jwk_from_multibase renders the key.
HasJwk(e) == e.pk \in Renderable

\* The JsonWebKey twins, numbered by position among the asserting methods; a
\* key that cannot be rendered leaves its number unused.
Twins(d) ==
  {[index |-> Cardinality({f \in Asserting(d) : Precedes(f, e)}), pk |-> e.pk] :
     e \in {m \in Asserting(d) : HasJwk(m)}}

\* ServiceEndpoints::entries, DocumentData::iter: the values without dots and
\* markers.
Entries(services) == {services.live[t] : t \in DOMAIN services.live}
Values(data, keys) == [k \in keys |-> data[k].val]

\* The part of the document data that collides with no DID Core property.
IsReserved(key) == key \in ReservedProperties
Extra(data) == Values(data, {k \in DOMAIN data : ~ IsReserved(k)})

NoDocument == [deactivated |-> TRUE]

DidDocument(d) ==
  IF d.deactivated THEN NoDocument
  ELSE [methods  |-> VerificationMethod(d),
        roles    |-> [rel \in RelationshipNames |-> Holders(d, rel)],
        twins    |-> Twins(d),
        services |-> Entries(d.services),
        aka      |-> d.aka.val,
        extra    |-> Extra(d.data)]

----------------------------------------------------------------------------
(* Its metadata *)

\* A version that leaves the revoked keys out.
VersionWithoutRevoked(d) ==
  <<d.vms, Entries(d.services), Values(d.data, DOMAIN d.data), d.aka.val, d.creds,
    d.active, d.deactivated>>

\* What version_id hashes.
VersionId(d) ==
  <<d.vms, Entries(d.services), Values(d.data, DOMAIN d.data), d.aka.val, d.creds,
    d.revoked, d.active, d.deactivated>>

\* derive_did gives this document's DID.
DerivesDid(pk) == pk = GenesisPub

\* genesis_public_key_multibase: of all keys, revoked or not, the one the
\* identifier is derived from.
GenesisKey(d) == {e.pk : e \in {m \in d.vms : DerivesDid(m.pk)}}

Metadata(d) ==
  [deactivated |-> d.deactivated, versionId |-> VersionId(d),
   updated |-> d.updated, genesisKey |-> GenesisKey(d)]

\* ResolutionResult
Resolution(d) == [document |-> DidDocument(d), metadata |-> Metadata(d)]

\* The head the bundle is extracted at is the greatest.
Target(d) == CHOOSE head \in d.dag.frontier : \A x \in d.dag.frontier : x <= head

\* A closure of one head alone.
ClosureOfTarget(d) == ExtractClosure(delta, d.dag, Target(d), {})

\* closure_bundle, for the option includeClosure: the closures of all heads.
ClosureBundle(d) ==
  UNION {ExtractClosure(delta, d.dag, head, {}) : head \in d.dag.frontier}

\* What resolve_did answers for a document that is held, with or without the
\* option.
Answer(d, includeClosure) ==
  [gone |-> d.deactivated, resolution |-> Resolution(d),
   closure |-> IF includeClosure THEN ClosureBundle(d) ELSE {}]

----------------------------------------------------------------------------
(* Properties *)

\* Resolvers that give one versionId give one answer, whatever deltas each
\* holds and however they arrived (resolve.rs, "Content-addressed version
\* identifier for the current CRDT state").
VersionIdentifiesDocument ==
  \A a, b \in Documents :
    VersionId(a) = VersionId(b) =>
      [Resolution(a) EXCEPT !.metadata.updated = 0] =
      [Resolution(b) EXCEPT !.metadata.updated = 0]

\* No delta, bundle or state from a replica that knows less brings back a key
\* that a resolver has stopped showing, nor the document of a DID that was
\* deactivated, not even a new addition of the key.
RevokedStaysHidden ==
  [][\A r \in Replicas :
       /\ DidDocument(doc[r]) = NoDocument => DidDocument(doc[r])' = NoDocument
       /\ \A e \in doc[r].vms \ VerificationMethod(doc[r]) :
            e \notin VerificationMethod(doc[r])']_vars

\* A twin restates an authority some delta in the closure gave to its key and
\* none has taken away, and no two twins share an id (resolve.rs, "the
\* projection can only ever restate an authority the deltas already carry").
\* It needs ids that are not used twice: under an id two keys share, the twin
\* of one would inherit the relationship of the other.
TwinsRestateAuthority ==
  \A d \in Documents : \A t \in Twins(d) :
    /\ \E h \in ClosureBundle(d) :
         /\ delta[h].op.type = "AddVM" /\ delta[h].op.pk = t.pk
         /\ "assertionMethod" \in Relationships[t.pk]
         /\ ~ HasRevokingDelta(delta, d.dag.held, delta[h].op.id)
    /\ \A u \in Twins(d) : u.index = t.index => u = t

\* A verifier needs no trust in the resolver: the answer names the key the
\* identifier is derived from, revoked or not, and the closure passes the
\* structural check of one that starts with the genesis and means exactly the
\* state the answer was projected from, whatever heads the replica has.
AnswerIsEvidence ==
  \A d \in Documents :
    LET answer == Answer(d, TRUE)
    IN  /\ answer.resolution.metadata.genesisKey = {GenesisPub}
        /\ BundleSound(delta, {Genesis}, Target(d), answer.closure)
        /\ Meaning(answer.closure) = State(d)
        /\ answer.gone <=> answer.resolution.document = NoDocument
=============================================================================
