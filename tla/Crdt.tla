-------------------------------- MODULE Crdt --------------------------------
(***************************************************************************)
(* The typed CRDT fields of a document (core/crdt.rs) as operators: the    *)
(* service endpoints (ORSWOT), the LWW map and register, the max-register  *)
(* of the active key.  The grow-only sets are sets with union, the         *)
(* deactivation latch a Boolean with disjunction.                          *)
(***************************************************************************)
EXTENDS HlcTimestamp

EmptyMap == [x \in {} |-> {}]

\* map with key k bound to v.
Put(map, k, v) ==
  [x \in DOMAIN map \cup {k} |-> IF x = k THEN v ELSE map[x]]

Latest(ts) == CHOOSE t \in ts : \A u \in ts : NotAfter(u, t)

----------------------------------------------------------------------------
(* Grow-only sets: they merge by union. *)

\* VerificationMethods::insert: entries are whole, an id may come twice.
AddMethod(vms, id, pk) == vms \cup {[id |-> id, pk |-> pk]}

\* Revocations::insert, RevokedVerificationMethods::insert
Revoke(ids, id) == ids \cup {id}

----------------------------------------------------------------------------
(* ServiceEndpoints: live maps the dot of an add (its timestamp) to the     *)
(* entry, context maps a node to the highest dot seen from it.              *)

EmptyServices == [live |-> EmptyMap, context |-> EmptyMap]

\* ServiceEndpoints::observe, of every dot of a set.
Observe(context, dots) ==
  LET nodes == DOMAIN context \cup {d.node : d \in dots}
      from(n) == {d \in dots : d.node = n}
                   \cup (IF n \in DOMAIN context THEN {context[n]} ELSE {})
  IN  [n \in nodes |-> Latest(from(n))]

\* ServiceEndpoints::seen
Seen(context, dot) ==
  dot.node \in DOMAIN context /\ NotAfter(dot, context[dot.node])

\* ServiceEndpoints::apply_add
ApplyAdd(s, entry, dot) ==
  [live    |-> Put(s.live, dot, entry),
   context |-> Observe(s.context, {dot})]

\* ServiceEndpoints::apply_remove
ApplyRemove(s, dots, witness) ==
  [live    |-> [d \in DOMAIN s.live \ dots |-> s.live[d]],
   context |-> Observe(s.context, dots \cup {witness})]

\* The dots that survive a merge: live on both sides, or never seen by the
\* other.
Survives(a, b, dot) == dot \in DOMAIN b.live \/ ~ Seen(b.context, dot)

\* ServiceEndpoints::merge
MergeServices(a, b) ==
  [live |-> [d \in {x \in DOMAIN a.live : Survives(a, b, x)}
                     \cup {x \in DOMAIN b.live : Survives(b, a, x)} |->
               IF d \in DOMAIN b.live THEN b.live[d] ELSE a.live[d]],
   context |-> Observe(a.context, {b.context[n] : n \in DOMAIN b.context})]

----------------------------------------------------------------------------
(* Registers *)

\* LWWReg::update of the crdts crate: only a later marker replaces.
LwwUpdate(reg, val, marker) ==
  IF Before(reg.marker, marker) THEN [val |-> val, marker |-> marker] ELSE reg

Null == "null"
EmptyReg == [val |-> Null, marker |-> ZeroTs]

\* DocumentData::set, and DocumentData::merge
SetData(data, key, val, ts) ==
  Put(data, key, LwwUpdate(IF key \in DOMAIN data THEN data[key] ELSE EmptyReg,
                           val, ts))
MergeData(a, b) ==
  [key \in DOMAIN a \cup DOMAIN b |->
     IF key \in DOMAIN b
       THEN LwwUpdate(IF key \in DOMAIN a THEN a[key] ELSE EmptyReg,
                      b[key].val, b[key].marker)
       ELSE a[key]]

\* AlsoKnownAs::set: the whole list is one register.
SetAliases(reg, uris, ts) == LwwUpdate(reg, uris, ts)

\* ActiveKey: the marker is (seq, hash of the key reference).  A key
\* reference is a number that stands for its own hash.
NoActiveKey == [seq |-> 0, key |-> 0]
OlderKey(a, b) == a.seq < b.seq \/ (a.seq = b.seq /\ a.key < b.key)

\* A max-register that compares the sequence number alone.
RotateBySeq(a, b) == IF a.seq < b.seq THEN b ELSE a

\* ActiveKey::rotate and ActiveKey::merge: the higher marker wins.
Rotate(a, b) == IF OlderKey(a, b) THEN b ELSE a

\* Deactivated::set (with TRUE) and Deactivated::merge.
Latch(a, b) == a \/ b
=============================================================================
