----------------------------- MODULE MCDocument -----------------------------
(***************************************************************************)
(* Instances of Document for TLC.  Replica 1 carries the genesis device    *)
(* (key id "k0"), replica 2 a second device ("k1").                        *)
(***************************************************************************)
EXTENDS Resolve

MCDeviceId == [r \in Replicas |-> IF r = 1 THEN "k0" ELSE "k1"]
MCDevicePub == [r \in Replicas |-> r]

\* The genesis key may authenticate (default_relationships), the second one
\* makes statements too.
MCRelationships ==
  [pk \in Nodes |-> IF pk = 1 THEN {"authentication"}
                    ELSE {"authentication", "assertionMethod"}]
MCIdRank == [id \in KeyIds |-> IF id = "k0" THEN 0 ELSE 1]

EnrolOp == [type |-> "AddVM", id |-> "k1", pk |-> 2]

AuthorityOps ==
  {EnrolOp, [type |-> "RevokeVM", id |-> "k0"], [type |-> "RevokeVM", id |-> "k1"],
   [type |-> "Deactivate"]}

\* A revocation and something to write before or after it.
HostileOps ==
  {[type |-> "RevokeVM", id |-> "k1"], [type |-> "SetData", key |-> "x", val |-> "a"]}

\* Two adds of one endpoint differ by their dots.
ServiceOps ==
  {[type |-> "AddService", id |-> "s", url |-> "a"], [type |-> "RemoveService", id |-> "s"]}

RegisterOps ==
  {[type |-> "SetData", key |-> "x", val |-> "a"],
   [type |-> "SetData", key |-> "x", val |-> "b"],
   [type |-> "SetAka", uris |-> "a"], [type |-> "SetAka", uris |-> "b"],
   [type |-> "RotateKey", seq |-> 1, key |-> 1],
   [type |-> "RotateKey", seq |-> 1, key |-> 2],
   [type |-> "RevokeCredential", cred |-> "c"]}

CrdtOps == ServiceOps \cup RegisterOps

\* The bound of the run over CrdtOps: three service deltas with a clock that
\* stands still, or two writes of one register with a clock that may move.
OneFamily ==
  LET written == Exists \ {Genesis, 1}
  IN  \/ \A h \in written : delta[h].op \in ServiceOps /\ delta[h].ts.wall = 1
      \/ /\ \A h, x \in written :
              delta[h].op \in RegisterOps /\ delta[h].op.type = delta[x].op.type
         /\ Cardinality(written) <= 2

\* Both devices enrol a key, under the same id.
DuplicateIdOps ==
  {[type |-> "AddVM", id |-> "k1", pk |-> 1], [type |-> "SetData", key |-> "x", val |-> "a"]}

\* The document after its creator has enrolled the second device and every
\* replica has received that delta.
EnrolDelta ==
  [op |-> EnrolOp, parents |-> {Genesis}, ts |-> [wall |-> 1, logical |-> 0, node |-> 1],
   by |-> "k0", sealed |-> TRUE, sound |-> TRUE]

EnrolledInit ==
  /\ delta = Put([h \in {Genesis} |-> GenesisDelta], 1, EnrolDelta)
  /\ doc = [r \in Replicas |-> Apply(delta, NewDocument, 1, "k0")]
  /\ clock = [r \in Replicas |->
                IF r = 1 THEN EnrolDelta.ts
                ELSE [wall |-> 0, logical |-> 0, node |-> DevicePub[r]]]
  /\ work = Idle

EnrolledSpec == EnrolledInit /\ [][Next]_vars

OneFamilySpec == EnrolledInit /\ [][Next /\ OneFamily']_vars
=============================================================================
