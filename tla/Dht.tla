-------------------------------- MODULE Dht --------------------------------
(***************************************************************************)
(* Discovery of the holders of one DID (sync/dht.rs): every holder         *)
(* publishes its address in the one record that the key derived from the   *)
(* DID signs, so the last publisher's address is what a lookup returns.    *)
(* Publications repeat when a document is created, bootstrapped or found   *)
(* at start-up, and are skipped within a window after the last one; a      *)
(* background task repeats them without regard to the window.              *)
(*                                                                         *)
(* A round of that task takes time: it sleeps, resolves the address and    *)
(* publishes the DIDs one after the other, so that a DID is published      *)
(* again after the interval and whatever the rest of one round and the     *)
(* next round up to this DID take.                                         *)
(*                                                                         *)
(* The relay is external: it keeps the last record until its lifetime is   *)
(* over, and may fail.                                                     *)
(***************************************************************************)
EXTENDS Naturals

CONSTANTS
  Nodes,
  Addrs,              \* node addresses (node id, relay and sockets)
  DedupWindow,        \* PUBLISH_DEDUP_WINDOW, in ticks
  RefreshInterval,    \* REFRESH_INTERVAL
  RecordTtl,          \* RECORD_TTL
  MaxDelay,           \* ticks that rounds add to the interval, at most
  MaxFaults           \* relay failures, address changes and crashes

ASSUME TimesAreTicks ==
  /\ {DedupWindow, RefreshInterval, RecordTtl} \subseteq Nat \ {0}
  /\ {MaxDelay, MaxFaults} \subseteq Nat

VARIABLES
  up,           \* nodes that run
  holder,       \* nodes with the document
  addr,         \* node -> its address
  job,          \* node -> addresses its spawned publications were given
  published,    \* node -> DhtNode::published, age and address of the last
                \* publication, or None
  timer,        \* node -> ticks since its refresh task was last at the DID
  round,        \* node -> the address its refresh task has resolved and is to
                \* publish for the DID; {} while it sleeps
  triggered,    \* nodes that got a reason to publish in this tick
  record,       \* the record on the relay, or None
  faults,
  quiet         \* ticks since the last fault, up to one more than matters

local == <<up, holder, addr, job, published, timer, round, triggered>>
vars == <<local, record, faults, quiet>>

None == [age |-> 0]

\* The longest time between two publications by a refresh task.
Period == RefreshInterval + MaxDelay

\* From the last fault, by when every record from a round begun before it is
\* replaced.
Recovery == MaxDelay + Period

\* Ages count up to one more than matters.
AgeLimit == IF RecordTtl > Recovery THEN RecordTtl ELSE Recovery
Older(age, limit) == IF age > limit THEN age ELSE age + 1

Init ==
  /\ up = Nodes /\ holder = {}
  /\ addr \in [Nodes -> Addrs]
  /\ job = [n \in Nodes |-> {}]
  /\ published = [n \in Nodes |-> None]
  /\ timer = [n \in Nodes |-> 0]
  /\ round = [n \in Nodes |-> {}]
  /\ triggered = {}
  /\ record = None
  /\ faults = 0 /\ quiet = 0

Fault == faults < MaxFaults /\ faults' = faults + 1 /\ quiet' = 0

----------------------------------------------------------------------------
(* Publication *)

\* create_did, run_loop after a bootstrap: the node has the document (for the
\* first time or again) and publishes in the background the address it has now.
\* Bound: once a node and tick; the window would skip a second time.
Trigger(n) ==
  /\ n \in up \ triggered
  /\ triggered' = triggered \cup {n}
  /\ holder' = holder \cup {n}
  /\ job' = [job EXCEPT ![n] = @ \cup {addr[n]}]
  /\ UNCHANGED <<up, addr, published, timer, round, record, faults, quiet>>

\* The check of DhtNode::publish.
Deduplicated(n, a) ==
  /\ published[n] # None
  /\ published[n].addr = a /\ published[n].age < DedupWindow

\* PkarrBackend::publish: the key is the DID's, so one record replaces the other.
RelayPublish(n, a) == record' = [age |-> 0, node |-> n, addr |-> a]

\* publish_force, when the relay takes the record.
PublishForce(n, a) ==
  /\ RelayPublish(n, a)
  /\ published' = [published EXCEPT ![n] = [age |-> 0, addr |-> a]]

\* DhtNode::publish
Publish(n, a) ==
  /\ n \in up /\ a \in job[n]
  /\ job' = [job EXCEPT ![n] = @ \ {a}]
  /\ IF Deduplicated(n, a) THEN UNCHANGED <<record, published>> ELSE PublishForce(n, a)
  /\ UNCHANGED <<up, holder, addr, timer, round, triggered, faults, quiet>>

PublishFails(n, a) ==
  /\ n \in up /\ a \in job[n] /\ ~ Deduplicated(n, a)
  /\ Fault
  /\ job' = [job EXCEPT ![n] = @ \ {a}]
  /\ UNCHANGED <<up, holder, addr, published, timer, round, triggered, record>>

\* A task that does not sleep.
RefreshDueEarly(n) == n \in up

\* The sleep of spawn_refresh_task is over.
RefreshDue(n) == n \in up /\ timer[n] >= RefreshInterval

\* A round with the address of the last publication.
RefreshRoundOldAddress(n) ==
  /\ RefreshDue(n) /\ round[n] = {}
  /\ IF n \in holder
       THEN /\ round' = [round EXCEPT ![n] =
                           {IF published[n] = None THEN addr[n] ELSE published[n].addr}]
            /\ UNCHANGED timer
       ELSE timer' = [timer EXCEPT ![n] = 0] /\ UNCHANGED round
  /\ UNCHANGED <<up, holder, addr, job, published, triggered, record, faults, quiet>>

\* A round of spawn_refresh_task resolves the address anew and lists the
\* documents; without this one it is over for the DID.
RefreshRound(n) ==
  /\ RefreshDue(n) /\ round[n] = {}
  /\ IF n \in holder
       THEN round' = [round EXCEPT ![n] = {addr[n]}] /\ UNCHANGED timer
       ELSE timer' = [timer EXCEPT ![n] = 0] /\ UNCHANGED round
  /\ UNCHANGED <<up, holder, addr, job, published, triggered, record, faults, quiet>>

\* The round comes to the DID.
Refresh(n, a) ==
  /\ n \in up /\ a \in round[n]
  /\ round' = [round EXCEPT ![n] = {}]
  /\ timer' = [timer EXCEPT ![n] = 0]
  /\ PublishForce(n, a)
  /\ UNCHANGED <<up, holder, addr, job, triggered, faults, quiet>>

\* The address cannot be resolved or the relay fails: the round is over.
RefreshFails(n) ==
  /\ RefreshDue(n) /\ n \in holder
  /\ Fault
  /\ round' = [round EXCEPT ![n] = {}]
  /\ timer' = [timer EXCEPT ![n] = 0]
  /\ UNCHANGED <<up, holder, addr, job, triggered, published, record>>

----------------------------------------------------------------------------
(* Lookup *)

\* PkarrBackend::resolve: the record, until its lifetime is over.
Resolved == IF record # None /\ record.age < RecordTtl THEN {record} ELSE {}

\* DhtNode::lookup: whom to connect to.
Lookup == {[node |-> r.node, addr |-> r.addr] : r \in Resolved}

----------------------------------------------------------------------------
(* The world *)

\* A publication under way ends within the tick, a round within MaxDelay.
Tick ==
  /\ \A n \in up : job[n] = {} /\ timer[n] < Period
  /\ timer' = [n \in Nodes |-> IF n \in up THEN timer[n] + 1 ELSE 0]
  /\ published' = [n \in Nodes |->
                     IF published[n] = None THEN None
                     ELSE [published[n] EXCEPT !.age = Older(@, DedupWindow)]]
  /\ record' = IF record = None THEN None
               ELSE [record EXCEPT !.age = Older(@, AgeLimit)]
  /\ quiet' = Older(quiet, Recovery)
  /\ triggered' = {}
  /\ UNCHANGED <<up, holder, addr, job, round, faults>>

\* A node gets another address (a network move).
Move(n, a) ==
  /\ n \in up /\ a # addr[n]
  /\ Fault
  /\ addr' = [addr EXCEPT ![n] = a]
  /\ UNCHANGED <<up, holder, job, published, timer, round, triggered, record>>

Crash(n) ==
  /\ n \in up
  /\ Fault
  /\ up' = up \ {n}
  /\ job' = [job EXCEPT ![n] = {}]
  /\ published' = [published EXCEPT ![n] = None]
  /\ timer' = [timer EXCEPT ![n] = 0]
  /\ round' = [round EXCEPT ![n] = {}]
  /\ UNCHANGED <<holder, addr, triggered, record>>

\* LiveNode::bind generates a new node id, so the address is another one.
Bind(n, a) == a # addr[n] /\ addr' = [addr EXCEPT ![n] = a]

\* Server::run: what was recovered from disk is published with the new address.
Start(n, a) ==
  /\ n \notin up /\ Bind(n, a)
  /\ up' = up \cup {n}
  /\ job' = [job EXCEPT ![n] = IF n \in holder THEN {a} ELSE {}]
  /\ UNCHANGED <<holder, published, timer, round, triggered, record, faults, quiet>>

Publishing ==
  \E n \in Nodes : RefreshRound(n) \/ \E a \in Addrs : Publish(n, a) \/ Refresh(n, a)

Next ==
  \/ Publishing
  \/ Tick
  \/ \E n \in Nodes : Trigger(n) \/ RefreshFails(n) \/ Crash(n)
  \/ \E n \in Nodes, a \in Addrs : PublishFails(n, a) \/ Move(n, a) \/ Start(n, a)

\* Spawned tasks run and time passes.  Starts, triggers and faults are not
\* promised.
Spec == Init /\ [][Next]_vars /\ WF_vars(Publishing) /\ WF_vars(Tick)

----------------------------------------------------------------------------
(* Properties *)

\* Types; a refresh task is at a DID it holds, after its sleep and not later
\* than the period; publications under way and remembered are within bounds.
TypeOK ==
  /\ {up, holder, triggered} \subseteq SUBSET Nodes
  /\ \A n \in Nodes :
       /\ addr[n] \in Addrs /\ job[n] \subseteq Addrs /\ round[n] \subseteq Addrs
       /\ timer[n] \in 0..Period
       /\ round[n] # {} => n \in up \cap holder /\ timer[n] >= RefreshInterval
       /\ published[n] # None => published[n].age \in 0..DedupWindow + 1
  /\ record # None => record.node \in Nodes /\ record.age \in 0..AgeLimit + 1
  /\ faults \in 0..MaxFaults /\ quiet \in 0..Recovery + 1

\* A lookup returns an address at which a holder answers.
Findable == \E p \in Lookup : p.node \in up \cap holder /\ addr[p.node] = p.addr

\* Whatever the relay lost, whoever moved, even in the middle of a round, died
\* or overwrote the record of another holder, and although publications within
\* the window are skipped: once a live holder was refreshed by a round begun
\* after the last fault, a lookup finds a holder, for the lifetime of a record
\* (spawn_refresh_task, "so pkarr records do not expire").  As long as one holder
\* is refreshed that often, it goes on doing so.  The task of a single holder
\* sleeps for as long as a record lives, so that its record lapses for the time
\* a round takes, in every period.
OutageIsBounded ==
  \A n \in up \cap holder :
    job[n] = {} /\ timer[n] + MaxDelay < quiet /\ timer[n] < RecordTtl => Findable

Serving == up \cap holder # {}

\* While some holder serves, lookups succeed again and again.
FoundAgain == <>[]Serving => []<>Findable
=============================================================================
