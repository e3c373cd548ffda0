----------------------------- MODULE DhtProofs -----------------------------
(***************************************************************************)
(* When a holder is found after a fault and for how long, for any number   *)
(* of nodes and addresses, any window, interval, lifetime and length of    *)
(* the rounds, and any number of faults.                                   *)
(***************************************************************************)
EXTENDS Dht, TLAPS

----------------------------------------------------------------------------
(* The inductive invariant *)

Publications == [age : 0..DedupWindow + 1, addr : Addrs]
Records == [age : 0..AgeLimit + 1, node : Nodes, addr : Addrs]

Typed ==
  /\ up \subseteq Nodes /\ holder \subseteq Nodes /\ triggered \subseteq Nodes
  /\ addr \in [Nodes -> Addrs] /\ job \in [Nodes -> SUBSET Addrs]
  /\ timer \in [Nodes -> 0..Period] /\ round \in [Nodes -> SUBSET Addrs]
  /\ published \in [Nodes -> {None} \cup Publications]
  /\ record \in {None} \cup Records
  /\ faults \in 0..MaxFaults /\ quiet \in 0..Recovery + 1

\* Publications under way are those of running holders, and from the first
\* tick after a fault they carry the address that is right.
Jobs ==
  \A n \in Nodes : job[n] # {} =>
    n \in up \cap holder /\ (quiet > 0 => job[n] = {addr[n]})

\* A round under way has slept and is a running holder's; it carries the address
\* that is right unless it began before the last fault.
Rounds ==
  \A n \in Nodes : round[n] # {} =>
    /\ n \in up \cap holder /\ timer[n] >= RefreshInterval
    /\ timer[n] < RefreshInterval + quiet => round[n] = {addr[n]}

\* A publication a node remembers is its own since its start; the record is at
\* least as young, and it is not older than the last round of the refresh task
\* if that was after the last fault.
Remembered ==
  \A n \in Nodes : published[n] # None =>
    /\ n \in up \cap holder
    /\ published[n].age <= DedupWindow => record # None /\ record.age <= published[n].age
    /\ timer[n] < quiet => published[n].age <= timer[n]

\* A holder whose refresh task has begun to sleep after the last fault sees to
\* a record that is no older.
Refreshed ==
  \A n \in up \cap holder :
    job[n] = {} /\ timer[n] < quiet => record # None /\ record.age <= timer[n]

\* A record made when the rounds begun before the last fault were over is right.
Truthful ==
  record # None /\ record.age + MaxDelay < quiet =>
    record.node \in up \cap holder /\ addr[record.node] = record.addr

DhtInv == Typed /\ Jobs /\ Rounds /\ Remembered /\ Refreshed /\ Truthful

----------------------------------------------------------------------------
(* Records *)

LEMMA Times ==
  /\ DedupWindow \in Nat /\ RefreshInterval \in Nat /\ RecordTtl \in Nat
  /\ MaxDelay \in Nat /\ MaxFaults \in Nat
  /\ Period \in Nat /\ Period = RefreshInterval + MaxDelay
  /\ Recovery \in Nat /\ Recovery = MaxDelay + Period
  /\ AgeLimit \in Nat /\ AgeLimit >= Recovery /\ AgeLimit >= RecordTtl
BY TimesAreTicks DEF Period, Recovery, AgeLimit

\* What a publication, remembered or on the relay, is; None is neither.
LEMMA Fields ==
  /\ \A p \in Publications : p # None /\ p.age \in 0..DedupWindow + 1 /\ p.addr \in Addrs
  /\ \A r \in Records :
       r # None /\ r.age \in 0..AgeLimit + 1 /\ r.node \in Nodes /\ r.addr \in Addrs
<1>1. DOMAIN None = {"age"}
  BY DEF None
<1>2. \A p \in Publications : DOMAIN p = {"age", "addr"}
  BY DEF Publications
<1>3. \A r \in Records : DOMAIN r = {"age", "node", "addr"}
  BY DEF Records
<1>4. "addr" \notin {"age"}
  OBVIOUS
<1>5. /\ \A p \in Publications : p.age \in 0..DedupWindow + 1 /\ p.addr \in Addrs
      /\ \A r \in Records : r.age \in 0..AgeLimit + 1 /\ r.node \in Nodes /\ r.addr \in Addrs
  BY DEF Publications, Records
<1> QED
  BY <1>1, <1>2, <1>3, <1>4, <1>5

\* Time adds at most one to an age and stops it one above the limit.
LEMMA OlderBounded ==
  ASSUME NEW limit \in Nat, NEW age \in 0..limit + 1
  PROVE  /\ Older(age, limit) \in 0..limit + 1
         /\ Older(age, limit) = IF age <= limit THEN age + 1 ELSE age
BY DEF Older

\* A tick changes the age of a publication and of a record, nothing else.
LEMMA Aged ==
  /\ \A p \in Publications : LET q == [p EXCEPT !.age = Older(@, DedupWindow)] IN
       q \in Publications /\ q.age = Older(p.age, DedupWindow) /\ q.addr = p.addr
  /\ \A r \in Records : LET q == [r EXCEPT !.age = Older(@, AgeLimit)] IN
       /\ q \in Records /\ q.age = Older(r.age, AgeLimit)
       /\ q.node = r.node /\ q.addr = r.addr
<1>1. DedupWindow \in Nat /\ AgeLimit \in Nat
  BY Times
<1>2. ASSUME NEW p \in Publications
      PROVE  LET q == [p EXCEPT !.age = Older(@, DedupWindow)] IN
               q \in Publications /\ q.age = Older(p.age, DedupWindow) /\ q.addr = p.addr
  <2>1. Older(p.age, DedupWindow) \in 0..DedupWindow + 1
    BY <1>1, <1>2, Fields, OlderBounded
  <2> QED
    BY <2>1, <1>2 DEF Publications
<1>3. ASSUME NEW r \in Records
      PROVE  LET q == [r EXCEPT !.age = Older(@, AgeLimit)] IN
               /\ q \in Records /\ q.age = Older(r.age, AgeLimit)
               /\ q.node = r.node /\ q.addr = r.addr
  <2>1. Older(r.age, AgeLimit) \in 0..AgeLimit + 1
    BY <1>1, <1>3, Fields, OlderBounded
  <2> QED
    BY <2>1, <1>3 DEF Records
<1> QED
  BY <1>2, <1>3

\* What PublishForce leaves behind.
LEMMA Fresh ==
  ASSUME NEW n \in Nodes, NEW a \in Addrs
  PROVE  /\ [age |-> 0, addr |-> a] \in Publications
         /\ [age |-> 0, addr |-> a].age = 0
         /\ [age |-> 0, node |-> n, addr |-> a] \in Records
         /\ [age |-> 0, node |-> n, addr |-> a].age = 0
         /\ [age |-> 0, node |-> n, addr |-> a].node = n
         /\ [age |-> 0, node |-> n, addr |-> a].addr = a
<1>1. 0 \in 0..DedupWindow + 1 /\ 0 \in 0..AgeLimit + 1
  BY Times
<1> QED
  BY <1>1 DEF Publications, Records

----------------------------------------------------------------------------
(* Every step preserves the invariant *)

LEMMA InitInv == Init => DhtInv
<1> SUFFICES ASSUME Init PROVE DhtInv
  OBVIOUS
<1>1. 0 \in 0..Period /\ 0 \in 0..MaxFaults /\ 0 \in 0..Recovery + 1
  BY Times
<1>2. Typed
  BY <1>1 DEF Typed, Init
<1> QED
  BY <1>2 DEF DhtInv, Jobs, Rounds, Remembered, Refreshed, Truthful, Init

\* A fault starts the count of quiet ticks again, so all that is claimed of a
\* quiet system is claimed no longer.
LEMMA FaultCounts ==
  ASSUME Typed, Fault
  PROVE  faults' \in 0..MaxFaults /\ quiet' = 0 /\ quiet' \in 0..Recovery + 1
BY Times DEF Typed, Fault

LEMMA FaultInv ==
  ASSUME DhtInv, Fault, Typed', record' = record,
         \A n \in Nodes : job'[n] # {} => n \in up' \cap holder',
         \A n \in Nodes : round'[n] # {} =>
           n \in up' \cap holder' /\ timer'[n] >= RefreshInterval,
         \A n \in Nodes : published'[n] # None =>
           n \in up' \cap holder' /\ published'[n] = published[n]
  PROVE  DhtInv'
<1>1. quiet' = 0
  BY FaultCounts DEF DhtInv
<1>2. \A n \in Nodes : timer'[n] \in Nat
  BY Times DEF Typed
<1>3. \A r \in Records : r.age \in Nat
  BY Fields, Times
<1>4. Jobs' /\ Rounds'
  BY <1>1, <1>2, Times DEF Jobs, Rounds
<1>5. Remembered'
  BY <1>1, <1>2 DEF Remembered, DhtInv
<1>6. Refreshed'
  BY <1>1, <1>2 DEF Refreshed, Typed
<1>7. Truthful'
  BY <1>1, <1>3, Times DEF Truthful, Typed
<1> QED
  BY <1>4, <1>5, <1>6, <1>7 DEF DhtInv

LEMMA TriggerInv ==
  ASSUME DhtInv, NEW n \in Nodes, Trigger(n)
  PROVE  DhtInv'
<1> USE DEF DhtInv
<1>1. Typed'
  BY DEF Typed, Trigger
<1>2. job'[n] = job[n] \cup {addr[n]} /\ \A m \in Nodes \ {n} : job'[m] = job[m]
  BY DEF Typed, Trigger
<1>3. Jobs'
  BY <1>2 DEF Jobs, Typed, Trigger
<1>4. Remembered' /\ Rounds'
  BY DEF Remembered, Rounds, Typed, Trigger
<1>5. Refreshed'
  BY <1>2 DEF Refreshed, Typed, Trigger
<1>6. Truthful'
  BY DEF Truthful, Trigger
<1> QED
  BY <1>1, <1>3, <1>4, <1>5, <1>6

\* publish_force with an address that is right unless a fault has just
\* happened: whatever was promised of the record holds of the new one.
LEMMA ForceInv ==
  ASSUME DhtInv, NEW n \in Nodes, NEW a \in Addrs, PublishForce(n, a),
         n \in up \cap holder, quiet > MaxDelay => a = addr[n],
         Typed', Jobs', Rounds', \A m \in Nodes \ {n} : timer'[m] = timer[m],
         up' = up, holder' = holder, addr' = addr, quiet' = quiet
  PROVE  DhtInv'
<1> USE DEF DhtInv
<1>1. /\ record' \in Records /\ record'.age = 0 /\ record'.node = n /\ record'.addr = a
      /\ record' # None
  BY Fresh, Fields DEF PublishForce, RelayPublish
<1>2. /\ published'[n].age = 0 /\ published'[n] # None
      /\ \A m \in Nodes \ {n} : published'[m] = published[m]
  BY Fresh, Fields DEF PublishForce, Typed
<1>3. \A m \in Nodes : timer'[m] \in Nat /\ (published[m] # None => published[m].age \in Nat)
  BY Fields, Times DEF Typed
<1>4. Remembered'
  BY <1>1, <1>2, <1>3 DEF Remembered
<1>5. Refreshed'
  BY <1>1, <1>3 DEF Refreshed, Typed
<1>6. Truthful'
  BY <1>1, Times DEF Truthful, Typed
<1> QED
  BY <1>4, <1>5, <1>6

\* A publication that is skipped: the record is as young as the one the node
\* remembers, and that one is no older than the last refresh.
LEMMA PublishInv ==
  ASSUME DhtInv, NEW n \in Nodes, NEW a \in Addrs, Publish(n, a)
  PROVE  DhtInv'
<1> USE DEF DhtInv
<1>1. job'[n] = job[n] \ {a} /\ \A m \in Nodes \ {n} : job'[m] = job[m]
  BY DEF Typed, Publish
<1>2. n \in up \cap holder /\ (quiet > 0 => a = addr[n])
  BY DEF Publish, Jobs
<1>3. Jobs'
  <2>1. ASSUME quiet > 0, job[n] = {addr[n]} PROVE job'[n] = {}
    BY <1>1, <1>2, <2>1
  <2> QED
    BY <1>1, <2>1 DEF Jobs, Publish
<1>4. CASE Deduplicated(n, a)
  <2>1. UNCHANGED <<record, published, up, holder, addr, timer, round, triggered, faults,
                    quiet>>
    BY <1>4 DEF Publish
  <2>2. Typed'
    BY <2>1 DEF Typed, Publish
  <2>3. Remembered' /\ Truthful' /\ Rounds'
    BY <2>1 DEF Remembered, Truthful, Rounds
  <2>4. Refreshed'
    <3>1. published[n] \in Publications /\ published[n].age \in Nat /\ published[n].age < DedupWindow
      BY <1>4, Fields, Times DEF Typed, Deduplicated
    <3>2. /\ record # None /\ record.age <= published[n].age
          /\ timer[n] < quiet => published[n].age <= timer[n]
      BY <3>1, Fields, Times DEF Remembered
    <3>3. record.age \in Nat /\ timer[n] \in Nat
      BY <3>2, Fields, Times DEF Typed
    <3>4. timer[n] < quiet => record.age <= timer[n]
      BY <3>1, <3>2, <3>3
    <3> QED
      BY <1>1, <2>1, <3>2, <3>4 DEF Refreshed, Typed
  <2> QED
    BY <1>3, <2>2, <2>3, <2>4
<1>5. CASE ~ Deduplicated(n, a)
  <2>1. PublishForce(n, a)
    BY <1>5 DEF Publish
  <2>2. Typed'
    BY <2>1, Fresh DEF Typed, Publish, PublishForce, RelayPublish
  <2>3. Rounds'
    BY DEF Rounds, Publish
  <2>4. quiet > MaxDelay => a = addr[n]
    BY <1>2, Times DEF Typed
  <2> QED
    BY <1>2, <1>3, <2>1, <2>2, <2>3, <2>4, ForceInv DEF Publish
<1> QED
  BY <1>4, <1>5

\* A round begins with the address that is right; a node without the document
\* has nothing to refresh.
LEMMA RefreshRoundInv ==
  ASSUME DhtInv, NEW n \in Nodes, RefreshRound(n)
  PROVE  DhtInv'
<1> USE DEF DhtInv
<1>1. UNCHANGED <<up, holder, addr, job, published, triggered, record, faults, quiet>>
  BY DEF RefreshRound
<1>2. CASE n \in holder
  <2>1. /\ timer' = timer /\ round'[n] = {addr[n]}
        /\ \A m \in Nodes \ {n} : round'[m] = round[m]
        /\ n \in up /\ timer[n] >= RefreshInterval
    BY <1>2 DEF RefreshRound, RefreshDue, Typed
  <2>2. Typed'
    BY <1>1, <1>2 DEF Typed, RefreshRound
  <2>3. Rounds'
    BY <1>1, <1>2, <2>1 DEF Rounds
  <2>4. Jobs' /\ Remembered' /\ Refreshed' /\ Truthful'
    BY <1>1, <2>1 DEF Jobs, Remembered, Refreshed, Truthful
  <2> QED
    BY <2>2, <2>3, <2>4
<1>3. CASE n \notin holder
  <2>1. /\ round' = round /\ timer'[n] = 0
        /\ \A m \in Nodes \ {n} : timer'[m] = timer[m]
        /\ timer' \in [Nodes -> 0..Period]
    BY <1>3, Times DEF Typed, RefreshRound
  <2>2. Typed' /\ Truthful' /\ Jobs'
    BY <1>1, <2>1 DEF Typed, Truthful, Jobs
  <2>3. Remembered' /\ Rounds'
    BY <1>1, <1>3, <2>1 DEF Remembered, Rounds
  <2>4. Refreshed'
    BY <1>1, <1>3, <2>1 DEF Refreshed, Typed
  <2> QED
    BY <2>2, <2>3, <2>4
<1> QED
  BY <1>2, <1>3

LEMMA RefreshInv ==
  ASSUME DhtInv, NEW n \in Nodes, NEW a \in Addrs, Refresh(n, a)
  PROVE  DhtInv'
<1> USE DEF DhtInv
<1>1. /\ timer'[n] = 0 /\ \A m \in Nodes \ {n} : timer'[m] = timer[m]
      /\ timer' \in [Nodes -> 0..Period]
  BY Times DEF Typed, Refresh
<1>2. /\ round'[n] = {} /\ \A m \in Nodes \ {n} : round'[m] = round[m]
      /\ round' \in [Nodes -> SUBSET Addrs]
  BY DEF Typed, Refresh
<1>3. Jobs'
  BY DEF Jobs, Refresh
<1>4. Rounds'
  BY <1>1, <1>2 DEF Rounds, Refresh
<1>5. PublishForce(n, a) /\ n \in up \cap holder
  BY DEF Refresh, Rounds
<1>6. quiet > MaxDelay => a = addr[n]
  <2>1. timer[n] \in 0..Period /\ quiet \in Nat
    BY Times DEF Typed
  <2> QED
    BY <2>1, Times DEF Refresh, Rounds
<1>7. Typed'
  BY <1>1, <1>2, <1>5, Fresh DEF Typed, Refresh, PublishForce, RelayPublish
<1> QED
  BY <1>1, <1>3, <1>4, <1>5, <1>6, <1>7, ForceInv DEF Refresh

LEMMA PublishFailsInv ==
  ASSUME DhtInv, NEW n \in Nodes, NEW a \in Addrs, PublishFails(n, a)
  PROVE  DhtInv'
<1>1. Fault
  BY DEF PublishFails
<1>2. Typed'
  BY <1>1, FaultCounts DEF Typed, PublishFails, DhtInv
<1>3. \A m \in Nodes : job'[m] # {} => job[m] # {}
  BY DEF Typed, PublishFails, DhtInv
<1> QED
  BY <1>1, <1>2, <1>3, FaultInv DEF PublishFails, DhtInv, Jobs, Rounds, Remembered

LEMMA RefreshFailsInv ==
  ASSUME DhtInv, NEW n \in Nodes, RefreshFails(n)
  PROVE  DhtInv'
<1>1. Fault
  BY DEF RefreshFails
<1>2. timer' \in [Nodes -> 0..Period]
  BY Times DEF Typed, RefreshFails, DhtInv
<1>3. Typed'
  BY <1>1, <1>2, FaultCounts DEF Typed, RefreshFails, DhtInv
<1>4. /\ round'[n] = {}
      /\ \A m \in Nodes \ {n} : round'[m] = round[m] /\ timer'[m] = timer[m]
  BY DEF Typed, RefreshFails, DhtInv
<1> QED
  BY <1>1, <1>3, <1>4, FaultInv DEF RefreshFails, DhtInv, Jobs, Rounds, Remembered

LEMMA MoveInv ==
  ASSUME DhtInv, NEW n \in Nodes, NEW a \in Addrs, Move(n, a)
  PROVE  DhtInv'
<1>1. Fault
  BY DEF Move
<1>2. Typed'
  BY <1>1, FaultCounts DEF Typed, Move, DhtInv
<1> QED
  BY <1>1, <1>2, FaultInv DEF Move, DhtInv, Jobs, Rounds, Remembered

LEMMA CrashInv ==
  ASSUME DhtInv, NEW n \in Nodes, Crash(n)
  PROVE  DhtInv'
<1>1. Fault
  BY DEF Crash
<1>2. timer' \in [Nodes -> 0..Period]
  BY Times DEF Typed, Crash, DhtInv
<1>3. Typed'
  BY <1>1, <1>2, FaultCounts DEF Typed, Crash, DhtInv
<1>4. /\ job'[n] = {} /\ published'[n] = None /\ round'[n] = {}
      /\ \A m \in Nodes \ {n} : /\ job'[m] = job[m] /\ published'[m] = published[m]
                               /\ round'[m] = round[m] /\ timer'[m] = timer[m]
  BY DEF Typed, Crash, DhtInv
<1> QED
  BY <1>1, <1>3, <1>4, FaultInv DEF Crash, DhtInv, Jobs, Rounds, Remembered

\* A node that starts has nothing but its documents to publish.
LEMMA StartInv ==
  ASSUME DhtInv, NEW n \in Nodes, NEW a \in Addrs, Start(n, a)
  PROVE  DhtInv'
<1> USE DEF DhtInv
<1>1. /\ addr'[n] = a /\ \A m \in Nodes \ {n} : addr'[m] = addr[m]
      /\ job'[n] = (IF n \in holder THEN {a} ELSE {})
      /\ \A m \in Nodes \ {n} : job'[m] = job[m]
  BY DEF Start, Bind, Typed
<1>2. Typed'
  BY DEF Start, Bind, Typed
<1>3. Jobs'
  BY <1>1 DEF Start, Jobs
<1>4. Remembered' /\ Rounds'
  BY <1>1 DEF Start, Remembered, Rounds
<1>5. Refreshed'
  BY <1>1 DEF Start, Refreshed, Typed
<1>6. Truthful'
  <2>1. CASE record # None /\ record.age + MaxDelay < quiet
    BY <1>1, <2>1, Fields DEF Start, Truthful, Typed
  <2> QED
    BY <2>1 DEF Start, Truthful
<1> QED
  BY <1>2, <1>3, <1>4, <1>5, <1>6

\* A tick ages everything alike; the caps on the ages do no harm because that
\* of the record is above that of the quiet ticks.
LEMMA TickInv ==
  ASSUME DhtInv, Tick
  PROVE  DhtInv'
<1> USE DEF DhtInv
<1>1. /\ DedupWindow \in Nat /\ RefreshInterval \in Nat /\ MaxDelay \in Nat
      /\ Period \in Nat /\ Recovery \in Nat /\ Recovery = MaxDelay + Period
      /\ Period = RefreshInterval + MaxDelay
      /\ AgeLimit \in Nat /\ AgeLimit >= Recovery /\ quiet \in 0..Recovery + 1
  BY Times DEF Typed
<1>2. /\ quiet' \in 0..Recovery + 1
      /\ quiet' = IF quiet <= Recovery THEN quiet + 1 ELSE quiet
  BY <1>1, OlderBounded DEF Tick
<1>3. /\ \A n \in up : timer'[n] = timer[n] + 1 /\ timer[n] \in Nat /\ timer[n] < Period
      /\ timer' \in [Nodes -> 0..Period]
  BY <1>1 DEF Tick, Typed
<1>4. ASSUME NEW n \in Nodes, published[n] # None
      PROVE  /\ published[n].age \in 0..DedupWindow + 1
             /\ published'[n] \in Publications
             /\ published'[n].age =
                  IF published[n].age <= DedupWindow THEN published[n].age + 1
                                                     ELSE published[n].age
  <2>1. published[n] \in Publications
    BY <1>4 DEF Typed
  <2>2. published'[n] = [published[n] EXCEPT !.age = Older(@, DedupWindow)]
    BY <1>4 DEF Tick
  <2>3. published'[n] \in Publications /\ published'[n].age = Older(published[n].age, DedupWindow)
    BY <2>1, <2>2, Aged
  <2> QED
    BY <1>1, <2>1, <2>3, Fields, OlderBounded
<1>5. \A n \in Nodes : published[n] = None => published'[n] = None
  BY DEF Tick
<1>6. ASSUME record # None
      PROVE  /\ record.age \in 0..AgeLimit + 1
             /\ record' \in Records /\ record' # None
             /\ record'.age = IF record.age <= AgeLimit THEN record.age + 1 ELSE record.age
             /\ record'.node = record.node /\ record'.addr = record.addr
  <2>1. record \in Records
    BY <1>6 DEF Typed
  <2>2. record' = [record EXCEPT !.age = Older(@, AgeLimit)]
    BY <1>6 DEF Tick
  <2>3. /\ record' \in Records /\ record'.age = Older(record.age, AgeLimit)
        /\ record'.node = record.node /\ record'.addr = record.addr
    BY <2>1, <2>2, Aged
  <2> QED
    BY <1>1, <2>1, <2>3, Fields, OlderBounded
<1>7. record = None => record' = None
  BY DEF Tick
<1>8. Typed'
  <2>1. \A n \in Nodes : published'[n] \in {None} \cup Publications
    BY <1>4, <1>5
  <2>2. published' \in [Nodes -> {None} \cup Publications]
    BY <2>1 DEF Tick
  <2> QED
    BY <1>2, <1>3, <1>6, <1>7, <2>2 DEF Typed, Tick
<1>9. Jobs' /\ Rounds'
  <2>1. ASSUME NEW n \in Nodes, round[n] # {}
        PROVE  /\ n \in up \cap holder /\ timer'[n] >= RefreshInterval
               /\ timer'[n] < RefreshInterval + quiet' => round[n] = {addr[n]}
    <3>1. /\ n \in up \cap holder /\ timer[n] >= RefreshInterval
          /\ timer[n] < RefreshInterval + quiet => round[n] = {addr[n]}
      BY <2>1 DEF Rounds
    <3> QED
      BY <1>1, <1>2, <1>3, <3>1
  <2> QED
    BY <2>1 DEF Jobs, Rounds, Tick
<1>10. Remembered'
  <2> SUFFICES ASSUME NEW n \in Nodes, published'[n] # None
               PROVE  /\ n \in up \cap holder
                      /\ published'[n].age <= DedupWindow =>
                           record' # None /\ record'.age <= published'[n].age
                      /\ timer'[n] < quiet' => published'[n].age <= timer'[n]
    BY DEF Remembered, Tick
  <2>1. published[n] # None
    BY <1>5
  <2>2. /\ n \in up \cap holder
        /\ published[n].age <= DedupWindow => record # None /\ record.age <= published[n].age
        /\ timer[n] < quiet => published[n].age <= timer[n]
    BY <2>1 DEF Remembered
  <2>3. ASSUME published'[n].age <= DedupWindow
        PROVE  record' # None /\ record'.age <= published'[n].age
    <3>1. published[n].age <= DedupWindow /\ published'[n].age = published[n].age + 1
      BY <1>1, <1>4, <2>1, <2>3
    <3> QED
      BY <1>1, <1>4, <1>6, <2>1, <2>2, <3>1
  <2>4. ASSUME timer'[n] < quiet' PROVE published'[n].age <= timer'[n]
    <3>1. timer[n] < quiet
      BY <1>1, <1>2, <1>3, <2>2, <2>4
    <3> QED
      BY <1>1, <1>3, <1>4, <2>1, <2>2, <3>1
  <2> QED
    BY <2>2, <2>3, <2>4
<1>11. Refreshed'
  <2> SUFFICES ASSUME NEW n \in up \cap holder, job[n] = {}, timer'[n] < quiet'
               PROVE  record' # None /\ record'.age <= timer'[n]
    BY DEF Refreshed, Tick
  <2>1. timer[n] < quiet
    BY <1>1, <1>2, <1>3
  <2>2. record # None /\ record.age <= timer[n]
    BY <2>1 DEF Refreshed
  <2> QED
    BY <1>1, <1>3, <1>6, <2>2
<1>12. Truthful'
  <2> SUFFICES ASSUME record' # None, record'.age + MaxDelay < quiet'
               PROVE  record'.node \in up \cap holder /\ addr[record'.node] = record'.addr
    BY DEF Truthful, Tick
  <2>1. record # None
    BY <1>7
  <2>2. record.age + MaxDelay < quiet
    BY <1>1, <1>2, <1>6, <2>1
  <2> QED
    BY <1>6, <2>1, <2>2 DEF Truthful
<1> QED
  BY <1>8, <1>9, <1>10, <1>11, <1>12

LEMMA NextInv == DhtInv /\ [Next]_vars => DhtInv'
<1> SUFFICES ASSUME DhtInv, [Next]_vars PROVE DhtInv'
  OBVIOUS
<1>1. CASE Publishing
  BY <1>1, RefreshRoundInv, RefreshInv, PublishInv DEF Publishing
<1>2. CASE Tick
  BY <1>2, TickInv
<1>3. CASE \E n \in Nodes : Trigger(n) \/ RefreshFails(n) \/ Crash(n)
  BY <1>3, TriggerInv, RefreshFailsInv, CrashInv
<1>4. CASE \E n \in Nodes, a \in Addrs : PublishFails(n, a) \/ Move(n, a) \/ Start(n, a)
  BY <1>4, PublishFailsInv, MoveInv, StartInv
<1>5. CASE UNCHANGED vars
  BY <1>5 DEF vars, local, DhtInv, Typed, Jobs, Rounds, Remembered, Refreshed, Truthful
<1> QED
  BY <1>1, <1>2, <1>3, <1>4, <1>5 DEF Next

----------------------------------------------------------------------------
(* The theorems *)

\* The invariant holds of every behaviour of the publication and refresh tasks
\* of sync/dht.rs, for any number of nodes, addresses, ticks and faults.
THEOREM DhtInvariant == Spec => []DhtInv
<1> QED
  BY InitInv, NextInv, PTL DEF Spec

\* Ages and sleeps stay within their windows, addresses and nodes are known.
THEOREM DhtTypeCorrect == Spec => []TypeOK
<1>1. DhtInv => TypeOK
  <2> SUFFICES ASSUME DhtInv PROVE TypeOK
    OBVIOUS
  <2>1. \A n \in Nodes :
          /\ addr[n] \in Addrs /\ job[n] \subseteq Addrs /\ round[n] \subseteq Addrs
          /\ timer[n] \in 0..Period
          /\ round[n] # {} => n \in up \cap holder /\ timer[n] >= RefreshInterval
          /\ published[n] # None => published[n].age \in 0..DedupWindow + 1
    BY Fields DEF DhtInv, Typed, Rounds
  <2>2. record # None => record.node \in Nodes /\ record.age \in 0..AgeLimit + 1
    BY Fields DEF DhtInv, Typed
  <2> QED
    BY <2>1, <2>2 DEF TypeOK, DhtInv, Typed
<1> QED
  BY <1>1, DhtInvariant, PTL

\* For the lifetime of a record after the refresh of a live holder by a round
\* begun after the last fault, a lookup returns the address of a live holder,
\* whatever the lengths of the window, the interval, the lifetime and the rounds:
\* the record is no older than that refresh, so it has not expired, and no round
\* begun before the fault has written it.
THEOREM OutagesAreBounded == Spec => []OutageIsBounded
<1>1. DhtInv => OutageIsBounded
  <2> SUFFICES ASSUME DhtInv, NEW n \in up \cap holder, job[n] = {},
                      timer[n] + MaxDelay < quiet, timer[n] < RecordTtl
               PROVE  Findable
    BY DEF OutageIsBounded
  <2>1. timer[n] \in Nat /\ timer[n] < quiet /\ quiet \in Nat
    BY Times DEF DhtInv, Typed
  <2>2. record # None /\ record.age <= timer[n]
    BY <2>1 DEF DhtInv, Refreshed
  <2>3. record.age \in Nat
    BY <2>2, Fields, Times DEF DhtInv, Typed
  <2>4. record.age < RecordTtl /\ record.age + MaxDelay < quiet
    BY <2>1, <2>2, <2>3, Times
  <2>5. record.node \in up \cap holder /\ addr[record.node] = record.addr
    BY <2>2, <2>4 DEF DhtInv, Truthful
  <2>6. [node |-> record.node, addr |-> record.addr] \in Lookup
    BY <2>2, <2>4 DEF Lookup, Resolved
  <2> QED
    BY <2>5, <2>6 DEF Findable
<1> QED
  BY <1>1, DhtInvariant, PTL
=============================================================================
