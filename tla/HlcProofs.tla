----------------------------- MODULE HlcProofs -----------------------------
(***************************************************************************)
(* The clock condition and the freshness of timestamps, for every set of   *)
(* nodes, every width of the counter and every behaviour of the wall       *)
(* clocks, restarts at any wall time and counters that wrap included.      *)
(***************************************************************************)
EXTENDS Hlc, TLAPS

\* The counter stays within its width, and one with room left is incremented.
LEMMA BumpCounts ==
  ASSUME NEW n \in 0 .. LogicalWidth - 1
  PROVE  /\ Bump(n) \in 0 .. LogicalWidth - 1
         /\ n # LogicalWidth - 1 => Bump(n) = n + 1
  BY WidthIsPositive, SMT DEF Bump

LEMMA BeforeTransitive ==
  ASSUME NEW s \in Timestamps, NEW t \in Timestamps, NEW u \in Timestamps,
         NotAfter(s, t), Before(t, u)
  PROVE  Before(s, u)
  BY WidthIsPositive DEF Before, NotAfter, Timestamps

\* A timestamp does not precede itself.
LEMMA BeforeIrreflexive ==
  ASSUME NEW s \in Timestamps
  PROVE  ~ Before(s, s)
  BY WidthIsPositive DEF Before, Timestamps

\* What send returns: a timestamp of the same node, later than the clock
\* unless the clock's counter is at its limit.
LEMMA SendAdvances ==
  ASSUME NEW last0 \in Timestamps, NEW now \in Nat
  PROVE  LET ts == AdvanceSend(last0, now)
         IN  /\ ts \in Timestamps
             /\ ts.node = last0.node
             /\ last0.logical # LogicalWidth - 1 => Before(last0, ts)
<1>1. /\ last0.logical \in 0 .. LogicalWidth - 1
      /\ last0.wall \in Nat /\ last0.node \in Nat
  BY DEF Timestamps
<1>2. /\ Bump(last0.logical) \in 0 .. LogicalWidth - 1
      /\ last0.logical # LogicalWidth - 1 => Bump(last0.logical) = last0.logical + 1
  BY <1>1, BumpCounts
<1>3. 0 \in 0 .. LogicalWidth - 1
  BY WidthIsPositive
<1>4. QED
  BY <1>1, <1>2, <1>3, WidthIsPositive
  DEF AdvanceSend, MaxOf, Timestamps, Before

\* What recv returns: later than the clock and than the remote timestamp,
\* unless one of the two counters is at its limit.
LEMMA RecvAdvances ==
  ASSUME NEW last0 \in Timestamps, NEW remote \in Timestamps, NEW now \in Nat
  PROVE  LET ts == AdvanceRecv(last0, remote, now)
         IN  /\ ts \in Timestamps
             /\ ts.node = last0.node
             /\ last0.logical # LogicalWidth - 1 /\ remote.logical # LogicalWidth - 1
                  => Before(last0, ts) /\ Before(remote, ts)
<1> DEFINE top == MaxOf(last0.logical, remote.logical)
<1>1. /\ last0.logical \in 0 .. LogicalWidth - 1
      /\ last0.wall \in Nat /\ last0.node \in Nat
      /\ remote.logical \in 0 .. LogicalWidth - 1
      /\ remote.wall \in Nat /\ remote.node \in Nat
  BY DEF Timestamps
<1>2. top \in 0 .. LogicalWidth - 1 /\ 0 \in 0 .. LogicalWidth - 1
  BY <1>1, WidthIsPositive DEF MaxOf
<1>3. /\ Bump(last0.logical) \in 0 .. LogicalWidth - 1
      /\ Bump(remote.logical) \in 0 .. LogicalWidth - 1
      /\ Bump(top) \in 0 .. LogicalWidth - 1
  BY <1>1, <1>2, BumpCounts
<1>4. AdvanceRecv(last0, remote, now) \in Timestamps
  BY <1>1, <1>2, <1>3 DEF AdvanceRecv, MaxOf, Timestamps
<1>5. ASSUME last0.logical # LogicalWidth - 1, remote.logical # LogicalWidth - 1
      PROVE  /\ Before(last0, AdvanceRecv(last0, remote, now))
             /\ Before(remote, AdvanceRecv(last0, remote, now))
  <2>1. /\ Bump(last0.logical) = last0.logical + 1
        /\ Bump(remote.logical) = remote.logical + 1
        /\ Bump(top) = top + 1
    BY <1>1, <1>2, <1>5, BumpCounts DEF MaxOf
  <2>2. QED
    BY <1>1, <2>1, WidthIsPositive DEF AdvanceRecv, MaxOf, Before
<1>6. QED
  BY <1>4, <1>5 DEF AdvanceRecv

\* Where no counter is at its limit, the clocks and the messages are not.
LEMMA RoomLeft ==
  ASSUME HlcInv, ~ Exhausted
  PROVE  /\ \A n \in Nodes : last[n].logical # LogicalWidth - 1
         /\ \A m \in msgs : m.ts.logical # LogicalWidth - 1
<1>1. 0 # LogicalWidth - 1
  BY CounterCounts, WidthIsPositive
<1>2. QED
  BY <1>1 DEF HlcInv, ClocksIssue, Exhausted

\* The state after a clock has issued a timestamp `ts` that is later than the
\* clock and than everything in its event's past.
LEMMA IssuePreserves ==
  ASSUME HlcInv, NEW n \in Nodes, NEW ts \in Timestamps,
         NEW before \in SUBSET Timestamps,
         Issue(n, ts, before), ts.node = n,
         ~ Exhausted => Before(last[n], ts) /\ \A t \in before : Before(t, ts),
         msgs' \subseteq msgs \cup {[ts |-> ts, past |-> before]}
  PROVE  HlcInv'
<1> USE DEF HlcInv
<1>1. \A i \in Nodes : last'[i] = IF i = n THEN ts ELSE last[i]
  BY DEF Issue, TypeOK
<1>2. \A i \in Nodes : past'[i] = IF i = n THEN before \cup {ts} ELSE past[i]
  BY DEF Issue, TypeOK
<1>3. issued' = issued \cup {ts} /\ rewound' = rewound
  BY DEF Issue
<1>4. TypeOK'
  <2>1. last' \in [Nodes -> Timestamps] /\ \A i \in Nodes : last'[i].node = i
    BY <1>1 DEF Issue, TypeOK
  <2>2. past' \in [Nodes -> SUBSET Timestamps]
    BY DEF Issue, TypeOK
  <2>3. [ts |-> ts, past |-> before] \in Messages
    BY DEF Messages
  <2>4. events' \in [Nodes -> 0 .. MaxEvents]
    <3>1. events[n] + 1 \in 0 .. MaxEvents
      BY MaxEventsIsNumber DEF Issue, TypeOK
    <3>2. QED
      BY <3>1 DEF Issue, TypeOK
  <2>5. QED
    BY <1>3, <2>1, <2>2, <2>3, <2>4 DEF TypeOK
<1>5. ClocksIssue'
  BY <1>1, <1>3 DEF ClocksIssue
<1>6. Exhausted => Exhausted'
  BY <1>3 DEF Exhausted
<1>7. IssuedInOrder'
  <2> SUFFICES ASSUME ~ Exhausted, NEW t \in issued', t.node \notin rewound
               PROVE  NotAfter(t, last'[t.node])
    BY <1>3, <1>6 DEF IssuedInOrder
  <2>1. CASE t = ts
    BY <1>1, <2>1 DEF NotAfter
  <2>2. CASE t \in issued /\ t.node = n
    BY <1>1, <2>2, BeforeTransitive DEF IssuedInOrder, TypeOK, NotAfter
  <2>3. CASE t \in issued /\ t.node # n
    BY <1>1, <2>3 DEF IssuedInOrder, ClocksIssue
  <2>4. QED
    BY <1>3, <2>1, <2>2, <2>3
<1>8. ClockCondition'
  <2> SUFFICES ASSUME ~ Exhausted
               PROVE  /\ \A m \in msgs' : \A t \in m.past : Before(t, m.ts)
                      /\ \A i \in Nodes : \A t \in past'[i] : NotAfter(t, last'[i])
    BY <1>6 DEF ClockCondition
  <2>1. \A m \in msgs' : \A t \in m.past : Before(t, m.ts)
    BY DEF ClockCondition
  <2>2. \A i \in Nodes : \A t \in past'[i] : NotAfter(t, last'[i])
    BY <1>1, <1>2 DEF ClockCondition, NotAfter
  <2>3. QED
    BY <2>1, <2>2
<1>9. QED
  BY <1>4, <1>5, <1>7, <1>8

\* A step of send meets the conditions of IssuePreserves.
LEMMA SendStep ==
  ASSUME HlcInv, NEW n \in Nodes, NEW now \in Readings, Send(n, now)
  PROVE  /\ HlcInv'
         /\ ~ Exhausted => Before(last[n], AdvanceSend(last[n], now))
<1> DEFINE ts == AdvanceSend(last[n], now)
<1>1. /\ last[n] \in Timestamps /\ last[n].node = n /\ now \in Nat
      /\ past[n] \in SUBSET Timestamps
  BY ReadingsAreNumbers DEF HlcInv, TypeOK
<1>2. /\ ts \in Timestamps /\ ts.node = n
      /\ ~ Exhausted => Before(last[n], ts)
  BY <1>1, SendAdvances, RoomLeft
<1> HIDE DEF ts
<1>3. ~ Exhausted => \A t \in past[n] : Before(t, ts)
  BY <1>1, <1>2, BeforeTransitive DEF HlcInv, ClockCondition
<1>4. Issue(n, ts, past[n]) /\ msgs' = msgs \cup {[ts |-> ts, past |-> past[n]]}
  BY DEF Send, ts
<1>5. HlcInv'
  BY <1>1, <1>2, <1>3, <1>4, IssuePreserves
<1>6. QED
  BY <1>2, <1>5 DEF ts

\* So does a step of recv.
LEMMA RecvStep ==
  ASSUME HlcInv, NEW n \in Nodes, NEW m \in msgs, NEW now \in Readings,
         Recv(n, m, now)
  PROVE  /\ HlcInv'
         /\ ~ Exhausted => Before(last[n], AdvanceRecv(last[n], m.ts, now))
<1> DEFINE ts == AdvanceRecv(last[n], m.ts, now)
           before == past[n] \cup m.past \cup {m.ts}
<1>1. /\ last[n] \in Timestamps /\ last[n].node = n /\ now \in Nat
      /\ m.ts \in Timestamps /\ m.past \in SUBSET Timestamps
      /\ past[n] \in SUBSET Timestamps
  BY ReadingsAreNumbers DEF HlcInv, TypeOK, Messages
<1>2. /\ ts \in Timestamps /\ ts.node = n
      /\ ~ Exhausted => Before(last[n], ts) /\ Before(m.ts, ts)
  BY <1>1, RecvAdvances, RoomLeft
<1>4. Issue(n, ts, before) /\ msgs' = msgs
  BY DEF Recv
<1> HIDE DEF ts
<1>3. ASSUME ~ Exhausted, NEW t \in before
      PROVE  Before(t, ts)
  <2>1. CASE t \in past[n]
    BY <1>1, <1>2, <1>3, <2>1, BeforeTransitive DEF HlcInv, ClockCondition
  <2>2. CASE t \in m.past
    BY <1>1, <1>2, <1>3, <2>2, BeforeTransitive
    DEF HlcInv, ClockCondition, NotAfter
  <2>3. CASE t = m.ts
    BY <1>2, <1>3, <2>3
  <2>4. QED
    BY <1>3, <2>1, <2>2, <2>3
<1>5. before \in SUBSET Timestamps
  BY <1>1
<1> HIDE DEF before
<1>6. HlcInv'
  BY <1>1, <1>2, <1>3, <1>4, <1>5, IssuePreserves
<1>7. QED
  BY <1>2, <1>6 DEF ts

\* The clock of a process that starts.
LEMMA FreshType ==
  ASSUME NEW n \in Nodes, NEW now \in Readings
  PROVE  /\ Fresh(n, now) \in Timestamps
         /\ Fresh(n, now).wall = now
         /\ Fresh(n, now).logical = 0
         /\ Fresh(n, now).node = n
<1>1. now \in Nat /\ n \in Nat /\ 0 \in 0 .. LogicalWidth - 1
  BY ReadingsAreNumbers, NodesAreNumbers, WidthIsPositive
<1>2. QED
  BY <1>1 DEF Fresh, Timestamps

\* A restart, at whatever wall time, either reads a clock beyond all that the
\* node has issued or marks the node as set back.
LEMMA RestartStep ==
  ASSUME HlcInv, NEW n \in Nodes, NEW now \in Readings, Restart(n, now)
  PROVE  HlcInv'
<1> DEFINE ts == Fresh(n, now)
<1>1. /\ ts \in Timestamps /\ ts.wall = now /\ ts.logical = 0 /\ ts.node = n
      /\ now \in Nat
  BY FreshType, ReadingsAreNumbers
<1>2. /\ last' = [last EXCEPT ![n] = ts]
      /\ past' = [past EXCEPT ![n] = {}]
      /\ UNCHANGED <<msgs, issued, events>>
  BY DEF Restart
<1>3. /\ rewound \subseteq rewound' /\ rewound' \subseteq Nodes
      /\ n \notin rewound' => \A t \in issued : t.node = n => ~ (now <= t.wall)
  BY DEF Restart, HlcInv, TypeOK
<1> HIDE DEF ts
<1>4. \A i \in Nodes : /\ last'[i] = IF i = n THEN ts ELSE last[i]
                       /\ past'[i] = IF i = n THEN {} ELSE past[i]
  BY <1>2 DEF HlcInv, TypeOK
<1>5. Exhausted' <=> Exhausted
  BY <1>2 DEF Exhausted
<1>6. TypeOK'
  BY <1>1, <1>2, <1>3, <1>4 DEF HlcInv, TypeOK
<1>7. ClocksIssue'
  BY <1>1, <1>2, <1>4 DEF HlcInv, ClocksIssue
<1>8. IssuedInOrder'
  <2> SUFFICES ASSUME ~ Exhausted, NEW t \in issued, t.node \notin rewound'
               PROVE  NotAfter(t, last'[t.node])
    BY <1>2, <1>5 DEF IssuedInOrder
  <2>1. t \in Timestamps /\ t.node \in Nodes /\ NotAfter(t, last[t.node])
    BY <1>3 DEF HlcInv, TypeOK, IssuedInOrder, ClocksIssue
  <2>2. CASE t.node = n
    <3>1. ~ (now <= t.wall) /\ t.wall \in Nat
      BY <1>3, <2>1, <2>2 DEF Timestamps
    <3>2. Before(t, ts)
      BY <1>1, <3>1 DEF Before
    <3>3. QED
      BY <1>4, <2>2, <3>2 DEF NotAfter
  <2>3. CASE t.node # n
    BY <1>4, <2>1, <2>3
  <2>4. QED
    BY <2>2, <2>3
<1>9. ClockCondition'
  BY <1>2, <1>4, <1>5 DEF HlcInv, ClockCondition
<1>10. QED
  BY <1>6, <1>7, <1>8, <1>9 DEF HlcInv

\* Whatever the wall clocks do and whenever nodes are restarted, the inductive
\* invariant of the clocks holds (hlc.rs, Hlc::new, send and recv).
THEOREM HlcInvariant == Spec => []HlcInv
<1>1. Init => HlcInv
  <2> SUFFICES ASSUME Init PROVE HlcInv
    OBVIOUS
  <2>1. PICK now \in [Nodes -> Readings] :
          last = [n \in Nodes |-> Fresh(n, now[n])]
    BY DEF Init
  <2>2. \A n \in Nodes : /\ last[n] \in Timestamps
                          /\ last[n].node = n /\ last[n].logical = 0
    <3> TAKE n \in Nodes
    <3>1. now[n] \in Readings /\ last[n] = Fresh(n, now[n])
      BY <2>1
    <3>2. QED
      BY <3>1, FreshType
  <2>3. last \in [Nodes -> Timestamps]
    BY <2>1, <2>2
  <2>4. TypeOK
    BY <2>2, <2>3, MaxEventsIsNumber DEF Init, TypeOK
  <2>5. QED
    BY <2>2, <2>4 DEF Init, HlcInv, ClocksIssue, IssuedInOrder, ClockCondition
<1>2. HlcInv /\ [Next]_vars => HlcInv'
  <2> SUFFICES ASSUME HlcInv, [Next]_vars
               PROVE  HlcInv'
    OBVIOUS
  <2>1. ASSUME NEW n \in Nodes, NEW now \in Readings, Send(n, now)
        PROVE  HlcInv'
    BY <2>1, SendStep
  <2>2. ASSUME NEW n \in Nodes, NEW now \in Readings, NEW m \in msgs,
               Recv(n, m, now)
        PROVE  HlcInv'
    BY <2>2, RecvStep
  <2>3. ASSUME NEW n \in Nodes, NEW now \in Readings, Restart(n, now)
        PROVE  HlcInv'
    BY <2>3, RestartStep
  <2>4. CASE UNCHANGED vars
    BY <2>4 DEF vars, HlcInv, TypeOK, ClocksIssue, IssuedInOrder,
                ClockCondition, Exhausted
  <2>5. QED
    BY <2>1, <2>2, <2>3, <2>4 DEF Next
<1>3. QED
  BY <1>1, <1>2, PTL DEF Spec

\* Every behaviour satisfies the clock condition (hlc.rs, send and recv):
\* restarts, at whatever wall time, do not break it.
THEOREM ClockConditionHolds == Spec => []ClockCondition
<1>1. HlcInv => ClockCondition
  BY DEF HlcInv
<1>2. QED
  BY <1>1, HlcInvariant, PTL

\* A clock returns a timestamp that some clock has returned before only after
\* a restart of its node at a wall time it had used (hlc.rs:78) or once a
\* counter has reached its limit (hlc.rs:111).
THEOREM TimestampsAreFresh == Spec => FreshTimestamps
<1> DEFINE NewOnes == \A n \in Nodes \ rewound :
             events'[n] # events[n] /\ ~ Exhausted => last'[n] \notin issued
<1>1. HlcInv /\ [Next]_vars => [NewOnes]_vars
  <2> SUFFICES ASSUME HlcInv, Next,
                      NEW n \in Nodes, n \notin rewound,
                      events'[n] # events[n], ~ Exhausted
               PROVE  last'[n] \notin issued
    BY DEF vars
  <2>0. ASSUME NEW ts \in Timestamps, ts.node = n, Before(last[n], ts)
        PROVE  ts \notin issued
    <3> SUFFICES ASSUME ts \in issued PROVE FALSE
      OBVIOUS
    <3>1. NotAfter(ts, last[n]) /\ last[n] \in Timestamps
      BY <2>0 DEF HlcInv, TypeOK, IssuedInOrder
    <3>2. QED
      BY <2>0, <3>1, BeforeTransitive, BeforeIrreflexive
  <2>1. ASSUME NEW i \in Nodes, NEW ts, NEW before, Issue(i, ts, before)
        PROVE  i = n
    BY <2>1 DEF Issue, HlcInv, TypeOK
  <2>2. ASSUME NEW i \in Nodes, NEW now \in Readings, Send(i, now)
        PROVE  last'[n] \notin issued
    <3> DEFINE ts == AdvanceSend(last[n], now)
    <3>1. i = n /\ last'[n] = ts
      BY <2>1, <2>2 DEF Send, Issue, HlcInv, TypeOK
    <3>2. HlcInv' /\ Before(last[n], ts)
      BY <2>2, <3>1, SendStep
    <3>3. ts \in Timestamps /\ ts.node = n
      BY <3>1, <3>2 DEF HlcInv, TypeOK
    <3> HIDE DEF ts
    <3>4. QED
      BY <2>0, <3>1, <3>2, <3>3
  <2>3. ASSUME NEW i \in Nodes, NEW now \in Readings, NEW m \in msgs,
               Recv(i, m, now)
        PROVE  last'[n] \notin issued
    <3> DEFINE ts == AdvanceRecv(last[n], m.ts, now)
    <3>1. i = n /\ last'[n] = ts
      BY <2>1, <2>3 DEF Recv, Issue, HlcInv, TypeOK
    <3>2. HlcInv' /\ Before(last[n], ts)
      BY <2>3, <3>1, RecvStep
    <3>3. ts \in Timestamps /\ ts.node = n
      BY <3>1, <3>2 DEF HlcInv, TypeOK
    <3> HIDE DEF ts
    <3>4. QED
      BY <2>0, <3>1, <3>2, <3>3
  <2>4. ASSUME NEW i \in Nodes, NEW now \in Readings, Restart(i, now)
        PROVE  FALSE
    BY <2>4 DEF Restart
  <2>5. QED
    BY <2>2, <2>3, <2>4 DEF Next
<1>2. QED
  BY <1>1, HlcInvariant, PTL DEF Spec, FreshTimestamps
=============================================================================
