-------------------------------- MODULE Hlc --------------------------------
(***************************************************************************)
(* The hybrid logical clock of core/hlc.rs at work: every node owns one    *)
(* Hlc, stamps its events with send, merges the timestamps it receives     *)
(* with recv, and may be restarted at any time (Hlc::new).  Wall clocks    *)
(* are arbitrary: they stand still and run back between two reads and      *)
(* between two lives of a node.                                            *)
(*                                                                         *)
(* `past` and `rewound` are history variables.  past[n] is the causal past *)
(* of the next event of n, as far as the running process of n took part in *)
(* it: what it has stamped and received, and what that carried.  A message *)
(* is the pair of a timestamp and the causal past it carries.              *)
(***************************************************************************)
EXTENDS HlcTimestamp

CONSTANTS Readings,      \* what ClockSource::wall_ms may return
          MaxEvents      \* bound: timestamps a node issues in a behaviour

ASSUME ReadingsAreNumbers == Readings \subseteq Nat
ASSUME MaxEventsIsNumber == MaxEvents \in Nat
ASSUME CounterCounts == LogicalWidth > 1

VARIABLES last,      \* node -> Hlc.last
          past,      \* node -> the timestamps known to have happened before
          msgs,      \* messages in flight; never consumed, so they may be late or repeated
          issued,    \* every timestamp a clock has returned
          events,    \* node -> how many timestamps it has returned
          rewound    \* nodes restarted at a wall time they had used before

vars == <<last, past, msgs, issued, events, rewound>>

Messages == [ts : Timestamps, past : SUBSET Timestamps]

\* Hlc::new: the clock of a process that starts.
Fresh(n, now) == [wall |-> now, logical |-> 0, node |-> n]

Init ==
  /\ \E now \in [Nodes -> Readings] : last = [n \in Nodes |-> Fresh(n, now[n])]
  /\ past = [n \in Nodes |-> {}]
  /\ msgs = {}
  /\ issued = {}
  /\ events = [n \in Nodes |-> 0]
  /\ rewound = {}

\* Returning the new timestamp without storing it in the clock.
IssueUnstored(n, ts, before) ==
  /\ events[n] < MaxEvents
  /\ events' = [events EXCEPT ![n] = @ + 1]
  /\ issued' = issued \cup {ts}
  /\ past' = [past EXCEPT ![n] = before \cup {ts}]
  /\ UNCHANGED <<last, rewound>>

\* What send and recv have in common: the new timestamp becomes the clock's
\* last one and is returned to the caller.
Issue(n, ts, before) ==
  /\ events[n] < MaxEvents
  /\ events' = [events EXCEPT ![n] = @ + 1]
  /\ last' = [last EXCEPT ![n] = ts]
  /\ issued' = issued \cup {ts}
  /\ past' = [past EXCEPT ![n] = before \cup {ts}]
  /\ UNCHANGED rewound

\* Hlc::send, and the broadcast of the event it stamps.
Send(n, now) ==
  LET ts == AdvanceSend(last[n], now)
  IN  /\ Issue(n, ts, past[n])
      /\ msgs' = msgs \cup {[ts |-> ts, past |-> past[n]]}

\* Hlc::recv of a message.
Recv(n, m, now) ==
  LET ts == AdvanceRecv(last[n], m.ts, now)
  IN  /\ Issue(n, ts, past[n] \cup m.past \cup {m.ts})
      /\ UNCHANGED msgs

\* Hlc::new in a new process of n, at any wall time.  Nothing of the old
\* clock survives and nothing is compared with it.
Restart(n, now) ==
  /\ last' = [last EXCEPT ![n] = Fresh(n, now)]
  /\ past' = [past EXCEPT ![n] = {}]
  /\ rewound' = rewound \cup {k \in {n} : \E t \in issued : t.node = k /\ now <= t.wall}
  /\ UNCHANGED <<msgs, issued, events>>

Next ==
  \E n \in Nodes, now \in Readings :
    \/ Send(n, now)
    \/ \E m \in msgs : Recv(n, m, now)
    \/ Restart(n, now)

Spec == Init /\ [][Next]_vars

----------------------------------------------------------------------------
(* Properties *)

TypeOK ==
  /\ last \in [Nodes -> Timestamps]
  /\ \A n \in Nodes : last[n].node = n
  /\ past \in [Nodes -> SUBSET Timestamps]
  /\ msgs \subseteq Messages
  /\ issued \subseteq Timestamps
  /\ events \in [Nodes -> 0 .. MaxEvents]
  /\ rewound \subseteq Nodes

\* Some counter has reached its last value, so the next event of its tick
\* starts it again (hlc.rs:111, `self.last.logical + 1` of a u32).
Exhausted == \E t \in issued : t.logical = LogicalWidth - 1

\* The clock condition: a timestamp is later than every timestamp in the
\* causal past of its event, through any chain of sends and receives, also
\* when the wall clocks disagree, stand still or run back and processes are
\* restarted at any time (hlc.rs, "preserving causality").  Only a counter
\* that has reached its limit ends it.
ClockCondition ==
  ~ Exhausted => /\ \A m \in msgs : \A t \in m.past : Before(t, m.ts)
                 /\ \A n \in Nodes : \A t \in past[n] : NotAfter(t, last[n])

\* An event gets a timestamp that no clock has returned before, except on a
\* node that was restarted at a wall time it had used, or once a counter has
\* reached its limit: there is no third way to a timestamp that comes twice.
\* ServiceEndpoints uses timestamps as globally unique dots and DocumentData
\* breaks ties with them.
FreshTimestamps ==
  [][\A n \in Nodes \ rewound :
       events'[n] # events[n] /\ ~ Exhausted => last'[n] \notin issued]_vars

----------------------------------------------------------------------------
(* The inductive invariant behind the theorems of HlcProofs. *)

\* A clock shows a timestamp it has returned or has just been started, and
\* what is under way was returned by a clock: where no counter is at its
\* limit, none wraps.
ClocksIssue ==
  /\ \A n \in Nodes : last[n] \in issued \/ last[n].logical = 0
  /\ \A m \in msgs : m.ts \in issued
  /\ \A t \in issued : t.node \in Nodes

\* A node that has not been set back has issued nothing beyond its clock.
IssuedInOrder ==
  ~ Exhausted => \A t \in issued : t.node \notin rewound => NotAfter(t, last[t.node])

\* Timestamps respect causality and the order of issue whatever the wall
\* clocks and restarts do (hlc.rs, Hlc::new, send and recv).
HlcInv == TypeOK /\ ClocksIssue /\ IssuedInOrder /\ ClockCondition
=============================================================================
