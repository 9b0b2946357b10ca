----------------------------- MODULE DeviceStatus -----------------------------
(***************************************************************************)
(* Presence: the node's discovery and heartbeat task against the hub's     *)
(* CommunicationStateManager, with time.  HubEvents lets any device become *)
(* overdue at any moment; here a clock decides.                            *)
(*                                                                         *)
(* One unit of time is a second, the period both loops are written for:    *)
(* with_timeout(1 s) on the node, a read timeout of 1 s on the hub.  Each  *)
(* loop may run any number of times within a second and runs at least once *)
(* before the clock moves on.  A datagram is lost, or it is processed      *)
(* within MaxDelay seconds (network delay and the hub's backlog together), *)
(* possibly more than once.                                                *)
(***************************************************************************)
EXTENDS Integers, FiniteSets

CONSTANTS
  Device,
  OfflineTimeout,     \* --offline-timeout-sec; 0 is accepted
  HeartbeatInterval,  \* heartbeat_interval_sec of the nodes; validate() refuses 0
  MaxDelay,           \* a datagram is processed this late at most
  Never,              \* last_seen_at = None
  MaxTime,            \* bound: seconds explored
  MaxRestarts         \* bound: hub and node restarts explored

ASSUME TimingAssumption ==
  /\ OfflineTimeout \in Nat
  /\ HeartbeatInterval \in Nat \ {0}
  /\ MaxDelay \in Nat
  /\ MaxTime \in Nat /\ MaxRestarts \in Nat
  /\ Never \notin Nat

Status == {"UNMANAGED", "INITIAL_WAIT", "ONLINE", "OFFLINE"}

\* Datagrams under way, with the second they were sent in: HELLO_REQUEST to a
\* node, the three others from it.
Kind   == {"HELLO_REQUEST", "HELLO", "HEARTBEAT", "EVENT"}
Flight == [kind : Kind, dev : Device, sent : Nat]

VARIABLES
  now,
  status,     \* CommunicationStateManager: status of each device
  lastSeen,   \* last_seen_at
  waitStart,  \* initial_wait_started_at
  enabled,    \* devices.enabled
  hubTurn,    \* the hub's loop has run in this second
  hubKnown,   \* HUB_ENDPOINT holds an endpoint
  lastBeat,   \* last_heartbeat of the node's task
  nodeTurn,   \* the node's task has run in this second
  flight,     \* datagrams under way
  healthy,    \* history variable: since the hub last heard the device, neither
              \* end restarted, no HEARTBEAT was lost, the device stayed enabled
  restarts

hub  == <<status, lastSeen, waitStart, hubTurn>>
node == <<hubKnown, lastBeat, nodeTurn>>
vars == <<now, status, lastSeen, waitStart, enabled, hubTurn, hubKnown, lastBeat,
          nodeTurn, flight, healthy, restarts>>

TypeOK ==
  /\ now \in Nat
  /\ status \in [Device -> Status]
  /\ lastSeen \in [Device -> Nat \cup {Never}]
  /\ waitStart \in Nat
  /\ enabled \in [Device -> BOOLEAN]
  /\ hubTurn \in BOOLEAN
  /\ hubKnown \in [Device -> BOOLEAN]
  /\ lastBeat \in [Device -> Nat]
  /\ nodeTurn \in [Device -> BOOLEAN]
  /\ flight \subseteq Flight
  /\ healthy \in [Device -> BOOLEAN]
  /\ restarts \in Nat

Datagram(kind, d) == [kind |-> kind, dev |-> d, sent |-> now]

\* from_database over the enabled devices.
FreshStatus ==
  [d \in Device |-> IF enabled[d] THEN "INITIAL_WAIT" ELSE "UNMANAGED"]

Init ==
  /\ now = 0
  /\ enabled \in [Device -> BOOLEAN]
  /\ status = FreshStatus
  /\ lastSeen = [d \in Device |-> Never]
  /\ waitStart = 0
  /\ hubTurn = FALSE
  /\ hubKnown = [d \in Device |-> FALSE]
  /\ lastBeat = [d \in Device |-> 0]
  /\ nodeTurn = [d \in Device |-> FALSE]
  /\ flight = {Datagram("HELLO_REQUEST", d) : d \in Device}
  /\ healthy = [d \in Device |-> FALSE]
  /\ restarts = 0

------------------------------------------------------------------------------
(* The node *)

\* mistake: the heartbeat waits until the interval has been exceeded.
BeatDueLate(d) == now - lastBeat[d] > HeartbeatInterval

\* last_heartbeat lies at least one interval back.
BeatDue(d) == now - lastBeat[d] >= HeartbeatInterval

\* One iteration of discovery_and_heartbeat_task: a HELLO_REQUEST, if one was
\* received, is answered with HELLO; then the heartbeat, which restarts the
\* interval even when there is no hub to send it to.
NodeLoop(d) ==
  \E requests \in SUBSET {m \in flight : m.kind = "HELLO_REQUEST" /\ m.dev = d} :
    LET known == hubKnown[d] \/ requests # {}
        due   == BeatDue(d)
        hello == IF requests # {} THEN {Datagram("HELLO", d)} ELSE {}
        beat  == IF due /\ known THEN {Datagram("HEARTBEAT", d)} ELSE {}
    IN  /\ Cardinality(requests) <= 1
        /\ hubKnown' = [hubKnown EXCEPT ![d] = known]
        /\ lastBeat' = [lastBeat EXCEPT ![d] = IF due THEN now ELSE @]
        /\ nodeTurn' = [nodeTurn EXCEPT ![d] = TRUE]
        /\ flight' = (flight \ requests) \cup hello \cup beat
        /\ UNCHANGED <<now, hub, enabled, healthy, restarts>>

\* event_sender_task transmits an EVENT.
SendEvent(d) ==
  /\ hubKnown[d]
  /\ flight' = flight \cup {Datagram("EVENT", d)}
  /\ UNCHANGED <<now, hub, enabled, node, healthy, restarts>>

\* The node reboots: it has forgotten the hub and waits for a HELLO_REQUEST.
NodeRestart(d) ==
  /\ restarts < MaxRestarts
  /\ restarts' = restarts + 1
  /\ hubKnown' = [hubKnown EXCEPT ![d] = FALSE]
  /\ lastBeat' = [lastBeat EXCEPT ![d] = now]
  /\ healthy' = [healthy EXCEPT ![d] = FALSE]
  /\ UNCHANGED <<now, hub, enabled, nodeTurn, flight>>

------------------------------------------------------------------------------
(* The hub *)

\* The time a device's silence is counted from.
Reference(s) == IF s = Never THEN waitStart ELSE s

\* mistake: a device that has never been heard is not checked.
OverdueIfSeen(s) == s # Never /\ now - s >= OfflineTimeout

\* mark_offline: the deadline counts from the last reception, or from the start
\* of the hub for a device not heard yet.
Overdue(s) == now - Reference(s) >= OfflineTimeout

\* mark_offline over all devices, after `seen' became their last receptions
\* and `st' their status.
Sweep(st, seen) ==
  /\ status' = [d \in Device |->
       IF st[d] # "UNMANAGED" /\ Overdue(seen[d]) THEN "OFFLINE" ELSE st[d]]
  /\ lastSeen' = seen
  /\ hubTurn' = TRUE

\* recv_from timed out.
HubTimeout ==
  /\ Sweep(status, lastSeen)
  /\ UNCHANGED <<now, waitStart, enabled, node, flight, healthy, restarts>>

\* A datagram of an enabled, managed device is observed.  An EVENT whose action
\* is not available is dropped before observe_message.
Observed(m) ==
  /\ m.kind # "HELLO_REQUEST"
  /\ enabled[m.dev] /\ status[m.dev] # "UNMANAGED"

\* A datagram is processed; it stays under way when it was duplicated.
HubReceive(m) ==
  /\ m.kind # "HELLO_REQUEST"
  /\ flight' \in {flight, flight \ {m}}
  /\ \/ /\ Observed(m)
        /\ Sweep([status EXCEPT ![m.dev] = "ONLINE"], [lastSeen EXCEPT ![m.dev] = now])
        /\ healthy' = [healthy EXCEPT ![m.dev] = hubKnown[m.dev]]
     \/ /\ ~ Observed(m) \/ m.kind = "EVENT"
        /\ Sweep(status, lastSeen)
        /\ UNCHANGED healthy
  /\ UNCHANGED <<now, waitStart, enabled, node, restarts>>

\* The hub process starts over.
HubRestart ==
  /\ restarts < MaxRestarts
  /\ restarts' = restarts + 1
  /\ status' = FreshStatus
  /\ lastSeen' = [d \in Device |-> Never]
  /\ waitStart' = now
  /\ healthy' = [d \in Device |-> FALSE]
  /\ hubTurn' = FALSE
  /\ flight' = flight \cup {Datagram("HELLO_REQUEST", d) : d \in Device}
  /\ UNCHANGED <<now, enabled, node>>

------------------------------------------------------------------------------
(* The world *)

\* Another process changes devices.enabled; the hub's map does not follow.
EditDevice(d) ==
  /\ enabled' = [enabled EXCEPT ![d] = ~ @]
  /\ healthy' = [healthy EXCEPT ![d] = FALSE]
  /\ UNCHANGED <<now, hub, node, flight, restarts>>

Lose(m) ==
  /\ flight' = flight \ {m}
  /\ healthy' = [healthy EXCEPT ![m.dev] = @ /\ m.kind # "HEARTBEAT"]
  /\ UNCHANGED <<now, hub, enabled, node, restarts>>

\* A second passes: every loop has run in it and nothing under way is overdue.
Tick ==
  /\ now < MaxTime
  /\ hubTurn /\ \A d \in Device : nodeTurn[d]
  /\ \A m \in flight : now - m.sent < MaxDelay
  /\ now' = now + 1
  /\ hubTurn' = FALSE
  /\ nodeTurn' = [d \in Device |-> FALSE]
  /\ UNCHANGED <<status, lastSeen, waitStart, enabled, hubKnown, lastBeat, flight,
                 healthy, restarts>>

Next ==
  \/ \E d \in Device : NodeLoop(d) \/ SendEvent(d) \/ NodeRestart(d) \/ EditDevice(d)
  \/ \E m \in flight : HubReceive(m) \/ Lose(m)
  \/ HubTimeout \/ HubRestart
  \/ Tick

Spec == Init /\ [][Next]_vars

------------------------------------------------------------------------------
(* Properties *)

\* No status outlives its evidence: a device that is shown ONLINE or in
\* INITIAL_WAIT was heard, or the hub was started, at most one timeout ago.
StatusIsFresh ==
  \A d \in Device :
    status[d] \in {"INITIAL_WAIT", "ONLINE"} => now - Reference(lastSeen[d]) <= OfflineTimeout

\* The margin the two settings need.  The defaults (180 s for both) leave none.
Margin == OfflineTimeout > HeartbeatInterval + MaxDelay

\* With that margin a device the hub has heard stays ONLINE as long as no HEARTBEAT
\* is lost, neither end restarts and it stays enabled: no false alarm, for any
\* phase of the node's interval, HELLOs and EVENTs in between included.
LiveDeviceStaysOnline ==
  Margin => \A d \in Device : healthy[d] => status[d] = "ONLINE"
==============================================================================
