------------------------- MODULE DeviceStatus_proofs -------------------------
(***************************************************************************)
(* Theorems about DeviceStatus, for every timeout, heartbeat interval and  *)
(* delay, any number of devices and an unbounded clock.                    *)
(***************************************************************************)
EXTENDS DeviceStatus, TLAPS

\* Between two seconds nothing shown is a timeout old; right after the clock
\* moved it may just have become so.
FreshInv ==
  \A d \in Device :
    status[d] \in {"INITIAL_WAIT", "ONLINE"} =>
      /\ now - Reference(lastSeen[d]) <= OfflineTimeout
      /\ hubTurn => now - Reference(lastSeen[d]) < OfflineTimeout

\* The node's task is never behind its interval.
BeatInv ==
  \A d \in Device :
    /\ lastBeat[d] <= now /\ now - lastBeat[d] <= HeartbeatInterval
    /\ nodeTurn[d] => now - lastBeat[d] < HeartbeatInterval

\* Nothing under way is older than MaxDelay.
FlightInv == \A m \in flight : m.sent <= now /\ now <= m.sent + MaxDelay

\* A heartbeat under way that will reach the hub within an interval and a delay
\* of the last reception.
Coming(d) ==
  \E m \in flight :
    /\ m.kind = "HEARTBEAT" /\ m.dev = d
    /\ m.sent <= lastSeen[d] + HeartbeatInterval

\* A healthy device was heard, and either its current interval began before
\* that, so that the next heartbeat is not far, or the next one is on its way.
HealthyInv ==
  \A d \in Device :
    healthy[d] =>
      /\ hubKnown[d] /\ enabled[d]
      /\ status[d] # "UNMANAGED" /\ lastSeen[d] \in Nat
      /\ lastBeat[d] <= lastSeen[d] \/ Coming(d)
      /\ Margin => status[d] = "ONLINE"

PresenceInv == TypeOK /\ FreshInv /\ BeatInv /\ FlightInv /\ HealthyInv

\* A healthy device was last heard less than an interval and a delay ago.
LEMMA HealthyRecent ==
  ASSUME PresenceInv, NEW d \in Device, healthy[d]
  PROVE  now - lastSeen[d] <= HeartbeatInterval + MaxDelay
<1> USE TimingAssumption DEF PresenceInv, TypeOK
<1>1. CASE lastBeat[d] <= lastSeen[d]
  BY <1>1 DEF BeatInv, HealthyInv
<1>2. CASE Coming(d)
  <2>1. PICK m \in flight : m.sent <= lastSeen[d] + HeartbeatInterval
    BY <1>2 DEF Coming
  <2>2. now <= m.sent + MaxDelay /\ m.sent \in Nat
    BY DEF FlightInv, Flight
  <2> QED BY <2>1, <2>2 DEF HealthyInv
<1> QED BY <1>1, <1>2 DEF HealthyInv

\* What is sent now is a datagram of this second.
LEMMA DatagramType ==
  ASSUME now \in Nat, NEW kind \in Kind, NEW d \in Device
  PROVE  Datagram(kind, d) \in Flight /\ Datagram(kind, d).sent = now
  BY DEF Datagram, Flight

------------------------------------------------------------------------------
(* Type correctness *)

\* Sweeping keeps the hub's maps maps to their types.
LEMMA SweepType ==
  ASSUME NEW st \in [Device -> Status], NEW seen \in [Device -> Nat \cup {Never}],
         Sweep(st, seen)
  PROVE  status' \in [Device -> Status] /\ lastSeen' \in [Device -> Nat \cup {Never}]
         /\ hubTurn' = TRUE
  BY DEF Sweep, Status

\* Every action keeps the variables within their types.
LEMMA TypeStep == TypeOK /\ [Next]_vars => TypeOK'
<1> SUFFICES ASSUME TypeOK, [Next]_vars PROVE TypeOK'
  OBVIOUS
<1> USE DEF TypeOK
<1>1. ASSUME NEW d \in Device, NodeLoop(d) PROVE TypeOK'
  <2>1. PICK requests \in SUBSET {m \in flight : m.kind = "HELLO_REQUEST" /\ m.dev = d} :
          /\ hubKnown' = [hubKnown EXCEPT ![d] = hubKnown[d] \/ requests # {}]
          /\ lastBeat' = [lastBeat EXCEPT ![d] = IF BeatDue(d) THEN now ELSE @]
          /\ nodeTurn' = [nodeTurn EXCEPT ![d] = TRUE]
          /\ flight' \subseteq
               flight \cup {Datagram("HELLO", d), Datagram("HEARTBEAT", d)}
          /\ UNCHANGED <<now, hub, enabled, healthy, restarts>>
    BY <1>1 DEF NodeLoop
  <2>2. flight' \subseteq Flight
    BY <2>1, DatagramType DEF Kind
  <2> QED BY <2>1, <2>2 DEF hub
<1>2. ASSUME NEW d \in Device, SendEvent(d) PROVE TypeOK'
  BY <1>2, DatagramType DEF SendEvent, hub, node, Kind
<1>3. ASSUME NEW d \in Device, NodeRestart(d) PROVE TypeOK'
  BY <1>3 DEF NodeRestart, hub
<1>4. ASSUME NEW d \in Device, EditDevice(d) PROVE TypeOK'
  BY <1>4 DEF EditDevice, hub, node
<1>5. ASSUME NEW m \in flight, HubReceive(m) PROVE TypeOK'
  <2>1. m.dev \in Device
    BY DEF Flight
  <2>2. [status EXCEPT ![m.dev] = "ONLINE"] \in [Device -> Status]
        /\ [lastSeen EXCEPT ![m.dev] = now] \in [Device -> Nat \cup {Never}]
    BY <2>1 DEF Status
  <2>3. status' \in [Device -> Status] /\ lastSeen' \in [Device -> Nat \cup {Never}]
        /\ hubTurn' = TRUE
    BY <1>5, <2>2, SweepType DEF HubReceive
  <2> QED BY <1>5, <2>1, <2>3 DEF HubReceive, node
<1>6. ASSUME NEW m \in flight, Lose(m) PROVE TypeOK'
  BY <1>6 DEF Lose, hub, node
<1>7. CASE HubTimeout
  BY <1>7, SweepType DEF HubTimeout, node
<1>8. CASE HubRestart
  <2>1. \A d \in Device : Datagram("HELLO_REQUEST", d) \in Flight
    BY DatagramType DEF Kind
  <2>2. flight' \subseteq Flight
    BY <1>8, <2>1 DEF HubRestart
  <2>3. status' \in [Device -> Status]
    BY <1>8 DEF HubRestart, FreshStatus, Status
  <2>4. hubTurn' \in BOOLEAN
    BY <1>8, Zenon DEF HubRestart
  <2> QED BY <1>8, <2>2, <2>3, <2>4 DEF HubRestart, node
<1>9. CASE Tick
  <2>1. now' \in Nat
    BY <1>9 DEF Tick
  <2>2. hubTurn' \in BOOLEAN
    BY <1>9, Zenon DEF Tick
  <2>3. nodeTurn' \in [Device -> BOOLEAN]
    BY <1>9 DEF Tick
  <2>4. UNCHANGED <<status, lastSeen, waitStart, enabled, hubKnown, lastBeat, flight,
                    healthy, restarts>>
    BY <1>9 DEF Tick
  <2> QED BY <2>1, <2>2, <2>3, <2>4
<1>10. CASE UNCHANGED vars
  BY <1>10 DEF vars
<1> QED BY <1>1, <1>2, <1>3, <1>4, <1>5, <1>6, <1>7, <1>8, <1>9, <1>10 DEF Next

------------------------------------------------------------------------------
(* The hub's clock *)

\* After a sweep what is not OFFLINE is fresh.
LEMMA SweepFresh ==
  ASSUME NEW st \in [Device -> Status], NEW seen \in [Device -> Nat \cup {Never}],
         Sweep(st, seen), TypeOK, UNCHANGED <<now, waitStart>>
  PROVE  FreshInv'
<1> SUFFICES ASSUME NEW d \in Device, status'[d] \in {"INITIAL_WAIT", "ONLINE"}
             PROVE  (now - Reference(lastSeen[d]) < OfflineTimeout)'
  BY TimingAssumption DEF FreshInv, TypeOK, Reference, Sweep
<1>1. ~ (now - Reference(seen[d]) >= OfflineTimeout)
  BY DEF Sweep, Overdue
<1> QED BY <1>1, TimingAssumption DEF Sweep, Reference, TypeOK

\* The clock moves only after a sweep, so freshness is lost by one second at most.
LEMMA FreshStep == PresenceInv /\ [Next]_vars => FreshInv'
<1> SUFFICES ASSUME PresenceInv, [Next]_vars PROVE FreshInv'
  OBVIOUS
<1> USE DEF PresenceInv, TypeOK
<1>1. CASE HubTimeout
  BY <1>1, SweepFresh DEF HubTimeout
<1>2. ASSUME NEW m \in flight, HubReceive(m) PROVE FreshInv'
  <2>1. m.dev \in Device
    BY DEF Flight
  <2>2. [status EXCEPT ![m.dev] = "ONLINE"] \in [Device -> Status]
        /\ [lastSeen EXCEPT ![m.dev] = now] \in [Device -> Nat \cup {Never}]
    BY <2>1 DEF Status
  <2> QED BY <1>2, <2>2, SweepFresh DEF HubReceive
<1>3. CASE HubRestart
  BY <1>3, TimingAssumption DEF HubRestart, FreshInv, Reference
<1>4. CASE Tick
  BY <1>4, TimingAssumption DEF Tick, FreshInv, Reference
<1>5. CASE UNCHANGED <<now, status, lastSeen, waitStart, hubTurn>>
  BY <1>5 DEF FreshInv, Reference
<1>6. HubTimeout \/ (\E m \in flight : HubReceive(m)) \/ HubRestart \/ Tick
      \/ UNCHANGED <<now, status, lastSeen, waitStart, hubTurn>>
  BY DEF Next, vars, hub, NodeLoop, SendEvent, NodeRestart, EditDevice, Lose
<1> QED BY <1>1, <1>2, <1>3, <1>4, <1>5, <1>6

------------------------------------------------------------------------------
(* The node's clock and the network *)

\* The clock does not move before every node's task has run.
LEMMA BeatStep == PresenceInv /\ [Next]_vars => BeatInv'
<1> SUFFICES ASSUME PresenceInv, [Next]_vars PROVE BeatInv'
  OBVIOUS
<1> USE TimingAssumption DEF PresenceInv, TypeOK, BeatInv
<1>1. ASSUME NEW d \in Device, NodeLoop(d) PROVE BeatInv'
  <2>1. /\ lastBeat' = [lastBeat EXCEPT ![d] = IF BeatDue(d) THEN now ELSE @]
        /\ nodeTurn' = [nodeTurn EXCEPT ![d] = TRUE]
        /\ now' = now
    BY <1>1 DEF NodeLoop
  <2> QED BY <2>1 DEF BeatDue
<1>2. ASSUME NEW d \in Device, NodeRestart(d) PROVE BeatInv'
  BY <1>2 DEF NodeRestart
<1>3. CASE Tick
  BY <1>3 DEF Tick
<1>4. CASE UNCHANGED <<now, lastBeat, nodeTurn>>
  BY <1>4
<1>5. (\E d \in Device : NodeLoop(d) \/ NodeRestart(d)) \/ Tick
      \/ UNCHANGED <<now, lastBeat, nodeTurn>>
  BY DEF Next, vars, node, SendEvent, EditDevice, HubReceive, Lose, HubTimeout, HubRestart
<1> QED BY <1>1, <1>2, <1>3, <1>4, <1>5

\* What a step adds to the network was sent in this second.
LEMMA FlightStep == PresenceInv /\ [Next]_vars => FlightInv'
<1> SUFFICES ASSUME PresenceInv, [Next]_vars PROVE FlightInv'
  OBVIOUS
<1> USE TimingAssumption DEF PresenceInv, TypeOK, FlightInv
<1>1. CASE Tick
  BY <1>1 DEF Tick, Flight
<1>2. CASE now' = now /\ \A m \in flight' : m \in flight \/ m.sent = now
  BY <1>2
<1>3. Tick \/ (now' = now /\ \A m \in flight' : m \in flight \/ m.sent = now)
  <2>1. ASSUME NEW d \in Device, NodeLoop(d)
        PROVE  now' = now /\ \A m \in flight' : m \in flight \/ m.sent = now
    BY <2>1 DEF NodeLoop, Datagram
  <2>2. ASSUME NEW d \in Device, SendEvent(d) \/ NodeRestart(d) \/ EditDevice(d)
        PROVE  now' = now /\ \A m \in flight' : m \in flight \/ m.sent = now
    BY <2>2 DEF SendEvent, NodeRestart, EditDevice, Datagram
  <2>3. CASE HubRestart
    BY <2>3 DEF HubRestart, Datagram
  <2>4. CASE HubTimeout \/ UNCHANGED vars
    BY <2>4 DEF HubTimeout, vars
  <2>5. ASSUME NEW m \in flight, HubReceive(m) \/ Lose(m)
        PROVE  now' = now /\ \A n \in flight' : n \in flight \/ n.sent = now
    BY <2>5 DEF HubReceive, Lose
  <2> QED BY <2>1, <2>2, <2>3, <2>4, <2>5 DEF Next
<1> QED BY <1>1, <1>2, <1>3

------------------------------------------------------------------------------
(* Healthy devices *)

\* A sweep spares a healthy device when there is a margin.
LEMMA HealthySwept ==
  ASSUME PresenceInv, Margin, NEW d \in Device, healthy[d]
  PROVE  ~ Overdue(lastSeen[d])
<1>1. now - lastSeen[d] < OfflineTimeout /\ lastSeen[d] # Never
  BY HealthyRecent, TimingAssumption DEF Margin, PresenceInv, TypeOK, HealthyInv
<1> QED BY <1>1, TimingAssumption DEF Overdue, Reference, PresenceInv, TypeOK, HealthyInv

\* HealthyInv for one device.
Healthy(d) ==
  healthy[d] =>
    /\ hubKnown[d] /\ enabled[d]
    /\ status[d] # "UNMANAGED" /\ lastSeen[d] \in Nat
    /\ lastBeat[d] <= lastSeen[d] \/ Coming(d)
    /\ Margin => status[d] = "ONLINE"

\* A device neither end of which took part in a step stays as it was when the
\* hub swept it or left it alone.
LEMMA HealthyFrame ==
  ASSUME PresenceInv, NEW d \in Device,
         healthy'[d] => healthy[d],
         UNCHANGED <<now, enabled, hubKnown[d], lastBeat[d], lastSeen[d]>>,
         \A m \in flight : m.kind = "HEARTBEAT" /\ m.dev = d => m \in flight',
         status'[d] = status[d] \/ (Overdue(lastSeen[d]) /\ status'[d] = "OFFLINE")
  PROVE  Healthy(d)'
<1> SUFFICES ASSUME healthy'[d]
             PROVE  /\ (hubKnown[d] /\ enabled[d])'
                    /\ (status[d] # "UNMANAGED" /\ lastSeen[d] \in Nat)'
                    /\ (lastBeat[d] <= lastSeen[d] \/ Coming(d))'
                    /\ Margin => status'[d] = "ONLINE"
  BY DEF Healthy, Margin
<1>1. /\ hubKnown[d] /\ enabled[d]
      /\ status[d] # "UNMANAGED" /\ lastSeen[d] \in Nat
      /\ lastBeat[d] <= lastSeen[d] \/ Coming(d)
      /\ Margin => status[d] = "ONLINE"
  BY DEF PresenceInv, HealthyInv
<1>2. Coming(d) => Coming(d)'
  BY DEF Coming
<1>3. Margin => status'[d] = "ONLINE"
  BY <1>1, HealthySwept
<1> QED BY <1>1, <1>2, <1>3

\* A healthy device keeps a recent reception or a heartbeat on its way.
LEMMA HealthyStep == PresenceInv /\ [Next]_vars => HealthyInv'
<1> SUFFICES ASSUME PresenceInv, [Next]_vars, NEW d \in Device PROVE Healthy(d)'
  BY DEF HealthyInv, Healthy
<1> USE TimingAssumption DEF PresenceInv, TypeOK
<1>1. ASSUME NEW e \in Device, NodeLoop(e) PROVE Healthy(d)'
  <2>1. PICK requests \in SUBSET {m \in flight : m.kind = "HELLO_REQUEST" /\ m.dev = e} :
          /\ hubKnown' = [hubKnown EXCEPT ![e] = hubKnown[e] \/ requests # {}]
          /\ lastBeat' = [lastBeat EXCEPT ![e] = IF BeatDue(e) THEN now ELSE @]
          /\ flight \ requests \subseteq flight'
          /\ BeatDue(e) /\ (hubKnown[e] \/ requests # {}) =>
               Datagram("HEARTBEAT", e) \in flight'
          /\ UNCHANGED <<now, hub, enabled, healthy, restarts>>
    BY <1>1 DEF NodeLoop
  <2>2. \A m \in flight : m.kind = "HEARTBEAT" => m \in flight'
    BY <2>1
  <2>3. CASE d # e \/ ~ BeatDue(e)
    <3>1. CASE ~ healthy[d]
      BY <2>1, <3>1 DEF Healthy
    <3>2. CASE healthy[d]
      <4>1. hubKnown[d]
        BY <3>2 DEF HealthyInv
      <4>2. UNCHANGED <<hubKnown[d], lastBeat[d]>>
        BY <2>1, <2>3, <4>1
      <4> QED BY <2>1, <2>2, <4>2, HealthyFrame DEF hub
    <3> QED BY <3>1, <3>2
  <2>4. CASE d = e /\ BeatDue(e)
    <3> SUFFICES ASSUME healthy[d] PROVE Healthy(d)'
      BY <2>1 DEF Healthy
    <3>1. /\ hubKnown[d] /\ enabled[d]
          /\ status[d] # "UNMANAGED" /\ lastSeen[d] \in Nat
          /\ lastBeat[d] <= lastSeen[d] \/ Coming(d)
          /\ Margin => status[d] = "ONLINE"
      BY DEF HealthyInv
    <3>2. UNCHANGED <<now, status, lastSeen, enabled>> /\ hubKnown'[d]
      BY <2>1, <2>4, <3>1 DEF hub
    <3>3. CASE lastBeat[d] <= lastSeen[d]
      <4>1. now <= lastSeen[d] + HeartbeatInterval
        BY <3>1, <3>3 DEF BeatInv
      <4>2. /\ Datagram("HEARTBEAT", d) \in flight'
            /\ Datagram("HEARTBEAT", d).kind = "HEARTBEAT"
            /\ Datagram("HEARTBEAT", d).dev = d /\ Datagram("HEARTBEAT", d).sent = now
        BY <2>1, <2>4, <3>1 DEF Datagram
      <4>3. Coming(d)'
        BY <3>2, <4>1, <4>2 DEF Coming
      <4> QED BY <3>1, <3>2, <4>3 DEF Healthy, Margin
    <3>4. CASE Coming(d)
      <4>1. Coming(d)'
        BY <2>2, <3>2, <3>4 DEF Coming
      <4> QED BY <3>1, <3>2, <4>1 DEF Healthy, Margin
    <3> QED BY <3>1, <3>3, <3>4
  <2> QED BY <2>3, <2>4
<1>2. ASSUME NEW e \in Device, SendEvent(e) PROVE Healthy(d)'
  BY <1>2, HealthyFrame DEF SendEvent, hub, node
<1>3. ASSUME NEW e \in Device, NodeRestart(e) PROVE Healthy(d)'
  <2>1. CASE d = e
    BY <1>3, <2>1 DEF NodeRestart, Healthy
  <2>2. CASE d # e
    BY <1>3, <2>2, HealthyFrame DEF NodeRestart, hub
  <2> QED BY <2>1, <2>2
<1>4. ASSUME NEW e \in Device, EditDevice(e) PROVE Healthy(d)'
  <2>1. CASE d = e
    BY <1>4, <2>1 DEF EditDevice, Healthy
  <2>2. CASE d # e
    <3> SUFFICES ASSUME healthy[d] PROVE Healthy(d)'
      BY <1>4, <2>2 DEF EditDevice, Healthy
    <3>1. UNCHANGED <<now, status, lastSeen, lastBeat, hubKnown, flight>>
          /\ enabled'[d] = enabled[d]
      BY <1>4, <2>2 DEF EditDevice, hub, node
    <3> QED BY <3>1 DEF HealthyInv, Healthy, Coming, Margin
  <2> QED BY <2>1, <2>2
<1>5. CASE HubTimeout
  BY <1>5, HealthyFrame DEF HubTimeout, Sweep, node
<1>6. CASE HubRestart
  BY <1>6 DEF HubRestart, Healthy
<1>7. CASE Tick
  <2> SUFFICES ASSUME healthy[d] PROVE Healthy(d)'
    BY <1>7 DEF Tick, Healthy
  <2> QED BY <1>7 DEF Tick, HealthyInv, Healthy, Coming, Margin
<1>8. ASSUME NEW m \in flight, Lose(m) PROVE Healthy(d)'
  <2> SUFFICES ASSUME healthy'[d] PROVE Healthy(d)'
    BY DEF Healthy
  <2>1. healthy[d] /\ ~ (m.kind = "HEARTBEAT" /\ m.dev = d)
    BY <1>8 DEF Lose, Flight
  <2>2. UNCHANGED <<now, enabled, hubKnown[d], lastBeat[d], lastSeen[d], status>>
    BY <1>8 DEF Lose, hub, node
  <2>3. \A n \in flight : n.kind = "HEARTBEAT" /\ n.dev = d => n \in flight'
    BY <1>8, <2>1 DEF Lose
  <2> QED BY <2>1, <2>2, <2>3, HealthyFrame
<1>9. ASSUME NEW m \in flight, HubReceive(m) PROVE Healthy(d)'
  <2>1. m.dev \in Device /\ UNCHANGED <<now, enabled, hubKnown, lastBeat>>
    BY <1>9 DEF HubReceive, Flight, node
  <2>2. CASE /\ Observed(m)
             /\ Sweep([status EXCEPT ![m.dev] = "ONLINE"], [lastSeen EXCEPT ![m.dev] = now])
             /\ healthy' = [healthy EXCEPT ![m.dev] = hubKnown[m.dev]]
    <3>1. CASE m.dev = d
      <4>1. /\ healthy'[d] => hubKnown[d]
            /\ enabled[d] /\ lastSeen'[d] = now
            /\ status'[d] = IF Overdue(now) THEN "OFFLINE" ELSE "ONLINE"
        BY <2>1, <2>2, <3>1 DEF Observed, Sweep
      <4>2. Margin => ~ Overdue(now)
        BY DEF Margin, Overdue, Reference
      <4>3. lastBeat[d] <= now
        BY DEF BeatInv
      <4> QED BY <2>1, <4>1, <4>2, <4>3 DEF Healthy, Margin
    <3>2. CASE m.dev # d
      <4>1. /\ UNCHANGED <<lastSeen[d], healthy[d]>>
            /\ status'[d] = status[d] \/ (Overdue(lastSeen[d]) /\ status'[d] = "OFFLINE")
        BY <2>1, <2>2, <3>2 DEF Sweep
      <4>2. \A n \in flight : n.kind = "HEARTBEAT" /\ n.dev = d => n \in flight'
        BY <1>9, <3>2 DEF HubReceive
      <4> QED BY <2>1, <4>1, <4>2, HealthyFrame
    <3> QED BY <3>1, <3>2
  <2>3. CASE /\ ~ Observed(m) \/ m.kind = "EVENT"
             /\ Sweep(status, lastSeen) /\ UNCHANGED healthy
    <3> SUFFICES ASSUME healthy[d] PROVE Healthy(d)'
      BY <2>3 DEF Healthy
    <3>1. UNCHANGED lastSeen[d]
          /\ (status'[d] = status[d] \/ (Overdue(lastSeen[d]) /\ status'[d] = "OFFLINE"))
      BY <2>3 DEF Sweep
    <3>2. ~ (m.kind = "HEARTBEAT" /\ m.dev = d)
      BY <2>3 DEF Observed, HealthyInv
    <3>3. \A n \in flight : n.kind = "HEARTBEAT" /\ n.dev = d => n \in flight'
      BY <1>9, <3>2 DEF HubReceive
    <3> QED BY <2>1, <2>3, <3>1, <3>3, HealthyFrame
  <2> QED BY <1>9, <2>2, <2>3 DEF HubReceive
<1>10. CASE UNCHANGED vars
  BY <1>10, HealthyFrame DEF vars
<1> QED BY <1>1, <1>2, <1>3, <1>4, <1>5, <1>6, <1>7, <1>8, <1>9, <1>10 DEF Next

------------------------------------------------------------------------------
(* Theorems *)

\* At start nothing is healthy and every clock is zero.
LEMMA PresenceInit == Init => PresenceInv
<1> SUFFICES ASSUME Init PROVE PresenceInv
  OBVIOUS
<1> USE TimingAssumption DEF Init
<1>1. TypeOK
  <2>1. now \in Nat /\ flight \subseteq Flight
    BY DatagramType DEF Kind
  <2>2. status \in [Device -> Status]
    BY DEF FreshStatus, Status
  <2>3. hubTurn \in BOOLEAN
    BY Zenon
  <2> QED BY <2>1, <2>2, <2>3 DEF TypeOK
<1>2. FreshInv /\ BeatInv
  BY DEF FreshInv, BeatInv, Reference
<1>3. FlightInv
  BY DEF FlightInv, Datagram
<1>4. HealthyInv
  BY DEF HealthyInv
<1> QED BY <1>1, <1>2, <1>3, <1>4 DEF PresenceInv

\* PresenceInv holds in every reachable state.
THEOREM PresenceInvariant == Spec => []PresenceInv
<1>1. PresenceInv /\ [Next]_vars => PresenceInv'
  BY TypeStep, FreshStep, BeatStep, FlightStep, HealthyStep DEF PresenceInv
<1> QED BY PresenceInit, <1>1, PTL DEF Spec

\* No status outlives its evidence by more than the timeout, whatever the
\* timeout (zero included) and whatever arrives when.
THEOREM StatusIsFreshCorrect == Spec => []StatusIsFresh
<1>1. PresenceInv => StatusIsFresh
  BY DEF PresenceInv, FreshInv, StatusIsFresh
<1> QED BY PresenceInvariant, <1>1, PTL

\* If the offline timeout exceeds the heartbeat interval and the delay together,
\* the hub never shows a device OFFLINE that is alive, enabled and loses no
\* heartbeat.
THEOREM LiveDeviceStaysOnlineCorrect == Spec => []LiveDeviceStaysOnline
<1>1. PresenceInv => LiveDeviceStaysOnline
  BY DEF PresenceInv, HealthyInv, LiveDeviceStaysOnline
<1> QED BY PresenceInvariant, <1>1, PTL

\* The types hold in every reachable state.
THEOREM PresenceTypeCorrect == Spec => []TypeOK
<1>1. PresenceInv => TypeOK
  BY DEF PresenceInv
<1> QED BY PresenceInvariant, <1>1, PTL
==============================================================================
