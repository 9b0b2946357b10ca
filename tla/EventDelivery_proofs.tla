------------------------ MODULE EventDelivery_proofs ------------------------
(***************************************************************************)
(* Theorems about HubEvents, for every set of devices, events, actions and *)
(* configurations and for any number of crashes and edits; about the same  *)
(* hub watched by HubAudit; and, from them, about EventDelivery: nodes and *)
(* hub together implement EventContract, for any number of nodes, boots,   *)
(* events and retries, over a network that loses, duplicates, delays and   *)
(* reorders.                                                               *)
(***************************************************************************)
EXTENDS EventDelivery, HubAudit, FiniteSetTheorems, TLAPS

------------------------------------------------------------------------------
(* The hub *)

\* The statements between the first read of the history and the ACK.
Handling == {"lookup", "action", "target", "changes", "record", "ack"}

\* Where the handler is determines what is known of the EVENT in hand.
HandlerInv ==
  /\ pc \in Handling => cur \in Events
  /\ phase = "execute" => pc \in {"action", "target", "changes", "ack"}
  /\ Executing => Recorded(Key(cur)) /\ executed[Key(cur)] = 0
  /\ pc = "ack" => Recorded(Key(cur))

\* The inductive invariant behind NoTraceUnlessRecorded and AtMostOnce.  Neither
\* is inductive alone: that an execution may start at all rests on the row
\* having been absent when the handler inserted it, which HandlerInv remembers.
HubInv == TypeOK /\ HandlerInv /\ NoTraceUnlessRecorded /\ AtMostOnce

------------------------------------------------------------------------------
(* Datagrams *)

\* The key of an EVENT is an event key.
LEMMA KeyType == ASSUME NEW m \in Events PROVE Key(m) \in EventKey /\ m.dev \in Device
  BY DEF Events, Key, EventKey

\* What the hub sends is a datagram.
LEMMA SentType ==
  /\ HelloRequest \in Datagram
  /\ \A k \in EventKey : Ack(k) \in Datagram
  /\ Events \subseteq Datagram
  BY DEF Datagram, UdpMessage, Acks, EventKey, Ack, HelloRequest, Events

\* ACKs of different events differ, and none is a HELLO_REQUEST.
LEMMA AckInjective ==
  /\ \A k \in EventKey : Ack(k) # HelloRequest
  /\ \A j, k \in EventKey : Ack(j) = Ack(k) => j = k
<1>1. ASSUME NEW k \in EventKey PROVE Ack(k) # HelloRequest
  <2>1. Ack(k).type = "ACK" /\ HelloRequest.type = "HELLO_REQUEST"
    BY DEF Ack, HelloRequest
  <2> QED BY <2>1
<1>2. ASSUME NEW j \in EventKey, NEW k \in EventKey, Ack(j) = Ack(k) PROVE j = k
  <2>1. Ack(j).dev = j.dev /\ Ack(k).dev = k.dev /\ Ack(j).id = j.id /\ Ack(k).id = k.id
    BY DEF Ack
  <2>2. j.dev = k.dev /\ j.id = k.id
    BY <1>2, <2>1
  <2> QED BY <2>2 DEF EventKey
<1> QED BY <1>1, <1>2

------------------------------------------------------------------------------
(* Helpers *)

\* A committed configuration gives an action a scope and a total change map.
LEMMA ActionType ==
  ASSUME config \in Configs, NEW a
  PROVE  /\ a \in DOMAIN config.actions => config.actions[a].scope \in Scope
         /\ ChangesOf(a) \in Changes
<1>1. ASSUME a \in DOMAIN config.actions PROVE config.actions[a] \in ActionRow
  BY <1>1, ConfigsAssumption DEF WellFormedConfig
<1>2. ASSUME a \in DOMAIN config.actions
      PROVE  config.actions[a].scope \in Scope /\ config.actions[a].changes \in Changes
  BY <1>1, <1>2 DEF ActionRow
<1>3. NoChanges \in Changes
  BY DEF NoChanges, Changes
<1> QED BY <1>2, <1>3 DEF ChangesOf

\* Merging a change map into the action state keeps it a total map.
LEMMA ApplyBatchType ==
  ASSUME state \in [Scope -> [StateType -> StateValue \cup {Unset}]],
         NEW s \in Scope, NEW c \in Changes
  PROVE  ApplyBatch(s, c) \in [Scope -> [StateType -> StateValue \cup {Unset}]]
<1> DEFINE row == [t \in StateType |-> IF c[t] = Keep THEN state[s][t] ELSE c[t]]
<1>1. row \in [StateType -> StateValue \cup {Unset}]
  BY DEF Changes
<1>2. ApplyBatch(s, c) = [state EXCEPT ![s] = row]
  BY DEF ApplyBatch
<1> QED BY <1>1, <1>2

\* Observing a device and sweeping keep the status map a map to Status.
LEMMA ObserveType ==
  ASSUME status \in [Device -> Status], NEW d \in Device
  PROVE  Observe(status, d) \in [Device -> Status]
  BY DEF Observe, Status

\* A sweep keeps the type of the statuses.
LEMMA SweepType ==
  ASSUME NEW st \in [Device -> Status], Sweep(st)
  PROVE  status' \in [Device -> Status]
  BY DEF Sweep, Status

------------------------------------------------------------------------------
(* Type correctness *)

\* Every action keeps the tables, the handler's registers, both in-memory maps
\* and the network within their types.
LEMMA TypeStep == TypeOK /\ HandlerInv /\ [Next]_vars => TypeOK'
<1> SUFFICES ASSUME TypeOK, HandlerInv, [Next]_vars PROVE TypeOK'
  OBVIOUS
<1> USE DEF TypeOK
<1>1. CASE Boot
  BY <1>1, SentType
  DEF Boot, Send, tables, counters, BackToRecv, EmptyState, Pc, Phase, Scope, Status
<1>2. CASE Crash
  BY <1>2 DEF Crash, tables, EmptyState, Pc, Phase, Scope, Status
<1>3. CASE RecvTimeout
  BY <1>3, SweepType DEF RecvTimeout, tables, handler, counters
<1>4. ASSUME NEW m \in Datagram, Receive(m) PROVE TypeOK'
  <2>1. UNCHANGED <<net, tables, history, state, executed, counters>>
    BY <1>4 DEF Receive
  <2>2. CASE Discard(status)
    BY <2>1, <2>2, SweepType DEF Discard, BackToRecv, tables, counters, Pc, Phase, Scope
  <2>3. CASE m \in Hellos /\ Discard(Observe(status, m.dev))
    <3>1. m.dev \in Device
      BY <2>3 DEF Hellos
    <3>2. status' \in [Device -> Status]
      BY <2>3, <3>1, ObserveType, SweepType DEF Discard
    <3> QED
      BY <2>1, <2>3, <3>2 DEF Discard, BackToRecv, tables, counters, Pc, Phase, Scope
  <2>4. CASE pc' = "lookup" /\ cur' = m /\ UNCHANGED <<phase, scope, status>>
    BY <2>1, <2>4 DEF tables, counters, Pc
  <2> QED BY <1>4, <2>2, <2>3, <2>4 DEF Receive
<1>5. CASE LookupEvent
  <2>1. /\ UNCHANGED <<net, tables, history, state, executed, counters>>
        /\ cur.dev \in Device
    BY <1>5, KeyType DEF LookupEvent, HandlerInv, Handling
  <2>2. CASE Goto("ack") /\ status' = Observe(status, cur.dev) /\ UNCHANGED scope
    BY <2>1, <2>2, ObserveType DEF Goto, tables, counters, Pc
  <2>3. CASE Goto("action") /\ UNCHANGED <<status, scope>>
    BY <2>1, <2>3 DEF Goto, tables, counters, Pc
  <2>4. CASE Discard(status)
    BY <2>1, <2>4, SweepType DEF Discard, BackToRecv, tables, counters, Pc, Phase, Scope
  <2> QED BY <1>5, <2>2, <2>3, <2>4 DEF LookupEvent
<1>6. ASSUME Unavailable, UNCHANGED <<net, tables, history, state, counters>>,
             pc \in {"action", "target", "changes"}
      PROVE  TypeOK'
  <2>1. Key(cur) \in EventKey
    BY <1>6, KeyType DEF HandlerInv, Handling
  <2>2. executed' \in [EventKey -> Nat]
    BY <1>6, <2>1 DEF Unavailable
  <2>3. CASE Discard(status)
    BY <1>6, <2>2, <2>3, SweepType
    DEF Discard, BackToRecv, tables, counters, Pc, Phase, Scope
  <2>4. CASE Goto("ack") /\ UNCHANGED <<scope, status>>
    BY <1>6, <2>2, <2>4 DEF Goto, tables, counters, Pc
  <2> QED BY <1>6, <2>3, <2>4 DEF Unavailable
<1>7. CASE GetAction
  <2>1. CASE /\ ActionUsable(cur.action) /\ scope' = config.actions[cur.action].scope
             /\ Goto("target") /\ UNCHANGED <<status, executed>>
    <3>1. scope' \in Scope
      BY <2>1, ActionType DEF ActionUsable
    <3> QED BY <1>7, <2>1, <3>1 DEF GetAction, Goto, tables, counters, Pc
  <2> QED BY <1>6, <1>7, <2>1 DEF GetAction
<1>8. CASE GetFamily
  <2>1. CASE Goto("changes") /\ UNCHANGED <<scope, status, executed>>
    BY <1>8, <2>1 DEF GetFamily, Goto, tables, counters, Pc
  <2> QED BY <1>6, <1>8, <2>1 DEF GetFamily
<1>9. CASE ListChanges
  <2>1. UNCHANGED <<net, tables, history, counters>>
    BY <1>9 DEF ListChanges
  <2>2. CASE /\ pc' = "record" /\ scope' = Common
             /\ UNCHANGED <<phase, cur, status, state, executed>>
    BY <2>1, <2>2 DEF tables, counters, Pc, Scope
  <2>3. CASE /\ state' = ApplyBatch(scope, ChangesOf(cur.action))
             /\ executed' = [executed EXCEPT ![Key(cur)] = @ + 1]
             /\ Goto("ack") /\ UNCHANGED <<scope, status>>
    <3>1. state' \in [Scope -> [StateType -> StateValue \cup {Unset}]]
      BY <2>3, ActionType, ApplyBatchType
    <3>2. executed' \in [EventKey -> Nat]
      BY <1>9, <2>3, KeyType DEF ListChanges, HandlerInv, Handling
    <3> QED BY <2>1, <2>3, <3>1, <3>2 DEF Goto, tables, counters, Pc
  <2> QED BY <1>6, <1>9, <2>2, <2>3 DEF ListChanges
<1>10. CASE RecordEvent
  <2>1. /\ UNCHANGED <<net, tables, state, executed, counters>>
        /\ Key(cur) \in EventKey /\ cur.dev \in Device
    BY <1>10, KeyType DEF RecordEvent, HandlerInv, Handling
  <2>2. CASE /\ history' = history \cup {Key(cur)}
             /\ status' = Observe(status, cur.dev)
             /\ AfterInsert(Key(cur)) /\ UNCHANGED scope
    BY <2>1, <2>2, ObserveType DEF AfterInsert, Goto, tables, counters, Pc, Phase
  <2>3. CASE Discard(Observe(status, cur.dev)) /\ UNCHANGED history
    <3>1. status' \in [Device -> Status]
      BY <2>1, <2>3, ObserveType, SweepType DEF Discard
    <3> QED
      BY <2>1, <2>3, <3>1 DEF Discard, BackToRecv, tables, counters, Pc, Phase, Scope
  <2> QED BY <1>10, <2>2, <2>3 DEF RecordEvent
<1>11. CASE SendAck
  <2>1. Ack(Key(cur)) \in Datagram
    BY <1>11, KeyType, SentType DEF SendAck, HandlerInv, Handling
  <2>2. status' \in [Device -> Status]
    BY <1>11, SweepType DEF SendAck, Discard
  <2> QED
    BY <1>11, <2>1, <2>2
    DEF SendAck, Send, Discard, BackToRecv, tables, counters, Pc, Phase, Scope
<1>12. CASE OtherWriter
  <2>1. ASSUME NEW c \in Configs, CommitConfig(c) PROVE TypeOK'
    BY <2>1 DEF CommitConfig, handler
  <2>2. ASSUME NEW d \in Device, NEW row \in DeviceRow, EditDevice(d, row) PROVE TypeOK'
    BY <2>2 DEF EditDevice, handler
  <2> QED BY <1>12, <2>1, <2>2 DEF OtherWriter
<1>13. CASE UNCHANGED vars
  BY <1>13 DEF vars, hubVars
<1> QED
  BY <1>1, <1>2, <1>3, <1>4, <1>5, <1>7, <1>8, <1>9, <1>10, <1>11, <1>12, <1>13
  DEF Next, HubStep

------------------------------------------------------------------------------
(* What one step may do to the history, the executions and the ACKs *)

\* No step takes a row out of the history.
LEMMA HistoryStep == [Next]_vars => history \subseteq history'
  BY DEF Next, vars, hubVars, Boot, Crash, RecvTimeout, Receive, HubStep, LookupEvent,
     GetAction, GetFamily, ListChanges, RecordEvent, SendAck, OtherWriter,
     CommitConfig, EditDevice

\* Only the event being executed gets its execution counted.
LEMMA ExecutedStep ==
  [Next]_vars =>
    \/ UNCHANGED executed
    \/ Executing /\ executed' = [executed EXCEPT ![Key(cur)] = @ + 1]
<1> SUFFICES ASSUME [Next]_vars
             PROVE  \/ UNCHANGED executed
                    \/ Executing /\ executed' = [executed EXCEPT ![Key(cur)] = @ + 1]
  OBVIOUS
<1>1. CASE GetAction
  BY <1>1 DEF GetAction, Unavailable, Executing
<1>2. CASE GetFamily
  BY <1>2 DEF GetFamily, Unavailable, Executing
<1>3. CASE ListChanges
  BY <1>3 DEF ListChanges, Unavailable, Executing
<1>4. CASE LookupEvent \/ RecordEvent \/ SendAck
  BY <1>4 DEF LookupEvent, RecordEvent, SendAck
<1>5. CASE Boot \/ Crash \/ RecvTimeout \/ \E m \in Datagram : Receive(m)
  BY <1>5 DEF Boot, Crash, RecvTimeout, Receive
<1>6. CASE OtherWriter \/ UNCHANGED vars
  BY <1>6 DEF OtherWriter, CommitConfig, EditDevice, vars, hubVars
<1> QED BY <1>1, <1>2, <1>3, <1>4, <1>5, <1>6 DEF Next, HubStep

\* Only the event whose handling has reached the ACK is acknowledged.
LEMMA AckStep ==
  HandlerInv /\ [Next]_vars =>
    \A k \in EventKey : Ack(k) \in net' => Ack(k) \in net \/ (pc = "ack" /\ k = Key(cur))
<1> SUFFICES ASSUME HandlerInv, [Next]_vars, NEW k \in EventKey, Ack(k) \in net'
             PROVE  Ack(k) \in net \/ (pc = "ack" /\ k = Key(cur))
  OBVIOUS
<1>1. CASE Boot
  BY <1>1, AckInjective DEF Boot, Send
<1>2. CASE SendAck
  <2>1. Key(cur) \in EventKey
    BY <1>2, KeyType DEF SendAck, HandlerInv, Handling
  <2> QED BY <1>2, <2>1, AckInjective DEF SendAck, Send
<1>3. CASE UNCHANGED net
  BY <1>3
<1>4. Boot \/ SendAck \/ UNCHANGED net
  BY DEF Next, vars, hubVars, Crash, RecvTimeout, Receive, HubStep, LookupEvent,
     GetAction, GetFamily, ListChanges, RecordEvent, OtherWriter, CommitConfig, EditDevice
<1> QED BY <1>1, <1>2, <1>3, <1>4

------------------------------------------------------------------------------
(* The handler *)

\* Each statement hands the next one what it relies on.
LEMMA HandlerStep == HubInv /\ [Next]_vars => HandlerInv'
<1> SUFFICES ASSUME HubInv, [Next]_vars PROVE HandlerInv'
  OBVIOUS
<1> USE DEF HubInv, HandlerInv, Executing, Handling, Recorded, Key
<1>1. ASSUME BackToRecv PROVE HandlerInv'
  BY <1>1 DEF BackToRecv
<1>2. CASE Boot
  BY <1>1, <1>2 DEF Boot
<1>3. CASE Crash
  BY <1>3 DEF Crash
<1>4. CASE RecvTimeout
  BY <1>4 DEF RecvTimeout, handler
<1>5. ASSUME NEW m \in Datagram, Receive(m) PROVE HandlerInv'
  <2>1. phase = "validate" \/ BackToRecv
    BY <1>5 DEF Receive, Discard, TypeOK, Phase
  <2> QED BY <1>1, <1>5, <2>1 DEF Receive, Discard
<1>6. CASE LookupEvent
  <2>1. phase = "validate"
    BY <1>6 DEF LookupEvent, TypeOK, Phase
  <2> QED BY <1>1, <1>6, <2>1 DEF LookupEvent, Discard, Goto
<1>7. ASSUME Unavailable, pc \in {"action", "target", "changes"}, UNCHANGED history
      PROVE  HandlerInv'
  BY <1>1, <1>7 DEF Unavailable, Discard, Goto
<1>8. CASE GetAction
  BY <1>7, <1>8 DEF GetAction, Goto
<1>9. CASE GetFamily
  BY <1>7, <1>9 DEF GetFamily, Goto
<1>10. CASE ListChanges
  BY <1>7, <1>10 DEF ListChanges, Goto
<1>11. CASE RecordEvent
  <2>1. phase = "validate" /\ Key(cur) \in EventKey
    BY <1>11, KeyType DEF RecordEvent, TypeOK, Phase
  <2>2. ~ Recorded(Key(cur)) => executed[Key(cur)] = 0
    BY <2>1 DEF NoTraceUnlessRecorded
  <2> QED BY <1>1, <1>11, <2>1, <2>2 DEF RecordEvent, Discard, AfterInsert, Goto
<1>12. CASE SendAck
  BY <1>1, <1>12 DEF SendAck, Discard
<1>13. CASE OtherWriter
  BY <1>13 DEF OtherWriter, CommitConfig, EditDevice, handler
<1>14. CASE UNCHANGED vars
  BY <1>14 DEF vars, hubVars
<1> QED
  BY <1>2, <1>3, <1>4, <1>5, <1>6, <1>8, <1>9, <1>10, <1>11, <1>12, <1>13, <1>14
  DEF Next, HubStep

\* The history only grows, and what is executed or acknowledged is in it.
LEMMA NoTraceStep == HubInv /\ [Next]_vars => NoTraceUnlessRecorded'
<1> SUFFICES ASSUME HubInv, [Next]_vars, NEW k \in EventKey, ~ Recorded(k)'
             PROVE  (executed[k] = 0 /\ Ack(k) \notin net)'
  BY DEF NoTraceUnlessRecorded
<1>1. ~ Recorded(k)
  BY HistoryStep DEF Recorded
<1>2. executed[k] = 0 /\ Ack(k) \notin net
  BY <1>1 DEF HubInv, NoTraceUnlessRecorded
<1>3. (Executing \/ pc = "ack") => k # Key(cur)
  BY <1>1 DEF HubInv, HandlerInv
<1>4. executed'[k] = 0
  BY <1>2, <1>3, ExecutedStep DEF HubInv, TypeOK
<1>5. Ack(k) \notin net'
  BY <1>2, <1>3, AckStep DEF HubInv
<1> QED BY <1>4, <1>5

\* The event being executed has not been executed before.
LEMMA AtMostOnceStep == HubInv /\ [Next]_vars => AtMostOnce'
<1> SUFFICES ASSUME HubInv, [Next]_vars, NEW k \in EventKey
             PROVE  executed'[k] <= 1
  BY DEF AtMostOnce
<1>1. executed[k] \in Nat /\ executed[k] <= 1
  BY DEF HubInv, TypeOK, AtMostOnce
<1>2. Executing => executed[Key(cur)] = 0
  BY DEF HubInv, HandlerInv
<1> QED BY <1>1, <1>2, ExecutedStep DEF HubInv, TypeOK

------------------------------------------------------------------------------
(* Theorems *)

\* Before the hub boots nothing is recorded, executed or acknowledged.
LEMMA HubInvInit == Init => HubInv
<1> SUFFICES ASSUME Init PROVE HubInv
  OBVIOUS
<1>1. TypeOK
  BY DEF Init, HubInit, TypeOK, EmptyState, Pc, Phase, Scope, Status
<1>2. HandlerInv
  BY DEF Init, HubInit, HandlerInv, Handling, Executing
<1>3. NoTraceUnlessRecorded /\ AtMostOnce
  BY DEF Init, HubInit, NoTraceUnlessRecorded, AtMostOnce
<1> QED BY <1>1, <1>2, <1>3 DEF HubInv

\* HubInv holds in every reachable state of the hub.
THEOREM HubInvariant == Spec => []HubInv
<1>1. HubInv /\ [Next]_vars => HubInv'
  BY TypeStep, HandlerStep, NoTraceStep, AtMostOnceStep DEF HubInv
<1> QED BY HubInvInit, <1>1, PTL DEF Spec

\* The tables, the handler's registers, both in-memory maps and the network
\* always have their types.
THEOREM TypeCorrect == Spec => []TypeOK
<1>1. HubInv => TypeOK
  BY DEF HubInv
<1> QED BY HubInvariant, <1>1, PTL

\* An EVENT that is not in the history has been neither executed nor
\* acknowledged: udp.rs writes the row before the action runs and before the
\* ACK is sent, and a rejected EVENT gets neither.
THEOREM NoTraceCorrect == Spec => []NoTraceUnlessRecorded
<1>1. HubInv => NoTraceUnlessRecorded
  BY DEF HubInv
<1> QED BY HubInvariant, <1>1, PTL

\* The action of an event runs at most once, over any number of deliveries of
\* its datagram, hub restarts and configuration changes.
THEOREM AtMostOnceCorrect == Spec => []AtMostOnce
<1>1. HubInv => AtMostOnce
  BY DEF HubInv
<1> QED BY HubInvariant, <1>1, PTL

\* The devices table holds every device the history names: a row is inserted
\* only while its device exists, and the foreign key refuses to delete a device
\* with history, whichever process asks and between whichever two statements.
THEOREM HistoryNamesDevicesCorrect == Spec => []HistoryNamesDevices
<1>1. Init => HistoryNamesDevices
  BY DEF Init, HubInit, HistoryNamesDevices
<1>2. HubInv /\ HistoryNamesDevices /\ [Next]_vars => HistoryNamesDevices'
  <2> SUFFICES ASSUME HubInv, HistoryNamesDevices, [Next]_vars, NEW k \in history'
               PROVE  deviceRow'[k.dev] # "absent"
    BY DEF HistoryNamesDevices
  <2>1. CASE RecordEvent
    <3>1. CASE k \in history
      BY <2>1, <3>1 DEF HistoryNamesDevices, RecordEvent, tables
    <3>2. CASE k \notin history
      <4>1. k = Key(cur) /\ deviceRow[cur.dev] # "absent" /\ UNCHANGED deviceRow
        BY <2>1, <3>2 DEF RecordEvent, tables
      <4> QED BY <4>1 DEF Key
    <3> QED BY <3>1, <3>2
  <2>2. ASSUME NEW d \in Device, NEW row \in DeviceRow, EditDevice(d, row)
        PROVE  deviceRow'[k.dev] # "absent"
    <3>1. k \in history /\ k.dev \in Device
      BY <2>2 DEF EditDevice, HubInv, TypeOK, EventKey
    <3>2. CASE k.dev = d
      BY <2>2, <3>1, <3>2 DEF EditDevice, Deletable, HubInv, TypeOK
    <3>3. CASE k.dev # d
      BY <2>2, <3>1, <3>3 DEF EditDevice, HistoryNamesDevices, HubInv, TypeOK
    <3> QED BY <3>2, <3>3
  <2>3. CASE UNCHANGED <<deviceRow, history>>
    BY <2>3 DEF HistoryNamesDevices
  <2>4. \/ RecordEvent \/ UNCHANGED <<deviceRow, history>>
        \/ \E d \in Device, row \in DeviceRow : EditDevice(d, row)
    BY DEF Next, vars, hubVars, tables, Boot, Crash, RecvTimeout, Receive, HubStep,
       LookupEvent, GetAction, GetFamily, ListChanges, SendAck, OtherWriter, CommitConfig
  <2> QED BY <2>1, <2>2, <2>3, <2>4
<1> QED BY HubInvariant, <1>1, <1>2, PTL DEF Spec

------------------------------------------------------------------------------
(* Which devices are heard *)

\* A device that passed the admission check stays managed while its EVENT is
\* handled: only a crash makes a device unmanaged.
HeardInv == pc \in Handling => cur.dev \in Managed

\* Within one boot no status returns to UNMANAGED, and only a managed device
\* becomes ONLINE.
LEMMA StatusStep ==
  HubInv /\ [Next]_vars =>
    /\ pc' \in Handling => \A d \in Device : status[d] # "UNMANAGED" => status'[d] # "UNMANAGED"
    /\ \A d \in Device : status'[d] = "ONLINE" => status[d] # "UNMANAGED"
<1> SUFFICES ASSUME HubInv, [Next]_vars
             PROVE  /\ pc' \in Handling => \A d \in Device :
                         status[d] # "UNMANAGED" => status'[d] # "UNMANAGED"
                    /\ \A d \in Device : status'[d] = "ONLINE" => status[d] # "UNMANAGED"
  OBVIOUS
<1> USE DEF HubInv, TypeOK
<1>1. CASE UNCHANGED status
  BY <1>1
<1>2. CASE Boot \/ Crash
  BY <1>2 DEF Boot, Crash, BackToRecv, Handling
<1>3. ASSUME Sweep(status)
      PROVE  \A d \in Device : (status[d] = "UNMANAGED") <=> (status'[d] = "UNMANAGED")
  BY <1>3 DEF Sweep, Managed
<1>4. ASSUME NEW e \in Device, Sweep(Observe(status, e))
      PROVE  \A d \in Device : (status[d] = "UNMANAGED") <=> (status'[d] = "UNMANAGED")
  BY <1>4 DEF Sweep, Observe, Managed
<1>5. ASSUME NEW e \in Device, status' = Observe(status, e)
      PROVE  \A d \in Device : (status[d] = "UNMANAGED") <=> (status'[d] = "UNMANAGED")
  BY <1>5 DEF Observe
<1>6. pc \in Handling => cur.dev \in Device
  BY KeyType DEF HandlerInv
<1>7. CASE RecvTimeout \/ SendAck
  BY <1>3, <1>7 DEF RecvTimeout, SendAck, Discard
<1>8. ASSUME NEW m \in Datagram, Receive(m)
      PROVE  \A d \in Device : (status[d] = "UNMANAGED") <=> (status'[d] = "UNMANAGED")
  BY <1>3, <1>4, <1>8 DEF Receive, Discard, Hellos
<1>9. CASE LookupEvent \/ RecordEvent
  BY <1>3, <1>4, <1>5, <1>6, <1>9 DEF LookupEvent, RecordEvent, Discard, Handling
<1>10. CASE GetAction \/ GetFamily \/ ListChanges
  BY <1>3, <1>10 DEF GetAction, GetFamily, ListChanges, Unavailable, Discard
<1>11. CASE OtherWriter \/ UNCHANGED vars
  BY <1>1, <1>11 DEF OtherWriter, CommitConfig, EditDevice, vars, hubVars
<1> QED BY <1>2, <1>7, <1>8, <1>9, <1>10, <1>11 DEF Next, HubStep

\* The admission check establishes HeardInv and the later statements keep it.
LEMMA HeardStep == HubInv /\ HeardInv /\ [Next]_vars => HeardInv'
<1> SUFFICES ASSUME HubInv, HeardInv, [Next]_vars, pc' \in Handling
             PROVE  cur'.dev \in Device /\ status'[cur'.dev] # "UNMANAGED"
  BY DEF HeardInv, Managed
<1>1. CASE pc \in Handling /\ cur' = cur
  BY <1>1, StatusStep DEF HeardInv, Managed
<1>2. ASSUME NEW m \in Datagram, Receive(m)
      PROVE  cur'.dev \in Device /\ status'[cur'.dev] # "UNMANAGED"
  BY <1>2 DEF Receive, Discard, BackToRecv, Handling, IsEnabledManagedDevice, Events
<1>3. (pc \in Handling /\ cur' = cur) \/ \E m \in Datagram : Receive(m)
  BY DEF Next, vars, hubVars, handler, Boot, Crash, RecvTimeout, HubStep, LookupEvent,
     GetAction, GetFamily, ListChanges, RecordEvent, SendAck, OtherWriter, CommitConfig,
     EditDevice, Unavailable, Discard, BackToRecv, Goto, AfterInsert, Handling
<1> QED BY <1>1, <1>2, <1>3

\* No event is recorded for, and no ONLINE given to, a device that was not
\* enabled when the hub booted.
THEOREM OnlyManagedDevicesHeardCorrect == Spec => OnlyManagedDevicesHeard
<1> DEFINE Heard ==
      /\ \A k \in history' \ history : k.dev \in Managed
      /\ \A d \in Device : status'[d] = "ONLINE" => d \in Managed
<1>1. Init => HeardInv
  BY DEF Init, HubInit, HeardInv, Handling
<1>2. HubInv /\ HeardInv /\ [Next]_vars => Heard
  <2> SUFFICES ASSUME HubInv, HeardInv, [Next]_vars PROVE Heard
    OBVIOUS
  <2>1. \A d \in Device : status'[d] = "ONLINE" => d \in Managed
    BY StatusStep DEF Managed
  <2>2. history' = history \/ (pc = "record" /\ history' = history \cup {Key(cur)})
    BY DEF Next, vars, hubVars, Boot, Crash, RecvTimeout, Receive, HubStep, LookupEvent,
       GetAction, GetFamily, ListChanges, RecordEvent, SendAck, OtherWriter,
       CommitConfig, EditDevice
  <2>3. \A k \in history' \ history : k.dev \in Managed
    BY <2>2 DEF HeardInv, Handling, Key
  <2> QED BY <2>1, <2>3
<1> QED BY HubInvariant, <1>1, <1>2, HeardStep, PTL DEF Spec, OnlyManagedDevicesHeard

------------------------------------------------------------------------------
(* Lost executions *)

\* The recorded events whose action has not run.
Unrun == {k \in history : executed[k] = 0}

\* What the counting argument needs: a finite history.
LossInv == IsFiniteSet(history) /\ LossOnlyByCrash

\* Inserting a row adds one unrun event and starts its execution; finishing the
\* execution removes it; a crash takes the blame for the one it cuts off.
LEMMA LossStep == HubInv /\ LossInv /\ [Next]_vars => LossInv'
<1> SUFFICES ASSUME HubInv, LossInv, [Next]_vars PROVE LossInv'
  OBVIOUS
<1> DEFINE running == IF Executing THEN 1 ELSE 0
           running2 == IF Executing' THEN 1 ELSE 0
<1>1. /\ IsFiniteSet(Unrun) /\ Cardinality(Unrun) \in Nat
      /\ Cardinality(Unrun) <= crashes + running
      /\ crashes \in Nat
  BY FS_Subset, FS_CardinalityType DEF LossInv, LossOnlyByCrash, Unrun, HubInv, TypeOK
<1>2. SUFFICES IsFiniteSet(history') /\ Cardinality(Unrun') <= crashes' + running2
  BY DEF LossInv, LossOnlyByCrash, Unrun
<1>3. CASE UNCHANGED <<history, executed, crashes>> /\ (Executing <=> Executing')
  <2>1. Unrun' = Unrun
    BY <1>3 DEF Unrun
  <2> QED BY <1>1, <1>3, <2>1 DEF LossInv
<1>4. CASE Crash
  <2>1. Unrun' = Unrun /\ history' = history /\ crashes' = crashes + 1
    BY <1>4 DEF Crash, Unrun
  <2> QED BY <1>1, <2>1 DEF LossInv
<1>5. CASE RecordEvent
  <2>1. CASE history' = history /\ ~ Executing /\ ~ Executing'
    BY <1>3, <1>5, <2>1 DEF RecordEvent, counters
  <2>2. CASE /\ Key(cur) \notin history /\ history' = history \cup {Key(cur)}
             /\ ~ Executing /\ Executing' /\ UNCHANGED <<executed, crashes>>
    <3>1. executed[Key(cur)] = 0
      BY <1>5, <2>2, KeyType
      DEF RecordEvent, HubInv, HandlerInv, Handling, NoTraceUnlessRecorded, Recorded
    <3>2. Unrun' = Unrun \cup {Key(cur)}
      BY <2>2, <3>1 DEF Unrun
    <3>3. IsFiniteSet(history')
      BY <2>2, FS_AddElement DEF LossInv
    <3>4. Key(cur) \notin Unrun
      BY <2>2 DEF Unrun
    <3>5. Cardinality(Unrun') = Cardinality(Unrun) + 1
      BY <1>1, <3>2, <3>4, FS_AddElement
    <3> QED BY <1>1, <2>2, <3>3, <3>5
  <2>3. phase = "validate"
    BY <1>5 DEF RecordEvent, HubInv, HandlerInv, TypeOK, Phase
  <2>4. CASE Discard(Observe(status, cur.dev)) /\ UNCHANGED history
    BY <1>5, <2>1, <2>4 DEF RecordEvent, Discard, BackToRecv, Executing
  <2>5. CASE history' = history \cup {Key(cur)} /\ AfterInsert(Key(cur))
    <3>1. CASE Key(cur) \in history
      BY <1>5, <2>1, <2>3, <2>5, <3>1 DEF RecordEvent, AfterInsert, Recorded, Goto, Executing
    <3>2. CASE Key(cur) \notin history
      BY <1>5, <2>2, <2>3, <2>5, <3>2
      DEF RecordEvent, AfterInsert, Recorded, Executing, counters
    <3> QED BY <3>1, <3>2
  <2> QED BY <1>5, <2>4, <2>5 DEF RecordEvent
<1>6. ASSUME Executing, executed' = [executed EXCEPT ![Key(cur)] = @ + 1], ~ Executing',
             UNCHANGED <<history, crashes>>
      PROVE  IsFiniteSet(history') /\ Cardinality(Unrun') <= crashes' + running2
  <2>1. Key(cur) \in Unrun /\ Key(cur) \in EventKey
    BY <1>6, KeyType DEF HubInv, HandlerInv, Executing, Handling, Recorded, Unrun
  <2>2. Unrun' = Unrun \ {Key(cur)}
    BY <1>6, <2>1 DEF Unrun, HubInv, TypeOK
  <2>3. Cardinality(Unrun') = Cardinality(Unrun) - 1
    BY <1>1, <2>1, <2>2, FS_RemoveElement
  <2> QED BY <1>1, <1>6, <2>3 DEF LossInv
<1>7. CASE GetAction \/ GetFamily \/ ListChanges
  <2>1. UNCHANGED <<history, crashes>>
    BY <1>7 DEF GetAction, GetFamily, ListChanges, counters
  <2>2. Key(cur) \in EventKey /\ phase \in {"validate", "execute"}
    BY <1>7, KeyType
    DEF GetAction, GetFamily, ListChanges, HubInv, HandlerInv, Handling, TypeOK, Phase
  <2>3. CASE phase = "execute" /\ executed' = [executed EXCEPT ![Key(cur)] = @ + 1]
             /\ Goto("ack")
    BY <1>6, <1>7, <2>1, <2>3 DEF GetAction, GetFamily, ListChanges, Goto, Executing
  <2>4. CASE UNCHANGED executed /\ ~ Executing /\ ~ Executing'
    BY <1>3, <2>1, <2>4
  <2>5. CASE UNCHANGED executed /\ phase' = phase /\ pc' \in {"action", "target", "changes"}
    BY <1>3, <1>7, <2>1, <2>5 DEF GetAction, GetFamily, ListChanges, Executing
  <2>6. CASE Unavailable
    BY <2>2, <2>3, <2>4, <2>6 DEF Unavailable, Discard, BackToRecv, Executing
  <2>7. CASE ~ Unavailable
    BY <1>7, <2>2, <2>3, <2>4, <2>5, <2>7
    DEF GetAction, GetFamily, ListChanges, Goto, Executing
  <2> QED BY <2>6, <2>7
<1>8. CASE Boot \/ RecvTimeout \/ LookupEvent \/ SendAck \/ OtherWriter \/ UNCHANGED vars
  BY <1>3, <1>8 DEF Boot, RecvTimeout, LookupEvent, SendAck, OtherWriter, CommitConfig,
     EditDevice, vars, hubVars, Discard, BackToRecv, Goto, handler, counters, Executing,
     HubInv, HandlerInv
<1>9. ASSUME NEW m \in Datagram, Receive(m)
      PROVE  IsFiniteSet(history') /\ Cardinality(Unrun') <= crashes' + running2
  BY <1>3, <1>9 DEF Receive, Discard, BackToRecv, counters, Executing
<1> QED BY <1>4, <1>5, <1>7, <1>8, <1>9 DEF Next, HubStep

\* A recorded event whose action never ran is running or was cut off by a
\* crash, and every crash cuts off at most one.
THEOREM LossOnlyByCrashCorrect == Spec => []LossOnlyByCrash
<1>1. Init => LossInv
  <2> SUFFICES ASSUME Init PROVE LossInv
    OBVIOUS
  <2>1. {k \in history : executed[k] = 0} = {} /\ history = {} /\ crashes = 0
    BY DEF Init, HubInit
  <2> QED BY <2>1, FS_EmptySet DEF LossInv, LossOnlyByCrash
<1>2. LossInv => LossOnlyByCrash
  BY DEF LossInv
<1> QED BY HubInvariant, <1>1, <1>2, LossStep, PTL DEF Spec

------------------------------------------------------------------------------
(* The promise of the action engine about an event that no other process   *)
(* interferes with.                                                        *)

\* The plan the tables hold for the action of the event in hand.
PlanOfCur ==
  [scope |-> config.actions[cur.action].scope, changes |-> ChangesOf(cur.action)]

\* The action has been looked up and the handler is at its target or its changes.
LookedUp == pc \in {"target", "changes"}

\* The event has been validated and is not finished.
Planned == pc = "record" \/ Executing

\* What an undisturbed event carries from one statement to the next: the registers of
\* the handler, and the plan of the validation, are those of the tables as they are.
AuditInv ==
  ~ disturbed =>
    /\ LookedUp => scope = config.actions[cur.action].scope
    /\ LookedUp \/ Planned => Available(cur.action)
    /\ Planned => validated = PlanOfCur

\* Only these steps go on from one statement of an event to the next.
LEMMA OtherSteps ==
  Next =>
    \/ GetAction \/ GetFamily \/ ListChanges \/ RecordEvent \/ OtherWriter
    \/ UNCHANGED vars
    \/ pc' \in {"recv", "down", "lookup", "ack"} /\ UNCHANGED <<history, executed>>
    \/ pc = "recv" /\ UNCHANGED <<pc, history, executed>>
    \/ LookupEvent
BY DEF Next, HubStep, Boot, Crash, RecvTimeout, Receive, SendAck, Discard, BackToRecv, handler

\* The history variables during the step of an event that is not the last one.
LEMMA WatchedStep ==
  ASSUME Audit, UNCHANGED config, pc \notin {"recv", "lookup"}, pc' # "recv"
  PROVE  /\ disturbed' <=> disturbed
         /\ ~ ValidationPasses => validated' = validated
         /\ ValidationPasses =>
              validated' = [scope |-> scope, changes |-> ChangesOf(cur.action)]
<1>1. disturbed' <=> disturbed
  BY Zenon DEF Audit
<1>2. ~ ValidationPasses => validated' = validated
  BY DEF Audit
<1>3. ValidationPasses =>
        validated' = [scope |-> scope, changes |-> ChangesOf(cur.action)]
  BY DEF Audit
<1> QED BY <1>1, <1>2, <1>3

\* Nothing is claimed outside the statements of an event.
LEMMA NothingClaimed ==
  (pc' \in {"recv", "down", "lookup", "ack"} \/ (pc' = "action" /\ phase' = "validate"))
    => AuditInv'
BY DEF AuditInv, LookedUp, Planned, Executing

\* Every statement of an undisturbed event keeps what the earlier ones have found.
LEMMA AuditStep == HubInv /\ AuditInv /\ [AuditNext]_auditVars => AuditInv'
<1> SUFFICES ASSUME HubInv, AuditInv, [AuditNext]_auditVars PROVE AuditInv'
  OBVIOUS
<1>1. CASE UNCHANGED auditVars
  BY <1>1 DEF auditVars, vars, hubVars, AuditInv, LookedUp, Planned, Executing, PlanOfCur,
              Available, ChangesOf
<1>2. CASE AuditNext
  <2>1. Next /\ Audit
    BY <1>2 DEF AuditNext
  <2> DEFINE Untouched == UNCHANGED <<config, cur, phase>>
  <2>2. ASSUME UNCHANGED <<config, cur, pc, phase, scope>> PROVE AuditInv'
    <3>1. CASE pc \in {"recv", "lookup"}
      BY <2>2, <3>1, NothingClaimed
    <3>2. CASE pc \notin {"recv", "lookup"}
      <4>1. ~ ValidationPasses
        BY <2>2 DEF ValidationPasses
      <4>2. validated' = validated /\ (disturbed' <=> disturbed)
        BY <2>1, <2>2, <3>2, <4>1, WatchedStep
      <4> QED BY <2>2, <4>2 DEF AuditInv, LookedUp, Planned, Executing, PlanOfCur,
                                Available, ChangesOf
    <3> QED BY <3>1, <3>2
  <2>3. CASE OtherWriter
    <3>1. ASSUME NEW c \in Configs, CommitConfig(c) PROVE AuditInv'
      <4>1. config' # config /\ UNCHANGED pc
        BY <3>1 DEF CommitConfig, handler
      <4>2. CASE pc \in {"recv", "lookup"}
        BY <4>1, <4>2, NothingClaimed
      <4>3. CASE pc \notin {"recv", "lookup"}
        <5>1. disturbed'
          BY <2>1, <4>1, <4>3, Zenon DEF Audit
        <5> QED BY <5>1 DEF AuditInv
      <4> QED BY <4>2, <4>3
    <3>2. ASSUME NEW d \in Device, NEW row \in DeviceRow, EditDevice(d, row) PROVE AuditInv'
      BY <2>2, <3>2 DEF EditDevice, handler
    <3> QED BY <2>3, <3>1, <3>2 DEF OtherWriter
  <2>4. ASSUME Unavailable PROVE AuditInv'
    BY <2>4, NothingClaimed DEF Unavailable, Discard, BackToRecv, Goto
  <2>5. CASE GetAction
    <3>1. CASE /\ ActionUsable(cur.action)
               /\ scope' = config.actions[cur.action].scope
               /\ Goto("target")
      <4>1. /\ pc = "action" /\ pc' = "target" /\ UNCHANGED <<config, cur, phase>>
            /\ ~ ValidationPasses
        BY <2>5, <3>1 DEF GetAction, Goto, tables, ValidationPasses
      <4>2. validated' = validated /\ (disturbed' <=> disturbed)
        BY <2>1, <4>1, WatchedStep
      <4> QED BY <3>1, <4>1, <4>2
              DEF AuditInv, LookedUp, Planned, Executing, PlanOfCur, Available, ActionUsable,
                  ChangesOf
    <3> QED BY <2>4, <2>5, <3>1 DEF GetAction
  <2>6. CASE GetFamily
    <3>1. CASE Goto("changes") /\ UNCHANGED scope
      <4>1. /\ pc = "target" /\ pc' = "changes" /\ UNCHANGED <<config, cur, phase, scope>>
            /\ ~ ValidationPasses
        BY <2>6, <3>1 DEF GetFamily, Goto, tables, ValidationPasses
      <4>2. validated' = validated /\ (disturbed' <=> disturbed)
        BY <2>1, <4>1, WatchedStep
      <4> QED BY <4>1, <4>2
              DEF AuditInv, LookedUp, Planned, Executing, PlanOfCur, Available, ChangesOf
    <3> QED BY <2>4, <2>6, <3>1 DEF GetFamily
  <2>7. CASE ListChanges
    <3>1. CASE phase = "validate" /\ pc' = "record" /\ UNCHANGED cur
      <4>1. pc = "changes" /\ UNCHANGED config /\ ValidationPasses
        BY <2>7, <3>1 DEF ListChanges, tables, ValidationPasses
      <4>2. /\ validated' = [scope |-> scope, changes |-> ChangesOf(cur.action)]
            /\ disturbed' <=> disturbed
        BY <2>1, <3>1, <4>1, WatchedStep
      <4>3. ~ disturbed => scope = config.actions[cur.action].scope /\ Available(cur.action)
        BY <4>1 DEF AuditInv, LookedUp
      <4> QED BY <3>1, <4>1, <4>2, <4>3
              DEF AuditInv, LookedUp, Planned, Executing, PlanOfCur, Available, ChangesOf
    <3>2. CASE pc' = "ack"
      BY <3>2, NothingClaimed
    <3> QED BY <2>4, <2>7, <3>1, <3>2 DEF ListChanges, Goto
  <2>8. CASE RecordEvent
    <3>1. CASE pc' = "action" /\ UNCHANGED cur
      <4>1. pc = "record" /\ UNCHANGED config /\ ~ ValidationPasses
        BY <2>8 DEF RecordEvent, tables, ValidationPasses
      <4>2. validated' = validated /\ (disturbed' <=> disturbed)
        BY <2>1, <3>1, <4>1, WatchedStep
      <4> QED BY <3>1, <4>1, <4>2
              DEF AuditInv, LookedUp, Planned, Executing, PlanOfCur, Available, ChangesOf
    <3>2. CASE pc' \in {"ack", "recv"}
      BY <3>2, NothingClaimed
    <3> QED BY <2>8, <3>1, <3>2 DEF RecordEvent, AfterInsert, Goto, Discard, BackToRecv
  <2>9. CASE LookupEvent
    <3>1. phase = "validate"
      BY <2>9 DEF LookupEvent, HubInv, HandlerInv, TypeOK, Phase
    <3> QED BY <2>9, <3>1, NothingClaimed DEF LookupEvent, Goto, Discard, BackToRecv
  <2>10. CASE UNCHANGED vars
    BY <2>2, <2>10 DEF vars, hubVars
  <2>11. CASE pc' \in {"recv", "down", "lookup", "ack"}
    BY <2>11, NothingClaimed
  <2>12. CASE pc = "recv" /\ UNCHANGED pc
    BY <2>12, NothingClaimed
  <2> QED BY <2>1, <2>3, <2>5, <2>6, <2>7, <2>8, <2>9, <2>10, <2>11, <2>12, OtherSteps
<1> QED BY <1>1, <1>2

\* While no other process commits, what is accepted is available and what is applied is
\* the plan that was validated, although both are read again statement by statement.
THEOREM UndisturbedEventCorrect == AuditSpec => UndisturbedEventHandledAsValidated
<1> DEFINE AsValidated ==
      ~ disturbed /\ config' = config =>
        /\ Accepts => Available(cur.action)
        /\ Applies => state' = ApplyBatch(validated.scope, validated.changes)
<1>1. AuditInit => Init /\ AuditInv
  BY DEF AuditInit, Init, HubInit, AuditInv, LookedUp, Planned, Executing
<1>2. [AuditNext]_auditVars => [Next]_vars
  BY DEF AuditNext, auditVars
<1>3. AuditInv /\ [AuditNext]_auditVars => AsValidated
  <2> SUFFICES ASSUME AuditInv, [AuditNext]_auditVars, ~ disturbed, config' = config
               PROVE  /\ Accepts => Available(cur.action)
                      /\ Applies => state' = ApplyBatch(validated.scope, validated.changes)
    OBVIOUS
  <2>1. CASE RecordEvent
    BY <2>1 DEF RecordEvent, AuditInv, Planned, Applies
  <2>2. CASE ListChanges
    <3>1. ~ Accepts
      BY <2>2 DEF ListChanges, Accepts
    <3>2. ASSUME Applies
          PROVE  phase = "execute" /\ state' = ApplyBatch(scope, ChangesOf(cur.action))
      BY <2>2, <3>2 DEF ListChanges, Applies
    <3>3. ASSUME phase = "execute"
          PROVE  validated = PlanOfCur /\ scope = config.actions[cur.action].scope
      BY <2>2, <3>3 DEF ListChanges, AuditInv, LookedUp, Planned, Executing
    <3> QED BY <3>1, <3>2, <3>3 DEF PlanOfCur
  <2>3. CASE ~ RecordEvent /\ ~ ListChanges
    <3>1. UNCHANGED history
      BY <2>3 DEF AuditNext, auditVars, vars, hubVars, Next, HubStep, Boot, Crash,
                  RecvTimeout, Receive, LookupEvent, GetAction, GetFamily, SendAck,
                  OtherWriter, CommitConfig, EditDevice
    <3>2. UNCHANGED executed \/ UNCHANGED state
      BY <2>3 DEF AuditNext, auditVars, vars, hubVars, Next, HubStep, Boot, Crash,
                  RecvTimeout, Receive, LookupEvent, GetAction, GetFamily, SendAck,
                  OtherWriter, CommitConfig, EditDevice
    <3> QED BY <3>1, <3>2 DEF Accepts, Applies
  <2> QED BY <2>1, <2>2, <2>3
<1>4. HubInv /\ [Next]_vars => HubInv'
  BY TypeStep, HandlerStep, NoTraceStep, AtMostOnceStep DEF HubInv
<1>5. AuditInv /\ [AuditNext]_auditVars => [AsValidated]_auditVars
  BY <1>3
<1> QED BY <1>1, <1>2, <1>4, <1>5, HubInvInit, AuditStep, PTL
        DEF AuditSpec, UndisturbedEventHandledAsValidated

------------------------------------------------------------------------------
(* Nodes and hub *)

\* What a node still has queued fits into the bound on sequence numbers.
Budget(d) == sequence[d] + Len(channel[d]) + Len(pressed[d]) <= MaxSequence + 1

\* The event in hand is the node's own and has no verdict yet.
InHand(d) ==
  /\ outgoing[d] # Idle =>
       outgoing[d].dev = d /\ verdict[Key(outgoing[d])] = "pending"
  /\ waiting[d] => outgoing[d] # Idle

\* Only the event in hand is without a verdict.
OnlyInHandPending(k) ==
  verdict[k] = "pending" => outgoing[k.dev] # Idle /\ Key(outgoing[k.dev]) = k

\* An id of a later boot, or of this boot and not reached by the generator yet.
NotReached(k) ==
  \/ k.id[1] > boot[k.dev]
  \/ k.id[1] = boot[k.dev] /\ k.id[2] >= sequence[k.dev]

SenderInv ==
  /\ \A d \in Device : Budget(d) /\ InHand(d)
  /\ \A k \in EventKey : OnlyInHandPending(k) /\ (NotReached(k) => verdict[k] = "none")

\* Whatever is under way, in the hub's hands or in its history was created.
CreatedInv ==
  /\ \A m \in net \cap Events : verdict[Key(m)] # "none"
  /\ pc \in Handling => verdict[Key(cur)] # "none"
  /\ \A k \in history : verdict[k] # "none"

\* The inductive invariant behind the refinement.
DeliveryInv ==
  HubInv /\ NodeTypeOK /\ SenderInv /\ CreatedInv /\ DeliveredMeansRecorded

------------------------------------------------------------------------------
(* The node *)

\* The id TakeAction gives out is an event key that no event has had.
LEMMA TakenKey ==
  ASSUME NodeTypeOK, SenderInv, NEW d \in Device, TakeAction(d)
  PROVE  LET k == [dev |-> d, id |-> <<boot[d], sequence[d]>>]
         IN  k \in EventKey /\ NotReached(k) /\ verdict[k] = "none"
<1> DEFINE k == [dev |-> d, id |-> <<boot[d], sequence[d]>>]
<1>1. boot[d] \in 1..MaxBoot /\ sequence[d] \in Nat /\ sequence[d] >= 1
  BY SenderAssumption DEF NodeTypeOK
<1>2. Len(channel[d]) \in Nat /\ Len(channel[d]) >= 1 /\ Len(pressed[d]) \in Nat
  <2>1. channel[d] \in Seq(ActionId) /\ pressed[d] \in Seq(ActionId) /\ channel[d] # <<>>
    BY DEF NodeTypeOK, TakeAction
  <2> QED BY <2>1
<1>3. sequence[d] \in 1..MaxSequence
  <2>1. sequence[d] + Len(channel[d]) + Len(pressed[d]) <= MaxSequence + 1
    BY DEF SenderInv, Budget
  <2> QED BY <1>1, <1>2, <2>1, SenderAssumption
<1>4. <<boot[d], sequence[d]>> \in EventId
  BY <1>1, <1>3, SenderAssumption
<1>5. k \in EventKey
  BY <1>4 DEF EventKey
<1>6. NotReached(k)
  BY <1>1 DEF NotReached
<1> QED BY <1>5, <1>6 DEF SenderInv

\* What the sender has in hand is an EVENT about an event key.
LEMMA InHandKey ==
  ASSUME NodeTypeOK, SenderInv, NEW d \in Device, outgoing[d] # Idle
  PROVE  /\ outgoing[d] \in Events /\ outgoing[d].dev = d
         /\ Key(outgoing[d]) \in EventKey /\ verdict[Key(outgoing[d])] = "pending"
<1>1. outgoing[d] \in Events
  BY DEF NodeTypeOK
<1> QED BY <1>1, KeyType DEF SenderInv, InHand

\* What a step of a node may do to the verdicts.
Settles(k, v) == verdict[k] = "pending" /\ verdict' = [verdict EXCEPT ![k] = v]

\* A step of a node changes at most one verdict: a new event becomes pending, a pending
\* one is given up, or a recorded one is delivered.
LEMMA VerdictStep ==
  ASSUME NodeTypeOK, SenderInv, NoTraceUnlessRecorded, NEW d \in Device, NodeStep(d)
  PROVE  \/ UNCHANGED verdict
         \/ \E k \in EventKey :
              verdict[k] = "none" /\ verdict' = [verdict EXCEPT ![k] = "pending"]
         \/ \E k \in EventKey : Settles(k, "abandoned")
         \/ \E k \in EventKey : Settles(k, "delivered") /\ Recorded(k)
<1>1. CASE TakeAction(d)
  BY <1>1, TakenKey DEF TakeAction
<1>2. ASSUME outgoing[d] # Idle, NEW v, Finish(d, v)
      PROVE  \E k \in EventKey : Settles(k, v) /\ k = Key(outgoing[d])
  BY <1>2, InHandKey DEF Finish, Settles
<1>3. CASE StartAttempt(d) \/ GiveUp(d)
  BY <1>2, <1>3 DEF StartAttempt, GiveUp
<1>4. ASSUME NEW m \in net, ReceiveAck(d, m)
      PROVE  \E k \in EventKey : Settles(k, "delivered") /\ Recorded(k)
  <2>1. outgoing[d] # Idle
    BY <1>4 DEF ReceiveAck, SenderInv, InHand
  <2>2. Key(outgoing[d]) \in EventKey
    BY <2>1, InHandKey
  <2>3. m = Ack(Key(outgoing[d]))
    <3>1. m \in Acks /\ Key(m) = Key(outgoing[d])
      BY <1>4 DEF ReceiveAck, AckMatches
    <3>2. m = [type |-> "ACK", dev |-> m.dev, id |-> m.id]
      BY <3>1 DEF Acks
    <3>3. m = Ack(Key(m))
      BY <3>2 DEF Ack, Key
    <3> QED BY <3>1, <3>3
  <2>4. Recorded(Key(outgoing[d]))
    BY <2>2, <2>3 DEF NoTraceUnlessRecorded
  <2> QED BY <1>2, <1>4, <2>1, <2>4 DEF ReceiveAck
<1>5. CASE Reboot(d)
  <2>1. verdict \in [EventKey -> Verdict]
    BY DEF NodeTypeOK
  <2>2. \A k \in EventKey : verdict'[k] =
          IF k.dev = d /\ verdict[k] = "pending" THEN "abandoned" ELSE verdict[k]
    BY <1>5 DEF Reboot
  <2>3. verdict' \in [EventKey -> Verdict]
    BY <1>5, <2>1 DEF Reboot, Verdict
  <2>4. CASE \E k \in EventKey : k.dev = d /\ verdict[k] = "pending"
    <3>1. PICK k \in EventKey : k.dev = d /\ verdict[k] = "pending"
      BY <2>4
    <3>2. \A j \in EventKey : j.dev = d /\ verdict[j] = "pending" => j = k
      BY <3>1 DEF SenderInv, OnlyInHandPending
    <3>3. verdict' = [verdict EXCEPT ![k] = "abandoned"]
      BY <2>1, <2>2, <2>3, <3>1, <3>2
    <3> QED BY <3>1, <3>3 DEF Settles
  <2>5. CASE \A k \in EventKey : ~ (k.dev = d /\ verdict[k] = "pending")
    BY <2>1, <2>2, <2>3, <2>5
  <2> QED BY <2>4, <2>5
<1>6. CASE PushAction(d) \/ AckTimeout(d) \/ Discover(d) \/ SendHeartbeat(d)
  BY <1>6 DEF PushAction, AckTimeout, Discover, SendHeartbeat, nodeVars
<1>7. ASSUME NEW actions, Press(d, actions) PROVE UNCHANGED verdict
  BY <1>7 DEF Press
<1> QED BY <1>1, <1>3, <1>4, <1>5, <1>6, <1>7 DEF NodeStep, SenderTask

\* Once created an event stays created, and once recorded delivered stays so.
LEMMA VerdictMonotone ==
  ASSUME NodeTypeOK, SenderInv, NoTraceUnlessRecorded, NEW d \in Device, NodeStep(d),
         NEW k \in EventKey
  PROVE  /\ verdict[k] # "none" => verdict'[k] # "none"
         /\ verdict'[k] = "delivered" => verdict[k] = "delivered" \/ Recorded(k)
         /\ verdict'[k] = "pending" => verdict[k] \in {"none", "pending"}
  BY VerdictStep DEF Settles, NodeTypeOK

------------------------------------------------------------------------------
(* The sender's invariant *)

\* Types of a node's state.
LEMMA NodeTypeStep ==
  ASSUME NodeTypeOK, SenderInv, NEW d \in Device, NodeStep(d) PROVE NodeTypeOK'
<1> USE DEF NodeTypeOK
<1>1. verdict' \in [EventKey -> Verdict]
  <2>1. ASSUME outgoing[d] # Idle, NEW v \in Verdict, Finish(d, v)
        PROVE  verdict' \in [EventKey -> Verdict]
    BY <2>1, InHandKey DEF Finish
  <2>2. CASE TakeAction(d)
    BY <2>2, TakenKey DEF TakeAction, Verdict
  <2>3. CASE StartAttempt(d) \/ GiveUp(d)
    BY <2>1, <2>3 DEF StartAttempt, GiveUp, Verdict
  <2>4. ASSUME NEW m, ReceiveAck(d, m) PROVE verdict' \in [EventKey -> Verdict]
    BY <2>1, <2>4 DEF ReceiveAck, Verdict, SenderInv, InHand
  <2>5. CASE Reboot(d)
    BY <2>5 DEF Reboot, Verdict
  <2>6. CASE PushAction(d) \/ AckTimeout(d) \/ Discover(d) \/ SendHeartbeat(d)
    BY <2>6 DEF PushAction, AckTimeout, Discover, SendHeartbeat, nodeVars
  <2>7. ASSUME NEW actions, Press(d, actions) PROVE UNCHANGED verdict
    BY <2>7 DEF Press
  <2> QED BY <2>2, <2>3, <2>4, <2>5, <2>6, <2>7 DEF NodeStep, SenderTask
<1>2. CASE TakeAction(d)
  <2> DEFINE k == [dev |-> d, id |-> <<boot[d], sequence[d]>>]
  <2>1. k \in EventKey
    BY <1>2, TakenKey
  <2>2. channel[d] \in Seq(ActionId) /\ channel[d] # <<>>
    BY <1>2 DEF TakeAction
  <2>3. /\ Head(channel[d]) \in ActionId /\ Tail(channel[d]) \in Seq(ActionId)
        /\ Len(Tail(channel[d])) = Len(channel[d]) - 1 /\ Len(channel[d]) \in Nat
    BY <2>2
  <2>4. Event(k, Head(channel[d])) \in Events
    BY <2>1, <2>3 DEF Event, Events, EventKey
  <2>5. sequence[d] + 1 \in 1..(MaxSequence + 1)
    <3>1. sequence[d] \in 1..MaxSequence
      BY <2>1, SenderAssumption DEF EventKey
    <3> QED BY <3>1, SenderAssumption
  <2>6. 0 \in 0..(RetryCount + 1)
    BY SenderAssumption
  <2> HIDE DEF k
  <2>7. /\ outgoing' = [outgoing EXCEPT ![d] = Event(k, Head(channel[d]))]
        /\ channel' = [channel EXCEPT ![d] = Tail(@)]
        /\ sequence' = [sequence EXCEPT ![d] = @ + 1]
        /\ attempts' = [attempts EXCEPT ![d] = 0]
        /\ UNCHANGED <<boot, pressed, waiting, hubKnown>>
    BY <1>2 DEF TakeAction, k
  <2>8. channel' \in [Device -> Seq(ActionId)]
    BY <2>3, <2>7
  <2>9. \A e \in Device : Len(channel'[e]) <= ChannelCapacity
    BY <2>3, <2>7, SenderAssumption
  <2>10. outgoing' \in [Device -> Events \cup {Idle}]
    BY <2>4, <2>7
  <2>11. sequence' \in [Device -> 1..(MaxSequence + 1)]
    BY <2>5, <2>7
  <2>12. attempts' \in [Device -> 0..(RetryCount + 1)]
    BY <2>6, <2>7
  <2> QED BY <1>1, <2>7, <2>8, <2>9, <2>10, <2>11, <2>12
<1>3. CASE StartAttempt(d)
  <2>1. attempts[d] + 1 \in 0..(RetryCount + 1)
    BY <1>3, SenderAssumption DEF StartAttempt, AttemptLeft
  <2>2. attempts' \in [Device -> 0..(RetryCount + 1)]
    BY <1>3, <2>1 DEF StartAttempt
  <2>3. outgoing' \in [Device -> Events \cup {Idle}] /\ waiting' \in [Device -> BOOLEAN]
    BY <1>3 DEF StartAttempt, Finish
  <2> QED BY <1>1, <1>3, <2>2, <2>3 DEF StartAttempt
<1>4. CASE GiveUp(d)
  BY <1>1, <1>4 DEF GiveUp, Finish
<1>5. ASSUME NEW m, ReceiveAck(d, m) PROVE NodeTypeOK'
  BY <1>1, <1>5 DEF ReceiveAck, Finish
<1>6. CASE Reboot(d)
  <2>1. boot[d] + 1 \in 1..MaxBoot /\ 1 \in 1..(MaxSequence + 1) /\ 0 \in 0..(RetryCount + 1)
    BY <1>6, SenderAssumption DEF Reboot
  <2>2. Len(<<>>) <= ChannelCapacity /\ <<>> \in Seq(ActionId)
    BY SenderAssumption
  <2>3. boot' \in [Device -> 1..MaxBoot]
    BY <1>6, <2>1 DEF Reboot, NextBoot
  <2>4. /\ sequence' \in [Device -> 1..(MaxSequence + 1)]
        /\ attempts' \in [Device -> 0..(RetryCount + 1)]
    BY <1>6, <2>1 DEF Reboot
  <2>5. /\ pressed' \in [Device -> Seq(ActionId)]
        /\ channel' \in [Device -> Seq(ActionId)]
        /\ \A e \in Device : Len(channel'[e]) <= ChannelCapacity
    BY <1>6, <2>2 DEF Reboot
  <2>6. /\ outgoing' \in [Device -> Events \cup {Idle}]
        /\ waiting' \in [Device -> BOOLEAN]
        /\ hubKnown' \in [Device -> BOOLEAN]
    BY <1>6 DEF Reboot
  <2> QED BY <1>1, <2>3, <2>4, <2>5, <2>6
<1>7. CASE PushAction(d)
  <2>1. pressed[d] \in Seq(ActionId) /\ pressed[d] # <<>> /\ channel[d] \in Seq(ActionId)
    BY <1>7 DEF PushAction
  <2>2. /\ Append(channel[d], Head(pressed[d])) \in Seq(ActionId)
        /\ Len(Append(channel[d], Head(pressed[d]))) = Len(channel[d]) + 1
        /\ Tail(pressed[d]) \in Seq(ActionId)
        /\ Len(channel[d]) \in Nat
    BY <2>1
  <2>3. \A e \in Device : Len(channel'[e]) <= ChannelCapacity
    BY <1>7, <2>2, SenderAssumption DEF PushAction
  <2>4. channel' \in [Device -> Seq(ActionId)] /\ pressed' \in [Device -> Seq(ActionId)]
    BY <1>7, <2>2 DEF PushAction
  <2> QED BY <1>1, <1>7, <2>3, <2>4 DEF PushAction
<1>8. ASSUME NEW a \in ActionId, NEW b \in ActionId, Press(d, <<a>>) \/ Press(d, <<a, b>>)
      PROVE  NodeTypeOK'
  <2>1. <<a>> \in Seq(ActionId) /\ <<a, b>> \in Seq(ActionId)
    OBVIOUS
  <2>2. pressed' \in [Device -> Seq(ActionId)]
    BY <1>8, <2>1 DEF Press
  <2> QED BY <1>1, <1>8, <2>2 DEF Press
<1>9. CASE AckTimeout(d) \/ Discover(d) \/ SendHeartbeat(d)
  BY <1>1, <1>9 DEF AckTimeout, Discover, SendHeartbeat, nodeVars
<1> QED
  BY <1>2, <1>3, <1>4, <1>5, <1>6, <1>7, <1>8, <1>9 DEF NodeStep, SenderTask

\* The queues never outgrow the numbers that are left for them.
LEMMA BudgetStep ==
  ASSUME NodeTypeOK, SenderInv, NEW d \in Device, NodeStep(d), NEW e \in Device
  PROVE  Budget(e)'
<1> USE DEF NodeTypeOK
<1>1. /\ sequence[e] \in Nat /\ sequence[e] >= 1
      /\ channel[e] \in Seq(ActionId) /\ pressed[e] \in Seq(ActionId)
      /\ Len(channel[e]) \in Nat /\ Len(pressed[e]) \in Nat
      /\ sequence[e] + Len(channel[e]) + Len(pressed[e]) <= MaxSequence + 1
  <2>1. sequence[e] \in 1..(MaxSequence + 1)
    OBVIOUS
  <2>2. sequence[e] \in Nat /\ sequence[e] >= 1
    BY <2>1, SenderAssumption
  <2>3. channel[e] \in Seq(ActionId) /\ pressed[e] \in Seq(ActionId)
    OBVIOUS
  <2>4. Len(channel[e]) \in Nat /\ Len(pressed[e]) \in Nat
    BY <2>3
  <2>5. sequence[e] + Len(channel[e]) + Len(pressed[e]) <= MaxSequence + 1
    BY DEF SenderInv, Budget
  <2> QED BY <2>2, <2>3, <2>4, <2>5
<1>2. CASE UNCHANGED <<sequence[e], channel[e], pressed[e]>>
  BY <1>1, <1>2 DEF Budget
<1>3. CASE d # e
  BY <1>2, <1>3
  DEF NodeStep, SenderTask, TakeAction, StartAttempt, GiveUp, ReceiveAck, Reboot,
      PushAction, Press, AckTimeout, Discover, SendHeartbeat, nodeVars
<1>4. CASE d = e
  <2>1. CASE TakeAction(e)
    <3>1. channel[e] # <<>> /\ channel'[e] = Tail(channel[e])
          /\ sequence'[e] = sequence[e] + 1 /\ pressed'[e] = pressed[e]
      BY <2>1 DEF TakeAction
    <3>2. Len(channel'[e]) = Len(channel[e]) - 1
      BY <1>1, <3>1
    <3> QED BY <1>1, <3>1, <3>2 DEF Budget
  <2>2. CASE Reboot(e)
    <3>1. sequence'[e] = 1 /\ channel'[e] = <<>> /\ pressed'[e] = <<>>
      BY <2>2 DEF Reboot
    <3> QED BY <3>1, SenderAssumption DEF Budget
  <2>3. CASE PushAction(e)
    <3>1. /\ pressed[e] # <<>> /\ sequence'[e] = sequence[e]
          /\ channel'[e] = Append(channel[e], Head(pressed[e]))
          /\ pressed'[e] = Tail(pressed[e])
      BY <2>3 DEF PushAction
    <3>2. Len(channel'[e]) = Len(channel[e]) + 1 /\ Len(pressed'[e]) = Len(pressed[e]) - 1
      BY <1>1, <3>1
    <3> QED BY <1>1, <3>1, <3>2 DEF Budget
  <2>4. ASSUME NEW actions, Press(e, actions) PROVE Budget(e)'
    BY <2>4 DEF Press, Budget
  <2>5. ASSUME NEW m, ReceiveAck(e, m) PROVE Budget(e)'
    BY <1>2, <2>5 DEF ReceiveAck
  <2>6. CASE StartAttempt(e) \/ GiveUp(e) \/ AckTimeout(e) \/ Discover(e) \/ SendHeartbeat(e)
    BY <1>2, <2>6 DEF StartAttempt, GiveUp, AckTimeout, Discover, SendHeartbeat, nodeVars
  <2> QED BY <1>4, <2>1, <2>2, <2>3, <2>4, <2>5, <2>6 DEF NodeStep, SenderTask
<1> QED BY <1>3, <1>4

\* A node's step is its own: it leaves the other nodes and their events alone.
LEMMA Local ==
  ASSUME NodeTypeOK, SenderInv, NEW d \in Device, NodeStep(d)
  PROVE  /\ \A k \in EventKey : k.dev # d => verdict'[k] = verdict[k]
         /\ \A e \in Device \ {d} :
              UNCHANGED <<boot[e], sequence[e], outgoing[e], waiting[e]>>
<1> USE DEF NodeTypeOK
<1>1. ASSUME NEW k \in EventKey, k.dev # d PROVE verdict'[k] = verdict[k]
  <2>1. ASSUME outgoing[d] # Idle, NEW v, Finish(d, v) PROVE verdict'[k] = verdict[k]
    <3>1. Key(outgoing[d]).dev = d
      BY <2>1, InHandKey DEF Key
    <3> QED BY <1>1, <2>1, <3>1 DEF Finish
  <2>2. CASE TakeAction(d)
    BY <1>1, <2>2 DEF TakeAction
  <2>3. CASE StartAttempt(d) \/ GiveUp(d)
    BY <2>1, <2>3 DEF StartAttempt, GiveUp
  <2>4. ASSUME NEW m, ReceiveAck(d, m) PROVE verdict'[k] = verdict[k]
    BY <2>1, <2>4 DEF ReceiveAck, SenderInv, InHand
  <2>5. CASE Reboot(d)
    BY <1>1, <2>5 DEF Reboot
  <2>6. CASE PushAction(d) \/ AckTimeout(d) \/ Discover(d) \/ SendHeartbeat(d)
    BY <2>6 DEF PushAction, AckTimeout, Discover, SendHeartbeat, nodeVars
  <2>7. ASSUME NEW actions, Press(d, actions) PROVE UNCHANGED verdict
    BY <2>7 DEF Press
  <2> QED BY <2>2, <2>3, <2>4, <2>5, <2>6, <2>7 DEF NodeStep, SenderTask
<1>2. ASSUME NEW e \in Device \ {d}
      PROVE  UNCHANGED <<boot[e], sequence[e], outgoing[e], waiting[e]>>
  BY DEF NodeStep, SenderTask, TakeAction, StartAttempt, GiveUp, ReceiveAck, Reboot,
     PushAction, Press, AckTimeout, Discover, SendHeartbeat, nodeVars, Finish
<1> QED BY <1>1, <1>2

\* The steps of a node, by what they do to the event in hand.
LEMMA InHandCases ==
  ASSUME NodeTypeOK, SenderInv, NEW d \in Device, NodeStep(d)
  PROVE  \/ TakeAction(d)
         \/ Reboot(d)
         \/ /\ outgoing[d] # Idle /\ UNCHANGED <<boot, sequence>>
            /\ \E v \in {"abandoned", "delivered"} : Finish(d, v)
         \/ /\ UNCHANGED <<boot, sequence, outgoing, verdict>>
            /\ waiting'[d] => waiting[d] \/ outgoing[d] # Idle
<1> USE DEF NodeTypeOK
<1>1. CASE StartAttempt(d) \/ GiveUp(d)
  BY <1>1 DEF StartAttempt, GiveUp
<1>2. ASSUME NEW m, ReceiveAck(d, m)
      PROVE  outgoing[d] # Idle /\ UNCHANGED <<boot, sequence>> /\ Finish(d, "delivered")
  BY <1>2 DEF ReceiveAck, SenderInv, InHand
<1>3. CASE PushAction(d) \/ AckTimeout(d) \/ Discover(d) \/ SendHeartbeat(d)
  BY <1>3 DEF PushAction, AckTimeout, Discover, SendHeartbeat, nodeVars
<1>4. ASSUME NEW actions, Press(d, actions)
      PROVE  UNCHANGED <<boot, sequence, outgoing, verdict, waiting>>
  BY <1>4 DEF Press
<1> QED BY <1>1, <1>2, <1>3, <1>4 DEF NodeStep, SenderTask

\* The event in hand stays the node's own until its verdict falls.
LEMMA InHandStep ==
  ASSUME NodeTypeOK, SenderInv, NEW d \in Device, NodeStep(d), NEW e \in Device
  PROVE  InHand(e)'
<1> USE DEF NodeTypeOK
<1>1. InHand(e)
  BY DEF SenderInv
<1>2. CASE e # d
  <2>1. UNCHANGED <<outgoing[e], waiting[e]>>
    BY <1>2, Local
  <2>2. outgoing[e] # Idle => Key(outgoing[e]) \in EventKey /\ Key(outgoing[e]).dev = e
    BY InHandKey DEF Key
  <2>3. outgoing[e] # Idle => verdict'[Key(outgoing[e])] = verdict[Key(outgoing[e])]
    BY <1>2, <2>2, Local
  <2> QED BY <1>1, <2>1, <2>3 DEF InHand
<1>3. CASE TakeAction(d) /\ e = d
  <2> DEFINE k == [dev |-> d, id |-> <<boot[d], sequence[d]>>]
  <2>1. k \in EventKey
    BY <1>3, TakenKey
  <2> HIDE DEF k
  <2>2. /\ outgoing'[d] = Event(k, Head(channel[d])) /\ verdict'[k] = "pending"
        /\ outgoing[d] = Idle /\ waiting'[d] = waiting[d]
    BY <1>3, <2>1 DEF TakeAction, k
  <2>3. outgoing'[d].dev = d /\ Key(outgoing'[d]) = k
    BY <2>1, <2>2 DEF Event, Key, EventKey, k
  <2>4. ~ waiting'[d]
    BY <1>1, <1>3, <2>2 DEF InHand
  <2> QED BY <1>3, <2>2, <2>3, <2>4 DEF InHand
<1>4. CASE Reboot(d) /\ e = d
  <2>1. outgoing'[d] = Idle /\ waiting'[d] = FALSE
    BY <1>4 DEF Reboot
  <2> QED BY <1>4, <2>1 DEF InHand
<1>5. ASSUME NEW v, Finish(d, v), e = d PROVE InHand(e)'
  <2>1. outgoing'[d] = Idle /\ waiting'[d] = FALSE
    BY <1>5 DEF Finish
  <2> QED BY <1>5, <2>1 DEF InHand
<1>6. CASE /\ UNCHANGED <<boot, sequence, outgoing, verdict>>
           /\ waiting'[d] => waiting[d] \/ outgoing[d] # Idle
           /\ e = d
  BY <1>1, <1>6 DEF InHand
<1> QED BY <1>2, <1>3, <1>4, <1>5, <1>6, InHandCases

\* An id is given out once, and the event it names is pending only in hand.
LEMMA IdStep ==
  ASSUME NodeTypeOK, SenderInv, NEW d \in Device, NodeStep(d), NEW k \in EventKey
  PROVE  OnlyInHandPending(k)' /\ (NotReached(k)' => verdict'[k] = "none")
<1> USE DEF NodeTypeOK
<1>1. OnlyInHandPending(k) /\ (NotReached(k) => verdict[k] = "none")
  BY DEF SenderInv
<1>2. k.dev \in Device /\ boot[d] \in Nat /\ sequence[d] \in Nat
  <2>1. boot[d] \in 1..MaxBoot /\ sequence[d] \in 1..(MaxSequence + 1)
    OBVIOUS
  <2>2. boot[d] \in Nat /\ sequence[d] \in Nat
    BY <2>1, SenderAssumption
  <2>3. k.dev \in Device
    BY DEF EventKey
  <2> QED BY <2>2, <2>3
<1>3. k.id[1] \in Nat /\ k.id[2] \in Nat
  <2>1. k.id \in (1..MaxBoot) \X (1..MaxSequence)
    BY SenderAssumption DEF EventKey
  <2> QED BY <2>1
<1>4. CASE k.dev # d
  <2>1. /\ verdict'[k] = verdict[k]
        /\ UNCHANGED <<boot[k.dev], sequence[k.dev], outgoing[k.dev]>>
    BY SMTT(30), <1>2, <1>4, Local
  <2> QED BY <1>1, <2>1 DEF OnlyInHandPending, NotReached
<1>5. CASE TakeAction(d) /\ k.dev = d
  <2> DEFINE j == [dev |-> d, id |-> <<boot[d], sequence[d]>>]
  <2>1. j \in EventKey
    BY <1>5, TakenKey
  <2>2. j.dev = d /\ j.id[1] = boot[d] /\ j.id[2] = sequence[d]
    OBVIOUS
  <2> HIDE DEF j
  <2>3. /\ outgoing'[d] = Event(j, Head(channel[d])) /\ outgoing'[d] \in Events \cup {Idle}
        /\ verdict' = [verdict EXCEPT ![j] = "pending"]
        /\ outgoing[d] = Idle /\ boot'[d] = boot[d] /\ sequence'[d] = sequence[d] + 1
    BY <1>5, NodeTypeStep DEF TakeAction, j
  <2>4. Key(outgoing'[d]) = j
    BY <2>1, <2>3 DEF Event, Key, EventKey
  <2>5. outgoing'[d] # Idle
    <3>1. channel[d] \in Seq(ActionId) /\ channel[d] # <<>>
      BY <1>5 DEF TakeAction
    <3>2. Head(channel[d]) \in ActionId
      BY <3>1
    <3>3. Event(j, Head(channel[d])) \in Events
      BY <2>1, <3>2 DEF Event, Events, EventKey
    <3> QED BY <2>3, <3>3, SenderAssumption
  <2>6. OnlyInHandPending(k)'
    BY <1>1, <1>5, <2>1, <2>3, <2>4, <2>5 DEF OnlyInHandPending
  <2>7. NotReached(k)' => NotReached(k) /\ k # j
    BY <1>2, <1>3, <1>5, <2>2, <2>3 DEF NotReached
  <2> QED BY <1>1, <2>3, <2>6, <2>7
<1>6. CASE Reboot(d) /\ k.dev = d
  <2>1. /\ boot'[d] = boot[d] + 1
        /\ verdict'[k] = IF verdict[k] = "pending" THEN "abandoned" ELSE verdict[k]
    BY <1>6 DEF Reboot, NextBoot
  <2>2. NotReached(k)' => NotReached(k)
    BY <1>2, <1>3, <1>6, <2>1 DEF NotReached
  <2> QED BY <1>1, <2>1, <2>2 DEF OnlyInHandPending
<1>7. ASSUME NEW v \in {"abandoned", "delivered"}, Finish(d, v), outgoing[d] # Idle,
             UNCHANGED <<boot, sequence>>, k.dev = d
      PROVE  OnlyInHandPending(k)' /\ (NotReached(k)' => verdict'[k] = "none")
  <2>1. verdict[Key(outgoing[d])] = "pending" /\ Key(outgoing[d]) \in EventKey
    BY <1>7, InHandKey
  <2>2. verdict' = [verdict EXCEPT ![Key(outgoing[d])] = v]
    BY <1>7 DEF Finish
  <2>3. verdict'[k] # "pending"
    BY <1>1, <1>7, <2>1, <2>2 DEF OnlyInHandPending
  <2>4. NotReached(k)' => verdict'[k] = "none"
    BY <1>1, <1>7, <2>1, <2>2 DEF NotReached
  <2> QED BY <2>3, <2>4 DEF OnlyInHandPending
<1>8. CASE UNCHANGED <<boot, sequence, outgoing, verdict>>
  BY <1>1, <1>8 DEF OnlyInHandPending, NotReached
<1> QED BY <1>4, <1>5, <1>6, <1>7, <1>8, InHandCases

\* A node sends its event in hand, or HELLO or HEARTBEAT, or nothing.
LEMMA NodeSends ==
  ASSUME NodeTypeOK, NEW d \in Device, NodeStep(d)
  PROVE  \/ UNCHANGED net
         \/ \E m \in Hellos : net' = net \cup {m}
         \/ outgoing[d] # Idle /\ net' = net \cup {outgoing[d]} /\ UNCHANGED verdict
<1>1. Hello(d) \in Hellos /\ Heartbeat(d) \in Hellos
  BY DEF Hello, Heartbeat, Hellos
<1>2. CASE StartAttempt(d)
  BY <1>2 DEF StartAttempt, Send
<1>3. CASE Discover(d) \/ SendHeartbeat(d)
  BY <1>1, <1>3 DEF Discover, SendHeartbeat, Send
<1>4. CASE PushAction(d) \/ TakeAction(d) \/ GiveUp(d) \/ AckTimeout(d) \/ Reboot(d)
  BY <1>4 DEF PushAction, TakeAction, GiveUp, AckTimeout, Reboot
<1>5. ASSUME NEW m, ReceiveAck(d, m) PROVE UNCHANGED net
  BY <1>5 DEF ReceiveAck
<1>6. ASSUME NEW actions, Press(d, actions) PROVE UNCHANGED net
  BY <1>6 DEF Press
<1> QED BY <1>2, <1>3, <1>4, <1>5, <1>6 DEF NodeStep, SenderTask

------------------------------------------------------------------------------
(* Both ends *)

\* The hub's invariant survives whatever a node does.
LEMMA NodeKeepsHubInv ==
  ASSUME HubInv, NodeTypeOK, NEW d \in Device, NodeStep(d), UNCHANGED hubVars
  PROVE  HubInv'
<1>1. \A m \in net' \ net : m \in Hellos \cup Events
  BY ZenonT(30), NodeSends DEF NodeTypeOK
<1>2. \A m \in Hellos \cup Events : m.type # "ACK" /\ m \in Datagram
  BY DEF Hellos, Events, Datagram, UdpMessage
<1>3. net' \subseteq Datagram
  BY <1>1, <1>2 DEF HubInv, TypeOK
<1>4. \A k \in EventKey : Ack(k) \in net' => Ack(k) \in net
  BY <1>1, <1>2 DEF Ack
<1>5. TypeOK'
  BY <1>3 DEF HubInv, TypeOK, hubVars
<1>6. HandlerInv' /\ AtMostOnce'
  BY DEF HubInv, HandlerInv, AtMostOnce, Executing, Recorded, hubVars
<1>7. NoTraceUnlessRecorded'
  BY <1>4 DEF HubInv, NoTraceUnlessRecorded, Recorded, hubVars
<1> QED BY <1>5, <1>6, <1>7 DEF HubInv

\* A step of the hub here is a step of HubEvents: what was sent is a datagram.
LEMMA HubProcessIsNext == ASSUME TypeOK, HubProcess PROVE Next
  BY DEF HubProcess, Next, TypeOK

\* Node steps keep what is under way, in hand and recorded among the created.
LEMMA CreatedNodeStep ==
  ASSUME DeliveryInv, NEW d \in Device, NodeStep(d), UNCHANGED hubVars
  PROVE  CreatedInv'
<1> USE DEF DeliveryInv
<1>1. \A k \in EventKey : verdict[k] # "none" => verdict'[k] # "none"
  BY VerdictMonotone DEF HubInv
<1>2. ASSUME NEW m \in net', m \in Events PROVE verdict'[Key(m)] # "none"
  <2>1. Key(m) \in EventKey
    BY <1>2, KeyType
  <2>2. CASE m \in net
    BY <1>1, <1>2, <2>1, <2>2 DEF CreatedInv
  <2>3. CASE m \notin net
    <3>1. \A h \in Hellos : h # m
      <4>1. m.type = "EVENT"
        BY <1>2 DEF Events
      <4> QED BY <4>1 DEF Hellos
    <3>2. outgoing[d] # Idle /\ m = outgoing[d] /\ UNCHANGED verdict
      BY <2>3, <3>1, NodeSends
    <3> QED BY <3>2, InHandKey
  <2> QED BY <2>2, <2>3
<1>3. pc \in Handling => Key(cur) \in EventKey
  BY KeyType DEF HubInv, HandlerInv
<1>4. history \subseteq EventKey
  BY DEF HubInv, TypeOK
<1>5. UNCHANGED <<pc, cur, history>>
  BY DEF hubVars
<1>6. pc' \in Handling => verdict'[Key(cur')] # "none"
  BY <1>1, <1>3, <1>5 DEF CreatedInv
<1>7. \A k \in history' : verdict'[k] # "none"
  BY <1>1, <1>4, <1>5 DEF CreatedInv
<1> QED BY <1>2, <1>6, <1>7 DEF CreatedInv

\* The hub takes up only what was sent and records only what it has in hand.
LEMMA HubRecords ==
  HubProcess =>
    \/ UNCHANGED history
    \/ pc = "record" /\ history' = history \cup {Key(cur)} /\ UNCHANGED executed
  BY DEF HubProcess, Boot, Crash, RecvTimeout, Receive, HubStep, LookupEvent, GetAction,
     GetFamily, ListChanges, RecordEvent, SendAck, OtherWriter, CommitConfig, EditDevice

\* The event the hub is at is the one it was at, or one it receives from the network.
LEMMA HubTakesUp ==
  HubProcess =>
    \/ pc' \notin Handling
    \/ pc \in Handling /\ cur' = cur
    \/ \E m \in net \cap Events : cur' = m
<1> SUFFICES ASSUME HubProcess, pc' \in Handling
             PROVE  \/ pc \in Handling /\ cur' = cur
                    \/ \E m \in net \cap Events : cur' = m
  OBVIOUS
<1>1. CASE Boot \/ Crash \/ RecvTimeout
  BY <1>1 DEF Boot, Crash, RecvTimeout, BackToRecv, handler, Handling
<1>2. ASSUME NEW m \in net, Receive(m) PROVE \E n \in net \cap Events : cur' = n
  BY <1>2 DEF Receive, Discard, BackToRecv, Handling
<1>3. CASE LookupEvent \/ RecordEvent \/ SendAck
  BY <1>3 DEF LookupEvent, RecordEvent, SendAck, Discard, BackToRecv, Goto, AfterInsert,
     Handling
<1>4. CASE GetAction \/ GetFamily \/ ListChanges
  BY <1>4 DEF GetAction, GetFamily, ListChanges, Unavailable, Discard, BackToRecv, Goto,
     Handling
<1>5. CASE OtherWriter
  BY <1>5 DEF OtherWriter, CommitConfig, EditDevice, handler
<1> QED BY <1>1, <1>2, <1>3, <1>4, <1>5 DEF HubProcess, HubStep

\* The hub sends no EVENT.
LEMMA HubSends == HubInv /\ HubProcess => \A m \in net' \ net : m \notin Events
<1> SUFFICES ASSUME HubInv, HubProcess, NEW m \in net' \ net PROVE m.type # "EVENT"
  BY DEF Events
<1>1. m = HelloRequest \/ \E k : m = Ack(k)
  BY DEF HubProcess, Boot, Crash, RecvTimeout, Receive, HubStep, LookupEvent, GetAction,
     GetFamily, ListChanges, RecordEvent, SendAck, OtherWriter, CommitConfig, EditDevice,
     Send
<1> QED BY <1>1 DEF HelloRequest, Ack

\* ... and so do the hub's steps.
LEMMA CreatedHubStep ==
  ASSUME DeliveryInv, HubProcess, UNCHANGED nodeVars PROVE CreatedInv'
<1> USE DEF DeliveryInv
<1>1. UNCHANGED verdict
  BY DEF nodeVars
<1>2. \A m \in net' \cap Events : verdict'[Key(m)] # "none"
  BY <1>1, HubSends DEF CreatedInv
<1>3. pc' \in Handling => verdict'[Key(cur')] # "none"
  BY <1>1, HubTakesUp DEF CreatedInv
<1>4. \A k \in history' : verdict'[k] # "none"
  BY <1>1, HubRecords DEF CreatedInv, Handling
<1> QED BY <1>2, <1>3, <1>4 DEF CreatedInv

------------------------------------------------------------------------------
(* Theorems *)

LEMMA DeliveryInvInit == DeliveryInit => DeliveryInv
<1> SUFFICES ASSUME DeliveryInit PROVE DeliveryInv
  OBVIOUS
<1> USE DEF DeliveryInit
<1>1. HubInv
  BY HubInvInit DEF Init
<1>2. 1 \in 1..MaxBoot /\ 1 \in 1..(MaxSequence + 1) /\ 0 \in 0..(RetryCount + 1)
  BY SenderAssumption
<1>3. <<>> \in Seq(ActionId) /\ Len(<<>>) = 0 /\ 0 <= ChannelCapacity
  BY SenderAssumption
<1>4. NodeTypeOK
  BY <1>2, <1>3 DEF NodeInit, NodeTypeOK, Verdict
<1>5. \A d \in Device : Budget(d) /\ InHand(d)
  <2> SUFFICES ASSUME NEW d \in Device PROVE Budget(d) /\ InHand(d)
    OBVIOUS
  <2>1. sequence[d] = 1 /\ Len(channel[d]) = 0 /\ Len(pressed[d]) = 0
    BY <1>3 DEF NodeInit
  <2>2. Budget(d)
    BY <2>1, SenderAssumption DEF Budget
  <2>3. InHand(d)
    BY DEF NodeInit, InHand
  <2> QED BY <2>2, <2>3
<1>6. SenderInv
  BY <1>5 DEF SenderInv, NodeInit, OnlyInHandPending
<1>7. CreatedInv /\ DeliveredMeansRecorded
  BY DEF CreatedInv, DeliveredMeansRecorded, NodeInit, HubInit, Handling
<1> QED BY <1>1, <1>4, <1>6, <1>7 DEF DeliveryInv

\* Every step of nodes, network and hub keeps DeliveryInv.
LEMMA DeliveryInvStep == DeliveryInv /\ [DeliveryNext]_allVars => DeliveryInv'
<1> SUFFICES ASSUME DeliveryInv, [DeliveryNext]_allVars PROVE DeliveryInv'
  OBVIOUS
<1>1. HubInv /\ [Next]_vars => HubInv'
  BY TypeStep, HandlerStep, NoTraceStep, AtMostOnceStep DEF HubInv
<1>2. ASSUME NEW d \in Device, NodeStep(d), UNCHANGED hubVars PROVE DeliveryInv'
  <2>1. HubInv'
    BY <1>2, NodeKeepsHubInv DEF DeliveryInv
  <2>2. NodeTypeOK'
    BY <1>2, NodeTypeStep DEF DeliveryInv
  <2>3. SenderInv'
    BY <1>2, BudgetStep, InHandStep, IdStep DEF DeliveryInv, SenderInv
  <2>4. CreatedInv'
    BY <1>2, CreatedNodeStep
  <2>5. history' = history
    BY <1>2 DEF hubVars
  <2>6. DeliveredMeansRecorded'
    BY <1>2, <2>5, VerdictMonotone
    DEF DeliveryInv, HubInv, DeliveredMeansRecorded, Recorded
  <2> QED BY <2>1, <2>2, <2>3, <2>4, <2>6 DEF DeliveryInv
<1>3. CASE HubProcess /\ UNCHANGED nodeVars
  <2>1. Next
    BY <1>3, HubProcessIsNext DEF DeliveryInv, HubInv
  <2>2. HubInv'
    BY <1>1, <2>1 DEF DeliveryInv
  <2>3. NodeTypeOK' /\ SenderInv'
    BY <1>3
    DEF DeliveryInv, nodeVars, NodeTypeOK, SenderInv, Budget, InHand, OnlyInHandPending,
        NotReached
  <2>4. CreatedInv'
    BY <1>3, CreatedHubStep
  <2>5. DeliveredMeansRecorded'
    BY <1>3, <2>1, HistoryStep DEF DeliveryInv, nodeVars, DeliveredMeansRecorded, Recorded
  <2> QED BY <2>2, <2>3, <2>4, <2>5 DEF DeliveryInv
<1>4. CASE UNCHANGED allVars
  <2>1. UNCHANGED vars
    BY <1>4 DEF allVars, vars
  <2>2. HubInv'
    BY <1>1, <2>1 DEF DeliveryInv
  <2>3. /\ UNCHANGED <<net, boot, sequence, pressed, channel, outgoing, attempts, waiting>>
        /\ UNCHANGED <<hubKnown, verdict, history, pc, cur>>
    BY <1>4 DEF allVars, nodeVars, hubVars
  <2>4. NodeTypeOK' /\ SenderInv'
    BY <2>3 DEF DeliveryInv, NodeTypeOK, SenderInv, Budget, InHand, OnlyInHandPending, NotReached
  <2>5. CreatedInv' /\ DeliveredMeansRecorded'
    BY <2>3 DEF DeliveryInv, CreatedInv, DeliveredMeansRecorded, Recorded
  <2> QED BY <2>2, <2>4, <2>5 DEF DeliveryInv
<1> QED BY <1>2, <1>3, <1>4 DEF DeliveryNext

\* DeliveryInv holds in every reachable state of nodes and hub.
THEOREM DeliveryInvariant == DeliverySpec => []DeliveryInv
  BY DeliveryInvInit, DeliveryInvStep, PTL DEF DeliverySpec

\* Nodes, hub and network keep their types together.
THEOREM DeliveryTypeCorrect == DeliverySpec => []DeliveryTypeOK
<1>1. DeliveryInv => DeliveryTypeOK
  BY DEF DeliveryInv, HubInv, DeliveryTypeOK
<1> QED BY DeliveryInvariant, <1>1, PTL

\* An event its node reports delivered is in the hub's history, whatever ACKs
\* of other events, attempts or boots the network brings.
THEOREM DeliveredMeansRecordedCorrect == DeliverySpec => []DeliveredMeansRecorded
<1>1. DeliveryInv => DeliveredMeansRecorded
  BY DEF DeliveryInv
<1> QED BY DeliveryInvariant, <1>1, PTL

\* No id is given to two presses, over any number of reboots with distinct
\* boot ids.
THEOREM IdsNeverReusedCorrect == DeliverySpec => IdsNeverReused
<1> DEFINE New == \A k \in EventKey :
      verdict'[k] = "pending" /\ verdict[k] # "pending" => verdict[k] = "none"
<1>1. DeliveryInv /\ [DeliveryNext]_allVars => New
  <2> SUFFICES ASSUME DeliveryInv, [DeliveryNext]_allVars PROVE New
    OBVIOUS
  <2>1. ASSUME NEW d \in Device, NodeStep(d) PROVE New
    BY <2>1, VerdictMonotone DEF DeliveryInv, HubInv
  <2>2. CASE UNCHANGED nodeVars
    BY <2>2 DEF nodeVars
  <2> QED BY <2>1, <2>2 DEF DeliveryNext, allVars
<1> QED BY DeliveryInvariant, <1>1, PTL DEF DeliverySpec, IdsNeverReused

\* Every step of nodes and hub is a step of EventContract or leaves it alone:
\* an event is created once, recorded after that, run once after that, and
\* delivered only when recorded.
THEOREM ContractSafetyCorrect == DeliverySpec => ContractSafety
<1>1. DeliveryInit => Contract!Init
  BY DEF DeliveryInit, NodeInit, HubInit, Contract!Init
<1>2. DeliveryInv /\ [DeliveryNext]_allVars => [Contract!Next]_(Contract!vars)
  <2> SUFFICES ASSUME DeliveryInv, [DeliveryNext]_allVars
               PROVE  Contract!Next \/ UNCHANGED <<verdict, history, executed>>
    BY DEF Contract!vars
  <2>1. ASSUME NEW d \in Device, NodeStep(d), UNCHANGED hubVars
        PROVE  Contract!Next \/ UNCHANGED <<verdict, history, executed>>
    <3>1. UNCHANGED <<history, executed>>
      BY <2>1 DEF hubVars
    <3>2. NodeTypeOK /\ SenderInv /\ NoTraceUnlessRecorded
      BY DEF DeliveryInv, HubInv
    <3>3. CASE UNCHANGED verdict
      BY <3>1, <3>3
    <3>4. ASSUME NEW k \in EventKey, verdict[k] = "none",
                 verdict' = [verdict EXCEPT ![k] = "pending"]
          PROVE  Contract!Next
      BY <3>1, <3>4 DEF Contract!Next, Contract!Create
    <3>5. ASSUME NEW k \in EventKey, Settles(k, "abandoned") PROVE Contract!Next
      BY <3>1, <3>5 DEF Contract!Next, Contract!Abandon, Settles
    <3>6. ASSUME NEW k \in EventKey, Settles(k, "delivered"), Recorded(k) PROVE Contract!Next
      BY <3>1, <3>6 DEF Contract!Next, Contract!Deliver, Settles, Recorded
    <3> QED BY <2>1, <3>2, <3>3, <3>4, <3>5, <3>6, VerdictStep
  <2>2. CASE HubProcess /\ UNCHANGED nodeVars
    <3>1. UNCHANGED verdict
      BY <2>2 DEF nodeVars
    <3>2. Next
      BY <2>2, HubProcessIsNext DEF DeliveryInv, HubInv
    <3>3. CASE UNCHANGED executed /\ UNCHANGED history
      BY <3>1, <3>3
    <3>4. CASE pc = "record" /\ history' = history \cup {Key(cur)} /\ UNCHANGED executed
      <4>1. Key(cur) \in EventKey /\ verdict[Key(cur)] # "none"
        BY <3>4, KeyType DEF DeliveryInv, HubInv, HandlerInv, CreatedInv, Handling
      <4>2. CASE Key(cur) \in history
        BY <3>1, <3>4, <4>2
      <4>3. CASE Key(cur) \notin history
        BY <3>1, <3>4, <4>1, <4>3 DEF Contract!Next, Contract!Record
      <4> QED BY <4>2, <4>3
    <3>5. CASE Executing /\ executed' = [executed EXCEPT ![Key(cur)] = @ + 1]
      <4>1. Key(cur) \in EventKey /\ Key(cur) \in history /\ executed[Key(cur)] = 0
        BY <3>5, KeyType
        DEF DeliveryInv, HubInv, HandlerInv, Handling, Executing, Recorded
      <4>2. executed' = [executed EXCEPT ![Key(cur)] = 1]
        BY <3>5, <4>1
      <4>3. history' = history
        BY <2>2, <3>5, HubRecords DEF Executing
      <4> QED BY <3>1, <4>1, <4>2, <4>3 DEF Contract!Next, Contract!Execute
    <3> QED BY <2>2, <3>2, <3>3, <3>4, <3>5, HubRecords, ExecutedStep
  <2>3. CASE UNCHANGED allVars
    BY <2>3 DEF allVars, nodeVars, hubVars
  <2> QED BY <2>1, <2>2, <2>3 DEF DeliveryNext
<1> QED
  BY DeliveryInvariant, <1>1, <1>2, PTL DEF DeliverySpec, ContractSafety, Contract!Spec

------------------------------------------------------------------------------
(* The order of the presses *)

\* Every id the generator has passed in this boot was given to an event.
Passed(k) ==
  k.id[1] = boot[k.dev] /\ k.id[2] < sequence[k.dev] => verdict[k] # "none"

\* Stop-and-wait: an event is created only after its predecessors are settled.
PredecessorsSettled ==
  \A k1, k2 \in EventKey :
    Before(k1, k2) /\ verdict[k2] # "none" => verdict[k1] \in {"delivered", "abandoned"}

OrderInv == (\A k \in EventKey : Passed(k)) /\ PredecessorsSettled

\* The ids of a bounded generator are pairs of numbers.
LEMMA IdType ==
  ASSUME NodeTypeOK, NEW k \in EventKey
  PROVE  /\ k.dev \in Device /\ k.id \in Nat \X Nat /\ k.id[1] \in Nat /\ k.id[2] \in Nat
         /\ boot[k.dev] \in Nat /\ sequence[k.dev] \in Nat /\ verdict[k] \in Verdict
<1>1. k.dev \in Device /\ k.id \in (1..MaxBoot) \X (1..MaxSequence)
  BY SenderAssumption DEF EventKey
<1>2. boot[k.dev] \in 1..MaxBoot /\ sequence[k.dev] \in 1..(MaxSequence + 1)
  BY <1>1 DEF NodeTypeOK
<1>3. k.id[1] \in Nat /\ k.id[2] \in Nat /\ k.id \in Nat \X Nat
  BY <1>1, SenderAssumption
<1>4. boot[k.dev] \in Nat /\ sequence[k.dev] \in Nat
  BY <1>2, SenderAssumption
<1>5. verdict[k] \in Verdict
  BY DEF NodeTypeOK
<1> QED BY <1>1, <1>3, <1>4, <1>5

\* A settled event stays settled.
LEMMA SettledStays ==
  ASSUME NodeTypeOK, SenderInv, NoTraceUnlessRecorded, NEW d \in Device, NodeStep(d),
         NEW k \in EventKey, verdict[k] \in {"delivered", "abandoned"}
  PROVE  verdict'[k] = verdict[k]
  BY VerdictStep DEF Settles, NodeTypeOK

\* Every step keeps the order of events in hand behind their predecessors.
LEMMA OrderStep ==
  ASSUME DeliveryInv, OrderInv, [DeliveryNext]_allVars PROVE OrderInv'
<1> USE DEF DeliveryInv, HubInv, NodeTypeOK
<1>1. ASSUME NEW d \in Device, NodeStep(d), NEW k \in EventKey PROVE Passed(k)'
  <2>1. Passed(k) /\ (verdict[k] # "none" => verdict'[k] # "none")
    BY <1>1, VerdictMonotone DEF OrderInv
  <2>2. CASE UNCHANGED <<boot[k.dev], sequence[k.dev]>>
    BY <2>1, <2>2 DEF Passed
  <2>3. CASE k.dev # d
    BY SMTT(30), <1>1, <2>2, <2>3, Local, IdType
  <2>4. CASE TakeAction(d) /\ k.dev = d
    <3> DEFINE j == [dev |-> d, id |-> <<boot[d], sequence[d]>>]
    <3>1. boot'[d] = boot[d] /\ sequence'[d] = sequence[d] + 1 /\ j \in EventKey
      BY <2>4, TakenKey DEF TakeAction
    <3>2. verdict'[j] = "pending"
      BY <2>4, <3>1 DEF TakeAction
    <3>3. CASE k.id[1] = boot[d] /\ k.id[2] = sequence[d]
      <4>1. k.id = <<boot[d], sequence[d]>>
        BY <3>3, IdType
      <4>2. k = j
        BY <2>4, <4>1 DEF EventKey
      <4> QED BY <3>2, <4>2 DEF Passed
    <3>4. CASE ~ (k.id[1] = boot[d] /\ k.id[2] = sequence[d])
      <4>1. k.id[1] = boot[d] /\ k.id[2] < sequence[d] + 1 => k.id[2] < sequence[d]
        BY <2>4, <3>4, IdType
      <4> HIDE DEF j
      <4> QED BY <2>1, <2>4, <3>1, <4>1 DEF Passed
    <3> QED BY <3>3, <3>4
  <2>5. CASE Reboot(d) /\ k.dev = d
    <3>1. sequence'[d] = 1 /\ k.id \in (1..MaxBoot) \X (1..MaxSequence)
      BY <2>5, SenderAssumption DEF Reboot, EventKey
    <3>2. k.id[2] >= 1
      BY <3>1, SenderAssumption
    <3> QED BY <2>5, <3>1, <3>2, IdType DEF Passed
  <2>6. CASE UNCHANGED <<boot, sequence>>
    BY <2>2, <2>6
  <2> QED BY <1>1, <2>3, <2>4, <2>5, <2>6, InHandCases
<1>2. ASSUME NEW d \in Device, NodeStep(d), NEW k1 \in EventKey, NEW k2 \in EventKey,
             Before(k1, k2), verdict'[k2] # "none"
      PROVE  verdict'[k1] \in {"delivered", "abandoned"}
  <2>1. CASE verdict[k2] # "none"
    BY <1>2, <2>1, SettledStays DEF OrderInv, PredecessorsSettled
  <2>2. CASE verdict[k2] = "none"
    <3>1. /\ verdict'[k2] = "pending" /\ verdict' = [verdict EXCEPT ![k2] = "pending"]
      BY <1>2, <2>2, VerdictStep DEF Settles
    <3>2. TakeAction(d) /\ k2 = [dev |-> d, id |-> <<boot[d], sequence[d]>>]
      <4>1. k2.dev = d
        BY <1>2, <2>2, Local
      <4>2. ASSUME NEW v \in {"abandoned", "delivered"}, Finish(d, v), outgoing[d] # Idle
            PROVE  verdict'[k2] # "pending"
        BY <2>2, <4>2, InHandKey DEF Finish
      <4>3. CASE Reboot(d)
        BY <2>2, <3>1, <4>3 DEF Reboot
      <4>4. CASE TakeAction(d)
        BY <2>2, <3>1, <4>4 DEF TakeAction
      <4> QED BY <1>2, <2>2, <3>1, <4>2, <4>3, <4>4, InHandCases
    <3>3. k1.dev = d /\ k1.id[1] = boot[d] /\ k1.id[2] < sequence[d]
      BY <1>2, <3>2 DEF Before
    <3>4. verdict[k1] # "none"
      BY <3>3 DEF OrderInv, Passed
    <3>5. verdict[k1] # "pending"
      BY <3>2, <3>3 DEF TakeAction, SenderInv, OnlyInHandPending
    <3>6. verdict[k1] \in {"delivered", "abandoned"}
      BY <3>4, <3>5 DEF Verdict
    <3> QED BY <1>2, <3>6, SettledStays
  <2> QED BY <2>1, <2>2
<1>3. CASE \E d \in Device : NodeStep(d)
  BY <1>1, <1>2, <1>3 DEF OrderInv, PredecessorsSettled, Before
<1>4. CASE UNCHANGED nodeVars
  BY <1>4 DEF OrderInv, Passed, PredecessorsSettled, Before, nodeVars
<1> QED BY <1>3, <1>4 DEF DeliveryNext, allVars

\* The hub records the events of one boot in the order of the presses, save for
\* those the node had given up on.
THEOREM OvertakenOnlyIfAbandonedCorrect == DeliverySpec => []OvertakenOnlyIfAbandoned
<1>1. DeliveryInit => OrderInv
  <2> SUFFICES ASSUME DeliveryInit, NEW k \in EventKey PROVE ~ (k.id[2] < sequence[k.dev])
    BY DEF DeliveryInit, NodeInit, OrderInv, Passed, PredecessorsSettled
  <2>1. k.dev \in Device /\ k.id \in (1..MaxBoot) \X (1..MaxSequence)
    BY SenderAssumption DEF EventKey
  <2>2. sequence[k.dev] = 1 /\ k.id[2] \in Nat /\ k.id[2] >= 1
    BY <2>1, SenderAssumption DEF DeliveryInit, NodeInit
  <2> QED BY <2>2
<1>2. DeliveryInv /\ OrderInv => OvertakenOnlyIfAbandoned
  BY DEF DeliveryInv, CreatedInv, DeliveredMeansRecorded, OrderInv, PredecessorsSettled,
     OvertakenOnlyIfAbandoned, Recorded
<1> QED BY DeliveryInvariant, OrderStep, <1>1, <1>2, PTL DEF DeliverySpec
------------------------------------------------------------------------------
(* Work that is left.  That threads and tasks are scheduled at all is fairness *)
(* and stays with the runs HubAudit and EventDeliveryLive.  That they do not   *)
(* run for ever on one datagram or one action is shown here, for every number  *)
(* of retries and every channel capacity, by numbers that only go down.        *)

\* The most SQL statements and sends the datagram in hand can still take.
StepsLeft ==
  CASE pc = "lookup"  -> 9
    [] pc = "action"  -> IF phase = "validate" THEN 8 ELSE 4
    [] pc = "target"  -> IF phase = "validate" THEN 7 ELSE 3
    [] pc = "changes" -> IF phase = "validate" THEN 6 ELSE 2
    [] pc = "record"  -> 5
    [] pc = "ack"     -> 1
    [] OTHER          -> 0

\* Whatever statements fail, whatever other writers commit in between and
\* whatever is validated twice, a datagram takes the hub's loop at most nine
\* steps: every step that moves the handler brings it nearer to recv_from.
THEOREM HandlerAdvances ==
  Spec => [][(pc \in Handling) => UNCHANGED handler \/ StepsLeft' < StepsLeft]_vars
<1> DEFINE Advances == pc \in Handling => UNCHANGED handler \/ StepsLeft' < StepsLeft
<1>1. HubInv /\ [Next]_vars => Advances
  <2> SUFFICES ASSUME HubInv, [Next]_vars, pc \in Handling, ~ UNCHANGED handler
               PROVE  StepsLeft' < StepsLeft
    OBVIOUS
  <2>1. phase \in {"validate", "execute"} /\ StepsLeft \in 1..9
    BY DEF HubInv, TypeOK, Phase, Handling, StepsLeft
  <2>2. CASE pc' \in {"down", "recv"}
    BY <2>1, <2>2 DEF StepsLeft
  <2>3. CASE LookupEvent
    BY <2>1, <2>3 DEF LookupEvent, Goto, Discard, BackToRecv, StepsLeft
  <2>4. CASE GetAction
    BY <2>1, <2>4 DEF GetAction, Unavailable, Goto, Discard, BackToRecv, StepsLeft
  <2>5. CASE GetFamily
    BY <2>1, <2>5 DEF GetFamily, Unavailable, Goto, Discard, BackToRecv, StepsLeft
  <2>6. CASE ListChanges
    BY <2>1, <2>6 DEF ListChanges, Unavailable, Goto, Discard, BackToRecv, StepsLeft
  <2>7. CASE RecordEvent
    BY <2>1, <2>7 DEF RecordEvent, AfterInsert, Goto, Discard, BackToRecv, StepsLeft
  <2>8. CASE SendAck \/ Crash
    <3>1. pc' \in {"down", "recv"}
      BY <2>8 DEF SendAck, Crash, Discard, BackToRecv
    <3> QED BY <2>2, <3>1
  <2>9. ~ Boot /\ ~ RecvTimeout /\ \A m \in Datagram : ~ Receive(m)
    BY DEF Boot, RecvTimeout, Receive, Handling
  <2>10. ~ OtherWriter /\ ~ UNCHANGED vars
    BY DEF OtherWriter, CommitConfig, EditDevice, vars, hubVars, handler
  <2> QED BY <2>3, <2>4, <2>5, <2>6, <2>7, <2>8, <2>9, <2>10 DEF Next, HubStep
<1>2. HubInv /\ [Next]_vars => [Advances]_vars
  BY <1>1
<1> QED BY HubInvariant, <1>2, PTL DEF Spec

\* What one action may still cost the sender task once it is taken from the
\* channel: at most two steps for each of RetryCount + 1 attempts, the step that
\* takes it and the one that gives it up.
ActionWork == 2 * RetryCount + 4

\* ... and what the event in hand may still cost.
HandWork(d) ==
  IF outgoing[d] = Idle THEN 0
  ELSE 1 + 2 * (RetryCount + 1 - attempts[d]) + (IF waiting[d] THEN 1 ELSE 0)

\* All a node still has to do for the actions it has accepted.
SenderWork(d) ==
  Len(pressed[d]) * (ActionWork + 1) + Len(channel[d]) * ActionWork + HandWork(d)

\* A step that leaves alone what a node has accepted and how far it is with it.
UnchangedWork(d) ==
  UNCHANGED <<pressed[d], channel[d], outgoing[d], attempts[d], waiting[d]>>

\* An attempt, waited for or not, leaves less work than there was before it.
LEMMA AttemptCosts ==
  ASSUME NEW r \in Nat, NEW a \in Nat, a <= r
  PROVE  /\ 1 + 2 * (r + 1 - (a + 1)) \in Nat /\ 1 + 2 * (r + 1 - (a + 1)) + 1 \in Nat
         /\ 1 + 2 * (r + 1 - (a + 1)) < 1 + 2 * (r + 1 - a)
         /\ 1 + 2 * (r + 1 - (a + 1)) + 1 < 1 + 2 * (r + 1 - a)
OBVIOUS

\* One element less, one share of the work less.
LEMMA OneLess ==
  ASSUME NEW n \in Nat, NEW a \in Nat
  PROVE  (n - 1) * a = n * a - a /\ (n + 1) * a = n * a + a /\ n * a \in Nat
  OBVIOUS

\* ... and what is left of a share is less than the share that is gone.
LEMMA ShareCovers ==
  ASSUME NEW n \in Nat, NEW a \in Nat
  PROVE  /\ (n - 1) * a \in Int
         /\ \A h \in Nat : h < a => (n - 1) * a + h < n * a
<1>1. (n - 1) * a = n * a - a /\ n * a \in Nat
  BY OneLess
<1> QED BY <1>1

\* What moves from one queue to the next has one step less to go.
LEMMA PushSaves ==
  ASSUME NEW p \in Nat, NEW c \in Nat, NEW a \in Nat, NEW h \in Nat
  PROVE  (p - 1) * (a + 1) + (c + 1) * a + h < p * (a + 1) + c * a + h
<1>1. a + 1 \in Nat
  OBVIOUS
<1>2. (p - 1) * (a + 1) = p * (a + 1) - (a + 1) /\ p * (a + 1) \in Nat
  BY <1>1, OneLess
<1>3. (c + 1) * a = c * a + a /\ c * a \in Nat
  BY OneLess
<1> QED BY <1>2, <1>3

\* The queues of a node are sequences of actions; the work left is a number.
LEMMA WorkType ==
  ASSUME NodeTypeOK, NEW d \in Device
  PROVE  /\ pressed[d] \in Seq(ActionId) /\ channel[d] \in Seq(ActionId)
         /\ Len(pressed[d]) \in Nat /\ Len(channel[d]) \in Nat
         /\ ActionWork \in Nat /\ RetryCount \in Nat
         /\ attempts[d] \in 0..(RetryCount + 1) /\ waiting[d] \in BOOLEAN
         /\ HandWork(d) \in Nat /\ SenderWork(d) \in Nat
<1>1. /\ pressed[d] \in Seq(ActionId) /\ channel[d] \in Seq(ActionId)
      /\ attempts[d] \in 0..(RetryCount + 1) /\ waiting[d] \in BOOLEAN
  BY DEF NodeTypeOK
<1>2. Len(pressed[d]) \in Nat /\ Len(channel[d]) \in Nat
  BY <1>1
<1>3. ActionWork \in Nat /\ RetryCount \in Nat
  BY SenderAssumption DEF ActionWork
<1>4. HandWork(d) \in Nat
  BY <1>1, <1>3 DEF HandWork
<1>5. ActionWork + 1 \in Nat
  BY <1>3
<1>6. /\ Len(pressed[d]) * (ActionWork + 1) \in Nat
      /\ Len(channel[d]) * ActionWork \in Nat
  BY <1>2, <1>3, <1>5, OneLess
<1>7. SenderWork(d) \in Nat
  BY <1>4, <1>6 DEF SenderWork
<1> QED BY <1>1, <1>2, <1>3, <1>4, <1>7

\* The steps of a node, by what they do to its work.
LEMMA WorkStep ==
  ASSUME NodeTypeOK, SenderInv, NEW d \in Device, NodeStep(d), NEW e \in Device,
         boot'[e] = boot[e], Len(pressed'[e]) <= Len(pressed[e]), ~ UnchangedWork(e)
  PROVE  SenderWork(e)' < SenderWork(e)
<1>1. d = e
  BY DEF NodeTypeOK, NodeStep, SenderTask, TakeAction, StartAttempt, GiveUp, ReceiveAck, Reboot,
     PushAction, Press, AckTimeout, Discover, SendHeartbeat, nodeVars, Finish, UnchangedWork
<1> DEFINE p == Len(pressed[e])
           c == Len(channel[e])
<1>2. /\ pressed[e] \in Seq(ActionId) /\ channel[e] \in Seq(ActionId)
      /\ p \in Nat /\ c \in Nat /\ ActionWork \in Nat /\ RetryCount \in Nat
      /\ attempts[e] \in 0..(RetryCount + 1) /\ waiting[e] \in BOOLEAN
      /\ HandWork(e) \in Nat
  BY WorkType
<1>3. /\ p * (ActionWork + 1) \in Nat /\ c * ActionWork \in Nat
      /\ (p - 1) * (ActionWork + 1) = p * (ActionWork + 1) - (ActionWork + 1)
      /\ (c - 1) * ActionWork = c * ActionWork - ActionWork
      /\ (c + 1) * ActionWork = c * ActionWork + ActionWork
  <2> HIDE DEF p, c
  <2>1. ActionWork + 1 \in Nat
    BY <1>2
  <2> QED BY <1>2, <2>1, OneLess
<1>4. ASSUME pressed'[e] = pressed[e], channel'[e] = channel[e],
             HandWork(e)' < HandWork(e), HandWork(e)' \in Nat
      PROVE  SenderWork(e)' < SenderWork(e)
  <2>1. SenderWork(e) = p * (ActionWork + 1) + c * ActionWork + HandWork(e)
    BY DEF SenderWork
  <2>2. SenderWork(e)' = p * (ActionWork + 1) + c * ActionWork + HandWork(e)'
    BY <1>4 DEF SenderWork, ActionWork
  <2> HIDE DEF p, c
  <2> QED BY <1>2, <1>3, <1>4, <2>1, <2>2
<1>5. ASSUME NEW v, outgoing[e] # Idle, Finish(e, v), UNCHANGED <<pressed, channel>>
      PROVE  SenderWork(e)' < SenderWork(e)
  <2>1. outgoing'[e] = Idle
    BY <1>5 DEF Finish, NodeTypeOK
  <2>2. HandWork(e)' = 0 /\ HandWork(e) >= 1
    BY <1>2, <1>5, <2>1 DEF HandWork
  <2>3. HandWork(e)' \in Nat /\ HandWork(e)' < HandWork(e)
    BY <1>2, <2>2
  <2>4. pressed'[e] = pressed[e] /\ channel'[e] = channel[e]
    BY <1>5
  <2> QED BY <1>4, <2>3, <2>4
<1>6. CASE PushAction(e)
  <2>1. /\ pressed[e] # <<>> /\ pressed'[e] = Tail(pressed[e])
        /\ channel'[e] = Append(channel[e], Head(pressed[e]))
        /\ UNCHANGED <<outgoing, attempts, waiting>>
    BY <1>6 DEF PushAction, NodeTypeOK
  <2>2. Len(pressed'[e]) = p - 1 /\ Len(channel'[e]) = c + 1
    BY <1>2, <2>1
  <2>3. HandWork(e)' = HandWork(e)
    BY <2>1 DEF HandWork
  <2>4. SenderWork(e)' = (p - 1) * (ActionWork + 1) + (c + 1) * ActionWork + HandWork(e)
    BY <2>2, <2>3 DEF SenderWork, ActionWork
  <2>5. SenderWork(e) = p * (ActionWork + 1) + c * ActionWork + HandWork(e)
    BY DEF SenderWork
  <2> HIDE DEF p, c
  <2> QED BY <1>2, <2>4, <2>5, PushSaves
<1>7. CASE TakeAction(e)
  <2>1. /\ outgoing[e] = Idle /\ channel[e] # <<>> /\ channel'[e] = Tail(channel[e])
        /\ attempts'[e] = 0 /\ UNCHANGED <<pressed, waiting>>
    BY <1>7 DEF TakeAction, NodeTypeOK
  <2>2. waiting'[e] = FALSE
    BY <1>2, <2>1 DEF SenderInv, InHand
  <2>3. Len(channel'[e]) = c - 1
    BY <1>2, <2>1
  <2>4. HandWork(e) = 0 /\ HandWork(e)' \in 0..(2 * RetryCount + 3)
    <3>1. HandWork(e)' = 0 \/ HandWork(e)' = 1 + 2 * (RetryCount + 1 - 0) + 0
      BY <2>1, <2>2 DEF HandWork
    <3>2. 2 * (RetryCount + 1 - 0) = 2 * RetryCount + 2
      BY <1>2
    <3>3. HandWork(e)' \in 0..(2 * RetryCount + 3)
      BY <1>2, <3>1, <3>2
    <3> QED BY <2>1, <3>3 DEF HandWork
  <2>5. SenderWork(e)' = p * (ActionWork + 1) + (c - 1) * ActionWork + HandWork(e)'
    BY <2>1, <2>3 DEF SenderWork, ActionWork
  <2>6. SenderWork(e) = p * (ActionWork + 1) + c * ActionWork
    BY <1>3, <2>4 DEF SenderWork
  <2>7. HandWork(e)' \in Nat /\ HandWork(e)' < ActionWork
    BY <1>2, <2>4 DEF ActionWork
  <2> HIDE DEF p, c
  <2>8. (c - 1) * ActionWork + HandWork(e)' < c * ActionWork
    BY <1>2, <2>7, ShareCovers
  <2>9. (c - 1) * ActionWork \in Int
    BY <1>2, ShareCovers
  <2> QED BY <1>3, <2>5, <2>6, <2>7, <2>8, <2>9
<1>8. CASE StartAttempt(e)
  <2>1. /\ outgoing[e] # Idle /\ ~ waiting[e] /\ attempts[e] <= RetryCount
        /\ attempts'[e] = attempts[e] + 1 /\ UNCHANGED <<pressed, channel>>
    BY <1>8 DEF StartAttempt, AttemptLeft, NodeTypeOK
  <2>2. CASE Finish(e, "abandoned")
    BY <1>5, <2>1, <2>2
  <2>3. CASE outgoing' = outgoing /\ waiting'[e] \in BOOLEAN
    <3>1. HandWork(e) = 1 + 2 * (RetryCount + 1 - attempts[e])
      BY <1>2, <2>1 DEF HandWork
    <3>2. \/ HandWork(e)' = 1 + 2 * (RetryCount + 1 - (attempts[e] + 1))
          \/ HandWork(e)' = 1 + 2 * (RetryCount + 1 - (attempts[e] + 1)) + 1
      BY SMTT(30), <1>2, <2>1, <2>3 DEF HandWork
    <3>3. RetryCount \in Nat /\ attempts[e] \in Nat /\ attempts[e] <= RetryCount
      BY <1>2, <2>1
    <3>4. HandWork(e)' \in Nat /\ HandWork(e)' < HandWork(e)
      BY <3>1, <3>2, <3>3, AttemptCosts
    <3> QED BY <1>4, <2>1, <3>4
  <2> QED BY <1>8, <2>2, <2>3 DEF StartAttempt, NodeTypeOK
<1>9. CASE GiveUp(e)
  BY <1>5, <1>9 DEF GiveUp
<1>10. ASSUME NEW m, ReceiveAck(e, m) PROVE SenderWork(e)' < SenderWork(e)
  BY <1>5, <1>10 DEF ReceiveAck, SenderInv, InHand
<1>11. CASE AckTimeout(e)
  <2>1. /\ waiting[e] /\ ~ waiting'[e] /\ outgoing[e] # Idle
        /\ UNCHANGED <<pressed, channel, outgoing, attempts>>
    BY <1>11 DEF AckTimeout, SenderInv, InHand, NodeTypeOK
  <2>2. HandWork(e) = 1 + 2 * (RetryCount + 1 - attempts[e]) + 1
    BY <2>1 DEF HandWork
  <2>3. HandWork(e)' = 1 + 2 * (RetryCount + 1 - attempts[e]) + 0
    BY <2>1 DEF HandWork
  <2>4. HandWork(e)' \in Nat /\ HandWork(e)' < HandWork(e)
    BY SMTT(30), <1>2, <2>2, <2>3
  <2> QED BY <1>4, <2>1, <2>4
<1>12. ~ Reboot(e) /\ ~ Discover(e) /\ ~ SendHeartbeat(e)
  <2>1. ~ Reboot(e)
    <3> SUFFICES ASSUME Reboot(e) PROVE FALSE
      OBVIOUS
    <3>1. boot'[e] = boot[e] + 1 /\ boot[e] \in Nat
      BY SMTT(30), SenderAssumption DEF Reboot, NextBoot, NodeTypeOK
    <3> QED BY <3>1
  <2> QED BY <2>1 DEF Discover, SendHeartbeat, nodeVars, UnchangedWork
<1>13. ASSUME NEW a \in ActionId, NEW b \in ActionId, Press(e, <<a>>) \/ Press(e, <<a, b>>)
       PROVE  FALSE
  <2>1. pressed[e] = <<>> /\ (pressed'[e] = <<a>> \/ pressed'[e] = <<a, b>>)
    BY <1>13 DEF Press, NodeTypeOK
  <2>2. Len(pressed[e]) = 0 /\ Len(<<a>>) = 1 /\ Len(<<a, b>>) = 2
    BY <2>1
  <2> QED BY <2>1, <2>2
<1> QED BY <1>1, <1>6, <1>7, <1>8, <1>9, <1>10, <1>11, <1>12, <1>13 DEF NodeStep, SenderTask

\* However ACKs, deadlines, send errors and discovery interleave, whether the
\* endpoint is known or not, and whether or not the hub ever answers: apart from
\* a new gesture or a reboot, every step that touches what a node has accepted
\* takes it nearer to a verdict for each action, for any retry count.
THEOREM SenderWorkDecreases ==
  DeliverySpec =>
    /\ [](\A d \in Device : SenderWork(d) \in Nat)
    /\ [][\A d \in Device :
            boot'[d] = boot[d] /\ Len(pressed'[d]) <= Len(pressed[d])
              => UnchangedWork(d) \/ SenderWork(d)' < SenderWork(d)]_allVars
<1> DEFINE Measured == \A d \in Device : SenderWork(d) \in Nat
           Decreases == \A d \in Device :
             boot'[d] = boot[d] /\ Len(pressed'[d]) <= Len(pressed[d])
               => UnchangedWork(d) \/ SenderWork(d)' < SenderWork(d)
<1>1. DeliveryInv => Measured
  BY WorkType DEF DeliveryInv
<1>2. DeliveryInv /\ [DeliveryNext]_allVars => Decreases
  <2> SUFFICES ASSUME DeliveryInv, [DeliveryNext]_allVars, NEW e \in Device,
                      boot'[e] = boot[e], Len(pressed'[e]) <= Len(pressed[e]),
                      ~ UnchangedWork(e)
               PROVE  SenderWork(e)' < SenderWork(e)
    OBVIOUS
  <2>1. ~ UNCHANGED nodeVars
    BY DEF nodeVars, UnchangedWork
  <2>2. PICK d \in Device : NodeStep(d)
    BY <2>1 DEF DeliveryNext, allVars
  <2> QED BY <2>2, WorkStep DEF DeliveryInv
<1>3. DeliveryInv /\ [DeliveryNext]_allVars => [Decreases]_allVars
  BY <1>2
<1> QED BY DeliveryInvariant, <1>1, <1>3, PTL DEF DeliverySpec
=============================================================================
