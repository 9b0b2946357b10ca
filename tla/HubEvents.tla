------------------------------ MODULE HubEvents ------------------------------
(***************************************************************************)
(* The hub's UDP loop (uchi-pulse-hub main.rs, udp.rs, action.rs, state.rs *)
(* over the SQLite repository), one datagram at a time.                    *)
(*                                                                         *)
(* The loop is one thread, but every SQL statement it issues is an         *)
(* autocommit transaction of its own, and the CDC thread and the desktop   *)
(* applications commit to the same file in between.  So each statement is  *)
(* one step, and `pc' is the next statement of the datagram being handled: *)
(*                                                                         *)
(*   down      the process is not running (before boot, after a crash)     *)
(*   recv      blocked in recv_from, or about to sweep on its timeout      *)
(*   lookup    get_event: is (device_id, event_id) in the history?         *)
(*   action    get_action           \                                      *)
(*   target    get_family            > ActionEngine::validate_event        *)
(*   changes   list_action_state_changes /                                 *)
(*   record    observe, then INSERT OR IGNORE into events                  *)
(*   ack       send the ACK, sweep, back to recv                           *)
(*                                                                         *)
(* validate_event runs twice for a new EVENT: `phase' says whether it is   *)
(* the check before acceptance or the reload inside execute.  A statement  *)
(* may also fail (SQLITE_BUSY after the busy timeout, I/O error): that is  *)
(* the disjunct of each step that does not read the data.                  *)
(***************************************************************************)
EXTENDS Naturals, FiniteSets, Network

CONSTANTS
  Family,       \* family_id values
  StateType,    \* ENTRY_PERMISSION, MEAL_NOTICE, ...
  StateValue,   \* ON, OFF, OK, ...
  Configs,      \* contents the families/actions tables may be given
  Common,       \* scope of an action that targets no family
  Keep,         \* "this action does not change that state type"
  Unset,        \* a state type nobody has set since the hub started
  NoDatagram,   \* cur while no datagram is being handled
  MaxCrashes,   \* bound: hub crashes explored
  MaxEdits      \* bound: commits of other database writers explored

Scope     == Family \cup {Common}
Changes   == [StateType -> StateValue \cup {Keep}]
NoChanges == [t \in StateType |-> Keep]
ActionRow == [enabled : BOOLEAN, scope : Scope, changes : Changes]

\* What the schema guarantees of any committed configuration: a FAMILY action
\* names an existing family and a COMMON one none, and a state type occurs at
\* most once per action (CHECK, FOREIGN KEY and PRIMARY KEY clauses).
WellFormedConfig(c) ==
  /\ c.families \subseteq Family
  /\ DOMAIN c.actions \subseteq ActionId
  /\ \A a \in DOMAIN c.actions :
       /\ c.actions[a] \in ActionRow
       /\ c.actions[a].scope \in c.families \cup {Common}

ASSUME ConfigsAssumption == \A c \in Configs : WellFormedConfig(c)
ASSUME SentinelAssumption ==
  /\ Common \notin Family
  /\ Keep \notin StateValue
  /\ NoDatagram \notin Datagram
ASSUME BoundsAssumption == MaxCrashes \in Nat /\ MaxEdits \in Nat

DeviceRow == {"absent", "disabled", "enabled"}
Status    == {"UNMANAGED", "INITIAL_WAIT", "ONLINE", "OFFLINE"}
Phase     == {"validate", "execute"}
Pc        == {"down", "recv", "lookup", "action", "target", "changes",
              "record", "ack"}

VARIABLES
  deviceRow,  \* devices table
  config,     \* families, actions and action_state_changes tables
  history,    \* events table: the keys it holds
  status,     \* CommunicationStateManager
  state,      \* ActionStateManager
  pc, phase, cur, scope,  \* where the handler of `cur' is; scope resolved so far
  executed,   \* history variable: completed handle_event calls per event
  crashes, edits

tables   == <<deviceRow, config>>
handler  == <<pc, phase, cur, scope>>
counters == <<crashes, edits>>
hubVars  == <<deviceRow, config, history, status, state, pc, phase, cur, scope,
              executed, crashes, edits>>
vars     == <<net, hubVars>>

EmptyState == [s \in Scope |-> [t \in StateType |-> Unset]]
Managed    == {d \in Device : status[d] # "UNMANAGED"}

TypeOK ==
  /\ net \subseteq Datagram
  /\ deviceRow \in [Device -> DeviceRow]
  /\ config \in Configs
  /\ history \subseteq EventKey
  /\ status \in [Device -> Status]
  /\ state \in [Scope -> [StateType -> StateValue \cup {Unset}]]
  /\ pc \in Pc
  /\ phase \in Phase
  /\ cur \in Datagram \cup {NoDatagram}
  /\ scope \in Scope
  /\ executed \in [EventKey -> Nat]
  /\ crashes \in Nat
  /\ edits \in Nat

HubInit ==
  /\ deviceRow \in [Device -> DeviceRow]
  /\ config \in Configs
  /\ history = {}
  /\ status = [d \in Device |-> "UNMANAGED"]
  /\ state = EmptyState
  /\ pc = "down" /\ phase = "validate" /\ cur = NoDatagram /\ scope = Common
  /\ executed = [k \in EventKey |-> 0]
  /\ crashes = 0 /\ edits = 0

Init == net = {} /\ HubInit

------------------------------------------------------------------------------
(* Helpers.  A definition marked "mistake" is not part of the model: it is  *)
(* the definition after it, changed the way a plausible bug would, and is    *)
(* there to show that some property notices.                                 *)

\* mistake: no duplicate check.
RecordedNever(k) == FALSE

\* get_event / INSERT OR IGNORE: is the (device_id, event_id) row there?
Recorded(k) == k \in history

\* CommunicationStateManager::observe_message for a device known since boot.
Observe(st, d) == IF st[d] = "UNMANAGED" THEN st ELSE [st EXCEPT ![d] = "ONLINE"]

\* mark_offline at the end of a loop iteration.  Time is not part of this
\* module: any managed device may be overdue, even the one just heard, because
\* main accepts a timeout of zero seconds.
Sweep(st) ==
  \E late \in SUBSET Managed :
    status' = [d \in Device |-> IF d \in late THEN "OFFLINE" ELSE st[d]]

\* ActionStateManager::apply_batch: all changes of one action, one scope.
ApplyBatch(s, changes) ==
  [state EXCEPT ![s] =
     [t \in StateType |-> IF changes[t] = Keep THEN @[t] ELSE changes[t]]]

\* list_action_state_changes: no rows when the action is gone.
ChangesOf(a) ==
  IF a \in DOMAIN config.actions THEN config.actions[a].changes ELSE NoChanges

\* mistake: the enabled flag is not looked at.
ActionFound(a) == a \in DOMAIN config.actions

\* get_action finds the action and its enabled flag is set.
ActionUsable(a) == a \in DOMAIN config.actions /\ config.actions[a].enabled

\* The loop iteration ends: nothing is left of the datagram.
BackToRecv ==
  /\ pc' = "recv" /\ phase' = "validate" /\ cur' = NoDatagram /\ scope' = Common

Goto(label) == pc' = label /\ UNCHANGED <<phase, cur>>

\* process_datagram returned Err or Ignored: no ACK, only the sweep.
Discard(st) ==
  /\ BackToRecv
  /\ Sweep(st)

------------------------------------------------------------------------------
(* The process *)

\* main: open the database, register the enabled devices as INITIAL_WAIT,
\* start with an empty action state, broadcast HELLO_REQUEST once.
Boot ==
  /\ pc = "down"
  /\ status' = [d \in Device |->
       IF deviceRow[d] = "enabled" THEN "INITIAL_WAIT" ELSE "UNMANAGED"]
  /\ state' = EmptyState
  /\ BackToRecv
  /\ Send(HelloRequest)
  /\ UNCHANGED <<tables, history, executed, counters>>

\* Power loss, kill, or an I/O error main returns from: the tables survive.
Crash ==
  /\ pc # "down" /\ crashes < MaxCrashes
  /\ crashes' = crashes + 1
  /\ pc' = "down" /\ phase' = "validate" /\ cur' = NoDatagram /\ scope' = Common
  /\ status' = [d \in Device |-> "UNMANAGED"]
  /\ state' = EmptyState
  /\ UNCHANGED <<net, tables, history, executed, edits>>

\* recv_from timed out after a second.
RecvTimeout ==
  /\ pc = "recv"
  /\ Sweep(status)
  /\ UNCHANGED <<net, tables, history, state, handler, executed, counters>>

\* mistake: the devices table alone decides.
IsEnabledDevice(d) == deviceRow[d] = "enabled"

\* is_enabled_managed_device: known since boot, and enabled in the table now.
IsEnabledManagedDevice(d) == status[d] # "UNMANAGED" /\ deviceRow[d] = "enabled"

\* Everything process_datagram does up to its first read of the history.
Receive(m) ==
  /\ pc = "recv"
  /\ \/ \* undecodable, unmanaged, disabled, an ACK, or get_device failed
        Discard(status)
     \/ /\ m \in Hellos /\ IsEnabledManagedDevice(m.dev)
        /\ Discard(Observe(status, m.dev))
     \/ /\ m \in Events /\ IsEnabledManagedDevice(m.dev)
        /\ pc' = "lookup" /\ cur' = m
        /\ UNCHANGED <<phase, scope, status>>
  /\ UNCHANGED <<net, tables, history, state, executed, counters>>

\* get_event: a known event is observed and acknowledged, nothing re-run.
LookupEvent ==
  /\ pc = "lookup"
  /\ \/ /\ Recorded(Key(cur))
        /\ status' = Observe(status, cur.dev)
        /\ Goto("ack") /\ UNCHANGED scope
     \/ /\ ~ Recorded(Key(cur))
        /\ Goto("action") /\ UNCHANGED <<status, scope>>
     \/ Discard(status)
  /\ UNCHANGED <<net, tables, history, state, executed, counters>>

\* mistake: the ACK is sent whatever validate_event says.
UnavailableAcked ==
  /\ Goto("ack") /\ UNCHANGED <<scope, status>>
  /\ executed' = [executed EXCEPT ![Key(cur)] = @ + 1]

\* mistake: a failed execution is tried again.
UnavailableRetried ==
  /\ IF phase = "validate" THEN Discard(status)
                           ELSE Goto("action") /\ UNCHANGED <<scope, status>>
  /\ UNCHANGED executed

\* validate_event returned Err.  Before acceptance the datagram is dropped
\* without a trace; inside execute the action has failed and is still ACKed.
Unavailable ==
  \/ /\ phase = "validate"
     /\ Discard(status)
     /\ UNCHANGED executed
  \/ /\ phase = "execute"
     /\ Goto("ack") /\ UNCHANGED <<scope, status>>
     /\ executed' = [executed EXCEPT ![Key(cur)] = @ + 1]

\* get_action and the enabled flag.
GetAction ==
  /\ pc = "action"
  /\ \/ /\ ActionUsable(cur.action)
        /\ scope' = config.actions[cur.action].scope
        /\ Goto("target") /\ UNCHANGED <<status, executed>>
     \/ Unavailable
  /\ UNCHANGED <<net, tables, history, state, counters>>

\* validate_target: a FAMILY action's family must exist (a COMMON one reads
\* nothing).
GetFamily ==
  /\ pc = "target"
  /\ \/ /\ scope \in config.families \cup {Common}
        /\ Goto("changes") /\ UNCHANGED <<scope, status, executed>>
     \/ scope # Common /\ Unavailable
  /\ UNCHANGED <<net, tables, history, state, counters>>

\* list_action_state_changes.  The first time the plan is dropped; the second
\* time it is applied to the action state.
ListChanges ==
  /\ pc = "changes"
  /\ \/ /\ phase = "validate"
        /\ pc' = "record" /\ scope' = Common
        /\ UNCHANGED <<phase, cur, status, state, executed>>
     \/ /\ phase = "execute"
        /\ state' = ApplyBatch(scope, ChangesOf(cur.action))
        /\ executed' = [executed EXCEPT ![Key(cur)] = @ + 1]
        /\ Goto("ack") /\ UNCHANGED <<scope, status>>
     \/ Unavailable /\ UNCHANGED state
  /\ UNCHANGED <<net, tables, history, counters>>

\* mistake: the inserted flag is read the wrong way round.
AfterInsertInverted(k) ==
  IF Recorded(k)
    THEN pc' = "action" /\ phase' = "execute" /\ UNCHANGED cur
    ELSE Goto("ack")

\* Only a row that insert_event really inserted is executed.
AfterInsert(k) ==
  IF Recorded(k)
    THEN Goto("ack")
    ELSE pc' = "action" /\ phase' = "execute" /\ UNCHANGED cur

\* observe_message, then insert_event.  INSERT OR IGNORE reports a row that is
\* already there as a duplicate; a device deleted meanwhile breaks the foreign
\* key, and then the device has been observed but the event is not accepted.
RecordEvent ==
  /\ pc = "record"
  /\ \/ /\ deviceRow[cur.dev] # "absent"
        /\ history' = history \cup {Key(cur)}
        /\ status' = Observe(status, cur.dev)
        /\ AfterInsert(Key(cur))
        /\ UNCHANGED scope
     \/ Discard(Observe(status, cur.dev)) /\ UNCHANGED history
  /\ UNCHANGED <<net, tables, state, executed, counters>>

\* send_to the source of the EVENT, then mark_offline.
SendAck ==
  /\ pc = "ack"
  /\ Send(Ack(Key(cur)))
  /\ Discard(status)
  /\ UNCHANGED <<tables, history, state, executed, counters>>

HubStep ==
  LookupEvent \/ GetAction \/ GetFamily \/ ListChanges \/ RecordEvent \/ SendAck

------------------------------------------------------------------------------
(* Other writers of the same database file *)

\* A transaction of the CDC thread (set_config, factory_reset) or of a desktop
\* application replaces families and actions.  The events table is untouched.
CommitConfig(c) ==
  /\ edits < MaxEdits /\ c # config
  /\ config' = c
  /\ edits' = edits + 1
  /\ UNCHANGED <<net, deviceRow, history, status, state, handler, executed, crashes>>

\* The foreign key of the events table: no row refers to the device.
Deletable(d) == \A k \in history : k.dev # d

\* save_device / delete_device of a desktop application.  Deleting a device
\* that has history is refused by the foreign key of the events table.
EditDevice(d, row) ==
  /\ edits < MaxEdits /\ row # deviceRow[d]
  /\ row = "absent" => Deletable(d)
  /\ deviceRow' = [deviceRow EXCEPT ![d] = row]
  /\ edits' = edits + 1
  /\ UNCHANGED <<net, config, history, status, state, handler, executed, crashes>>

OtherWriter ==
  \/ \E c \in Configs : CommitConfig(c)
  \/ \E d \in Device, row \in DeviceRow : EditDevice(d, row)

Next ==
  \/ Boot \/ Crash \/ RecvTimeout
  \/ \E m \in Datagram : Receive(m)
  \/ HubStep
  \/ OtherWriter

Spec == Init /\ [][Next]_vars

------------------------------------------------------------------------------
(* Properties *)

\* The event being executed right now: in the history, result not yet known.
Executing == phase = "execute" /\ pc \in {"action", "target", "changes"}

\* An EVENT that is not in the durable history has left no trace: it was never
\* executed and never acknowledged (udp.rs orders insert_event before
\* handle_event and both before the ACK; a rejected EVENT gets neither).
NoTraceUnlessRecorded ==
  \A k \in EventKey :
    ~ Recorded(k) => executed[k] = 0 /\ Ack(k) \notin net

\* Whatever is retransmitted, duplicated or redelivered after a restart, the
\* action of an event is run at most once, failed runs included.
AtMostOnce == \A k \in EventKey : executed[k] <= 1

\* A recorded event whose action never ran is either running now or was cut
\* off by a crash between insert_event and handle_event, one event per crash.
LossOnlyByCrash ==
  Cardinality({k \in history : executed[k] = 0})
    <= crashes + (IF Executing THEN 1 ELSE 0)

\* The history never names a device the devices table does not hold, although
\* devices are deleted by other processes between the hub's statements.
HistoryNamesDevices == \A k \in history : deviceRow[k.dev] # "absent"

\* A device that was not enabled when the hub booted gets no event recorded and
\* no ONLINE status, however its row changes, until the hub is restarted.
OnlyManagedDevicesHeard ==
  [][/\ \A k \in history' \ history : k.dev \in Managed
     /\ \A d \in Device : status'[d] = "ONLINE" => d \in Managed]_vars

\* The loop gets back to recv_from from wherever it is, failures included.
LoopReturns == pc # "recv" ~> pc = "recv"
==============================================================================
