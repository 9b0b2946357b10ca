# Uchi-Pulse: TLA+ models, model checking and proofs

Uchi-Pulse is a home notification system in Rust. Pico W boards with buttons
(*nodes*) report button gestures over UDP to one *hub* on a Raspberry Pi, which
keeps an SQLite database, runs the action a button stands for, and supervises
which nodes are alive. Two desktop applications edit the configuration: *control*
over USB serial (CDC) or the database, *settings* over the database.

This directory holds TLA+ modules for the parts in which something can go wrong
that a test would hardly reach, the TLC configurations that check them on small
instances, and TLAPS proofs of the most important properties for every value of
the constants. Source paths below are relative to the repository.

## 1. Inventory

| Component | Source | State | Operations | Talks to | Model |
|---|---|---|---|---|---|
| UDP and wire types | `crates/uchi-pulse-common/src/{udp,types}.rs` | datagrams under way | send, deliver, lose, duplicate, reorder | node, hub | `Network` |
| Hub UDP loop | `apps/uchi-pulse-hub/src/{main,udp}.rs` | current datagram | boot, receive, timeout, process EVENT / HELLO / HEARTBEAT, ACK | database, action engine, presence | `HubEvents`, `HubAudit` |
| Hub action engine | `apps/uchi-pulse-hub/src/action.rs` | state values per family and COMMON, in memory | validate_event, execute, apply_batch | database | `HubEvents`, `HubAudit` |
| Hub presence | `apps/uchi-pulse-hub/src/state.rs` | status, last_seen_at, initial wait per device | from_database, observe_message, mark_offline | UDP loop | `DeviceStatus`, coarse in `HubEvents` |
| Hub database | `apps/uchi-pulse-hub/src/db/` | devices, events, families, actions, ... | autocommit statements; transactions; other writers | CDC thread, applications | `HubEvents`, `ConfigDatabase`; unused CRUD not |
| Hub CDC server | `apps/uchi-pulse-hub/src/cdc.rs` | own database connection, line buffer | get/set_config, factory_reset, one answer per line, end of the thread | control app, database | `LineFraming`, `ControlLink`, `ConfigDatabase`; effect in `HubEvents` |
| Node input | `apps/uchi-pulse-node/src/input.rs` | one gesture detector per GPIO | initialize, update | event channel | `Gesture` |
| Node event sender | `apps/uchi-pulse-node/src/{udp,bin/uchi-pulse-node}.rs` | channel of 8 actions, event in hand, attempts, id generator | take, attempt, wait for ACK, give up | input, hub | `NodeSender` |
| Node discovery, heartbeat | `bin/uchi-pulse-node.rs` | hub endpoint, last heartbeat | answer HELLO_REQUEST, send HEARTBEAT | hub, sender | `NodeSender`, `DeviceStatus` |
| Node settings | `storage.rs`, `config.rs`, `bin/uchi-pulse-node.rs` | flash page, manager's copy, running copy | boot, save, reset | CDC handler | `NodeSettings` |
| Node CDC handler | `apps/uchi-pulse-node/src/cdc.rs` | line queue, reboot flag | get/set_config, get_status, factory_reset, reboot | settings, control app | `LineFraming`, `ControlLink`, `NodeSettings` |
| Control application | `apps/uchi-pulse-control/src/` | connection, worker thread, text, dialog; lists, selection, forms | connect, send, poll, confirm, disconnect; open, refresh, select, save, delete | CDC servers, database | `ControlLink`, `ControlForms`; its transactions in `ConfigDatabase` |
| Settings application | `apps/uchi-pulse-settings/src/` | lists, draft, original, dialog | open, select, edit, save, revert, delete, reload, close | database | `SettingsEditor`; its transactions in `ConfigDatabase` |
| Codec, drivers, Wi-Fi, USB | `codec.rs`, start-up code of the node | - | - | - | not modelled |
| Web status page, notifications | design documents only | - | - | - | not in the code |

What is hard here: the hub handles one datagram at a time, but each SQL
statement is a transaction of its own and three other writers commit in between;
both ends crash, and the node forgets everything but its settings when it does;
every datagram may be lost, duplicated, delayed or overtaken; the node retries
against a deadline; presence compares two independent periods; the gestures
depend on contact bounce; saving settings is three flash operations; lines arrive in
packets, and a cable may be pulled within one; the control application never waits
for the thread it gives up; both desktop applications edit what they loaded a while
ago. `hazards` in
`PROJECT.json` lists each of these at its line, with the properties that watch it.

What makes each component correct:

* delivery: an event that the node calls delivered is recorded; a recorded event
  runs its action at most once, and exactly once unless the hub crashed; an ACK is
  only sent for what is durable; every event gets a verdict;
* action engine: what is accepted is available, and what is applied is what was
  validated, entirely;
* presence: no status outlives its evidence, and a healthy device is not called
  OFFLINE;
* settings: the node boots with what the host was told is saved;
* configuration database: a save is entire or without effect, what is answered ok is
  committed, and nobody keeps the others out;
* gestures: every press is one gesture, no more and no less;
* lines: every decoder cuts the stream where it has line ends, however it is packed;
* control link: a command reaches the device its session was opened with, at most once
  and in order; answers do not overtake each other; a thread given up ends;
* editors: no edit is lost unasked; what nobody interfered with replaces, adds and
  deletes exactly what the screen showed.

## 2. Modules

| Module | Models | Composes |
|---|---|---|
| `Network` | datagrams and the LAN (external) | - |
| `HubEvents` | hub loop, event processing, action engine, other writers | `Network` |
| `HubAudit` | `HubEvents` with history variables for the promises relating validation and execution | `HubEvents` |
| `NodeSender` | input channel, sender task, discovery, reboot | `Network` |
| `EventDelivery` | nodes and hub together | `NodeSender`, `HubEvents`, `EventContract` |
| `EventContract` | the abstract promise about an event | - |
| `DeviceStatus` | presence with a clock, both ends | - |
| `NodeSettings` | flash page, manager, CDC commands | - |
| `Gesture` | one GestureDetector under its sampling loop | - |
| `ConfigDatabase` | the CDC thread and the applications over the configuration tables | - |
| `LineFraming` | the line decoders of hub, node and control application | - |
| `ControlLink` | control application, its threads, cables, both CDC servers | `CommandContract` |
| `CommandContract` | the abstract promise about commands | - |
| `RecordTables` | the tables as the applications' db.rs use them, and other writers | - |
| `SettingsEditor` | the settings application | `RecordTables` |
| `ControlForms` | the SQLite endpoint of the control application | `RecordTables` |
| `Editors` | both applications on one database | `SettingsEditor`, `ControlForms` |
| `MC*` | instances for TLC | |
| `*_proofs` | TLAPS proofs; `EventDelivery_proofs` also those about `HubEvents` and `HubAudit` | the module they are named after |

A definition marked *mistake* is not part of a model. It is the definition after
it, changed the way a plausible bug would change it; `mutants` in `PROJECT.json`
says which property notices.

### HubEvents

`pc` is the next SQL statement of the datagram in hand: `lookup` (get_event),
`action`, `target`, `changes` (validate_event, run once before acceptance and
again inside execute: `phase`), `record` (insert_event), `ack`. Between any two
steps another process may commit (`CommitConfig`, `EditDevice`), the hub may crash
(`Crash`; tables survive, both in-memory maps do not), and any statement may fail:
that is the disjunct of each step that does not look at the data. `Sweep` is
`mark_offline`; in this module any managed device may be overdue, one just heard included, because
main accepts a timeout of 0 (main.rs:29). A configuration is a record of the `families`, `actions` and
`action_state_changes` tables, well-formed as the schema's constraints demand.

The module takes every datagram as possibly received at any time (`Receive(m)` for
`m \in Datagram`), so its properties hold whatever nodes send. `EventDelivery`
restricts it to datagrams that were sent.

### NodeSender, EventDelivery, EventContract

One node: `pressed` (the actions of one gesture not yet pushed), `channel`
(`ACTION_EVENTS`), `outgoing`, `attempts`, `waiting` (inside `wait_for_ack`),
`hubKnown`. The text of an event id is the pair of boot and sequence number it
encodes. Boot ids are random 64-bit numbers; the model takes them to be
distinct. A reboot clears everything. `EventDelivery` interleaves node steps and
hub steps over one network, a growing set of datagrams from which any may be
received any number of times, or never: loss, duplication, delay and reordering
at once. It over-approximates the network: an ACK may reach any node.

`EventContract` is the abstract specification: create, record, execute, deliver,
abandon, five steps over three variables. `ContractSafety` and `ContractHolds`
state that `EventDelivery` implements it (the refinement mapping is the identity
on `verdict`, `history` and `executed`).

### DeviceStatus

One unit of time is a second, the period of both loops. Each loop runs at least
once in every second; a datagram is processed within `MaxDelay` seconds or lost.
`healthy` is a history variable: since the hub last heard the device neither end
restarted, no heartbeat was lost and the device stayed enabled.

### NodeSettings

The page is erased, holds a record, or holds something that does not decode (`Torn`)
or is refused (`Foreign`). A save is the steps `Erase`, `Write`, `Verify`; each may
fail and the power may fail before, during or after each. A torn record is taken
not to decode: the record is JSON, which ends with a brace, and a byte not yet programmed
is 0xff. `Load` leaves out that the read itself fails (storage.rs:48,
which then takes the defaults): a read inside the flash's bounds does not.
`expected` is a history variable, the configuration the answers so far make the
host expect at the next boot.

### Gesture

The detector as a record, and `update()` as the composition of its three parts in
the order of the code: the pending click expires (`ExpireClick`), an edge settles
(`Debounced`, with `Pressed` and `Released`), a long press is noticed (`Held`). Time
is counted in samples, as the code does, and saturates as the code's clock does.
`count` and `lastShort` are history variables.

### LineFraming

Three decoders, byte by byte, with packets of every cut. Of a byte only this is kept: it
ends a line, it is a carriage return, it is no UTF-8, it is anything else. They differ in
what counts towards the limit (the hub does not count the line end; the others do), in what
becomes of a line beyond it (the hub and the node drop it without a word, the application
reports an error at once), in the queue (the node keeps four lines, cdc.rs:20, and answers
them before it reads the next packet; the run has a queue of one, in proportion to its
packets), and in what a disconnection resets (the hub keeps what it has).

`stream`, `session` and `starts` are history variables: the bytes read since the hub
started, those since the last disconnection, and where in the latter each packet began.
The reference cuts them at their line ends: a line is known by the position of its end
(`LineEnds`, `Line`), is legal within the limit (`Legal`), and is taken by the node when
it is among the first that end in its packet (`Taken`). `InOrder` lists what belongs to
a set of positions in the order of the positions.

### ControlLink, CommandContract

`gui` is the GUI thread, `workers` the threads, one for each session, with their two
channels. A worker `opening` opens the port by its name and gets whatever device has that
name by then; `running` it drains its queue and reads; `dead` it has dropped its ends.
`Disconnect` asks the worker to close and does not wait. `toDevice`, `toHost` are lines
under way; `openTail` and `hostTail` say that the start of a line is left over at the
device, or at the beginning of what the next session will read. `Unplug`, `Plug`,
`NodeResets` (after `reboot`), `HangUp` and `HubRestarts` are the faults and restarts:
the hub's CDC thread ends when its read fails and nothing but a restart starts it again.
A hub restarts also while it serves, which costs it the line it was reading.
A response is what the application makes of it: the configuration it carries, if any.

A line may be too long, at four places. The node drops a request of more than 4096 bytes
(node cdc.rs:56, the error ignored at uchi-pulse-node.rs:394), the hub one of more than
64 KiB (hub cdc.rs:83): `DropLine`, for the texts in `LongRequest`. The node sends nothing
when its answer does not fit into the buffer (node cdc.rs:398): `Unsendable`. The control
application turns an answer beyond its limit into an error (protocol.rs:49): `Unreadable`.
Both for the configurations in `LongAnswer`. So a request may vanish inside a session. What
`NoGapInSession`, `NothingLost` and `RequestsAreAnswered` say is that nothing else does:
`sent[n].fits` records whether the line of request `n` is one its device reads, and
`unanswered` which requests had an answer too long; of these only one for a configuration
is excused, so a query is always answered.

`CommandContract` is the abstract specification: issue, execute; lose. `LinkContract`
states the refinement; the mapping takes the device of each request number from `sent`.

### RecordTables, SettingsEditor, ControlForms, Editors

A row is a number and a content; a content is told apart by the family it refers to. A
statement takes effect at once or is refused: its transaction is `ConfigDatabase`. Both
applications load all tables with one SELECT each and take them over after the last
(`ReadTable`, `ReadList`); others may write in between. In `SettingsEditor` `Perform` is
the function of that name, `RequestIntent` the decision whether to ask first, and the
dialogs are `AcceptDiscard`, `AcceptDelete`, `Back`. `asOf` and `listsAsOf` are history
variables, the number of changes when the load behind the lists began: `asOf = commits`
says that nobody interfered. `unsaved` is one too: the record was begun with the button
for a new one and has not been saved.

Row number 0 is one like any other for an action: the settings application's number field
begins at 0 (settings main.rs:592), and set_config checks no numbers. `ZeroRow` bounds the
tables it occurs in; `Storable` is what the applications refuse. The number fields of the
control application begin at 1, and egui changes the value when it draws the field: `Drawn`.
The four variables `selected_device`, `selected_family`, ... of the control application are
one, `selected`: only that of the section shown can be set, and a change of the section
clears all four. `NoRow` is None.

### ConfigDatabase

Every writer, the hub's CDC thread or an application, has a connection, a program
counter and the request it is at. A save of several statements is `Begin`, `Write`
(the statements, which nobody else sees, so they are one step) and `Commit`; each
may fail. A save of one statement is `Statement`. get_config is one step per SELECT.
SQLite is external: one writer holds the lock and sees its `draft`, constraints hold
after each statement, and a COMMIT that fails rolled the transaction back or left it
open (`leftOpen`, a history variable). Which of the two SQLite does depends on the
error; the code looks at neither. `answer` and `disturbed` are history variables too:
what the last step answered, and whether anybody committed under get_config.

The tables are abstracted to what constraints and cascades look at: families, actions
with target, state types and notification targets, families with a destination.
Devices and events are in `HubEvents`.

## 3. What TLC checks

| Run | Question | Bounds | Distinct states |
|---|---|---|---|
| `hub` | accept once, run at most once, ACK only what is durable, only managed devices heard; undisturbed, what is accepted is available and what is applied is what was validated; the loop always gets back to `recv_from`: with a crash, failing statements and other writers between any two statements | 2 devices, 1 event id, 5 configurations, 1 crash, 2 commits | 273,432 |
| `delivery` | one node and the hub: delivered means recorded, order of presses, the safety of `EventContract` (which includes that no event id is given to two presses) | 1 node, 2 boots, 2 events per boot, 1 retry, channel of 1, 1 hub crash | about 1,000,000 |
| `delivery_settles` | the input task is never blocked for good, and `EventContract` with its fairness: every event gets a verdict | 1 node, 3 events, channel of 1, 1 retry | 29,784 |
| `presence` | statuses are fresh, healthy devices stay ONLINE | timeout 4 s, interval 2 s, delay 1 s, 9 s, 2 restarts | 155,326 |
| `settings` | what was acknowledged is what is booted; get_config answers the last configuration saved, or else the one booted with | 4 configurations, one invalid, 5 requests | 5,070 |
| `database` | every change of the tables is one whole request; ok means committed; an undisturbed get_config is exact | CDC thread and 1 application, 2 families, 1 action, 3 set_config payloads (valid, refused by the schema, refused by validate_config) | about 1,600,000 |
| `gestures` | every press one gesture, in time | debounce 2, interval 4, long press 5, 26 samples | 29,309 |
| `framing` | each decoder returns the lines of the stream; what overlong and crowded-out lines cost | lines of 3 bytes, streams of 6, packets of up to 3, a queue of 1, a disconnection anywhere | 246,089 |
| `control` | commands reach devices as `CommandContract` says; no gap within a session but overlong lines, only its first request swallowed; while a session lasts, no request and no answer is dropped but those too long; answers in order; typed text replaced only by an answer asked for | a node and a hub sharing one port name, 2 sessions, 2 requests, 1 fault (a pulled cable, a failing open or write, a hub restarted while it serves), texts too long for the node, for its answer and for the application | 1,497,594 |
| `control_settles` | every request leaves the queue and, but for lines too long, is answered while session, cable and server last | the same with 1 session | 128,586 |
| `editors` | no edit lost unasked; lists of one moment; what nobody interfered with replaces, adds and deletes what was shown | 3 tables of 2 numbers and action 0, 1 initial database, 2 changes, one application at a time | 1,467,553 |

Why the bounds are enough. *hub*: one event id per device is enough for
every duplicate and retransmission, since the network may deliver it at any step;
two devices separate what is per device; two commits put one before and one
after any statement; the configurations differ in target, changes, flag and
existence. *delivery*: with two events, one retry and two boots every pair of
(old, new) event, attempt and boot id occurs; a channel of one blocks the input
task as eight would. *presence*: the numbers keep the proportions that matter (timeout
above interval plus delay, two intervals in a timeout) and let a restart of either
end fall at every phase. *gestures*: 26 samples hold a click, a double click and a
long press in sequence, with bounces of every length below the debounce time.
*database*: two writers are all it takes to contend for one lock; two families
let one be deleted while the other stays referenced; one action is created, replaced,
deleted and read. *framing*: a stream of six bytes holds an overlong line and a whole one
after it, in either order, and every packetisation of both; the queue and the shortest
request keep their proportion to the packet (`FramingAssumption`). *control*: one port
name for both devices is what makes a request of one session meet the device of another;
two sessions and two requests put a request behind what an earlier one left over; one
fault may fall at every step. Both devices may be plugged in at the start, or one of
them. The user stops after the last session (`Ended`). *editors*: two numbers separate
the row shown from another, and with both taken `next_id` has none left; the one database
at the start has a family and an action 0 that is about none, so that two changes are
enough to give the family a destination and delete both, or to have an action refer to it
and the deletion refused; two changes put
one before and one after any load; the applications do not share state but the
tables, so each meets the other as one of the other writers (`MaxApps = 1`); in the
control application one form is filled in at a time (`OthersNew`). The proofs below
then drop the bounds.

Deadlock is checked in every run but `control`, `control_settles` and `editors`, whose
bounds on sessions, requests, faults and changes stop the system.

### Fairness

* `delivery_settles`: `NodeFairness`, weak fairness of the node's own task steps.
  The embassy executor polls every ready task; a deadline is always ready once it
  has passed. It assumes that `send_to().await` and the endpoint's mutex are
  eventually granted, which is embassy-net's part. Nothing is assumed of the hub or
  of the network: the node settles without them.
* `control_settles`: `LinkFairness`, weak fairness of the GUI's polling, of every worker
  thread and of the device's handling of its next line. egui repaints every 50 ms while
  there is a connection, threads are scheduled, and both CDC loops go back to their read.
  Nothing is assumed of the user, of cables, or that a device returns.
* `hub` (for `LoopReturns`): `AuditFairSpec`, weak fairness of the handler's next step and of the restart
  (systemd). Each step may fail; none may be skipped.

### Where code and documents disagree

One run is expected to find a violation. `database_lock`: cdc.rs:96 says the UDP loop
and CDC requests operate concurrently and safely; after a COMMIT that fails busy, which
is not rolled back, the CDC thread keeps the write lock and the UDP loop records no event
until the hub restarts.

More observations, each of which follows from the code directly.

Hub. action.rs:153 says an unavailable action is never accepted, and action.rs:192 that a
concurrent change becomes an execution failure. Validation and insertion are transactions
of their own (udp.rs:217), and so are the reads of execute: an action can be deleted
between the first two, and the changes of one definition applied to the target of another.
`UndisturbedEventHandledAsValidated` says what holds while nobody else commits. The
READMEs of the applications (control line 66, settings line 25) ask to stop the hub before
editing the database, but the hub's own CDC thread writes it live.
docs/parent-database-design.md:294 says the action state is restored from the event
history; `ActionEngine::new` starts empty and nothing replays the history, which `Boot` of
`HubEvents` shows. ALL_FAMILIES of section 5.1 of that document is not implemented.
validate_config accepts a notification target given twice, which the schema then refuses.
The defaults, a heartbeat every 180 s and a timeout of 180 s, leave no margin in the sense
of `DeviceStatus`: a healthy device may flap.

Node. docs/cdc_communication_spec.md:134 says get_status returns the current execution
state; the device id in it is that of the saved configuration (cdc.rs:270), the rest that
of the running one. Line 53 says get_config gets the saved settings; after a reset, or a
save that failed behind the erase, it returns settings that are no longer on the page
(`GetConfigIsLastSaved` says what it does return). An overlong line gets no answer
(bin/uchi-pulse-node.rs:394). A device id of blanks passes the node's validate()
(config.rs:203) and is refused by the hub.

Applications. The request id of the protocol (docs/cdc_communication_spec.md:14) is written
and not compared: the control application shows every answer; `AnswersInOrder` says what
that costs. Its confirmation dialog outlives the connection it was opened for (`Confirm`).
The form of a new destination does not learn its id, so that saving twice inserts two rows
(control main.rs:478). Of an action with number 0, which the settings application lets one
create, the form shows number 1: save writes row 1, delete removes row 0 (main.rs:1024). The
form of a new family or action starts at 1 for the same reason, and saving it replaces row 1
if there is one, without a question (main.rs:371); closing the database keeps selection and
forms (main.rs:283). In the settings application, reverting a new record ends `creating`:
the number, which can be edited before the first save only according to the form's own text
(main.rs:577), is locked before it. When the reload behind a save fails, `next_id` proposes
the number just saved (main.rs:264). The save_action of both shares the COMMIT without
ROLLBACK: their next save of one statement joins the transaction left open and is answered
ok, but lost when the application is closed (`OkMeansCommitted` excludes exactly that, in
`Ends`).

## 4. What is proved

All theorems are checked by TLAPS from the assumptions on the constants named in
the modules and nothing else.

* `EventDelivery_proofs`, first part, about `HubEvents`. `HubInv` is the conjunction of
  `TypeOK`, `HandlerInv`, `NoTraceUnlessRecorded` and `AtMostOnce`. The last two are not
  inductive alone: that an event is not run twice depends on where the handler is.
  `HandlerInv` says what each program counter implies: after `record` the event in hand is
  in the history, and while it is being executed its counter is still 0. With it:
  `TypeCorrect`, `NoTraceCorrect`, `AtMostOnceCorrect`. `HistoryNamesDevicesCorrect`,
  `OnlyManagedDevicesHeardCorrect` and `LossOnlyByCrashCorrect` add one invariant each; the
  last counts: recorded but not executed events are at most the crashes plus the one in
  hand.
* The same module, about `HubAudit`. `UndisturbedEventCorrect`: while no other process
  commits, what is applied is the plan that was validated. The invariant says of every
  program counter between validation and execution which of the action's columns the
  handler holds and that they are those of the configuration.
* `DeviceStatus_proofs`. `StatusIsFreshCorrect` and `LiveDeviceStaysOnlineCorrect`
  for every timeout, interval and delay. The invariant bounds the age of the last
  heartbeat by the node's loop and that of datagrams under way by `MaxDelay`.
* `NodeSettings_proofs`. `SavedIsBootedCorrect`, `GetConfigIsLastSavedCorrect` and
  `ActiveFollowsStorageCorrect`, from the invariant that a save withdraws the promise before
  the first flash operation and reaches the read-back only with the record on the page.
* `Gesture_proofs`. `EveryPressOneGestureCorrect`, from the invariant that a click
  is pending only while the input is released and not a second click; and
  `SecondPressInWindowCorrect`, from an invariant that remembers why a pending click
  was given up.
* `EventDelivery_proofs`, last part, about the composition. `DeliveryInv` conjoins `HubInv`,
  whose steps the composition only restricts, with two invariants of the node's end:
  `SenderInv`, that the sender is stop-and-wait (one event in hand, whose verdict alone is
  pending, its sequence number the last one created), and `CreatedInv`, that an event
  reaches network and history only after it was created. `DeliveredMeansRecordedCorrect`
  needs all three, because an ACK may be older than the event it meets.
  `ContractSafetyCorrect` proves that every step of nodes, network and hub is a step of
  `EventContract` or a stutter. `IdsNeverReusedCorrect` follows from `SenderInv` (boot and
  sequence numbers above the last ones given out have no verdict), and
  `OvertakenOnlyIfAbandonedCorrect` from one more invariant: when an event is in hand, its
  predecessors of the same boot have their verdict. The section on work that is left holds
  the safety half of three liveness properties. Loops run for ever when a retry or a
  repeated validation does not count towards an end; here all do. `HandlerAdvances`: a
  datagram takes the hub at most nine steps, whatever statements fail and other writers
  commit (`LoopReturns`). `SenderWorkDecreases`: a number that only a new gesture or a
  reboot raises goes down with every step on a node's pending actions, for any number of
  retries, answers or none (`InputNeverStuck`, `ContractHolds`). That there is a next step
  at all is fairness, and stays with the runs.
* `ConfigDatabase_proofs`. `EveryChangeIsOneRequestCorrect`, `OkMeansCommittedCorrect`
  and `LockOnlyWhileSavingCorrect`, from the invariant that a writer inside its
  transaction holds the lock and works on the tables as they are committed. It is
  needed because the outcome is computed at `Write` and committed later.
  The answer of get_config needs more: `ReadsInvariant` says that the tables keep columns
  and constraints (`TablesInv`) and that, undisturbed, the reads so far are the committed
  tables without what is still to do (`ReadSoFar`). `UndisturbedGetConfigCorrect` is the
  case in which nothing is.
* `Editors_proofs`. `EditorInv` says of a load under way, and of the lists taken over,
  that they are the tables unless somebody changed them since the load began; of the
  record in the editor, that it was in the lists as `original` shows it, or that it is new
  and no row has its number; of an open dialog, that what it will go on with is still
  true. `SaveReplacesWhatWasShownCorrect`, `OneRowPerNewRecordCorrect`,
  `EditsLostOnlyByConsentCorrect` and `ListsOfOneMomentCorrect` follow. That a deletion
  removes nothing but the row named (`DeleteRemovesTheNamedRowCorrect`) also needs the
  foreign keys (`RowsInvariant`): a record reverted before its first save may be deleted
  by a number that no row has, and no destination may refer to it.

* `ControlLink_proofs`. All safety properties of `ControlLink`, for any devices, ports,
  texts and bounds. `FlowInv` says that request numbers ascend along the way of a request:
  what a device executed is below what is on its line, and that below the queue of the
  worker that has it open (`OrderInv`); and from what was shown over the events and answers
  under way to the queue (`ShownInv`). It needs that one worker at a time has a device open
  (`ExclusiveInv`), that nothing waits with a worker that has not opened yet (`SessionInv`),
  that all of it belongs to the device it is at (`AddressInv`) and that only a request for a
  configuration is answered with one (`ConfigInv`). Most steps only lose requests and
  answers, which keeps all of that (`LossKeeps`). `LinkContractCorrect`,
  `AnswersInOrderCorrect` and `EditsLostOnlyToAnOutstandingRequestCorrect` follow.
  `WholeInv` adds that nothing is missing: while a session lasts, what it sent is executed,
  on the line, in the queue or `Excused` (swallowed, or a line too long for the device), and
  a session that finds the start of a line at its device has not written anything.
  `NoGapInSessionCorrect` and `OnlyFirstRequestSwallowedCorrect` rest on it. `ReachInv` is
  about the way back: while the session and the device's server last, an answer to what the
  device executed for it is on its line, among the events for the GUI, shown, swallowed or
  too long. `AskedInv` says that only a request for a configuration has an answer too long.
  The three together are `NothingLostCorrect`, the safety half of `RequestsAreAnswered`:
  between issue and answer there is no other place where a request could vanish. It must say
  "of the session that lasts", because an answer that a new session finds on the line, or
  that a driver drops when a session closes, belongs to one that is over.
* `LineFraming_proofs`. All four properties of `LineFraming`, for every stream, every
  packetisation, and every limit, queue and packet size. `FramingInv` says of each decoder
  that it holds the unfinished line of what it has read, or the fact that this line is
  overlong (`Decodes`), and that what it has put out are the lines of the reference
  (`HubLinesOf`, `ControlLinesOf`, `NodeLinesOf`). A step reads a whole packet, so the
  proof is an induction over its bytes, in four layers: what one more byte does to the
  reference (`EndsGrow`, `LinesGrow`, `InOrderAppend`, `TakenGrows`), what it does to a
  decoder (`HubByteIs`, `ControlByteIs`, `NodeByteIs`), that the fold in feed goes through
  the prefixes of the packet (`HubFold` and the like, from `FoldExists` and
  `FoldFollows`), and the induction itself (`HubReads` and the like). The node's part
  also counts the legal lines that have ended in the packet, because that is what its
  queue depends on and its buffer does not show. `RequestsAreNotCrowdedOutCorrect` adds
  a bound (`SpacedOut`): line ends that are a request apart, inside one packet, are no
  more than `FramingAssumption` gives the queue room for.

Each of these modules also proves its type invariant; `LinkTypeCorrect` includes that a
device, whatever text it is sent, stores only a configuration of its own kind. These type
invariants (but for `DeliveryTypeOK`, which bounds the attempts), and the smaller facts
above that follow from stronger properties or from the schema (`HistoryNamesDevicesCorrect`,
`IdsNeverReusedCorrect`, `ActiveFollowsStorageCorrect`, `LockOnlyWhileSavingCorrect`),
are left to the proofs: no run repeats them.

Every safety property a run checks is stated by a theorem. Only model-checked: liveness
(`InputNeverStuck`, `ContractHolds`, `LoopReturns`, `RequestsLeaveTheQueue`,
`RequestsAreAnswered`), which needs fairness and ENABLED and is out of the prover's
reach. Induction theorems that take a predicate as a parameter cannot be instantiated by
the provers at hand; where data is recursive (`FoldLeft` over a packet) the proofs use
`NatInductionSet`, the same theorem about sets, which they can.

## 5. Not modelled, and what is left

Not modelled: encodings and texts (JSON, identifiers), Wi-Fi, DHCP and USB
set-up, CRUD functions of the repository no operation uses, the schema upgrade, GUI layout,
logs and the event history list, and the web page and notifications, which have no code.
Of the control application, opening a second database file while forms are filled in is
left out; of the node's input, the table from pin and gesture to action, a lookup without
state. The rules of the node's validate() are the set `Invalid`.

Assumed rather than checked: that embassy-net's `send_to` returns is part of the fairness;
the flash holds what it reported as programmed, of which the code reads back the header
only. What is listed as an observation above happens on every call and has no property.

What is left, in order:

1. the composition of `ControlLink` with `NodeSettings` and `ConfigDatabase`, which see
   the same commands as single requests.
