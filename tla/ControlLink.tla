----------------------------- MODULE ControlLink -----------------------------
(***************************************************************************)
(* The control application and the devices at its serial ports: the GUI    *)
(* thread, one worker thread per session, the byte streams between worker  *)
(* and device, and the CDC servers of hub and node.                        *)
(*                                                                         *)
(* A line is a record here; LineFraming shows what the decoders make of it. *)
(* What it says of a line that was cut short is used in two places: the     *)
(* start of a request stays with the device and swallows the next request   *)
(* (openTail), and a new session begins inside an answer (LeaveAnswers).    *)
(* Of lengths a model keeps which texts make a line too long: for the       *)
(* reader of a request, the writer of an answer, or the reader of it.       *)
(***************************************************************************)
EXTENDS Naturals, Sequences, FiniteSets

CONSTANTS
  Port,          \* names of serial ports
  Device,
  Kind,          \* "node" or "hub", by device
  None,
  NodeText, HubText, \* configuration texts of a node and of a hub
  Junk,          \* a text that is no JSON object
  Typed,         \* the texts the user types
  NoText,
  DefaultText,   \* by kind, the text an endpoint starts with
  FactoryText,   \* by kind, the configuration after a factory reset
  LongRequest,   \* by kind, the texts whose set_config line is longer than the device reads
  LongAnswer,    \* by kind, configurations whose answer a node cannot put into its buffer,
                 \* or the application will not read from a hub
  MaxSession,    \* bound on sessions
  MaxRequest,    \* bound on requests
  MaxFault       \* bound on faults: pulled cables, failing opens and writes

ASSUME LinkAssumption ==
  /\ None \notin Port /\ Port # {} /\ Device # {}
  /\ Kind \in [Device -> {"node", "hub"}]
  /\ NodeText \cap HubText = {} /\ Junk \notin NodeText \cup HubText
  /\ NoText # "opened" /\ {NoText, "opened"} \cap (NodeText \cup HubText \cup {Junk}) = {}
  /\ DefaultText["node"] \in NodeText /\ FactoryText["node"] \in NodeText
  /\ DefaultText["hub"] \in HubText /\ FactoryText["hub"] \in HubText
  /\ Typed \subseteq NodeText \cup HubText \cup {Junk}
  /\ \A k \in {"node", "hub"} : LongRequest[k] \cup LongAnswer[k] \subseteq NodeText \cup HubText
  /\ MaxSession \in Nat /\ MaxRequest \in Nat /\ MaxFault \in Nat

VARIABLES
  endpoint, connection, opened,     \* ControlApp: endpoint, connection (0: none)
  configText, confirmation,         \* ControlApp: config_text, confirmation
  workers,       \* the worker threads, one per session
  toDevice,      \* by device, request lines under way
  openTail,      \* by device, the device holds the start of a request
  toHost,        \* by device, answer lines under way
  hostTail,      \* by device, the start of an answer is under way
  plugged, serving,  \* by device: the port it is at, or None; CDC server running
  config,        \* by device, the stored configuration
  faults,        \* faults so far
  sent,          \* history: by number, a request's device and session, whether it is for a
                 \* configuration, whether its line fits into the device's buffer
  executed,      \* history: by device, the numbers executed
  shown,         \* history: numbers of the answers shown in this session
  swallowed,     \* history: requests that became part of another line, or whose answer did
  unanswered,    \* history: requests whose answer was too long to be sent or read
  interrupted    \* history: sessions the hub was restarted in, or with lines of theirs unread

gui == <<endpoint, connection, opened, configText, confirmation>>
wire == <<toDevice, openTail, toHost, hostTail>>
device == <<plugged, serving, config>>
history == <<sent, executed, shown, swallowed, unanswered, interrupted>>
vars == <<gui, workers, wire, device, faults, history>>

Text == NodeText \cup HubText
TextOf(kind) == IF kind = "node" THEN NodeText ELSE HubText
Session == 1..MaxSession

Destructive == {"factory_reset", "reboot"}
\* "query" is get_info, get_status, get_inputs and get_outputs: no answer of theirs
\* carries a configuration.
Command == {"query", "get_config", "set_config"} \cup Destructive

Request(n, c, t) == [num |-> n, cmd |-> c, text |-> t]
Close == Request(0, "close", NoText)
Garbled == Request(0, "garbled", NoText)
\* The configuration in an answer, if any: "ok" or "error" only changes the status line.
Answer(n, t) == [num |-> n, data |-> t]
\* Lines without a request id of ours: INVALID_JSON, or one the application cannot parse.
Unknown == Answer(0, NoText)
Opened == [num |-> 0, data |-> "opened"]

\* A worker: its port, the device it found there, what it is at, whether the device has
\* vanished meanwhile, and the two channels.
Unused == [port |-> CHOOSE p \in Port : TRUE, device |-> CHOOSE d \in Device : TRUE,
           phase |-> "unused", gone |-> FALSE, queue |-> <<>>, events |-> <<>>]
Starting(p) == [port |-> p, device |-> Unused.device,
                phase |-> "opening", gone |-> FALSE, queue |-> <<>>, events |-> <<>>]

Init ==
  /\ endpoint = "node" /\ connection = 0 /\ opened = FALSE
  /\ configText = DefaultText["node"] /\ confirmation = "none"
  /\ workers = [w \in Session |-> Unused]
  /\ toDevice = [d \in Device |-> <<>>] /\ toHost = [d \in Device |-> <<>>]
  /\ openTail = [d \in Device |-> FALSE] /\ hostTail = [d \in Device |-> FALSE]
  /\ plugged \in [Device -> Port \cup {None}] /\ \E d \in Device : plugged[d] # None
  /\ \A d, e \in Device : plugged[d] = plugged[e] => d = e \/ plugged[d] = None
  /\ serving = [d \in Device |-> TRUE]
  /\ config = [d \in Device |-> FactoryText[Kind[d]]]
  /\ faults = 0
  /\ sent = <<>> /\ executed = [d \in Device |-> <<>>]
  /\ shown = <<>> /\ swallowed = {} /\ unanswered = {} /\ interrupted = {}

---------------------------------------------------------------------------
(* GUI thread                                                              *)

\* Bound: the user stops after the last session.
Ended == connection = 0 /\ \A w \in Session : workers[w].phase # "unused"

\* set_endpoint: refused while there is a connection.
SetEndpoint(e) ==
  /\ e # endpoint /\ connection = 0 /\ ~Ended
  /\ endpoint' = e
  /\ configText' = IF e = "database" THEN Junk ELSE DefaultText[e]
  /\ UNCHANGED <<connection, opened, confirmation, workers, wire, device, faults, history>>

\* The button is shown while there is no connection, and starts a worker.
Connect(p) ==
  /\ endpoint # "database" /\ connection = 0
  /\ \E w \in Session :
       /\ workers[w].phase = "unused" /\ \A v \in 1..(w - 1) : workers[v].phase # "unused"
       /\ connection' = w
       /\ workers' = [workers EXCEPT ![w] = Starting(p)]
  /\ opened' = FALSE /\ shown' = <<>>
  /\ UNCHANGED <<endpoint, configText, confirmation, wire, device, faults, sent, executed, swallowed, unanswered, interrupted>>

\* disconnect takes the connection, tells the worker, and waits for nothing;
\* an open dialog stays.
Disconnect ==
  /\ connection # 0
  /\ LET me == workers[connection] IN
       workers' = [workers EXCEPT ![connection] =
         [port |-> me.port, device |-> me.device, phase |-> me.phase, gone |-> me.gone,
          queue |-> IF me.phase = "dead" THEN me.queue ELSE Append(me.queue, Close),
          events |-> <<>>]]
  /\ connection' = 0 /\ opened' = FALSE /\ shown' = <<>>
  /\ UNCHANGED <<endpoint, configText, confirmation, wire, device, faults, sent, executed, swallowed, unanswered, interrupted>>

EditText(t) ==
  /\ endpoint # "database" /\ t # configText /\ ~Ended
  /\ configText' = t
  /\ UNCHANGED <<endpoint, connection, opened, confirmation, workers, wire, device, faults, history>>

\* send_command: the number is taken even when the worker is gone and send() fails.
Send(c, t) ==
  LET n == Len(sent) + 1 IN
  /\ n <= MaxRequest
  /\ sent' = Append(sent, [device |-> workers[connection].device, session |-> connection,
                         config |-> c \in {"get_config", "set_config"},
                         fits |-> t \notin LongRequest[Kind[workers[connection].device]]])
  /\ workers' = [workers EXCEPT ![connection].queue =
                   IF workers[connection].phase = "dead" THEN @ ELSE Append(@, Request(n, c, t))]
  /\ UNCHANGED <<executed, shown, swallowed, unanswered, interrupted>>

\* The command buttons, enabled while the port is open.
SendSimple(c) ==
  /\ endpoint # "database" /\ connection # 0 /\ opened
  /\ Send(c, NoText)
  /\ UNCHANGED <<gui, wire, device, faults>>

\* send_set_config sends the text as it is, whatever device it describes.
SendSetConfig ==
  /\ endpoint # "database" /\ connection # 0 /\ opened
  /\ configText # Junk
  /\ Send("set_config", configText)
  /\ UNCHANGED <<gui, wire, device, faults>>

Ask(action) ==
  /\ endpoint # "database" /\ connection # 0 /\ opened
  /\ confirmation' = action
  /\ UNCHANGED <<endpoint, connection, opened, configText, workers, wire, device, faults, history>>

\* show_confirmation: the command goes to whatever is connected by now.
Confirm ==
  /\ endpoint # "database" /\ confirmation # "none"
  /\ confirmation' = "none"
  /\ IF connection # 0 /\ opened
     THEN Send(confirmation, NoText)
     ELSE UNCHANGED <<workers, history>>
  /\ UNCHANGED <<endpoint, connection, opened, configText, wire, device, faults>>

Cancel ==
  /\ endpoint # "database" /\ confirmation # "none"
  /\ confirmation' = "none"
  /\ UNCHANGED <<endpoint, connection, opened, configText, workers, wire, device, faults, history>>

Carries(e) == e # Opened /\ e.data # NoText

\* poll_events drains the channel, of which the first event is that the port is open;
\* handle_response shows every answer, whatever its request_id, and takes over any
\* configuration in it, so that the last one stays.
PollEvents ==
  /\ connection # 0 /\ workers[connection].events # <<>>
  /\ LET events == workers[connection].events
         answers == IF Head(events) = Opened THEN Tail(events) ELSE events
     IN  /\ opened' = (opened \/ Head(events) = Opened)
         /\ shown' = shown \o [i \in DOMAIN answers |-> answers[i].num]
         /\ \/ (\A i \in DOMAIN events : ~Carries(events[i])) /\ UNCHANGED configText
            \/ \E i \in DOMAIN events :
                 /\ Carries(events[i]) /\ configText' = events[i].data
                 /\ \A j \in DOMAIN events : j > i => ~Carries(events[j])
  /\ workers' = [workers EXCEPT ![connection].events = <<>>]
  /\ UNCHANGED <<endpoint, connection, confirmation, wire, device, faults, sent, executed, swallowed, unanswered, interrupted>>

---------------------------------------------------------------------------
(* Worker threads.  Events of a session the GUI has left go nowhere, and   *)
(* those that only change its status line (errors, unknown lines) are      *)
(* left out.                                                               *)

\* mistake: the channel to the GUI holds one event.
PostLatest(w, e) ==
  IF w = connection /\ e # Unknown THEN <<e>> ELSE workers[w].events

Post(w, e) ==
  IF w = connection /\ e # Unknown THEN Append(workers[w].events, e) ELSE workers[w].events

\* The worker has the device open.
Holds(w, d) ==
  workers[w].phase = "running" /\ workers[w].device = d /\ ~workers[w].gone

Die(w) ==
  LET me == workers[w] IN
    workers' = [workers EXCEPT ![w] =
      [port |-> me.port, device |-> me.device, phase |-> "dead", gone |-> FALSE,
       queue |-> <<>>, events |-> me.events]]

\* Something breaks of itself.
Fault == faults < MaxFault /\ faults' = faults + 1

\* serialport opens the device at a port exclusively.
CanOpen(w, d) ==
  plugged[d] = workers[w].port /\ \A v \in Session : ~Holds(v, d)

OpenPort(w) ==
  /\ workers[w].phase = "opening"
  /\ \E d \in Device :
       /\ CanOpen(w, d)
       /\ LET me == workers[w] IN
            workers' = [workers EXCEPT ![w] =
              [port |-> me.port, device |-> d, phase |-> "running", gone |-> me.gone,
               queue |-> me.queue, events |-> Post(w, Opened)]]
  /\ UNCHANGED <<gui, wire, device, faults, history>>

\* Port busy, gone or forbidden, or DTR refused: an error event, and the thread ends.
OpenFails(w) ==
  /\ workers[w].phase = "opening"
  /\ IF \E d \in Device : CanOpen(w, d) THEN Fault ELSE UNCHANGED faults
  /\ Die(w)
  /\ UNCHANGED <<gui, wire, device, history>>

\* A whole line reaches the device; what was cut short before it swallows it.
Deliver(d, line) ==
  /\ toDevice' = [toDevice EXCEPT ![d] = Append(@, IF openTail[d] THEN Garbled ELSE line)]
  /\ openTail' = [openTail EXCEPT ![d] = FALSE]
  /\ swallowed' = IF openTail[d] THEN swallowed \cup {line.num} ELSE swallowed

\* mistake: nothing is written any more once the GUI has left.
AtRequestOfConnection(w) ==
  /\ w = connection
  /\ workers[w].phase = "running" /\ workers[w].queue # <<>>
  /\ Head(workers[w].queue) # Close

\* The next command of the queue is a request.
AtRequest(w) ==
  /\ workers[w].phase = "running" /\ workers[w].queue # <<>>
  /\ Head(workers[w].queue) # Close

\* mistake: of several requests only the newest is written.
WriteRequestNewest(w) ==
  LET requests == SelectSeq(workers[w].queue, LAMBDA r : r # Close) IN
  /\ AtRequest(w) /\ ~workers[w].gone
  /\ Deliver(workers[w].device, requests[Len(requests)])
  /\ workers' = [workers EXCEPT ![w].queue = SelectSeq(@, LAMBDA r : r = Close)]
  /\ UNCHANGED <<gui, toHost, hostTail, device, faults, sent, executed, shown, unanswered, interrupted>>

WriteRequest(w) ==
  /\ AtRequest(w) /\ ~workers[w].gone
  /\ Deliver(workers[w].device, Head(workers[w].queue))
  /\ workers' = [workers EXCEPT ![w].queue = Tail(@)]
  /\ UNCHANGED <<gui, toHost, hostTail, device, faults, sent, executed, shown, unanswered, interrupted>>

\* What is left of lines when the beginning of them is lost, maybe inside a line.
Rests(s, end) ==
  {SubSeq(s, k, Len(s)) : k \in 1..(Len(s) + 1)}
    \cup {<<end>> \o SubSeq(s, k + 1, Len(s)) : k \in 1..Len(s)}

\* What a session leaves of the answers under way: the driver drops what it has
\* buffered, maybe in the middle of a line.
LeaveAnswers(w) ==
  LET d == workers[w].device IN
  IF workers[w].gone THEN UNCHANGED <<toHost, hostTail>>
  ELSE /\ \E rest \in Rests(toHost[d], Unknown) : toHost' = [toHost EXCEPT ![d] = rest]
       /\ \E left \in {FALSE, hostTail[d]} : hostTail' = [hostTail EXCEPT ![d] = left]

\* mistake: the session goes on after half a line.
WriteFailsAndGoesOn(w) ==
  /\ AtRequest(w) /\ ~workers[w].gone
  /\ Fault
  /\ openTail' = [openTail EXCEPT ![workers[w].device] = TRUE]
  /\ workers' = [workers EXCEPT ![w].queue = Tail(@)]
  /\ UNCHANGED <<gui, toDevice, toHost, hostTail, device, sent, executed, shown, swallowed, unanswered, interrupted>>

\* write_all or flush fails after nothing, a part or all of the line is out.
WriteFails(w) ==
  LET d == workers[w].device line == Head(workers[w].queue) IN
  /\ AtRequest(w)
  /\ IF workers[w].gone THEN UNCHANGED faults ELSE Fault
  /\ \/ UNCHANGED <<toDevice, openTail, swallowed>>
     \/ ~workers[w].gone /\ Deliver(d, line)
     \/ /\ ~workers[w].gone
        /\ openTail' = [openTail EXCEPT ![d] = TRUE]
        /\ UNCHANGED <<toDevice, swallowed>>
  /\ Die(w)
  /\ LeaveAnswers(w)
  /\ UNCHANGED <<gui, device, sent, executed, shown, unanswered, interrupted>>

CloseSession(w) ==
  /\ workers[w].phase = "running" /\ workers[w].queue # <<>>
  /\ Head(workers[w].queue) = Close
  /\ Die(w)
  /\ LeaveAnswers(w)
  /\ UNCHANGED <<gui, toDevice, openTail, device, faults, history>>

\* An answer the application's decoder gives up, for an error event.
Unreadable(d, answer) == Kind[d] = "hub" /\ answer.data \in LongAnswer["hub"]

\* mistake: the bytes read are fed to the decoder again.
ReadAnswerAgain(w) ==
  LET d == workers[w].device IN
  /\ workers[w].phase = "running" /\ ~workers[w].gone /\ toHost[d] # <<>>
  /\ Len(workers[w].events) < 2
  /\ workers' = [workers EXCEPT ![w].events = Post(w, Head(toHost[d]))]
  /\ UNCHANGED <<gui, wire, device, faults, history>>

\* One line of what read() returned: an event, or no more than an error when it is too
\* long.  Commands are drained before every read, but more of them may come while it waits.
ReadAnswer(w) ==
  LET d == workers[w].device
      answer == Head(toHost[d])
  IN
  /\ workers[w].phase = "running" /\ ~workers[w].gone /\ toHost[d] # <<>>
  /\ workers' = [workers EXCEPT ![w].events = IF Unreadable(d, answer) THEN @ ELSE Post(w, answer)]
  /\ unanswered' = IF Unreadable(d, answer) THEN unanswered \cup {answer.num} ELSE unanswered
  /\ toHost' = [toHost EXCEPT ![d] = Tail(@)]
  /\ UNCHANGED <<gui, toDevice, openTail, hostTail, device, faults,
                 sent, executed, shown, swallowed, interrupted>>

ReadFails(w) ==
  /\ workers[w].phase = "running" /\ workers[w].gone
  /\ Die(w)
  /\ UNCHANGED <<gui, wire, device, faults, history>>

WorkerStep(w) ==
  \/ OpenPort(w) \/ OpenFails(w)
  \/ WriteRequest(w) \/ WriteFails(w) \/ CloseSession(w)
  \/ ReadAnswer(w) \/ ReadFails(w)

---------------------------------------------------------------------------
(* Devices: one line, one answer, unless one of them is too long.          *)

Reads(d) == plugged[d] # None /\ serving[d] /\ toDevice[d] # <<>>
TooLong(d, line) == line.text \in LongRequest[Kind[d]]

Ready(d, c) ==
  /\ Reads(d)
  /\ Head(toDevice[d]).cmd = c /\ ~TooLong(d, Head(toDevice[d]))

\* ResponseTooLarge.
Unsendable(d, t) == Kind[d] = "node" /\ t \in LongAnswer["node"]

\* mistake: a line whose answer could not be written is handled once more.
ReplyOrRetry(d, t, up) ==
  LET n == Head(toDevice[d]).num IN
  /\ executed' = IF n = 0 THEN executed ELSE [executed EXCEPT ![d] = Append(@, n)]
  /\ \/ /\ toHost' = [toHost EXCEPT ![d] =
                        Append(@, IF hostTail[d] THEN Unknown ELSE Answer(n, t))]
        /\ toDevice' = [toDevice EXCEPT ![d] = Tail(@)]
        /\ hostTail' = [hostTail EXCEPT ![d] = FALSE]
        /\ serving' = [serving EXCEPT ![d] = up]
        /\ swallowed' = IF hostTail[d] /\ n # 0 THEN swallowed \cup {n} ELSE swallowed
        /\ UNCHANGED faults
     \/ /\ Kind[d] = "hub" /\ Fault
        /\ serving' = [serving EXCEPT ![d] = FALSE]
        /\ UNCHANGED <<toDevice, toHost, hostTail, swallowed>>
  /\ UNCHANGED <<gui, workers, openTail, plugged, sent, shown, unanswered, interrupted>>

\* The line is handled and its answer written, unless it does not fit into the node's
\* buffer.  When the hub cannot write it (nobody reads for 100 ms) its server thread
\* ends, and with it the answer.
Reply(d, t, up) ==
  LET n == Head(toDevice[d]).num IN
  /\ toDevice' = [toDevice EXCEPT ![d] = Tail(@)]
  /\ executed' = IF n = 0 THEN executed ELSE [executed EXCEPT ![d] = Append(@, n)]
  /\ \/ /\ ~Unsendable(d, t)
        /\ toHost' = [toHost EXCEPT ![d] =
                        Append(@, IF hostTail[d] THEN Unknown ELSE Answer(n, t))]
        /\ hostTail' = [hostTail EXCEPT ![d] = FALSE]
        /\ serving' = [serving EXCEPT ![d] = up]
        /\ swallowed' = IF hostTail[d] /\ n # 0 THEN swallowed \cup {n} ELSE swallowed
        /\ UNCHANGED <<faults, unanswered>>
     \/ /\ Unsendable(d, t)
        /\ unanswered' = unanswered \cup {n}
        /\ UNCHANGED <<toHost, hostTail, serving, swallowed, faults>>
     \/ /\ Kind[d] = "hub"
        /\ \E part \in {hostTail[d], TRUE} : hostTail' = [hostTail EXCEPT ![d] = part]
        /\ serving' = [serving EXCEPT ![d] = FALSE]
        /\ Fault
        /\ UNCHANGED <<toHost, swallowed, unanswered>>
  /\ UNCHANGED <<gui, workers, openTail, plugged, sent, shown, interrupted>>

\* mistake: a status answer that carries the configuration.
HandleQueryWithConfig(d) ==
  /\ Ready(d, "query")
  /\ Reply(d, config[d], TRUE)
  /\ UNCHANGED config

HandleQuery(d) ==
  /\ Ready(d, "query")
  /\ Reply(d, NoText, TRUE)
  /\ UNCHANGED config

\* The hub may fail to read its database; the node answers what it holds.
HandleGetConfig(d) ==
  /\ Ready(d, "get_config")
  /\ \/ Reply(d, config[d], TRUE)
     \/ Kind[d] = "hub" /\ Reply(d, NoText, TRUE)
  /\ UNCHANGED config

\* A text of the other kind is refused (missing fields), and so is an invalid one or
\* one that cannot be saved; the hub answers ok with the configuration, the
\* node with nothing.
HandleSetConfig(d) ==
  LET t == Head(toDevice[d]).text IN
  /\ Ready(d, "set_config")
  /\ \/ /\ t \in TextOf(Kind[d])
        /\ config' = [config EXCEPT ![d] = t]
        /\ Reply(d, IF Kind[d] = "hub" THEN t ELSE NoText, TRUE)
     \/ Reply(d, NoText, TRUE) /\ UNCHANGED config

HandleFactoryReset(d) ==
  /\ Ready(d, "factory_reset")
  /\ \/ /\ config' = [config EXCEPT ![d] = FactoryText[Kind[d]]]
        /\ Reply(d, NoText, TRUE)
     \/ Reply(d, NoText, TRUE) /\ UNCHANGED config

\* mistake: the hub ignores what it does not support.
HandleRebootIgnored(d) ==
  /\ Ready(d, "reboot")
  /\ IF Kind[d] = "node" THEN Reply(d, NoText, FALSE)
     ELSE /\ toDevice' = [toDevice EXCEPT ![d] = Tail(@)]
          /\ UNCHANGED <<gui, workers, openTail, toHost, hostTail, plugged, serving, faults, history>>
  /\ UNCHANGED config

\* The hub refuses; the node answers, then spins until the watchdog resets it.
HandleReboot(d) ==
  /\ Ready(d, "reboot")
  /\ Reply(d, NoText, Kind[d] = "hub")
  /\ UNCHANGED config

\* INVALID_JSON, with the request id "unknown".
HandleGarbled(d) ==
  /\ Ready(d, "garbled")
  /\ Reply(d, NoText, TRUE)
  /\ UNCHANGED config

\* A line longer than the device reads is dropped: no effect, no answer.  The length of a
\* request behind the start of another is not kept.
DropLine(d) ==
  /\ Reads(d)
  /\ Head(toDevice[d]) = Garbled \/ TooLong(d, Head(toDevice[d]))
  /\ toDevice' = [toDevice EXCEPT ![d] = Tail(@)]
  /\ UNCHANGED <<gui, workers, openTail, toHost, hostTail, device, faults, history>>

DeviceStep(d) ==
  \/ DropLine(d)
  \/ HandleQuery(d) \/ HandleGetConfig(d) \/ HandleSetConfig(d)
  \/ HandleFactoryReset(d) \/ HandleReboot(d) \/ HandleGarbled(d)

---------------------------------------------------------------------------
(* Cables and restarts                                                     *)

\* Both directions are emptied and whoever holds the port has lost it; the node's
\* parser starts over, the hub's keeps the start of the line it was reading.
Gone(d) ==
  /\ plugged' = [plugged EXCEPT ![d] = None]
  /\ workers' = [w \in Session |->
                   IF Holds(w, d) THEN [workers[w] EXCEPT !.gone = TRUE] ELSE workers[w]]
  /\ toDevice' = [toDevice EXCEPT ![d] = <<>>]
  /\ toHost' = [toHost EXCEPT ![d] = <<>>]
  /\ hostTail' = [hostTail EXCEPT ![d] = FALSE]
  /\ \E part \in {FALSE, Kind[d] = "hub" /\ (openTail[d] \/ toDevice[d] # <<>>)} :
       openTail' = [openTail EXCEPT ![d] = part]

Unplug(d) ==
  /\ plugged[d] # None
  /\ Fault
  /\ Gone(d)
  /\ UNCHANGED <<gui, serving, config, history>>

\* A device gets the name of a free port, maybe of one where another was before.
Plug(d, p) ==
  /\ plugged[d] = None /\ \A e \in Device : plugged[e] # p
  /\ plugged' = [plugged EXCEPT ![d] = p]
  /\ UNCHANGED <<gui, workers, wire, serving, config, faults, history>>

\* The watchdog resets the node that was told to reboot.
NodeResets(d) ==
  /\ Kind[d] = "node" /\ ~serving[d]
  /\ Gone(d)
  /\ serving' = [serving EXCEPT ![d] = TRUE]
  /\ UNCHANGED <<gui, config, faults, history>>

\* The hub's read fails once the line has hung up, and its server thread ends.
HangUp(d) ==
  /\ Kind[d] = "hub" /\ serving[d] /\ plugged[d] = None
  /\ serving' = [serving EXCEPT ![d] = FALSE]
  /\ UNCHANGED <<gui, workers, wire, plugged, config, faults, history>>

\* The hub's process is restarted: nothing else starts its server again, and it may happen
\* to a server that runs.  The line it was reading is lost, and what the device had
\* buffered is there or not; answers are flushed one by one (in the middle of one: Reply).
HubRestarts(d) ==
  /\ Kind[d] = "hub"
  /\ IF serving[d] THEN Fault ELSE UNCHANGED faults
  /\ serving' = [serving EXCEPT ![d] = TRUE]
  /\ \E rest \in Rests(toDevice[d], Garbled) : toDevice' = [toDevice EXCEPT ![d] = rest]
  /\ \E part \in {FALSE, openTail[d]} : openTail' = [openTail EXCEPT ![d] = part]
  /\ interrupted' = interrupted \cup {w \in Session : Holds(w, d)}
                      \cup {sent[toDevice[d][i].num].session :
                               i \in {j \in DOMAIN toDevice[d] : toDevice[d][j].num # 0}}
  /\ UNCHANGED <<gui, workers, toHost, hostTail, plugged, config,
                 sent, executed, shown, swallowed, unanswered>>

---------------------------------------------------------------------------
UserStep ==
  \/ \E e \in {"node", "hub", "database"} : SetEndpoint(e)
  \/ \E p \in Port : Connect(p)
  \/ Disconnect
  \/ \E t \in Typed : EditText(t)
  \/ \E c \in {"query", "get_config"} : SendSimple(c)
  \/ SendSetConfig
  \/ \E a \in Destructive : Ask(a)
  \/ Confirm \/ Cancel

Next ==
  \/ UserStep \/ PollEvents
  \/ \E w \in Session : WorkerStep(w)
  \/ \E d \in Device :
       \/ DeviceStep(d) \/ Unplug(d) \/ (\E p \in Port : Plug(d, p))
       \/ NodeResets(d) \/ HangUp(d) \/ HubRestarts(d)

Spec == Init /\ [][Next]_vars

\* The GUI polls every 50 ms while there is a connection, threads are scheduled, and a
\* device that is plugged in handles its next line.
LinkFairness ==
  /\ WF_vars(PollEvents)
  /\ \A w \in Session : WF_vars(WorkerStep(w))
  /\ \A d \in Device : WF_vars(DeviceStep(d))

FairSpec == Spec /\ LinkFairness

---------------------------------------------------------------------------
LineEvent == {Answer(n, t) : n \in 1..MaxRequest, t \in Text \cup {NoText}}
QueuedRequest == [num : 1..MaxRequest, cmd : Command, text : Text \cup {NoText}]
Worker ==
  [port : Port, device : Device, phase : {"unused", "opening", "running", "dead"},
   gone : BOOLEAN, queue : Seq(QueuedRequest \cup {Close}), events : Seq(LineEvent \cup {Opened})]
Sent == [device : Device, session : Session, config : BOOLEAN, fits : BOOLEAN]

\* Types; and that a device, whatever text it is sent, stores only a configuration of its
\* own kind: its parser guards this, not the application's endpoint selector.
LinkTypeOK ==
  /\ endpoint \in {"node", "hub", "database"} /\ connection \in 0..MaxSession
  /\ opened \in BOOLEAN /\ configText \in Text \cup {Junk}
  /\ confirmation \in Destructive \cup {"none"}
  /\ workers \in [Session -> Worker]
  /\ toDevice \in [Device -> Seq(QueuedRequest \cup {Garbled})]
  /\ toHost \in [Device -> Seq(LineEvent \cup {Unknown})]
  /\ openTail \in [Device -> BOOLEAN] /\ hostTail \in [Device -> BOOLEAN]
  /\ plugged \in [Device -> Port \cup {None}] /\ serving \in [Device -> BOOLEAN]
  /\ config \in [Device -> Text] /\ \A d \in Device : config[d] \in TextOf(Kind[d])
  /\ faults \in 0..MaxFault
  /\ sent \in Seq(Sent) /\ Len(sent) <= MaxRequest
  /\ executed \in [Device -> Seq(1..MaxRequest)] /\ shown \in Seq(1..MaxRequest)
  /\ swallowed \subseteq 1..MaxRequest /\ unanswered \subseteq 1..MaxRequest
  /\ interrupted \subseteq Session

\* Requests are not lost from the middle of a session: those before one that the device
\* executed were executed too, or swallowed, or too long for the device to read, unless the
\* hub was restarted in between.
NoGapInSession ==
  \A d \in Device : \A i \in DOMAIN executed[d] : \A n \in 1..(executed[d][i] - 1) :
    sent[n].session = sent[executed[d][i]].session =>
      \/ \E j \in 1..i : executed[d][j] = n
      \/ n \in swallowed \/ ~sent[n].fits \/ sent[n].session \in interrupted

\* A request becomes part of another line only if it is the first of its session: what
\* an earlier session left unfinished costs one request.
OnlyFirstRequestSwallowed ==
  \A n \in swallowed :
    (\A i \in DOMAIN executed[sent[n].device] : executed[sent[n].device][i] # n)
      => \A k \in 1..(n - 1) : sent[k].session # sent[n].session

\* The answers shown in a session come in the order of their requests, each once, and
\* once one of them belongs to this session all later ones do.
AnswersInOrder ==
  /\ \A i \in DOMAIN shown : sent[shown[i]].device = workers[connection].device
  /\ \A i, j \in DOMAIN shown : i < j => shown[i] < shown[j]

\* While session, cable and server last, no request and no answer is dropped but those too
\* long: what the GUI issued is under way to the device, or its answer under way to the GUI
\* or shown, or another line swallowed it, or the device does not read so long a line, or
\* it asked for a configuration that is too long to be answered.
NothingLost ==
  \A n \in DOMAIN sent :
    LET w == sent[n].session
        d == sent[n].device
        lasts == w = connection /\ workers[w].phase = "running" /\ ~workers[w].gone
                   /\ serving[d] /\ w \notin interrupted
    IN  lasts =>
          \/ \E s \in {workers[w].queue, toDevice[d], toHost[d], workers[w].events} :
               \E i \in DOMAIN s : s[i].num = n
          \/ \E i \in DOMAIN shown : shown[i] = n
          \/ n \in swallowed \/ ~sent[n].fits \/ (n \in unanswered /\ sent[n].config)

\* The editor's text is replaced by an answer only while a request for a configuration,
\* of this port, had not been answered yet.
EditsLostOnlyToAnOutstandingRequest ==
  [][(PollEvents /\ configText' # configText) =>
       \E n \in DOMAIN sent :
         /\ sent[n].config /\ sent[n].device = workers[connection].device
         /\ \A i \in DOMAIN shown : shown[i] < n]_vars

\* Commands reach devices as CommandContract says.
Contract == INSTANCE CommandContract
              WITH issued <- [n \in DOMAIN sent |-> sent[n].device], executed <- executed
LinkContract == Contract!Spec

\* A request the GUI accepted is written or its worker ends, even when the GUI
\* disconnects right after it.
RequestsLeaveTheQueue ==
  \A w \in Session : \A n \in 1..MaxRequest :
    (\E i \in DOMAIN workers[w].queue : workers[w].queue[i].num = n)
      ~> (\A i \in DOMAIN workers[w].queue : workers[w].queue[i].num # n)

\* While session, cable and server last, every request is answered, except the swallowed
\* ones and those where the request or the configuration in its answer is too long.
RequestsAreAnswered ==
  \A n \in 1..MaxRequest :
    (n \in DOMAIN sent) ~>
      /\ n \in DOMAIN sent
      /\ \/ \E i \in DOMAIN shown : shown[i] = n
         \/ connection # sent[n].session
         \/ workers[sent[n].session].phase = "dead"
         \/ ~serving[sent[n].device] \/ sent[n].session \in interrupted
         \/ n \in swallowed \/ ~sent[n].fits \/ (n \in unanswered /\ sent[n].config)
==============================================================================
