------------------------------- MODULE Network -------------------------------
(***************************************************************************)
(* The home LAN between the Pico nodes and the Zero hub: UDP datagrams.    *)
(*                                                                         *)
(* The network is no code of the repository.  It is modelled from how both *)
(* sides use their sockets: nothing is acknowledged below the application, *)
(* so a datagram may be lost, duplicated, delayed and overtaken.  `net'    *)
(* holds every datagram ever sent.  A datagram of `net' that nobody takes  *)
(* is lost, one taken twice is duplicated, and since any member may be     *)
(* taken at any time the order of sending means nothing.                   *)
(*                                                                         *)
(* The wire types are those of crates/uchi-pulse-common; a datagram that   *)
(* does not decode, or carries a blank device or event id, is the one      *)
(* value Malformed, because every receiver treats all of those alike.      *)
(***************************************************************************)
CONSTANTS
  Device,    \* device_id values, one per node
  EventId,   \* event_id values, unique per device
  ActionId   \* action_id values carried by an EVENT

VARIABLE net

\* (device_id, event_id): what the hub's history is unique on.
EventKey == [dev : Device, id : EventId]

Hello(d)       == [type |-> "HELLO", dev |-> d]
Heartbeat(d)   == [type |-> "HEARTBEAT", dev |-> d]
Event(k, a)    == [type |-> "EVENT", dev |-> k.dev, id |-> k.id, action |-> a]
Ack(k)         == [type |-> "ACK", dev |-> k.dev, id |-> k.id]
HelloRequest   == [type |-> "HELLO_REQUEST"]
Malformed      == [type |-> "MALFORMED"]

Hellos     == [type : {"HELLO", "HEARTBEAT"}, dev : Device]
Events     == [type : {"EVENT"}, dev : Device, id : EventId, action : ActionId]
Acks       == [type : {"ACK"}, dev : Device, id : EventId]
UdpMessage == Hellos \cup Events \cup Acks
Datagram   == UdpMessage \cup {HelloRequest, Malformed}

\* The event an EVENT or ACK datagram is about.
Key(m) == [dev |-> m.dev, id |-> m.id]

Send(m) == net' = net \cup {m}

==============================================================================
