---------------------------- MODULE EventDelivery ----------------------------
(***************************************************************************)
(* Nodes and hub together over the network: a button press on a Pico until *)
(* the hub has recorded it and run its action, with both ends crashing and *)
(* every datagram lost, duplicated, delayed or reordered.                  *)
(***************************************************************************)
EXTENDS NodeSender, HubEvents

allVars == <<net, nodeVars, hubVars>>

DeliveryInit == net = {} /\ NodeInit /\ HubInit

HubProcess ==
  \/ Boot \/ Crash \/ RecvTimeout
  \/ \E m \in net : Receive(m)
  \/ HubStep
  \/ OtherWriter

DeliveryNext ==
  \/ \E d \in Device : NodeStep(d) /\ UNCHANGED hubVars
  \/ HubProcess /\ UNCHANGED nodeVars

DeliverySpec == DeliveryInit /\ [][DeliveryNext]_allVars

\* Node tasks are polled; nothing is assumed of the network or of the hub.
DeliveryFairSpec == DeliverySpec /\ NodeFairness

DeliveryTypeOK == TypeOK /\ NodeTypeOK

------------------------------------------------------------------------------
(* Properties *)

\* When the node reports an event delivered, the hub has it in its history,
\* whatever ACKs of earlier events, attempts or boots arrive in between.
DeliveredMeansRecorded ==
  \A k \in EventKey : verdict[k] = "delivered" => Recorded(k)

\* Two events of one boot of one node, in the order of their sequence numbers.
Before(k1, k2) ==
  /\ k1.dev = k2.dev /\ k1.id[1] = k2.id[1] /\ k1.id[2] < k2.id[2]

\* The hub records the events of one boot in the order of the presses, except
\* for events the node had abandoned: a late datagram of such an event may
\* still be recorded, and run, after its successors.
OvertakenOnlyIfAbandoned ==
  \A k1, k2 \in EventKey :
    Before(k1, k2) /\ Recorded(k2) /\ ~ Recorded(k1) => verdict[k1] = "abandoned"

\* An event id stands for one press: none is given out that any event had
\* before, across reboots included, so the hub's duplicate check can never take
\* a new press for a retransmission.
IdsNeverReused ==
  [][\A k \in EventKey :
       verdict'[k] = "pending" /\ verdict[k] # "pending" => verdict[k] = "none"]_allVars

\* The input task never stays blocked on a full channel.
InputNeverStuck == \A d \in Device : pressed[d] # <<>> ~> pressed[d] = <<>>

\* The two ends together implement EventContract: an event is created once,
\* recorded only after it was created, executed only after it was recorded, and
\* called delivered only once it is in the history.
Contract == INSTANCE EventContract
              WITH verdict <- verdict, history <- history, executed <- executed
ContractSafety == Contract!Spec

\* ... and the node gives every event it creates a verdict, as the contract asks.
ContractHolds == Contract!FairSpec
==============================================================================
