----------------------------- MODULE NodeSender -----------------------------
(***************************************************************************)
(* The sending half of the Pico firmware (bin/uchi-pulse-node.rs, udp.rs): *)
(* the input task that pushes triggered actions into a bounded channel,    *)
(* the event sender task that delivers them one by one with stop-and-wait  *)
(* and a bounded number of attempts, and the discovery task that learns    *)
(* where the hub is.  All of it is RAM: a reboot forgets the queue, the    *)
(* event in flight and the hub's endpoint, and draws a new boot id.        *)
(*                                                                         *)
(* Time is not part of this module: an ACK deadline may pass at any point  *)
(* of a wait.  boot_id is a random 64-bit number; the model takes the      *)
(* values of successive boots to be distinct.  An event_id is the pair     *)
(* <<boot, sequence>> that its text encodes.                               *)
(***************************************************************************)
EXTENDS Naturals, Sequences, Network

CONSTANTS
  ChannelCapacity,  \* ACTION_EVENTS holds 8
  RetryCount,       \* event_retry_count
  Idle,             \* the sender has no event in hand
  MaxBoot,          \* bound: boots explored
  MaxSequence       \* bound: events explored per boot

ASSUME SenderAssumption ==
  /\ ChannelCapacity \in Nat \ {0}
  /\ RetryCount \in Nat
  /\ MaxBoot \in Nat \ {0} /\ MaxSequence \in Nat \ {0}
  /\ EventId = (1..MaxBoot) \X (1..MaxSequence)
  /\ Idle \notin Events

Verdict == {"none", "pending", "delivered", "abandoned"}

VARIABLES
  boot,      \* boot id of the running firmware
  sequence,  \* EventIdGenerator::next_sequence
  pressed,   \* actions of one input update still to be pushed by the input task
  channel,   \* ACTION_EVENTS
  outgoing,  \* EVENT the sender task is delivering, or Idle
  attempts,  \* RetryPolicy::attempts_started
  waiting,   \* the sender is inside wait_for_ack
  hubKnown,  \* HUB_ENDPOINT holds an endpoint
  verdict    \* history variable: what became of each event on the node

nodeVars == <<boot, sequence, pressed, channel, outgoing, attempts, waiting,
              hubKnown, verdict>>

NodeTypeOK ==
  /\ boot \in [Device -> 1..MaxBoot]
  /\ sequence \in [Device -> 1..(MaxSequence + 1)]
  /\ pressed \in [Device -> Seq(ActionId)]
  /\ channel \in [Device -> Seq(ActionId)]
  /\ \A d \in Device : Len(channel[d]) <= ChannelCapacity
  /\ outgoing \in [Device -> Events \cup {Idle}]
  /\ attempts \in [Device -> 0..(RetryCount + 1)]
  /\ waiting \in [Device -> BOOLEAN]
  /\ hubKnown \in [Device -> BOOLEAN]
  /\ verdict \in [EventKey -> Verdict]

NodeInit ==
  /\ boot = [d \in Device |-> 1]
  /\ sequence = [d \in Device |-> 1]
  /\ pressed = [d \in Device |-> <<>>]
  /\ channel = [d \in Device |-> <<>>]
  /\ outgoing = [d \in Device |-> Idle]
  /\ attempts = [d \in Device |-> 0]
  /\ waiting = [d \in Device |-> FALSE]
  /\ hubKnown = [d \in Device |-> FALSE]
  /\ verdict = [k \in EventKey |-> "none"]

------------------------------------------------------------------------------
(* The input task *)

\* InputController::update returned the actions mapped to one gesture.  The
\* task samples again only after it has pushed all of them.  The bound on
\* sequence numbers keeps the number of gestures finite.
Press(d, actions) ==
  /\ pressed[d] = <<>> /\ Len(actions) > 0
  /\ sequence[d] + Len(channel[d]) + Len(actions) <= MaxSequence + 1
  /\ pressed' = [pressed EXCEPT ![d] = actions]
  /\ UNCHANGED <<net, boot, sequence, channel, outgoing, attempts, waiting,
                 hubKnown, verdict>>

\* ACTION_EVENTS.send(action).await: blocks while the channel is full.
PushAction(d) ==
  /\ pressed[d] # <<>>
  /\ Len(channel[d]) < ChannelCapacity
  /\ channel' = [channel EXCEPT ![d] = Append(@, Head(pressed[d]))]
  /\ pressed' = [pressed EXCEPT ![d] = Tail(@)]
  /\ UNCHANGED <<net, boot, sequence, outgoing, attempts, waiting, hubKnown, verdict>>

------------------------------------------------------------------------------
(* The event sender task *)

\* ACTION_EVENTS.receive and event_from_action: the event gets its id once,
\* before the first attempt.
TakeAction(d) ==
  LET k == [dev |-> d, id |-> <<boot[d], sequence[d]>>]
  IN  /\ outgoing[d] = Idle /\ channel[d] # <<>>
      /\ outgoing' = [outgoing EXCEPT ![d] = Event(k, Head(channel[d]))]
      /\ channel' = [channel EXCEPT ![d] = Tail(@)]
      /\ sequence' = [sequence EXCEPT ![d] = @ + 1]
      /\ attempts' = [attempts EXCEPT ![d] = 0]
      /\ verdict' = [verdict EXCEPT ![k] = "pending"]
      /\ UNCHANGED <<net, boot, pressed, waiting, hubKnown>>

\* The sender is done with the event in hand.
Finish(d, v) ==
  /\ verdict' = [verdict EXCEPT ![Key(outgoing[d])] = v]
  /\ outgoing' = [outgoing EXCEPT ![d] = Idle]
  /\ waiting' = [waiting EXCEPT ![d] = FALSE]

\* mistake: off by one, one attempt too many.
AttemptLeftOffByOne(d) == attempts[d] <= RetryCount + 1

\* RetryPolicy::next_attempt grants the first transmission and RetryCount more.
AttemptLeft(d) == attempts[d] <= RetryCount

\* One turn of the attempt loop: the endpoint is read again every time, and a
\* send error uses up the attempt.
StartAttempt(d) ==
  /\ outgoing[d] # Idle /\ ~ waiting[d] /\ AttemptLeft(d)
  /\ attempts' = [attempts EXCEPT ![d] = @ + 1]
  /\ \/ /\ ~ hubKnown[d]
        /\ Finish(d, "abandoned") /\ UNCHANGED net
     \/ /\ hubKnown[d]
        /\ Send(outgoing[d])
        /\ waiting' = [waiting EXCEPT ![d] = TRUE]
        /\ UNCHANGED <<outgoing, verdict>>
     \/ /\ hubKnown[d]
        /\ UNCHANGED <<net, outgoing, verdict, waiting>>
  /\ UNCHANGED <<boot, sequence, pressed, channel, hubKnown>>

\* mistake: the loop has no way out.
GiveUpNever(d) == FALSE

\* next_attempt returned None.
GiveUp(d) ==
  /\ outgoing[d] # Idle /\ ~ waiting[d] /\ ~ AttemptLeft(d)
  /\ Finish(d, "abandoned")
  /\ UNCHANGED <<net, boot, sequence, pressed, channel, attempts, hubKnown>>

\* mistake: any ACK for this device will do.
AckMatchesDevice(e, m) == m \in Acks /\ m.dev = e.dev

\* ack_matches: device id and event id of the event in hand.
AckMatches(e, m) == m \in Acks /\ Key(m) = Key(e)

\* wait_for_ack takes a datagram; one that does not match is skipped.
ReceiveAck(d, m) ==
  /\ waiting[d] /\ AckMatches(outgoing[d], m)
  /\ Finish(d, "delivered")
  /\ UNCHANGED <<net, boot, sequence, pressed, channel, attempts, hubKnown>>

\* mistake: recv_from is awaited without a deadline.
AckTimeoutNever(d) == FALSE

\* The deadline passes without a matching ACK.
AckTimeout(d) ==
  /\ waiting[d]
  /\ waiting' = [waiting EXCEPT ![d] = FALSE]
  /\ UNCHANGED <<net, boot, sequence, pressed, channel, outgoing, attempts,
                 hubKnown, verdict>>

------------------------------------------------------------------------------
(* The discovery and heartbeat task, and the device itself *)

\* A HELLO_REQUEST tells the node where the hub is; it answers HELLO.
Discover(d) ==
  /\ HelloRequest \in net
  /\ hubKnown' = [hubKnown EXCEPT ![d] = TRUE]
  /\ Send(Hello(d))
  /\ UNCHANGED <<boot, sequence, pressed, channel, outgoing, attempts, waiting, verdict>>

SendHeartbeat(d) ==
  /\ hubKnown[d]
  /\ Send(Heartbeat(d))
  /\ UNCHANGED nodeVars

\* RoscRng.next_u64 at startup; successive values differ.
NextBoot(b) == b + 1

\* Power loss, watchdog reset or the CDC reboot command.
Reboot(d) ==
  /\ boot[d] < MaxBoot
  /\ boot' = [boot EXCEPT ![d] = NextBoot(@)]
  /\ sequence' = [sequence EXCEPT ![d] = 1]
  /\ pressed' = [pressed EXCEPT ![d] = <<>>]
  /\ channel' = [channel EXCEPT ![d] = <<>>]
  /\ outgoing' = [outgoing EXCEPT ![d] = Idle]
  /\ attempts' = [attempts EXCEPT ![d] = 0]
  /\ waiting' = [waiting EXCEPT ![d] = FALSE]
  /\ hubKnown' = [hubKnown EXCEPT ![d] = FALSE]
  /\ verdict' = [k \in EventKey |->
       IF k.dev = d /\ verdict[k] = "pending" THEN "abandoned" ELSE verdict[k]]
  /\ UNCHANGED net

SenderTask(d) == TakeAction(d) \/ StartAttempt(d) \/ GiveUp(d) \/ AckTimeout(d)

NodeStep(d) ==
  \/ \E a, b \in ActionId : Press(d, <<a>>) \/ Press(d, <<a, b>>)
  \/ PushAction(d)
  \/ SenderTask(d)
  \/ \E m \in net : ReceiveAck(d, m)
  \/ Discover(d) \/ SendHeartbeat(d)
  \/ Reboot(d)

\* The executor polls every task that is ready.
NodeFairness ==
  \A d \in Device :
    WF_<<net, nodeVars>>(PushAction(d)) /\ WF_<<net, nodeVars>>(SenderTask(d))
==============================================================================
