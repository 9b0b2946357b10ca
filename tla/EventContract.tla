---------------------------- MODULE EventContract ----------------------------
(***************************************************************************)
(* What the two ends together promise about an event, and nothing else:    *)
(* it is created once; the hub may record it, once, and may run its action *)
(* once after that; the node calls it delivered only when it is recorded,  *)
(* and otherwise gives up on it.  Giving up says nothing about the hub: an *)
(* abandoned event may be recorded and run, before or after.               *)
(***************************************************************************)
EXTENDS Naturals

CONSTANT EventKey

VARIABLES verdict, history, executed

vars == <<verdict, history, executed>>

Init ==
  /\ verdict = [k \in EventKey |-> "none"]
  /\ history = {}
  /\ executed = [k \in EventKey |-> 0]

Create(k) ==
  /\ verdict[k] = "none"
  /\ verdict' = [verdict EXCEPT ![k] = "pending"]
  /\ UNCHANGED <<history, executed>>

Record(k) ==
  /\ verdict[k] # "none" /\ k \notin history
  /\ history' = history \cup {k}
  /\ UNCHANGED <<verdict, executed>>

Execute(k) ==
  /\ k \in history /\ executed[k] = 0
  /\ executed' = [executed EXCEPT ![k] = 1]
  /\ UNCHANGED <<verdict, history>>

Deliver(k) ==
  /\ verdict[k] = "pending" /\ k \in history
  /\ verdict' = [verdict EXCEPT ![k] = "delivered"]
  /\ UNCHANGED <<history, executed>>

Abandon(k) ==
  /\ verdict[k] = "pending"
  /\ verdict' = [verdict EXCEPT ![k] = "abandoned"]
  /\ UNCHANGED <<history, executed>>

Next ==
  \E k \in EventKey :
    Create(k) \/ Record(k) \/ Execute(k) \/ Deliver(k) \/ Abandon(k)

Spec == Init /\ [][Next]_vars

\* The node reaches a verdict on every event it creates.
FairSpec == Spec /\ \A k \in EventKey : WF_vars(Deliver(k) \/ Abandon(k))
==============================================================================
