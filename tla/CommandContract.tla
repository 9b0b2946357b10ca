--------------------------- MODULE CommandContract ---------------------------
(***************************************************************************)
(* What a user of the control application may rely on whatever happens to  *)
(* cables, ports and sessions: a device executes a command only if it was  *)
(* issued in a session opened with it, at most once, and its commands in   *)
(* the order they were issued.  A command may get lost.                     *)
(***************************************************************************)
EXTENDS Naturals, Sequences

CONSTANT Device

VARIABLES
  issued,    \* the device of every command, in the order of the request numbers
  executed   \* by device, the numbers of the commands it executed

vars == <<issued, executed>>

Init == issued = <<>> /\ executed = [d \in Device |-> <<>>]

Issue(d) == issued' = Append(issued, d) /\ UNCHANGED executed

Execute(d, n) ==
  /\ issued[n] = d
  /\ \A i \in DOMAIN executed[d] : executed[d][i] < n
  /\ executed' = [executed EXCEPT ![d] = Append(@, n)]
  /\ UNCHANGED issued

Next == \E d \in Device : Issue(d) \/ \E n \in DOMAIN issued : Execute(d, n)

Spec == Init /\ [][Next]_vars
==============================================================================
