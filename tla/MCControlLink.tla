---------------------------- MODULE MCControlLink ----------------------------
(* A node and a hub that share one port name, one after the other; two texts for the
   node, two for the hub, and a user who types one of each.  The node stores n1 but has no
   buffer for it in an answer, and reads no line as long as h1, which the hub stores but
   the application does not read. *)
EXTENDS ControlLink

CONSTANTS p1, node, hub, n0, n1, h0, h1

MCPort == {p1}
MCDevice == {node, hub}
MCKind == [d \in MCDevice |-> IF d = node THEN "node" ELSE "hub"]
MCDefault == [k \in {"node", "hub"} |-> IF k = "node" THEN n1 ELSE h1]
MCFactory == [k \in {"node", "hub"} |-> IF k = "node" THEN n0 ELSE h0]
MCNodeText == {n0, n1}
MCHubText == {h0, h1}
MCTyped == {n1}
MCLongRequest == [k \in {"node", "hub"} |-> IF k = "node" THEN {h1} ELSE {}]
MCLongAnswer == [k \in {"node", "hub"} |-> IF k = "node" THEN {n1} ELSE {h1}]
==============================================================================
