-------------------------- MODULE ControlLink_proofs --------------------------
(***************************************************************************)
(* The order and the addressing of commands and answers, for any devices,  *)
(* ports, texts, and bounds on sessions, requests and faults.  Request     *)
(* numbers only grow along the way a request takes: executed, answer under *)
(* way, line under way, queue; no step moves one against that direction,   *)
(* and while a session lasts none of its requests is missing on the way,   *)
(* nor any answer on the way back, but those whose line is too long for    *)
(* whoever has to read or to write it.                                     *)
(***************************************************************************)
EXTENDS ControlLink, SequenceTheorems, TLAPS

\* What a sequence of requests or answers holds, and the request numbers in it (0: none).
Elems(s) == {s[i] : i \in DOMAIN s}
Nums(s) == {e.num : e \in Elems(s)} \ {0}

Ascending(s) ==
  \A i, j \in DOMAIN s : i < j /\ s[i].num # 0 /\ s[j].num # 0 => s[i].num < s[j].num

Below(S, T) == \A m \in S, n \in T : m < n

\* The requests issued in sessions with a device.
IssuedTo(d) == {n \in DOMAIN sent : sent[n].device = d}

\* The GUI believes its session open only if the worker has opened the port; a worker it
\* has left, or that has not opened yet, has no event to tell.
SessionInv ==
  /\ connection = 0 => opened = FALSE
  /\ connection # 0 => workers[connection].phase # "unused"
  /\ opened => workers[connection].phase \in {"running", "dead"}
  /\ \A w \in Session :
       /\ workers[w].phase = "unused" => workers[w] = Unused
       /\ workers[w].phase \in {"unused", "opening"} =>
            workers[w].events = <<>> /\ Nums(workers[w].queue) = {}
       /\ w # connection => workers[w].events = <<>>
       /\ \A i \in DOMAIN workers[w].events : workers[w].events[i] = Opened => i = 1

\* One worker at a time has a device open.
ExclusiveInv == \A d \in Device, v, w \in Session : Holds(v, d) /\ Holds(w, d) => v = w

\* Requests and answers belong to the device they are on their way to or from.
AddressInv ==
  /\ \A d \in Device :
       Elems(executed[d]) \cup Nums(toHost[d]) \cup Nums(toDevice[d]) \subseteq IssuedTo(d)
  /\ \A w \in Session :
       Nums(workers[w].events) \cup Nums(workers[w].queue) \subseteq IssuedTo(workers[w].device)
  /\ connection # 0 => Elems(shown) \subseteq IssuedTo(workers[connection].device)

\* The numbers ascend from what was executed to what waits.
OrderInv ==
  /\ \A d \in Device :
       /\ Ascending(toHost[d]) /\ Ascending(toDevice[d])
       /\ Below(Elems(executed[d]) \cup Nums(toHost[d]), Nums(toDevice[d]))
  /\ \A w \in Session : Ascending(workers[w].queue) /\ Ascending(workers[w].events)
  /\ \A d \in Device, w \in Session : Holds(w, d) =>
       Below(Elems(executed[d]) \cup Nums(toHost[d]) \cup Nums(toDevice[d]), Nums(workers[w].queue))

\* ... and from what was shown to what the session will still be told.
ShownInv ==
  /\ \A i, j \in DOMAIN shown : i < j => shown[i] < shown[j]
  /\ connection = 0 => shown = <<>>
  /\ connection # 0 =>
       /\ Below(Elems(shown), Nums(workers[connection].events))
       /\ workers[connection].phase = "opening" => shown = <<>>
       /\ \A d \in Device : Holds(connection, d) =>
            Below(Elems(shown) \cup Nums(workers[connection].events),
                  Nums(toHost[d]) \cup Nums(toDevice[d]) \cup Nums(workers[connection].queue))

\* Only a request for a configuration is answered with one, and of a line too long for its
\* device that is on record.
Asks(l) ==
  /\ l.cmd \in {"get_config", "set_config"} => sent[l.num].config
  /\ l.num # 0 /\ l.text \in LongRequest[Kind[sent[l.num].device]] => ~sent[l.num].fits
Tells(e) == Carries(e) => sent[e.num].config
ConfigInv ==
  /\ \A d \in Device : (\A l \in Elems(toDevice[d]) : Asks(l)) /\ (\A e \in Elems(toHost[d]) : Tells(e))
  /\ \A w \in Session : (\A l \in Elems(workers[w].queue) : Asks(l))
                          /\ (\A e \in Elems(workers[w].events) : Tells(e))

FlowInv == SessionInv /\ ExclusiveInv /\ AddressInv /\ OrderInv /\ ShownInv /\ ConfigInv
LinkInv == LinkTypeOK /\ FlowInv

\* The requests of a session.
OfSession(w) == {n \in DOMAIN sent : sent[n].session = w}

\* What waits with a worker was issued in its session, which had to be open for that; what
\* the device executed ascends.
OwnInv ==
  /\ swallowed \subseteq DOMAIN sent
  /\ \A d \in Device : \A i, j \in DOMAIN executed[d] : i < j => executed[d][i] < executed[d][j]
  /\ \A w \in Session :
       /\ Nums(workers[w].queue) \subseteq OfSession(w)
       /\ workers[w].phase \in {"unused", "opening"} => OfSession(w) = {}

\* The requests no device can be blamed for not executing: swallowed, or too long for it.
Excused == swallowed \cup {n \in DOMAIN sent : ~sent[n].fits}

\* Before a request that was executed, and one on the line, all others of its session went
\* the same way; while a session lasts, what is not executed is under way.
GapInv ==
  \A d \in Device, w \in Session : w \notin interrupted =>
    /\ \A n, m \in OfSession(w) : n < m =>
         /\ m \in Elems(executed[d]) => n \in Elems(executed[d]) \cup Excused
         /\ m \in Nums(toDevice[d]) => n \in Elems(executed[d]) \cup Excused \cup Nums(toDevice[d])
    /\ Holds(w, d) =>
         OfSession(w) \subseteq Nums(workers[w].queue) \cup Nums(toDevice[d])
                                  \cup Elems(executed[d]) \cup Excused

\* A session that finds the start of a line at the device has not written anything yet.
FirstInv ==
  /\ \A d \in Device, w \in Session :
       Holds(w, d) /\ openTail[d] => OfSession(w) \subseteq Nums(workers[w].queue)
  /\ \A n \in swallowed : n \notin Elems(executed[sent[n].device]) =>
       \A k \in OfSession(sent[n].session) : ~ (k < n)

WholeInv == OwnInv /\ GapInv /\ FirstInv

---------------------------------------------------------------------------
(* Sequences of requests and answers                                       *)

\* A record of the kind the lines and events are: all that matters here is its number.
Numbered(S) == \A e \in S : e.num \in Nat

\* An empty channel holds nothing.
LEMMA EmptyHolds == Elems(<<>>) = {} /\ Nums(<<>>) = {} /\ Ascending(<<>>)
BY DEF Elems, Nums, Ascending

\* What is put at the end of a sequence is in it, besides what was.
LEMMA AppendElems ==
  ASSUME NEW S, NEW s \in Seq(S), NEW e \in S
  PROVE  Elems(Append(s, e)) = Elems(s) \cup {e}
<1>1. \A i \in 1..Len(s) : Append(s, e)[i] = s[i]
  OBVIOUS
<1>2. Append(s, e)[Len(s) + 1] = e
  OBVIOUS
<1>3. DOMAIN Append(s, e) = 1..(Len(s) + 1) /\ DOMAIN s = 1..Len(s) /\ Len(s) \in Nat
  OBVIOUS
<1> QED
  BY <1>1, <1>2, <1>3 DEF Elems

\* ... and its number is in a channel.
LEMMA AppendHolds ==
  ASSUME NEW S, NEW s \in Seq(S), NEW e \in S
  PROVE  /\ Elems(Append(s, e)) = Elems(s) \cup {e}
         /\ Nums(Append(s, e)) = Nums(s) \cup ({e.num} \ {0})
BY AppendElems DEF Nums

\* A channel is its first element and the rest.
LEMMA HeadAndTail ==
  ASSUME NEW S, NEW s \in Seq(S), s # <<>>
  PROVE  /\ Elems(s) = {Head(s)} \cup Elems(Tail(s))
         /\ Nums(s) = ({Head(s).num} \ {0}) \cup Nums(Tail(s))
         /\ Head(s) \in S /\ Tail(s) \in Seq(S)
<1>1. Elems(s) = {Head(s)} \cup Elems(Tail(s))
  <2>1. DOMAIN s = 1..Len(s) /\ Len(s) \in Nat \ {0} /\ Head(s) = s[1]
    OBVIOUS
  <2>2. DOMAIN Tail(s) = 1..(Len(s) - 1) /\ \A i \in 1..(Len(s) - 1) : Tail(s)[i] = s[i + 1]
    OBVIOUS
  <2>5. ASSUME NEW i \in 1..Len(s) PROVE s[i] \in {Head(s)} \cup Elems(Tail(s))
    <3>1. CASE i = 1
      BY <2>1, <3>1
    <3>2. CASE i # 1
      <4>1. i - 1 \in DOMAIN Tail(s) /\ (i - 1) + 1 = i
        BY <2>1, <2>2, <3>2
      <4>2. Tail(s)[i - 1] = s[i]
        BY <2>2, <4>1
      <4> QED
        BY <4>1, <4>2 DEF Elems
    <3> QED
      BY <3>1, <3>2
  <2>6. \A i \in 1..(Len(s) - 1) : i + 1 \in 1..Len(s)
    BY <2>1
  <2>7. Elems(Tail(s)) \subseteq Elems(s)
    BY <2>1, <2>2, <2>6 DEF Elems
  <2>8. Head(s) \in Elems(s)
    BY <2>1 DEF Elems
  <2> QED
    BY <2>1, <2>5, <2>7, <2>8 DEF Elems
<1>2. Head(s) \in S /\ Tail(s) \in Seq(S)
  OBVIOUS
<1> QED
  BY <1>1, <1>2 DEF Nums

\* The elements of a channel are of its type, their numbers natural.
LEMMA ElemsTyped ==
  ASSUME NEW S, NEW s \in Seq(S)
  PROVE  Elems(s) \subseteq S
BY DEF Elems

\* Whoever holds less has fewer numbers.
LEMMA FewerNums ==
  ASSUME NEW s, NEW t, NEW e, e.num = 0, Elems(t) \subseteq Elems(s) \cup {e}
  PROVE  Nums(t) \subseteq Nums(s)
BY DEF Nums

\* A channel stays in order when something greater is put at its end.
LEMMA AppendAscending ==
  ASSUME NEW S, NEW s \in Seq(S), NEW e \in S, Numbered(S), Ascending(s),
         Below(Nums(s), {e.num} \ {0})
  PROVE  Ascending(Append(s, e))
<1> SUFFICES ASSUME NEW i \in DOMAIN Append(s, e), NEW j \in DOMAIN Append(s, e), i < j,
                    Append(s, e)[i].num # 0, Append(s, e)[j].num # 0
             PROVE  Append(s, e)[i].num < Append(s, e)[j].num
  BY DEF Ascending
<1>1. DOMAIN Append(s, e) = 1..(Len(s) + 1) /\ DOMAIN s = 1..Len(s) /\ Len(s) \in Nat
  OBVIOUS
<1>2. \A k \in 1..Len(s) : Append(s, e)[k] = s[k]
  OBVIOUS
<1>3. Append(s, e)[Len(s) + 1] = e
  OBVIOUS
<1>4. i \in 1..Len(s)
  BY <1>1
<1>5. CASE j \in 1..Len(s)
  BY <1>1, <1>2, <1>4, <1>5 DEF Ascending
<1>6. CASE j = Len(s) + 1
  <2>1. s[i].num \in Nums(s)
    BY <1>1, <1>2, <1>4 DEF Nums, Elems
  <2> QED
    BY <2>1, <1>2, <1>3, <1>4, <1>6 DEF Below
<1> QED
  BY <1>1, <1>5, <1>6

\* A part of a channel that is in order is in order.
LEMMA PartAscending ==
  ASSUME NEW S, NEW s \in Seq(S), NEW m \in 1..(Len(s) + 1), Ascending(s)
  PROVE  /\ SubSeq(s, m, Len(s)) \in Seq(S)
         /\ Elems(SubSeq(s, m, Len(s))) \subseteq Elems(s)
         /\ Ascending(SubSeq(s, m, Len(s)))
<1> DEFINE r == SubSeq(s, m, Len(s))
<1>1. Len(s) \in Nat /\ DOMAIN s = 1..Len(s)
  OBVIOUS
<1>2. r \in Seq(S) /\ Len(r) = Len(s) - m + 1 /\ \A i \in 1..(Len(s) - m + 1) : r[i] = s[m + i - 1]
  BY <1>1
<1>3. DOMAIN r = 1..(Len(s) - m + 1)
  BY <1>1, <1>2
<1>4. \A i \in 1..(Len(s) - m + 1) : m + i - 1 \in 1..Len(s)
  BY <1>1
<1>5. Elems(r) \subseteq Elems(s)
  BY <1>1, <1>2, <1>3, <1>4 DEF Elems
<1>6. Ascending(r)
  <2> SUFFICES ASSUME NEW i \in DOMAIN r, NEW j \in DOMAIN r, i < j, r[i].num # 0, r[j].num # 0
               PROVE  r[i].num < r[j].num
    BY DEF Ascending
  <2>1. m + i - 1 < m + j - 1
    BY <1>1, <1>3
  <2>2. s[m + i - 1].num < s[m + j - 1].num
    BY <2>1, <1>1, <1>2, <1>3, <1>4 DEF Ascending
  <2> QED
    BY <2>2, <1>2, <1>3
<1> QED
  BY <1>2, <1>5, <1>6

\* The rest of a channel that is in order is in order, and above its first element.
LEMMA TailAscending ==
  ASSUME NEW S, NEW s \in Seq(S), s # <<>>, Numbered(S), Ascending(s)
  PROVE  Ascending(Tail(s)) /\ Below({Head(s).num} \ {0}, Nums(Tail(s)))
<1>1. DOMAIN s = 1..Len(s) /\ Len(s) \in Nat \ {0} /\ Head(s) = s[1]
  OBVIOUS
<1>2. DOMAIN Tail(s) = 1..(Len(s) - 1) /\ \A i \in 1..(Len(s) - 1) : Tail(s)[i] = s[i + 1]
  OBVIOUS
<1>3. \A i \in 1..(Len(s) - 1) : i + 1 \in 1..Len(s) /\ 1 < i + 1
  BY <1>1
<1>4. Ascending(Tail(s))
  <2> SUFFICES ASSUME NEW i \in DOMAIN Tail(s), NEW j \in DOMAIN Tail(s), i < j,
                      Tail(s)[i].num # 0, Tail(s)[j].num # 0
               PROVE  Tail(s)[i].num < Tail(s)[j].num
    BY DEF Ascending
  <2>1. i + 1 < j + 1
    BY <1>1, <1>2
  <2> QED
    BY <2>1, <1>1, <1>2, <1>3 DEF Ascending
<1>5. Below({Head(s).num} \ {0}, Nums(Tail(s)))
  <2> SUFFICES ASSUME NEW n \in Nums(Tail(s)), Head(s).num # 0
               PROVE  Head(s).num < n
    BY DEF Below
  <2>1. PICK i \in DOMAIN Tail(s) : n = Tail(s)[i].num
    BY DEF Nums, Elems
  <2>2. n # 0
    BY DEF Nums
  <2> QED
    BY <2>1, <2>2, <1>1, <1>2, <1>3 DEF Ascending
<1> QED
  BY <1>4, <1>5

---------------------------------------------------------------------------
(* Steps that only lose requests and answers                               *)

\* Of a channel, a part is left, in order, maybe behind the end of a line that makes no sense.
FewerOrElse(s, t, e) == Elems(t) \subseteq Elems(s) \cup {e} /\ (Ascending(s) => Ascending(t))
FewerOrUnknown(s, t) == FewerOrElse(s, t, Unknown)
FewerOrGarbled(s, t) == FewerOrElse(s, t, Garbled)

\* A worker that ends or whose device vanished.
Ends(w) ==
  /\ workers[w].phase # "unused" /\ workers'[w].phase \in {"running", "dead"}
  /\ workers'[w].phase = "running" => workers'[w].gone
  /\ workers'[w].queue \in {workers[w].queue, <<>>}
  /\ workers'[w].device = workers[w].device /\ workers'[w].events = workers[w].events

Loses ==
  /\ UNCHANGED <<connection, opened, sent, executed, shown>>
  /\ \A d \in Device : FewerOrGarbled(toDevice[d], toDevice'[d]) /\ FewerOrUnknown(toHost[d], toHost'[d])
  /\ \A w \in Session : workers'[w] = workers[w] \/ Ends(w)

\* Fewer elements, fewer numbers.
LEMMA FewerHasFewer ==
  ASSUME NEW s, NEW t, FewerOrUnknown(s, t) \/ FewerOrGarbled(s, t)
  PROVE  Nums(t) \subseteq Nums(s)
<1>1. Unknown.num = 0 /\ Garbled.num = 0
  BY DEF Unknown, Answer, Garbled, Request
<1> QED
  BY <1>1, FewerNums DEF FewerOrUnknown, FewerOrGarbled, FewerOrElse

\* Order and addresses, who holds what, and what answers tell, all survive a loss.
LEMMA LossKeeps ==
  ASSUME LinkInv, Loses
  PROVE  FlowInv'
<1> USE DEF LinkInv, FlowInv
<1>0. connection # 0 => connection \in Session
  BY LinkAssumption DEF LinkTypeOK, Session
<1>1. \A d \in Device : Nums(toDevice'[d]) \subseteq Nums(toDevice[d])
                          /\ Nums(toHost'[d]) \subseteq Nums(toHost[d])
  BY FewerHasFewer DEF Loses
<1>2. \A w \in Session : /\ Nums(workers'[w].queue) \subseteq Nums(workers[w].queue)
                         /\ Elems(workers'[w].queue) \subseteq Elems(workers[w].queue)
                         /\ Ascending(workers[w].queue) => Ascending(workers'[w].queue)
                         /\ workers'[w].device = workers[w].device
                         /\ workers'[w].events = workers[w].events
                         /\ workers[w].phase # "unused" => workers'[w].phase # "unused"
                         /\ workers'[w].phase \in {"unused", "opening"} => workers'[w] = workers[w]
                         /\ workers[w].phase \in {"running", "dead"} => workers'[w].phase \in {"running", "dead"}
  BY EmptyHolds DEF Loses, Ends
<1>3. \A w \in Session, d \in Device : Holds(w, d)' => Holds(w, d)
  BY DEF Loses, Ends, Holds
<1>4. UNCHANGED <<connection, opened, sent, executed, shown>>
  BY DEF Loses
<1>5. SessionInv'
  BY <1>0, <1>2, <1>4 DEF SessionInv
<1>6. ExclusiveInv'
  BY <1>3 DEF ExclusiveInv
<1>7. AddressInv'
  BY <1>0, <1>1, <1>2, <1>4 DEF AddressInv, IssuedTo
<1>8. OrderInv'
  BY <1>1, <1>2, <1>3, <1>4 DEF OrderInv, Below, Loses, FewerOrUnknown, FewerOrGarbled, FewerOrElse
<1>9. ShownInv'
  BY <1>0, <1>1, <1>2, <1>3, <1>4 DEF ShownInv, Below
<1>10. ConfigInv'
  <2>1. Tells(Unknown) /\ Asks(Garbled)
    BY DEF Tells, Carries, Unknown, Opened, Answer, Asks, Garbled, Request
  <2>2. /\ \A l : Asks(l)' <=> Asks(l)
        /\ \A e : Tells(e)' <=> Tells(e)
    BY <1>4 DEF Asks, Tells
  <2>3. \A d \in Device : /\ Elems(toDevice'[d]) \subseteq Elems(toDevice[d]) \cup {Garbled}
                          /\ Elems(toHost'[d]) \subseteq Elems(toHost[d]) \cup {Unknown}
    BY DEF Loses, FewerOrUnknown, FewerOrGarbled, FewerOrElse
  <2> QED
    BY <1>2, <2>1, <2>2, <2>3 DEF ConfigInv
<1> QED
  BY <1>5, <1>6, <1>7, <1>8, <1>9, <1>10

---------------------------------------------------------------------------
(* Steps that move a request or an answer                                  *)

Line == QueuedRequest \cup {Garbled, Close}
Note == LineEvent \cup {Unknown, Opened}

\* What the channels are sequences of.
LEMMA ChannelTypes ==
  ASSUME LinkTypeOK
  PROVE  /\ Numbered(Line) /\ Numbered(Note)
         /\ \A d \in Device : toDevice[d] \in Seq(Line) /\ toHost[d] \in Seq(Note)
                                /\ Elems(toHost[d]) \subseteq LineEvent \cup {Unknown}
                                /\ Elems(toDevice[d]) \subseteq QueuedRequest \cup {Garbled}
         /\ \A w \in Session : workers[w].queue \in Seq(Line) /\ workers[w].events \in Seq(Note)
                                 /\ Elems(workers[w].queue) \subseteq QueuedRequest \cup {Close}
                                 /\ Elems(workers[w].events) \subseteq LineEvent \cup {Opened}
         /\ connection # 0 => connection \in Session
<1>1. Numbered(Line) /\ Numbered(Note)
  <2>1. \A e \in QueuedRequest : e.num \in Nat
    BY LinkAssumption DEF QueuedRequest
  <2>2. \A e \in LineEvent : e.num \in Nat
    BY LinkAssumption DEF LineEvent, Answer
  <2> QED
    BY <2>1, <2>2 DEF Numbered, Line, Note, Garbled, Close, Unknown, Opened, Request, Answer
<1>2. \A d \in Device : toDevice[d] \in Seq(QueuedRequest \cup {Garbled}) /\ toHost[d] \in Seq(LineEvent \cup {Unknown})
  BY DEF LinkTypeOK
<1>3. \A w \in Session : workers[w].queue \in Seq(QueuedRequest \cup {Close})
                           /\ workers[w].events \in Seq(LineEvent \cup {Opened})
  BY DEF LinkTypeOK, Worker
<1>4. connection # 0 => connection \in Session
  BY LinkAssumption DEF LinkTypeOK, Session
<1>5. ASSUME NEW S, NEW T, S \subseteq T, NEW s \in Seq(S) PROVE s \in Seq(T)
  BY <1>5
<1>6. \A d \in Device : toDevice[d] \in Seq(Line) /\ toHost[d] \in Seq(Note)
  BY <1>2, <1>5 DEF Line, Note
<1>7. \A w \in Session : workers[w].queue \in Seq(Line) /\ workers[w].events \in Seq(Note)
  BY <1>3, <1>5 DEF Line, Note
<1>8. \A d \in Device : Elems(toHost[d]) \subseteq LineEvent \cup {Unknown}
                          /\ Elems(toDevice[d]) \subseteq QueuedRequest \cup {Garbled}
  BY <1>2, ElemsTyped
<1>9. \A w \in Session : Elems(workers[w].queue) \subseteq QueuedRequest \cup {Close}
                           /\ Elems(workers[w].events) \subseteq LineEvent \cup {Opened}
  BY <1>3, ElemsTyped
<1> QED
  BY <1>1, <1>4, <1>6, <1>7, <1>8, <1>9

\* Numbers of the lines and events that are no request or answer of ours.
LEMMA Nameless ==
  /\ Garbled.num = 0 /\ Close.num = 0 /\ Unknown.num = 0 /\ Opened.num = 0
  /\ ~Carries(Unknown) /\ ~Carries(Opened) /\ Unknown # Opened
  /\ Garbled.cmd = "garbled" /\ Close.cmd = "close"
  /\ \A e \in LineEvent : e # Opened /\ e # Unknown /\ e.num # 0 /\ e.num \in 1..MaxRequest
  /\ \A l \in QueuedRequest : l # Close /\ l # Garbled /\ l.num # 0
BY LinkAssumption DEF Garbled, Close, Unknown, Opened, Request, Answer, Carries, LineEvent, QueuedRequest

\* A worker writes the next request, and goes on or ends.
Writes(w) ==
  /\ AtRequest(w) /\ ~workers[w].gone
  /\ Deliver(workers[w].device, Head(workers[w].queue))
  /\ UNCHANGED <<connection, opened, sent, executed, shown>>
  /\ \A d \in Device : FewerOrUnknown(toHost[d], toHost'[d])
  /\ \A v \in Session : v # w => workers'[v] = workers[v]
  /\ workers'[w].device = workers[w].device /\ workers'[w].events = workers[w].events
  /\ \/ /\ workers'[w].queue = Tail(workers[w].queue)
        /\ workers'[w].phase = workers[w].phase /\ workers'[w].gone = workers[w].gone
     \/ workers'[w].queue = <<>> /\ workers'[w].phase = "dead"

\* The request joins the end of the line to the device: it is above all that was there.
LEMMA WriteKeeps ==
  ASSUME LinkInv, NEW w \in Session, Writes(w)
  PROVE  FlowInv'
<1> USE DEF LinkInv, FlowInv
<1> DEFINE d == workers[w].device
           q == workers[w].queue
           line == Head(q)
           x == IF openTail[d] THEN Garbled ELSE line
<1>a. LinkTypeOK
  OBVIOUS
<1>0. /\ d \in Device /\ q \in Seq(Line) /\ q # <<>> /\ workers[w].phase = "running"
      /\ Holds(w, d)
      /\ connection # 0 => connection \in Session
  BY <1>a, ChannelTypes DEF Writes, AtRequest, LinkTypeOK, Worker, Holds
<1>1. line \in Line /\ line \in Elems(q) /\ Tail(q) \in Seq(Line)
      /\ Elems(q) = {line} \cup Elems(Tail(q)) /\ Nums(q) = ({line.num} \ {0}) \cup Nums(Tail(q))
  BY <1>0, HeadAndTail
<1>2. /\ toDevice'[d] = Append(toDevice[d], x)
      /\ \A e \in Device : e # d => toDevice'[e] = toDevice[e]
  BY <1>0, <1>a DEF Writes, Deliver, LinkTypeOK
<1>3. x \in Line /\ {x.num} \ {0} \subseteq {line.num} \ {0} /\ (Asks(line) => Asks(x))
  BY <1>1, Nameless DEF Line, Asks
<1>4. toDevice[d] \in Seq(Line) /\ Numbered(Line)
  BY <1>0, <1>a, ChannelTypes
<1>5. /\ Elems(toDevice'[d]) = Elems(toDevice[d]) \cup {x}
      /\ Nums(toDevice'[d]) \subseteq Nums(toDevice[d]) \cup ({line.num} \ {0})
  BY <1>2, <1>3, <1>4, AppendHolds
<1>6. \A e \in Device : Nums(toHost'[e]) \subseteq Nums(toHost[e])
  BY FewerHasFewer DEF Writes
<1>7. \A v \in Session :
        /\ Nums(workers'[v].queue) \subseteq Nums(workers[v].queue)
        /\ Elems(workers'[v].queue) \subseteq Elems(workers[v].queue)
        /\ Ascending(workers[v].queue) => Ascending(workers'[v].queue)
        /\ workers'[v].device = workers[v].device
        /\ workers'[v].events = workers[v].events
        /\ \A e \in Device : Holds(v, e)' => Holds(v, e)
        /\ \/ workers'[v] = workers[v]
           \/ workers[v].phase = "running" /\ workers'[v].phase \in {"running", "dead"}
  <2>1. Ascending(q) => Ascending(Tail(q))
    BY <1>0, <1>4, TailAscending
  <2> SUFFICES ASSUME NEW v \in Session
               PROVE  /\ Nums(workers'[v].queue) \subseteq Nums(workers[v].queue)
                      /\ Elems(workers'[v].queue) \subseteq Elems(workers[v].queue)
                      /\ Ascending(workers[v].queue) => Ascending(workers'[v].queue)
                      /\ workers'[v].device = workers[v].device
                      /\ workers'[v].events = workers[v].events
                      /\ \A e \in Device : Holds(v, e)' => Holds(v, e)
                      /\ \/ workers'[v] = workers[v]
                         \/ workers[v].phase = "running" /\ workers'[v].phase \in {"running", "dead"}
    OBVIOUS
  <2>2. CASE v # w
    BY <2>2 DEF Writes, Holds
  <2>3. CASE v = w
    <3>1. \/ workers'[w].queue = Tail(q) /\ workers'[w].phase = "running"
             /\ workers'[w].gone = workers[w].gone
          \/ workers'[w].queue = <<>> /\ workers'[w].phase = "dead"
      BY <1>0 DEF Writes
    <3>2. workers'[w].device = workers[w].device /\ workers'[w].events = workers[w].events
      BY DEF Writes
    <3>3. /\ Nums(workers'[w].queue) \subseteq Nums(q)
          /\ Elems(workers'[w].queue) \subseteq Elems(q)
          /\ Ascending(q) => Ascending(workers'[w].queue)
      BY <2>1, <3>1, <1>1, EmptyHolds
    <3>4. \A e \in Device : Holds(w, e)' => Holds(w, e)
      BY <1>0, <3>1, <3>2 DEF Holds
    <3> QED
      BY <2>3, <1>0, <3>1, <3>2, <3>3, <3>4
  <2> QED
    BY <2>2, <2>3
<1>8. \A v \in Session : Holds(v, d) => v = w
  BY <1>0 DEF ExclusiveInv
<1>9. UNCHANGED <<connection, opened, sent, executed, shown>>
  BY DEF Writes
<1>10. Below({line.num} \ {0}, Nums(workers'[w].queue))
  <2>1. Ascending(q)
    BY DEF OrderInv
  <2>2. Below({line.num} \ {0}, Nums(Tail(q)))
    BY <2>1, <1>0, <1>4, TailAscending
  <2> QED
    BY <2>2, EmptyHolds DEF Writes, Below
<1>11. SessionInv'
  BY <1>0, <1>7, <1>9 DEF SessionInv
<1>12. ExclusiveInv'
  BY <1>7 DEF ExclusiveInv
<1>13. AddressInv'
  <2>1. {line.num} \ {0} \subseteq IssuedTo(d)
    BY <1>1 DEF AddressInv
  <2> QED
    <3>1. \A e \in Device :
            Elems(executed'[e]) \cup Nums(toHost'[e]) \cup Nums(toDevice'[e]) \subseteq IssuedTo(e)
      <4> SUFFICES ASSUME NEW e \in Device
                   PROVE  Elems(executed[e]) \cup Nums(toHost'[e]) \cup Nums(toDevice'[e]) \subseteq IssuedTo(e)
        BY <1>9
      <4>1. Elems(executed[e]) \cup Nums(toHost[e]) \cup Nums(toDevice[e]) \subseteq IssuedTo(e)
        BY DEF AddressInv
      <4> QED
        BY <4>1, <2>1, <1>2, <1>5, <1>6
    <3>2. \A e : IssuedTo(e)' = IssuedTo(e)
      BY <1>9 DEF IssuedTo
    <3>3. \A v \in Session :
            Nums(workers'[v].events) \cup Nums(workers'[v].queue) \subseteq IssuedTo(workers'[v].device)
      BY <1>7 DEF AddressInv
    <3>4. connection' # 0 => Elems(shown') \subseteq IssuedTo(workers'[connection'].device)
      BY <1>0, <1>7, <1>9 DEF AddressInv
    <3> QED
      BY <3>1, <3>2, <3>3, <3>4 DEF AddressInv
<1>14. OrderInv'
  <2>1. Below(Elems(executed[d]) \cup Nums(toHost[d]) \cup Nums(toDevice[d]), {line.num} \ {0})
    BY <1>0, <1>1 DEF OrderInv, Below
  <2>2. \A e \in Device : Ascending(toHost'[e]) /\ Ascending(toDevice'[e])
    <3>1. Below(Nums(toDevice[d]), {x.num} \ {0})
      BY <2>1, <1>3 DEF Below
    <3>2. Ascending(toDevice'[d])
      <4>1. Ascending(toDevice[d])
        BY <1>0 DEF OrderInv
      <4>2. Ascending(Append(toDevice[d], x))
        BY <4>1, <3>1, <1>3, <1>4, AppendAscending
      <4> QED
        BY <4>2, <1>2
    <3> QED
      BY <3>2, <1>2 DEF OrderInv, Writes, FewerOrUnknown, FewerOrElse
  <2>3. \A e \in Device : Below(Elems(executed'[e]) \cup Nums(toHost'[e]), Nums(toDevice'[e]))
    <3> SUFFICES ASSUME NEW e \in Device
                 PROVE  Below(Elems(executed[e]) \cup Nums(toHost'[e]), Nums(toDevice'[e]))
      BY <1>9
    <3>1. CASE e = d
      BY <3>1, <2>1, <1>5, <1>6, <1>0 DEF OrderInv, Below
    <3>2. CASE e # d
      BY <3>2, <1>2, <1>6 DEF OrderInv, Below
    <3> QED
      BY <3>1, <3>2
  <2>4. \A v \in Session : Ascending(workers'[v].queue) /\ Ascending(workers'[v].events)
    BY <1>7 DEF OrderInv
  <2>5. ASSUME NEW e \in Device, NEW v \in Session, Holds(v, e)'
        PROVE  Below(Elems(executed'[e]) \cup Nums(toHost'[e]) \cup Nums(toDevice'[e]),
                     Nums(workers'[v].queue))
    <3>1. Holds(v, e)
      BY <1>7, <2>5
    <3>2. Below(Elems(executed[e]) \cup Nums(toHost[e]) \cup Nums(toDevice[e]), Nums(workers[v].queue))
      BY <3>1 DEF OrderInv
    <3>3. CASE e = d
      <4>1. v = w
        BY <3>1, <3>3, <1>8
      <4> QED
        BY <4>1, <3>2, <3>3, <1>5, <1>6, <1>7, <1>9, <1>10 DEF Below
    <3>4. CASE e # d
      BY <3>2, <3>4, <1>2, <1>6, <1>7, <1>9 DEF Below
    <3> QED
      BY <3>3, <3>4
  <2> QED
    BY <2>2, <2>3, <2>4, <2>5 DEF OrderInv
<1>15. ShownInv'
  <2>1. SUFFICES ASSUME connection # 0
                 PROVE  /\ Below(Elems(shown), Nums(workers'[connection].events))
                        /\ workers'[connection].phase = "opening" => shown = <<>>
                        /\ \A e \in Device : Holds(connection, e)' =>
                             Below(Elems(shown) \cup Nums(workers'[connection].events),
                                   Nums(toHost'[e]) \cup Nums(toDevice'[e])
                                     \cup Nums(workers'[connection].queue))
    BY <1>9 DEF ShownInv
  <2>2. connection \in Session
    BY <2>1, <1>0
  <2>3. ASSUME NEW e \in Device, Holds(connection, e)'
        PROVE  Below(Elems(shown) \cup Nums(workers'[connection].events),
                     Nums(toHost'[e]) \cup Nums(toDevice'[e]) \cup Nums(workers'[connection].queue))
    <3>1. Holds(connection, e)
      BY <1>7, <1>9, <2>2, <2>3 DEF Holds
    <3>2. Below(Elems(shown) \cup Nums(workers[connection].events),
                Nums(toHost[e]) \cup Nums(toDevice[e]) \cup Nums(workers[connection].queue))
      BY <3>1, <2>1 DEF ShownInv
    <3>3. CASE e = d
      <4>1. connection = w
        BY <3>1, <3>3, <2>2, <1>8
      <4>2. Nums(toDevice'[e]) \subseteq Nums(toDevice[e]) \cup Nums(workers[connection].queue)
        BY <4>1, <3>3, <1>1, <1>5
      <4> QED
        BY <4>2, <3>2, <1>6, <1>7, <2>2 DEF Below
    <3>4. CASE e # d
      BY <3>2, <3>4, <1>2, <1>6, <1>7, <2>2 DEF Below
    <3> QED
      BY <3>3, <3>4
  <2> QED
    BY <2>1, <2>2, <2>3, <1>7 DEF ShownInv
<1>16. ConfigInv'
  <2>1. Asks(x)
    BY <1>1, <1>3 DEF ConfigInv
  <2> QED
    <3>1. \A e \in Device : \A l \in Elems(toDevice'[e]) : Asks(l)
      BY <2>1, <1>2, <1>5 DEF ConfigInv
    <3>2. \A e \in Device : \A a \in Elems(toHost'[e]) : Tells(a)
      <4>1. Tells(Unknown)
        BY Nameless DEF Tells
      <4> QED
        BY <4>1 DEF ConfigInv, Writes, FewerOrUnknown, FewerOrElse
    <3>3. \A v \in Session : (\A l \in Elems(workers'[v].queue) : Asks(l))
                               /\ (\A a \in Elems(workers'[v].events) : Tells(a))
      BY <1>7 DEF ConfigInv
    <3>4. \A l : (Asks(l)' <=> Asks(l)) /\ (Tells(l)' <=> Tells(l))
      BY <1>9 DEF Asks, Tells, Carries, Opened
    <3> QED
      BY <3>1, <3>2, <3>3, <3>4 DEF ConfigInv
<1> QED
  BY <1>11, <1>12, <1>13, <1>14, <1>15, <1>16

\* Whom a request was issued to, and what it asks for, is on record.
LEMMA OnRecord ==
  ASSUME UNCHANGED sent
  PROVE  /\ \A d : IssuedTo(d)' = IssuedTo(d)
         /\ \A l : (Asks(l)' <=> Asks(l)) /\ (Tells(l)' <=> Tells(l))
BY DEF IssuedTo, Asks, Tells, Carries, Opened

\* An answer goes from the line to the events of the session, unless nobody listens.
LEMMA ReadKeeps ==
  ASSUME LinkInv, NEW w \in Session, ReadAnswer(w)
  PROVE  FlowInv'
<1> USE DEF LinkInv, FlowInv
<1> DEFINE d == workers[w].device
           a == Head(toHost[d])
           told == workers'[w].events
<1>a. LinkTypeOK
  OBVIOUS
<1>0. /\ d \in Device /\ Holds(w, d) /\ toHost[d] \in Seq(Note) /\ toHost[d] # <<>>
      /\ workers[w].events \in Seq(Note) /\ Numbered(Note) /\ workers[w].phase = "running"
      /\ connection # 0 => connection \in Session
  BY <1>a, ChannelTypes DEF ReadAnswer, LinkTypeOK, Worker, Holds
<1>1. /\ a \in Note /\ a \in LineEvent \cup {Unknown} /\ Tail(toHost[d]) \in Seq(Note)
      /\ Elems(toHost[d]) = {a} \cup Elems(Tail(toHost[d]))
      /\ Nums(toHost[d]) = ({a.num} \ {0}) \cup Nums(Tail(toHost[d]))
  BY <1>0, <1>a, HeadAndTail, ChannelTypes
<1>2. /\ toHost'[d] = Tail(toHost[d])
      /\ \A e \in Device : e # d => toHost'[e] = toHost[e]
      /\ UNCHANGED <<connection, opened, sent, executed, shown, toDevice>>
  BY <1>0, <1>a DEF ReadAnswer, LinkTypeOK, gui
<1>3. /\ \A v \in Session : v # w => workers'[v] = workers[v]
      /\ workers'[w].device = d /\ workers'[w].phase = workers[w].phase
      /\ workers'[w].gone = workers[w].gone /\ workers'[w].queue = workers[w].queue
      /\ told \in {workers[w].events, Post(w, a)}
  BY <1>a DEF ReadAnswer, LinkTypeOK, Worker
<1>4. \/ told = workers[w].events
      \/ w = connection /\ a # Unknown /\ told = Append(workers[w].events, a)
  BY <1>3 DEF Post
<1>5. /\ Elems(told) \subseteq Elems(workers[w].events) \cup {a}
      /\ Nums(told) \subseteq Nums(workers[w].events) \cup ({a.num} \ {0})
  <2>1. CASE told = workers[w].events
    BY <2>1
  <2>2. CASE told = Append(workers[w].events, a)
    <3>1. /\ Elems(Append(workers[w].events, a)) = Elems(workers[w].events) \cup {a}
          /\ Nums(Append(workers[w].events, a)) = Nums(workers[w].events) \cup ({a.num} \ {0})
      BY <1>0, <1>1, AppendHolds
    <3> QED
      BY <2>2, <3>1
  <2> QED
    BY <1>4, <2>1, <2>2
<1>6. \A e \in Device : Nums(toHost'[e]) \subseteq Nums(toHost[e])
                          /\ Elems(toHost'[e]) \subseteq Elems(toHost[e])
  BY <1>1, <1>2
<1>7. \A v \in Session, e \in Device : Holds(v, e)' <=> Holds(v, e)
  BY <1>3 DEF Holds
<1>8. a \in Elems(toHost[d])
  BY <1>1
<1>9. SessionInv'
  <2>1. \A i \in DOMAIN told : told[i] = Opened => i = 1
    <3>1. CASE told = workers[w].events
      BY <3>1 DEF SessionInv
    <3>2. CASE told = Append(workers[w].events, a)
      <4>1. a # Opened
        BY <1>1, Nameless
      <4>2. \A i \in DOMAIN told :
              \/ i \in DOMAIN workers[w].events /\ told[i] = workers[w].events[i]
              \/ told[i] = a
        BY <1>0, <3>2
      <4> QED
        BY <4>1, <4>2 DEF SessionInv
    <3> QED
      BY <1>4, <3>1, <3>2
  <2>2. w # connection => told = <<>>
    BY <1>4 DEF SessionInv
  <2>3. \A v \in Session : workers'[v].phase = workers[v].phase /\ workers'[v].queue = workers[v].queue
    BY <1>3
  <2>4. \A v \in Session : workers'[v] # workers[v] => v = w /\ workers[v].phase = "running"
    BY <1>0, <1>3
  <2> QED
    <3>1. connection = 0 => opened = FALSE
      BY DEF SessionInv
    <3>2. connection # 0 => workers'[connection].phase # "unused"
      BY <1>0, <2>3 DEF SessionInv
    <3>3. opened => workers'[connection].phase \in {"running", "dead"}
      BY <1>0, <2>3, <3>1 DEF SessionInv
    <3>4. ASSUME NEW v \in Session
          PROVE  /\ workers'[v].phase = "unused" => workers'[v] = Unused
                 /\ workers'[v].phase \in {"unused", "opening"} =>
                      workers'[v].events = <<>> /\ Nums(workers'[v].queue) = {}
                 /\ v # connection => workers'[v].events = <<>>
                 /\ \A i \in DOMAIN workers'[v].events : workers'[v].events[i] = Opened => i = 1
      <4>1. CASE v = w
        BY <4>1, <1>0, <1>3, <2>1, <2>2
      <4>2. CASE v # w
        BY <4>2, <1>3 DEF SessionInv
      <4> QED
        BY <4>1, <4>2
    <3> QED
      BY <3>1, <3>2, <3>3, <3>4, <1>2 DEF SessionInv
<1>10. ExclusiveInv'
  BY <1>7 DEF ExclusiveInv
<1>11. AddressInv'
  <2>1. {a.num} \ {0} \subseteq IssuedTo(d)
    BY <1>0, <1>8 DEF AddressInv, Nums
  <2>2. \A e : IssuedTo(e)' = IssuedTo(e)
    BY <1>2, OnRecord
  <2>3. \A v \in Session :
          Nums(workers'[v].events) \cup Nums(workers'[v].queue) \subseteq IssuedTo(workers'[v].device)
    <3>1. Nums(told) \cup Nums(workers'[w].queue) \subseteq IssuedTo(d)
      BY <2>1, <1>3, <1>5 DEF AddressInv
    <3> QED
      BY <3>1, <1>3 DEF AddressInv
  <2>4. connection' # 0 => Elems(shown') \subseteq IssuedTo(workers'[connection'].device)
    BY <1>0, <1>2, <1>3 DEF AddressInv
  <2> QED
    BY <2>2, <2>3, <2>4, <1>2, <1>6 DEF AddressInv
<1>12. OrderInv'
  <2>1. \A e \in Device : Ascending(toHost'[e])
    BY <1>0, <1>2, TailAscending DEF OrderInv
  <2>2. Ascending(told)
    <3>1. CASE told = workers[w].events
      BY <3>1 DEF OrderInv
    <3>2. CASE w = connection /\ told = Append(workers[w].events, a)
      <4>1. Below(Nums(workers[w].events), Nums(toHost[d]))
        <5>1. w # 0
          BY LinkAssumption DEF Session
        <5> QED
          BY <5>1, <3>2, <1>0 DEF ShownInv, Below
      <4>2. Below(Nums(workers[w].events), {a.num} \ {0})
        BY <4>1, <1>1 DEF Below
      <4>3. Ascending(workers[w].events)
        BY DEF OrderInv
      <4>4. Ascending(Append(workers[w].events, a))
        BY <4>2, <4>3, <1>0, <1>1, AppendAscending
      <4> QED
        BY <4>4, <3>2
    <3> QED
      BY <1>4, <3>1, <3>2
  <2>3. \A v \in Session : Ascending(workers'[v].queue) /\ Ascending(workers'[v].events)
    BY <2>2, <1>3 DEF OrderInv
  <2> QED
    BY <2>1, <2>3, <1>2, <1>3, <1>6, <1>7 DEF OrderInv, Below
<1>13. ShownInv'
  <2>0. SUFFICES ASSUME connection # 0
                 PROVE  /\ Below(Elems(shown), Nums(workers'[connection].events))
                        /\ workers'[connection].phase = "opening" => shown = <<>>
                        /\ \A e \in Device : Holds(connection, e)' =>
                             Below(Elems(shown) \cup Nums(workers'[connection].events),
                                   Nums(toHost'[e]) \cup Nums(toDevice'[e])
                                     \cup Nums(workers'[connection].queue))
    BY <1>2 DEF ShownInv
  <2>1. connection \in Session
    BY <2>0, <1>0
  <2>2. CASE connection # w
    BY <2>0, <2>1, <2>2, <1>2, <1>3, <1>6, <1>7 DEF ShownInv, Below, Holds
  <2>3. CASE connection = w
    <3>1. Below(Elems(shown) \cup Nums(workers[w].events),
                Nums(toHost[d]) \cup Nums(toDevice[d]) \cup Nums(workers[w].queue))
      BY <2>0, <2>3, <1>0 DEF ShownInv
    <3>2. Below(Elems(shown), Nums(told))
      BY <3>1, <2>0, <2>3, <1>1, <1>5 DEF ShownInv, Below
    <3>3. Below({a.num} \ {0}, Nums(Tail(toHost[d])))
      BY <1>0, TailAscending DEF OrderInv
    <3>4. Below({a.num} \ {0}, Nums(toDevice[d]))
      BY <1>0, <1>1 DEF OrderInv, Below
    <3>5. Below({a.num} \ {0}, Nums(workers[w].queue))
      BY <1>0, <1>1 DEF OrderInv, Below
    <3>6. Below(Elems(shown) \cup Nums(told),
                Nums(toHost'[d]) \cup Nums(toDevice'[d]) \cup Nums(workers'[w].queue))
      BY <3>1, <3>3, <3>4, <3>5, <1>1, <1>2, <1>3, <1>5 DEF Below
    <3>7. \A e \in Device : Holds(connection, e)' => e = d
      BY <2>1, <2>3, <1>2, <1>3 DEF Holds
    <3> QED
      BY <3>2, <3>6, <3>7, <2>3, <1>0, <1>3
  <2> QED
    BY <2>2, <2>3
<1>14. ConfigInv'
  <2>1. Tells(a)
    BY <1>0, <1>8 DEF ConfigInv
  <2>2. \A v \in Session : (\A l \in Elems(workers'[v].queue) : Asks(l))
                             /\ (\A e \in Elems(workers'[v].events) : Tells(e))
    BY <2>1, <1>3, <1>5 DEF ConfigInv
  <2>3. \A l : (Asks(l)' <=> Asks(l)) /\ (Tells(l)' <=> Tells(l))
    BY <1>2, OnRecord
  <2> QED
    BY <2>2, <2>3, <1>2, <1>6 DEF ConfigInv
<1> QED
  BY <1>9, <1>10, <1>11, <1>12, <1>13, <1>14

\* A worker that gets the port open has nothing to write yet, and nobody else has the device.
LEMMA OpenKeeps ==
  ASSUME LinkInv, NEW w \in Session, OpenPort(w)
  PROVE  FlowInv'
<1> USE DEF LinkInv, FlowInv
<1>a. LinkTypeOK
  OBVIOUS
<1>0. PICK d \in Device :
        /\ CanOpen(w, d)
        /\ workers' = [workers EXCEPT ![w] =
             [port |-> workers[w].port, device |-> d, phase |-> "running", gone |-> workers[w].gone,
              queue |-> workers[w].queue, events |-> Post(w, Opened)]]
  BY DEF OpenPort
<1>1. UNCHANGED <<connection, opened, shown, sent, executed, toDevice, toHost>>
  BY DEF OpenPort, gui, wire, history
<1>2. /\ \A v \in Session : v # w => workers'[v] = workers[v]
      /\ workers'[w].device = d /\ workers'[w].phase = "running" /\ workers'[w].queue = workers[w].queue
      /\ workers'[w].events = Post(w, Opened)
  BY <1>0 DEF LinkTypeOK
<1>3. /\ workers[w].phase = "opening" /\ workers[w].events = <<>> /\ Nums(workers[w].queue) = {}
      /\ w = connection => shown = <<>> /\ opened = FALSE
  <2>1. w # 0
    BY LinkAssumption DEF Session
  <2> QED
    BY <2>1 DEF OpenPort, SessionInv, ShownInv, LinkTypeOK
<1>4. workers'[w].events = <<>> \/ (w = connection /\ workers'[w].events = <<Opened>>)
  <2>1. Append(<<>>, Opened) = <<Opened>>
    OBVIOUS
  <2>2. Post(w, Opened) = IF w = connection THEN Append(<<>>, Opened) ELSE <<>>
    BY <1>3, Nameless DEF Post
  <2> QED
    BY <1>2, <2>1, <2>2
<1>5. /\ Nums(workers'[w].events) = {} /\ Ascending(workers'[w].events)
      /\ \A e \in Elems(workers'[w].events) : e = Opened
      /\ \A i \in DOMAIN workers'[w].events : i = 1
  <2>1. CASE workers'[w].events = <<>>
    BY <2>1, EmptyHolds
  <2>2. CASE workers'[w].events = <<Opened>>
    BY <2>2, Nameless DEF Elems, Nums, Ascending
  <2> QED
    BY <1>4, <2>1, <2>2
<1>6. \A v \in Session, e \in Device : Holds(v, e)' => Holds(v, e) \/ (v = w /\ e = d)
  BY <1>2 DEF Holds
<1>7. \A v \in Session : ~Holds(v, d)
  BY <1>0 DEF CanOpen
<1>8. connection # 0 => connection \in Session
  BY <1>a, ChannelTypes
<1>9. SessionInv'
  <2>1. connection # 0 => workers'[connection].phase # "unused"
    BY <1>2, <1>8 DEF SessionInv
  <2>2. connection = 0 => opened = FALSE
    BY DEF SessionInv
  <2>3. opened => workers'[connection].phase \in {"running", "dead"}
    BY <1>2, <1>8, <2>2 DEF SessionInv
  <2>4. ASSUME NEW v \in Session
        PROVE  /\ workers'[v].phase = "unused" => workers'[v] = Unused
               /\ workers'[v].phase \in {"unused", "opening"} =>
                    workers'[v].events = <<>> /\ Nums(workers'[v].queue) = {}
               /\ v # connection => workers'[v].events = <<>>
               /\ \A i \in DOMAIN workers'[v].events : workers'[v].events[i] = Opened => i = 1
    <3>1. CASE v = w
      BY <3>1, <1>2, <1>4, <1>5
    <3>2. CASE v # w
      BY <3>2, <1>2 DEF SessionInv
    <3> QED
      BY <3>1, <3>2
  <2> QED
    BY <2>1, <2>2, <2>3, <2>4, <1>1 DEF SessionInv
<1>10. ExclusiveInv'
  BY <1>6, <1>7 DEF ExclusiveInv
<1>11. AddressInv'
  <2>1. \A e : IssuedTo(e)' = IssuedTo(e)
    BY <1>1, OnRecord
  <2>2. connection # 0 => Elems(shown) \subseteq IssuedTo(workers'[connection].device)
    BY <1>2, <1>3, <1>8, EmptyHolds DEF AddressInv
  <2> QED
    BY <2>1, <2>2, <1>1, <1>2, <1>3, <1>5 DEF AddressInv
<1>12. OrderInv'
  BY <1>1, <1>2, <1>3, <1>5, <1>6 DEF OrderInv, Below
<1>13. ShownInv'
  <2>1. CASE connection = w
    BY <2>1, <1>1, <1>2, <1>3, <1>5, <1>8, EmptyHolds DEF ShownInv, Below
  <2>2. CASE connection # w
    BY <2>2, <1>1, <1>2, <1>6, <1>8 DEF ShownInv, Below
  <2> QED
    BY <2>1, <2>2
<1>14. ConfigInv'
  <2>1. \A l : (Asks(l)' <=> Asks(l)) /\ (Tells(l)' <=> Tells(l))
    BY <1>1, OnRecord
  <2>2. Tells(Opened)
    BY Nameless DEF Tells
  <2> QED
    BY <2>1, <2>2, <1>1, <1>2, <1>5 DEF ConfigInv
<1> QED
  BY <1>9, <1>10, <1>11, <1>12, <1>13, <1>14

\* A device takes the first line and answers it, or its answer is lost.
Replies(d) ==
  LET n == Head(toDevice[d]).num IN
  /\ toDevice[d] # <<>>
  /\ toDevice' = [toDevice EXCEPT ![d] = Tail(@)]
  /\ executed' = IF n = 0 THEN executed ELSE [executed EXCEPT ![d] = Append(@, n)]
  /\ \/ toHost' = toHost
     \/ \E a \in LineEvent \cup {Unknown} :
          /\ a.num \in {0, n} /\ Tells(a)
          /\ toHost' = [toHost EXCEPT ![d] = Append(@, a)]
  /\ UNCHANGED <<connection, opened, workers, sent, shown>>

\* A device does with a line what the line asks for.
Answering(d) ==
  \/ HandleQuery(d) \/ HandleGetConfig(d) \/ HandleSetConfig(d)
  \/ HandleFactoryReset(d) \/ HandleReboot(d) \/ HandleGarbled(d)

\* What a device answers carries a configuration only if it was asked for one.
LEMMA DeviceReplies ==
  ASSUME LinkInv, NEW d \in Device, Answering(d)
  PROVE  Replies(d)
<1> DEFINE l == Head(toDevice[d])
<1>1. toDevice[d] # <<>> /\ l \in QueuedRequest \cup {Garbled} /\ l \in Elems(toDevice[d])
  <2>1. toDevice[d] # <<>>
    BY DEF Answering, HandleQuery, HandleGetConfig, HandleSetConfig, HandleFactoryReset,
           HandleReboot, HandleGarbled, Ready, Reads
  <2>2. toDevice[d] \in Seq(Line) /\ Elems(toDevice[d]) \subseteq QueuedRequest \cup {Garbled}
    BY ChannelTypes DEF LinkInv
  <2> QED
    BY <2>1, <2>2, HeadAndTail
<1>2. ASSUME NEW t \in Text \cup {NoText}, NEW up, Reply(d, t, up),
             l.num # 0 \/ t = NoText, t # NoText => sent[l.num].config
      PROVE  Replies(d)
  <2> DEFINE a == IF hostTail[d] THEN Unknown ELSE Answer(l.num, t)
  <2>1. a \in LineEvent \cup {Unknown}
    <3>1. l.num # 0 => l.num \in 1..MaxRequest
      BY <1>1, Nameless DEF QueuedRequest
    <3> QED
      BY <3>1, <1>2 DEF LineEvent, Unknown
  <2>2. a.num \in {0, l.num} /\ Tells(a)
    BY <1>2, Nameless DEF Tells, Carries, Answer, Opened
  <2> QED
    BY <2>1, <2>2, <1>1, <1>2 DEF Replies, Reply, gui
<1>3. NoText \in Text \cup {NoText}
  OBVIOUS
<1>4. CASE HandleQuery(d)
  BY <1>2, <1>3, <1>4 DEF HandleQuery
<1>5. CASE HandleGetConfig(d)
  <2>1. l.cmd = "get_config"
    BY <1>5 DEF HandleGetConfig, Ready
  <2>2. config[d] \in Text /\ l.num # 0 /\ sent[l.num].config
    BY <2>1, <1>1, Nameless DEF LinkInv, LinkTypeOK, FlowInv, ConfigInv, Asks
  <2> QED
    BY <1>2, <1>3, <1>5, <2>2 DEF HandleGetConfig
<1>6. CASE HandleSetConfig(d)
  <2>1. l.cmd = "set_config"
    BY <1>6 DEF HandleSetConfig, Ready
  <2>2. l.num # 0 /\ sent[l.num].config
    BY <2>1, <1>1, Nameless DEF LinkInv, FlowInv, ConfigInv, Asks
  <2>3. TextOf(Kind[d]) \subseteq Text
    BY DEF TextOf, Text
  <2> QED
    BY <1>2, <1>3, <1>6, <2>2, <2>3 DEF HandleSetConfig
<1>7. CASE HandleFactoryReset(d)
  BY <1>2, <1>3, <1>7 DEF HandleFactoryReset
<1>8. CASE HandleReboot(d)
  BY <1>2, <1>3, <1>8 DEF HandleReboot
<1>9. CASE HandleGarbled(d)
  BY <1>2, <1>3, <1>9 DEF HandleGarbled
<1> QED
  BY <1>4, <1>5, <1>6, <1>7, <1>8, <1>9 DEF Answering

\* The line's number becomes the last one executed, and that of the last answer.
LEMMA ReplyKeeps ==
  ASSUME LinkInv, NEW d \in Device, Replies(d)
  PROVE  FlowInv'
<1> USE DEF LinkInv, FlowInv
<1> DEFINE l == Head(toDevice[d])
           N == {l.num} \ {0}
<1>a. LinkTypeOK
  OBVIOUS
<1>0. /\ toDevice[d] \in Seq(Line) /\ toDevice[d] # <<>> /\ Numbered(Line) /\ Numbered(Note)
      /\ toHost[d] \in Seq(Note) /\ executed[d] \in Seq(1..MaxRequest)
      /\ Elems(toDevice[d]) \subseteq QueuedRequest \cup {Garbled}
      /\ connection # 0 => connection \in Session
  BY <1>a, ChannelTypes DEF Replies, LinkTypeOK
<1>1. /\ l \in Elems(toDevice[d]) /\ Tail(toDevice[d]) \in Seq(Line)
      /\ Elems(toDevice[d]) = {l} \cup Elems(Tail(toDevice[d]))
      /\ Nums(toDevice[d]) = N \cup Nums(Tail(toDevice[d]))
      /\ Ascending(Tail(toDevice[d])) /\ Below(N, Nums(Tail(toDevice[d])))
  <2>1. Ascending(toDevice[d])
    BY DEF OrderInv
  <2> QED
    BY <2>1, <1>0, HeadAndTail, TailAscending
<1>2. /\ toDevice'[d] = Tail(toDevice[d])
      /\ \A e \in Device : e # d => toDevice'[e] = toDevice[e]
      /\ UNCHANGED <<connection, opened, workers, sent, shown>>
  BY <1>a DEF Replies, LinkTypeOK
<1>3. /\ \A e \in Device : e # d => executed'[e] = executed[e]
      /\ Elems(executed'[d]) = Elems(executed[d]) \cup N
  <2>1. CASE l.num = 0
    BY <2>1 DEF Replies
  <2>2. CASE l.num # 0
    <3>1. executed' = [executed EXCEPT ![d] = Append(executed[d], l.num)]
      BY <2>2 DEF Replies
    <3>2. l.num \in 1..MaxRequest
      BY <2>2, <1>0, <1>1, Nameless DEF QueuedRequest
    <3>3. Elems(Append(executed[d], l.num)) = Elems(executed[d]) \cup {l.num}
      <4>1. PICK S : S = 1..MaxRequest
        OBVIOUS
      <4>2. executed[d] \in Seq(S) /\ l.num \in S
        BY <1>0, <3>2, <4>1
      <4> QED
        BY <4>2, AppendElems
    <3>4. executed \in [Device -> Seq(1..MaxRequest)]
      BY <1>a DEF LinkTypeOK
    <3> QED
      BY <2>2, <3>1, <3>3, <3>4
  <2> QED
    BY <2>1, <2>2
<1>4. /\ \A e \in Device : e # d => toHost'[e] = toHost[e]
      /\ Nums(toHost'[d]) \subseteq Nums(toHost[d]) \cup N
      /\ \A a \in Elems(toHost'[d]) : a \in Elems(toHost[d]) \/ Tells(a)
      /\ Ascending(toHost'[d])
  <2>1. CASE toHost' = toHost
    BY <2>1 DEF OrderInv
  <2>2. CASE toHost' # toHost
    <3>1. PICK a \in LineEvent \cup {Unknown} :
            a.num \in {0, l.num} /\ Tells(a) /\ toHost' = [toHost EXCEPT ![d] = Append(toHost[d], a)]
      BY <2>2 DEF Replies
    <3>2. a \in Note /\ toHost \in [Device -> Seq(LineEvent \cup {Unknown})]
      BY <3>1, <1>a DEF Note, LinkTypeOK
    <3>3. /\ Elems(Append(toHost[d], a)) = Elems(toHost[d]) \cup {a}
          /\ Nums(Append(toHost[d], a)) = Nums(toHost[d]) \cup ({a.num} \ {0})
      BY <1>0, <3>2, AppendHolds
    <3>4. Below(Nums(toHost[d]), {a.num} \ {0})
      BY <3>1, <1>1 DEF OrderInv, Below
    <3>5. Ascending(toHost[d])
      BY DEF OrderInv
    <3>6. Ascending(Append(toHost[d], a))
      BY <3>4, <3>5, <3>2, <1>0, AppendAscending
    <3> QED
      BY <3>1, <3>2, <3>3, <3>6
  <2> QED
    BY <2>1, <2>2
<1>5. \A v, e : Holds(v, e)' <=> Holds(v, e)
  BY <1>2 DEF Holds
<1>6. SessionInv' /\ ExclusiveInv'
  BY <1>2, <1>5 DEF SessionInv, ExclusiveInv
<1>7. AddressInv'
  <2>1. N \subseteq IssuedTo(d)
    BY <1>1 DEF AddressInv
  <2>2. \A e : IssuedTo(e)' = IssuedTo(e)
    BY <1>2, OnRecord
  <2>3. ASSUME NEW e \in Device
        PROVE  Elems(executed'[e]) \cup Nums(toHost'[e]) \cup Nums(toDevice'[e]) \subseteq IssuedTo(e)
    <3>1. CASE e = d
      BY <3>1, <2>1, <1>1, <1>2, <1>3, <1>4 DEF AddressInv
    <3>2. CASE e # d
      BY <3>2, <1>2, <1>3, <1>4 DEF AddressInv
    <3> QED
      BY <3>1, <3>2
  <2> QED
    BY <2>2, <2>3, <1>2 DEF AddressInv
<1>8. OrderInv'
  <2>1. ASSUME NEW e \in Device
        PROVE  /\ Ascending(toHost'[e]) /\ Ascending(toDevice'[e])
               /\ Below(Elems(executed'[e]) \cup Nums(toHost'[e]), Nums(toDevice'[e]))
    <3>1. CASE e = d
      BY <3>1, <1>1, <1>2, <1>3, <1>4 DEF OrderInv, Below
    <3>2. CASE e # d
      BY <3>2, <1>2, <1>3, <1>4 DEF OrderInv
    <3> QED
      BY <3>1, <3>2
  <2>2. ASSUME NEW e \in Device, NEW v \in Session, Holds(v, e)
        PROVE  Below(Elems(executed'[e]) \cup Nums(toHost'[e]) \cup Nums(toDevice'[e]),
                     Nums(workers[v].queue))
    <3>1. CASE e = d
      BY <2>2, <3>1, <1>1, <1>2, <1>3, <1>4 DEF OrderInv, Below
    <3>2. CASE e # d
      BY <2>2, <3>2, <1>2, <1>3, <1>4 DEF OrderInv
    <3> QED
      BY <3>1, <3>2
  <2> QED
    BY <2>1, <2>2, <1>2, <1>5 DEF OrderInv
<1>9. ShownInv'
  <2>1. ASSUME connection # 0, NEW e \in Device, Holds(connection, e)
        PROVE  Below(Elems(shown) \cup Nums(workers[connection].events),
                     Nums(toHost'[e]) \cup Nums(toDevice'[e]) \cup Nums(workers[connection].queue))
    <3>1. CASE e = d
      BY <2>1, <3>1, <1>1, <1>2, <1>4 DEF ShownInv, Below
    <3>2. CASE e # d
      BY <2>1, <3>2, <1>2, <1>4 DEF ShownInv
    <3> QED
      BY <3>1, <3>2
  <2> QED
    BY <2>1, <1>2, <1>5 DEF ShownInv
<1>10. ConfigInv'
  <2>1. \A m : (Asks(m)' <=> Asks(m)) /\ (Tells(m)' <=> Tells(m))
    BY <1>2, OnRecord
  <2>2. \A e \in Device : (\A m \in Elems(toDevice'[e]) : Asks(m)) /\ (\A m \in Elems(toHost'[e]) : Tells(m))
    BY <1>1, <1>2, <1>4 DEF ConfigInv
  <2> QED
    BY <2>1, <2>2, <1>2 DEF ConfigInv
<1> QED
  BY <1>6, <1>7, <1>8, <1>9, <1>10

---------------------------------------------------------------------------
(* Steps of the GUI                                                        *)

\* A new session has an empty queue and nothing shown.
LEMMA ConnectKeeps ==
  ASSUME LinkInv, NEW p \in Port, Connect(p)
  PROVE  FlowInv'
<1> USE DEF LinkInv, FlowInv
<1>1. PICK w \in Session :
        workers[w].phase = "unused" /\ connection' = w /\ workers' = [workers EXCEPT ![w] = Starting(p)]
  BY DEF Connect
<1>2. /\ connection = 0 /\ opened' = FALSE /\ shown' = <<>>
      /\ UNCHANGED <<sent, executed, toDevice, toHost>>
  BY DEF Connect, wire
<1>3. /\ \A v \in Session : v # w => workers'[v] = workers[v]
      /\ workers'[w] = Starting(p) /\ workers[w] = Unused
  BY <1>1 DEF LinkTypeOK, SessionInv
<1>4. /\ workers'[w].phase = "opening" /\ workers'[w].queue = <<>> /\ workers'[w].events = <<>>
      /\ workers'[w].device = workers[w].device
  BY <1>3 DEF Starting, Unused
<1>5. \A v \in Session, e \in Device : Holds(v, e)' => Holds(v, e) /\ v # w
  BY <1>3, <1>4 DEF Holds
<1>6. w # 0
  BY LinkAssumption DEF Session
<1>7. SessionInv'
  <2>1. Nums(workers'[w].queue) = {} /\ \A v \in Session : workers[v].events = <<>>
    BY <1>2, <1>4, <1>6, EmptyHolds DEF SessionInv, Session
  <2>2. ASSUME NEW v \in Session
        PROVE  /\ workers'[v].phase = "unused" => workers'[v] = Unused
               /\ workers'[v].phase \in {"unused", "opening"} =>
                    workers'[v].events = <<>> /\ Nums(workers'[v].queue) = {}
               /\ workers'[v].events = <<>>
    <3>1. CASE v = w
      BY <3>1, <2>1, <1>4
    <3>2. CASE v # w
      BY <3>2, <2>1, <1>3 DEF SessionInv
    <3> QED
      BY <3>1, <3>2
  <2> QED
    BY <2>2, <1>1, <1>2, <1>4, <1>6, EmptyHolds DEF SessionInv
<1>8. ExclusiveInv'
  BY <1>5 DEF ExclusiveInv
<1>9. AddressInv'
  BY <1>2, <1>3, <1>4, EmptyHolds, OnRecord DEF AddressInv
<1>10. OrderInv'
  BY <1>2, <1>3, <1>4, <1>5, EmptyHolds DEF OrderInv
<1>11. ShownInv'
  BY <1>1, <1>2, <1>4, <1>5, EmptyHolds DEF ShownInv, Below
<1>12. ConfigInv'
  BY <1>2, <1>3, <1>4, EmptyHolds, OnRecord DEF ConfigInv
<1> QED
  BY <1>7, <1>8, <1>9, <1>10, <1>11, <1>12

\* The session that is left is told to close, behind all its requests, and forgotten.
LEMMA DisconnectKeeps ==
  ASSUME LinkInv, Disconnect
  PROVE  FlowInv'
<1> USE DEF LinkInv, FlowInv
<1> DEFINE c == connection
           q == workers[c].queue
<1>a. LinkTypeOK
  OBVIOUS
<1>1. /\ c \in Session /\ connection' = 0 /\ opened' = FALSE /\ shown' = <<>>
      /\ UNCHANGED <<sent, executed, toDevice, toHost>>
  BY <1>a, ChannelTypes DEF Disconnect, wire
<1>2. /\ \A v \in Session : v # c => workers'[v] = workers[v]
      /\ workers'[c].device = workers[c].device /\ workers'[c].phase = workers[c].phase
      /\ workers'[c].gone = workers[c].gone /\ workers'[c].events = <<>>
      /\ workers'[c].queue \in {q, Append(q, Close)}
  BY <1>1 DEF Disconnect, LinkTypeOK
<1>3. /\ Nums(workers'[c].queue) = Nums(q) /\ Ascending(workers'[c].queue)
      /\ Elems(workers'[c].queue) \subseteq Elems(q) \cup {Close}
  <2>1. q \in Seq(Line) /\ Numbered(Line) /\ Close \in Line /\ Ascending(q)
    BY <1>a, <1>1, ChannelTypes DEF Line, OrderInv
  <2>2. Elems(Append(q, Close)) = Elems(q) \cup {Close} /\ Nums(Append(q, Close)) = Nums(q) \cup {}
    <3>1. {Close.num} \ {0} = {}
      BY Nameless
    <3>2. Elems(Append(q, Close)) = Elems(q) \cup {Close}
          /\ Nums(Append(q, Close)) = Nums(q) \cup ({Close.num} \ {0})
      BY <2>1, AppendHolds
    <3> QED
      BY <3>1, <3>2
  <2>3. Below(Nums(q), {Close.num} \ {0})
    BY Nameless DEF Below
  <2>4. Ascending(Append(q, Close))
    BY <2>1, <2>3, AppendAscending
  <2> QED
    BY <1>2, <2>1, <2>2, <2>4
<1>4. \A v \in Session, e \in Device : Holds(v, e)' => Holds(v, e)
  BY <1>2 DEF Holds
<1>5. workers[c].phase # "unused" /\ (workers[c].phase = "opening" => Nums(q) = {})
  BY <1>1 DEF SessionInv, Disconnect
<1>6. SessionInv'
  <2>1. \A v \in Session : v # c => workers[v].events = <<>>
    BY DEF SessionInv
  <2>2. ASSUME NEW v \in Session
        PROVE  /\ workers'[v].phase = "unused" => workers'[v] = Unused
               /\ workers'[v].phase \in {"unused", "opening"} =>
                    workers'[v].events = <<>> /\ Nums(workers'[v].queue) = {}
               /\ workers'[v].events = <<>>
    BY <2>1, <1>2, <1>3, <1>5 DEF SessionInv
  <2> QED
    BY <2>2, <1>1, EmptyHolds DEF SessionInv
<1>7. ExclusiveInv'
  BY <1>4 DEF ExclusiveInv
<1>8. AddressInv'
  BY <1>1, <1>2, <1>3, EmptyHolds, OnRecord DEF AddressInv
<1>9. OrderInv'
  BY <1>1, <1>2, <1>3, <1>4, EmptyHolds DEF OrderInv
<1>10. ShownInv'
  BY <1>1 DEF ShownInv
<1>11. ConfigInv'
  <2>1. Asks(Close)
    BY Nameless DEF Asks
  <2> QED
    BY <2>1, <1>1, <1>2, <1>3, EmptyHolds, OnRecord DEF ConfigInv
<1> QED
  BY <1>6, <1>7, <1>8, <1>9, <1>10, <1>11

\* What sending a request changes: it is recorded, and waits with a worker that lives.
Records(c, n, l) ==
  /\ connection \in Session
  /\ DOMAIN sent' = DOMAIN sent \cup {n} /\ n \notin DOMAIN sent /\ n \in 1..MaxRequest
  /\ \A m \in DOMAIN sent : sent'[m] = sent[m] /\ m < n
  /\ sent'[n].device = workers[connection].device /\ sent'[n].session = connection
  /\ sent'[n].config = (c \in {"get_config", "set_config"})
  /\ sent'[n].fits = (l.text \notin LongRequest[Kind[workers[connection].device]])
  /\ \A v \in Session : v # connection => workers'[v] = workers[v]
  /\ workers'[connection].device = workers[connection].device
  /\ workers'[connection].phase = workers[connection].phase
  /\ workers'[connection].gone = workers[connection].gone
  /\ workers'[connection].events = workers[connection].events
  /\ workers'[connection].queue = IF workers[connection].phase = "dead" THEN workers[connection].queue
                                  ELSE Append(workers[connection].queue, l)
  /\ UNCHANGED <<executed, shown, swallowed, unanswered, interrupted>>

\* A request gets the next number.
LEMMA SendRecords ==
  ASSUME LinkInv, NEW c \in Command, NEW t \in Text \cup {NoText}, Send(c, t), connection # 0
  PROVE  Records(c, Len(sent) + 1, Request(Len(sent) + 1, c, t))
<1> USE DEF LinkInv, FlowInv
<1>b. PICK n : n = Len(sent) + 1
  OBVIOUS
<1>c. PICK l : l = Request(n, c, t)
  OBVIOUS
<1> DEFINE w == connection
<1>a. LinkTypeOK
  OBVIOUS
<1>0. w \in Session /\ sent \in Seq(Sent) /\ Len(sent) \in Nat /\ n \in 1..MaxRequest
  BY <1>a, <1>b, ChannelTypes DEF LinkTypeOK, Send
<1>2. /\ DOMAIN sent' = DOMAIN sent \cup {n} /\ n \notin DOMAIN sent
      /\ \A m \in DOMAIN sent : sent'[m] = sent[m] /\ m < n
      /\ sent'[n].device = workers[w].device /\ sent'[n].config = (c \in {"get_config", "set_config"})
      /\ sent'[n].session = w /\ sent'[n].fits = (t \notin LongRequest[Kind[workers[w].device]])
  <2> DEFINE r == [device |-> workers[w].device, session |-> w,
                  config |-> c \in {"get_config", "set_config"},
                  fits |-> t \notin LongRequest[Kind[workers[w].device]]]
  <2>1. sent' = Append(sent, r) /\ r \in Sent
    BY <1>0, <1>a DEF Send, Sent, LinkTypeOK, Worker
  <2> HIDE DEF r
  <2>2. /\ Len(Append(sent, r)) = n /\ Append(sent, r)[n] = r
        /\ \A m \in 1..Len(sent) : Append(sent, r)[m] = sent[m]
        /\ DOMAIN Append(sent, r) = 1..n /\ DOMAIN sent = 1..Len(sent)
    BY <2>1, <1>0, <1>b
  <2>3. \A m : m \in 1..n <=> m \in 1..Len(sent) \/ m = n
    BY <1>0, <1>b
  <2>4. sent'[n] = r /\ DOMAIN sent' = DOMAIN sent \cup {n} /\ n \notin DOMAIN sent
        /\ \A m \in DOMAIN sent : sent'[m] = sent[m] /\ m < n
    BY <2>1, <2>2, <2>3, <1>0, <1>b
  <2> QED
    BY <2>4 DEF r
<1>6. /\ \A v \in Session : v # w => workers'[v] = workers[v]
      /\ workers'[w].device = workers[w].device /\ workers'[w].phase = workers[w].phase
      /\ workers'[w].gone = workers[w].gone /\ workers'[w].events = workers[w].events
      /\ workers'[w].queue = IF workers[w].phase = "dead" THEN workers[w].queue
                             ELSE Append(workers[w].queue, l)
  BY <1>0, <1>a, <1>b, <1>c DEF Send, LinkTypeOK, Worker
<1>7. Records(c, n, l)
  <2>1. l.text = t
    BY <1>c DEF Request
  <2> QED
    BY <2>1, <1>0, <1>2, <1>6 DEF Send, Records
<1> QED
  BY <1>b, <1>c, <1>7

\* A new request is above all others.
LEMMA SendKeeps ==
  ASSUME LinkInv, NEW c \in Command, NEW t \in Text \cup {NoText}, Send(c, t),
         connection # 0, opened, UNCHANGED <<connection, opened, toDevice, toHost>>
  PROVE  FlowInv'
<1> DEFINE w == connection
           q == workers[w].queue
           NowTo(e) == {m \in DOMAIN sent' : sent'[m].device = e}
<1>b. PICK n : n = Len(sent) + 1
  OBVIOUS
<1>c. PICK l : l = Request(n, c, t)
  OBVIOUS
<1>d. Records(c, n, l)
  BY <1>b, <1>c, SendRecords
<1> USE DEF LinkInv, FlowInv
<1>a. LinkTypeOK
  OBVIOUS
<1>0. /\ w \in Session /\ sent \in Seq(Sent) /\ Len(sent) \in Nat /\ n \in 1..MaxRequest
      /\ workers[w].phase \in {"running", "dead"} /\ w # 0
  BY <1>a, <1>b, ChannelTypes DEF LinkTypeOK, Send, SessionInv
<1>1. UNCHANGED <<connection, opened, toDevice, toHost, executed, shown>>
  BY DEF Send
<1>2. /\ DOMAIN sent' = DOMAIN sent \cup {n} /\ n \notin DOMAIN sent
      /\ \A m \in DOMAIN sent : sent'[m] = sent[m] /\ m < n
      /\ sent'[n].device = workers[w].device /\ sent'[n].config = (c \in {"get_config", "set_config"})
      /\ sent'[n].fits = (l.text \notin LongRequest[Kind[workers[w].device]])
  BY <1>d DEF Records
<1>3. \A e : IssuedTo(e) \subseteq NowTo(e) /\ IssuedTo(e) \subseteq DOMAIN sent
  BY <1>2 DEF IssuedTo
<1>4. n \in NowTo(workers[w].device)
  BY <1>2
<1>5. /\ l \in Line /\ l.num = n /\ l.cmd = c /\ n # 0
      /\ q \in Seq(Line) /\ Numbered(Line)
  BY <1>0, <1>a, <1>c, ChannelTypes DEF Request, Line, QueuedRequest
<1>6. /\ \A v \in Session : v # w => workers'[v] = workers[v]
      /\ workers'[w].device = workers[w].device /\ workers'[w].phase = workers[w].phase
      /\ workers'[w].gone = workers[w].gone /\ workers'[w].events = workers[w].events
      /\ workers'[w].queue \in {q, Append(q, l)}
  BY <1>d DEF Records
<1>7. /\ Elems(workers'[w].queue) \subseteq Elems(q) \cup {l}
      /\ Nums(workers'[w].queue) \subseteq Nums(q) \cup {n}
      /\ Ascending(workers'[w].queue)
  <2>1. Nums(q) \subseteq DOMAIN sent
    BY <1>0, <1>3 DEF AddressInv
  <2>2. Ascending(q)
    BY <1>0 DEF OrderInv
  <2>3. Below(Nums(q), {l.num} \ {0})
    BY <2>1, <1>2, <1>5 DEF Below
  <2>4. Ascending(Append(q, l))
    BY <2>2, <2>3, <1>5, AppendAscending
  <2>5. Elems(Append(q, l)) = Elems(q) \cup {l} /\ Nums(Append(q, l)) = Nums(q) \cup ({l.num} \ {0})
    BY <1>5, AppendHolds
  <2> QED
    BY <2>2, <2>4, <2>5, <1>5, <1>6
<1>8. \A v \in Session, e \in Device : Holds(v, e)' <=> Holds(v, e)
  BY <1>6 DEF Holds
<1>9. SessionInv'
  BY <1>0, <1>1, <1>6 DEF SessionInv
<1>10. ExclusiveInv'
  BY <1>8 DEF ExclusiveInv
<1>11. AddressInv'
  <2>1. ASSUME NEW v \in Session
        PROVE  Nums(workers'[v].events) \cup Nums(workers'[v].queue) \subseteq NowTo(workers'[v].device)
    <3>1. Nums(workers[v].events) \cup Nums(workers[v].queue) \subseteq NowTo(workers[v].device)
      BY <1>3 DEF AddressInv
    <3>2. CASE v = w
      BY <3>1, <3>2, <1>4, <1>6, <1>7
    <3>3. CASE v # w
      BY <3>1, <3>3, <1>6
    <3> QED
      BY <3>2, <3>3
  <2>2. \A e \in Device :
          Elems(executed[e]) \cup Nums(toHost[e]) \cup Nums(toDevice[e]) \subseteq NowTo(e)
    BY <1>3 DEF AddressInv
  <2>3. Elems(shown) \subseteq NowTo(workers'[w].device)
    BY <1>0, <1>3, <1>6 DEF AddressInv
  <2> QED
    BY <2>1, <2>2, <2>3, <1>1 DEF AddressInv, IssuedTo
<1>12. OrderInv'
  <2>1. ASSUME NEW e \in Device, NEW v \in Session, Holds(v, e)
        PROVE  Below(Elems(executed[e]) \cup Nums(toHost[e]) \cup Nums(toDevice[e]),
                     Nums(workers'[v].queue))
    <3>1. CASE v = w
      <4>1. Elems(executed[e]) \cup Nums(toHost[e]) \cup Nums(toDevice[e]) \subseteq DOMAIN sent
        BY <1>3 DEF AddressInv
      <4> QED
        BY <2>1, <3>1, <4>1, <1>2, <1>7 DEF OrderInv, Below
    <3>2. CASE v # w
      BY <2>1, <3>2, <1>6 DEF OrderInv
    <3> QED
      BY <3>1, <3>2
  <2> QED
    BY <2>1, <1>1, <1>6, <1>7, <1>8 DEF OrderInv
<1>13. ShownInv'
  <2>1. ASSUME NEW e \in Device, Holds(w, e)
        PROVE  Below(Elems(shown) \cup Nums(workers[w].events),
                     Nums(toHost[e]) \cup Nums(toDevice[e]) \cup Nums(workers'[w].queue))
    <3>1. Elems(shown) \cup Nums(workers[w].events) \subseteq DOMAIN sent
      BY <1>0, <1>3 DEF AddressInv
    <3> QED
      BY <2>1, <3>1, <1>0, <1>2, <1>7 DEF ShownInv, Below
  <2> QED
    BY <2>1, <1>0, <1>1, <1>6, <1>8 DEF ShownInv
<1>14. ConfigInv'
  <2>1. ASSUME NEW e \in QueuedRequest \cup {Garbled, Close}, Asks(e), {e.num} \ {0} \subseteq DOMAIN sent
        PROVE  Asks(e)'
    BY <2>1, <1>2, Nameless DEF Asks
  <2>2. ASSUME NEW e \in LineEvent \cup {Unknown, Opened}, Tells(e), {e.num} \ {0} \subseteq DOMAIN sent
        PROVE  Tells(e)'
    BY <2>2, <1>2, Nameless DEF Tells, Carries, Opened
  <2>3. Asks(l)'
    BY <1>2, <1>5 DEF Asks
  <2>4. ASSUME NEW s, NEW e \in Elems(s) PROVE {e.num} \ {0} \subseteq Nums(s)
    BY DEF Nums
  <2>5. \A e \in Device : Nums(toDevice[e]) \cup Nums(toHost[e]) \subseteq DOMAIN sent
    BY <1>3 DEF AddressInv
  <2>6. \A v \in Session : Nums(workers[v].queue) \cup Nums(workers[v].events) \subseteq DOMAIN sent
    BY <1>3 DEF AddressInv
  <2>7. \A e \in Device : (\A m \in Elems(toDevice[e]) : Asks(m)') /\ (\A m \in Elems(toHost[e]) : Tells(m)')
    <3> SUFFICES ASSUME NEW e \in Device
                 PROVE  (\A m \in Elems(toDevice[e]) : Asks(m)') /\ (\A m \in Elems(toHost[e]) : Tells(m)')
      OBVIOUS
    <3>1. Elems(toHost[e]) \subseteq LineEvent \cup {Unknown} /\ Elems(toDevice[e]) \subseteq QueuedRequest \cup {Garbled}
      BY <1>a, ChannelTypes
    <3>2. (\A m \in Elems(toDevice[e]) : Asks(m)) /\ (\A m \in Elems(toHost[e]) : Tells(m))
      BY DEF ConfigInv
    <3> QED
      BY <3>1, <3>2, <2>1, <2>2, <2>4, <2>5
  <2>8. \A v \in Session : (\A m \in Elems(workers[v].queue) : Asks(m)') /\ (\A m \in Elems(workers[v].events) : Tells(m)')
    <3> SUFFICES ASSUME NEW v \in Session
                 PROVE  (\A m \in Elems(workers[v].queue) : Asks(m)') /\ (\A m \in Elems(workers[v].events) : Tells(m)')
      OBVIOUS
    <3>1. Elems(workers[v].queue) \subseteq QueuedRequest \cup {Close} /\ Elems(workers[v].events) \subseteq LineEvent \cup {Opened}
      BY <1>a, ChannelTypes
    <3>2. (\A m \in Elems(workers[v].queue) : Asks(m)) /\ (\A m \in Elems(workers[v].events) : Tells(m))
      BY DEF ConfigInv
    <3> QED
      BY <3>1, <3>2, <2>1, <2>2, <2>4, <2>6
  <2> QED
    BY <2>3, <2>7, <2>8, <1>0, <1>1, <1>6, <1>7 DEF ConfigInv
<1> QED
  BY <1>9, <1>10, <1>11, <1>12, <1>13, <1>14

\* What the GUI shows when it empties the channel: numbers of answers, in order.
LEMMA PollShows ==
  ASSUME LinkInv, PollEvents
  PROVE  /\ connection \in Session /\ shown' \in Seq(1..MaxRequest)
         /\ Elems(shown') = Elems(shown) \cup Nums(workers[connection].events)
         /\ \A i, j \in DOMAIN shown' : i < j => shown'[i] < shown'[j]
         /\ configText' \in Text \cup {Junk}
<1> USE DEF LinkInv, FlowInv
<1> DEFINE E == LineEvent \cup {Opened}
<1>a. LinkTypeOK
  OBVIOUS
<1>b. PICK s : s = workers[connection].events
  OBVIOUS
<1>c. PICK ans : ans = IF Head(s) = Opened THEN Tail(s) ELSE s
  OBVIOUS
<1>d. PICK ns : ns = [i \in DOMAIN ans |-> ans[i].num]
  OBVIOUS
<1>0. /\ connection \in Session /\ connection # 0 /\ s \in Seq(Note) /\ s \in Seq(E) /\ s # <<>>
      /\ Numbered(Note) /\ Ascending(s)
      /\ \A i \in DOMAIN s : s[i] = Opened => i = 1
  BY <1>a, <1>b, ChannelTypes DEF PollEvents, LinkTypeOK, Worker, OrderInv, SessionInv
<1>1. ans \in Seq(Note) /\ Ascending(ans) /\ Elems(ans) \subseteq Elems(s)
  <2>1. CASE Head(s) = Opened
    BY <2>1, <1>c, <1>0, HeadAndTail, TailAscending
  <2>2. CASE Head(s) # Opened
    BY <2>2, <1>c, <1>0
  <2> QED
    BY <2>1, <2>2
<1>2. \A i \in DOMAIN ans : ans[i] \in LineEvent
  <2>1. Len(s) \in Nat \ {0} /\ DOMAIN s = 1..Len(s) /\ Head(s) = s[1] /\ \A i \in 1..Len(s) : s[i] \in E
    BY <1>0
  <2>2. CASE Head(s) = Opened
    <3>1. DOMAIN Tail(s) = 1..(Len(s) - 1) /\ \A i \in 1..(Len(s) - 1) : Tail(s)[i] = s[i + 1]
      BY <1>0
    <3>2. \A i \in 1..(Len(s) - 1) : i + 1 \in 1..Len(s) /\ i + 1 # 1
      BY <2>1
    <3> QED
      BY <2>1, <2>2, <3>1, <3>2, <1>0, <1>c
  <2>3. CASE Head(s) # Opened
    BY <2>1, <2>3, <1>0, <1>c
  <2> QED
    BY <2>2, <2>3
<1>3. Len(ans) \in Nat /\ DOMAIN ans = 1..Len(ans)
  BY <1>1
<1>4. ns \in Seq(1..MaxRequest) /\ Len(ns) = Len(ans)
      /\ \A i \in 1..Len(ans) : ns[i] = ans[i].num /\ ns[i] \in Nums(s)
  <2>1. \A i \in DOMAIN ans : ans[i].num \in 1..MaxRequest /\ ans[i].num # 0
    BY <1>2, Nameless
  <2>2. ns = [i \in 1..Len(ans) |-> ans[i].num]
    BY <1>d, <1>3
  <2>3. \A i \in DOMAIN ans : ans[i].num \in Nums(s)
    BY <1>1, <2>1 DEF Nums, Elems
  <2> QED
    BY <2>1, <2>2, <2>3, <1>3
<1>5. \A i, j \in 1..Len(ns) : i < j => ns[i] < ns[j]
  <2>1. \A i \in DOMAIN ans : ans[i].num # 0
    BY <1>2, Nameless
  <2> QED
    BY <2>1, <1>1, <1>3, <1>4 DEF Ascending
<1>6. shown' = shown \o ns /\ shown \in Seq(1..MaxRequest)
  BY <1>a, <1>b, <1>c, <1>d DEF PollEvents, LinkTypeOK
<1>7. /\ shown' \in Seq(1..MaxRequest) /\ Len(shown) \in Nat /\ Len(ns) \in Nat
      /\ DOMAIN shown' = 1..(Len(shown) + Len(ns)) /\ DOMAIN shown = 1..Len(shown)
      /\ \A i \in 1..Len(shown) : shown'[i] = shown[i]
      /\ \A i \in 1..(Len(shown) + Len(ns)) : i > Len(shown) => shown'[i] = ns[i - Len(shown)]
  <2>1. PICK S : S = 1..MaxRequest
    OBVIOUS
  <2>2. shown \in Seq(S) /\ ns \in Seq(S)
    BY <2>1, <1>4, <1>6
  <2>3. PICK r : r = shown \o ns
    OBVIOUS
  <2>4. r \in Seq(S) /\ Len(r) = Len(shown) + Len(ns) /\ Len(shown) \in Nat /\ Len(ns) \in Nat
        /\ DOMAIN shown = 1..Len(shown)
    BY <2>2, <2>3
  <2>5. DOMAIN r = 1..(Len(shown) + Len(ns))
    BY <2>4
  <2>6. \A i \in 1..(Len(shown) + Len(ns)) :
          r[i] = IF i <= Len(shown) THEN shown[i] ELSE ns[i - Len(shown)]
    BY <2>2, <2>3, <2>4
  <2>7. shown' = r /\ shown' \in Seq(1..MaxRequest)
    BY <2>1, <2>3, <2>4, <1>6
  <2>8. \A i \in 1..Len(shown) : i \in 1..(Len(shown) + Len(ns)) /\ i <= Len(shown)
    BY <2>4
  <2>9. \A i \in 1..(Len(shown) + Len(ns)) : i > Len(shown) => ~(i <= Len(shown))
    BY <2>4
  <2> QED
    BY <2>4, <2>5, <2>6, <2>7, <2>8, <2>9
<1>8. \A i \in 1..(Len(shown) + Len(ns)) : i \in 1..Len(shown) \/ i - Len(shown) \in 1..Len(ns)
  BY <1>7
<1>9. Elems(shown') \subseteq Elems(shown) \cup Nums(s)
  <2> SUFFICES ASSUME NEW i \in 1..(Len(shown) + Len(ns))
               PROVE  shown'[i] \in Elems(shown) \cup Nums(s)
    BY <1>7 DEF Elems
  <2>1. CASE i \in 1..Len(shown)
    BY <2>1, <1>7 DEF Elems
  <2>2. CASE i - Len(shown) \in 1..Len(ns)
    <3>1. i > Len(shown)
      BY <2>2, <1>7
    <3> QED
      BY <2>2, <3>1, <1>4, <1>7
  <2> QED
    BY <2>1, <2>2, <1>8
<1>13. Elems(shown) \cup Nums(s) \subseteq Elems(shown')
  <2>1. Elems(shown) \subseteq Elems(shown')
    <3>1. \A i \in 1..Len(shown) : i \in 1..(Len(shown) + Len(ns))
      BY <1>7
    <3> QED
      BY <3>1, <1>7 DEF Elems
  <2>2. Nums(s) \subseteq Nums(ans)
    <3>1. CASE Head(s) = Opened
      BY <3>1, <1>c, <1>0, HeadAndTail, Nameless
    <3>2. CASE Head(s) # Opened
      BY <3>2, <1>c
    <3> QED
      BY <3>1, <3>2
  <2>3. ASSUME NEW n \in Nums(ans) PROVE n \in Elems(shown')
    <3>1. PICK i \in 1..Len(ans) : n = ans[i].num
      BY <1>3, <2>3 DEF Nums, Elems
    <3>2. /\ Len(shown) + i \in 1..(Len(shown) + Len(ns)) /\ Len(shown) + i > Len(shown)
          /\ (Len(shown) + i) - Len(shown) = i
      BY <1>4, <1>7
    <3>3. shown'[Len(shown) + i] = ns[i] /\ ns[i] = n
      BY <3>1, <3>2, <1>4, <1>7
    <3> QED
      BY <3>2, <3>3, <1>7 DEF Elems
  <2> QED
    BY <2>1, <2>2, <2>3
<1>10. Below(Elems(shown), Nums(s))
  BY <1>0, <1>b DEF ShownInv
<1>11. ASSUME NEW i \in DOMAIN shown', NEW j \in DOMAIN shown', i < j
       PROVE  shown'[i] < shown'[j]
  <2>1. CASE j \in 1..Len(shown)
    <3>1. i \in 1..Len(shown)
      BY <2>1, <1>7, <1>11
    <3> QED
      BY <2>1, <3>1, <1>7, <1>11 DEF ShownInv
  <2>2. CASE i \in 1..Len(shown) /\ j - Len(shown) \in 1..Len(ns)
    <3>1. shown'[j] \in Nums(s)
      BY <2>2, <1>4, <1>7
    <3>2. shown'[i] \in Elems(shown)
      BY <2>2, <1>7 DEF Elems
    <3> QED
      BY <3>1, <3>2, <1>10 DEF Below
  <2>3. CASE i - Len(shown) \in 1..Len(ns) /\ j - Len(shown) \in 1..Len(ns)
    <3>1. shown'[i] = ns[i - Len(shown)] /\ shown'[j] = ns[j - Len(shown)]
      BY <2>3, <1>7
    <3>2. i - Len(shown) < j - Len(shown)
      BY <1>7, <1>11
    <3> QED
      BY <2>3, <3>1, <3>2, <1>5
  <2> QED
    BY <2>1, <2>2, <2>3, <1>7, <1>8
<1>12. configText' \in Text \cup {Junk}
  <2>1. CASE configText' = configText
    BY <2>1, <1>a DEF LinkTypeOK
  <2>2. CASE configText' # configText
    <3>1. PICK i \in DOMAIN s : Carries(s[i]) /\ configText' = s[i].data
      BY <2>2, <1>b DEF PollEvents
    <3>2. s[i] \in E
      BY <1>0
    <3>3. \A e \in LineEvent : e.data \in Text \cup {NoText}
      BY DEF LineEvent, Answer
    <3> QED
      BY <3>1, <3>2, <3>3 DEF Carries
  <2> QED
    BY <2>1, <2>2
<1> QED
  BY <1>0, <1>7, <1>9, <1>11, <1>12, <1>13, <1>b

\* What was told is shown now, below all that is still to come.
LEMMA PollKeeps ==
  ASSUME LinkInv, PollEvents
  PROVE  FlowInv'
<1> USE DEF LinkInv, FlowInv
<1> DEFINE c == connection
<1>a. LinkTypeOK
  OBVIOUS
<1>1. /\ c \in Session /\ c # 0
      /\ Elems(shown') \subseteq Elems(shown) \cup Nums(workers[c].events)
      /\ \A i, j \in DOMAIN shown' : i < j => shown'[i] < shown'[j]
  BY PollShows DEF PollEvents
<1>2. UNCHANGED <<connection, toDevice, toHost, sent, executed>>
  BY DEF PollEvents, wire
<1>3. /\ \A v \in Session : v # c => workers'[v] = workers[v]
      /\ workers'[c].device = workers[c].device /\ workers'[c].phase = workers[c].phase
      /\ workers'[c].gone = workers[c].gone /\ workers'[c].queue = workers[c].queue
      /\ workers'[c].events = <<>>
  BY <1>a, <1>1 DEF PollEvents, LinkTypeOK, Worker
<1>4. workers[c].phase \in {"running", "dead"}
  <2>1. workers[c].events # <<>> /\ workers[c].phase \in {"unused", "opening", "running", "dead"}
    BY <1>a, <1>1 DEF PollEvents, LinkTypeOK, Worker
  <2> QED
    BY <2>1, <1>1 DEF SessionInv
<1>5. \A v \in Session, e \in Device : Holds(v, e)' <=> Holds(v, e)
  BY <1>3 DEF Holds
<1>6. SessionInv'
  <2>1. ASSUME NEW v \in Session
        PROVE  /\ workers'[v].phase = "unused" => workers'[v] = Unused
               /\ workers'[v].phase \in {"unused", "opening"} =>
                    workers'[v].events = <<>> /\ Nums(workers'[v].queue) = {}
               /\ workers'[v].events = <<>>
    <3>1. CASE v = c
      BY <3>1, <1>3, <1>4
    <3>2. CASE v # c
      BY <3>2, <1>3 DEF SessionInv
    <3> QED
      BY <3>1, <3>2
  <2>2. connection' = c /\ c # 0
    BY <1>1, <1>2
  <2>3. workers'[c].phase \in {"running", "dead"}
    BY <1>3, <1>4
  <2>4. \A v \in Session : \A i \in DOMAIN workers'[v].events : workers'[v].events[i] = Opened => i = 1
    <3>1. DOMAIN <<>> = {}
      OBVIOUS
    <3> QED
      BY <3>1, <2>1
  <2> QED
    BY <2>1, <2>2, <2>3, <2>4 DEF SessionInv
<1>7. ExclusiveInv'
  BY <1>5 DEF ExclusiveInv
<1>8. AddressInv'
  BY <1>1, <1>2, <1>3, EmptyHolds, OnRecord DEF AddressInv
<1>9. OrderInv'
  BY <1>2, <1>3, <1>5, EmptyHolds DEF OrderInv
<1>10. ShownInv'
  BY <1>1, <1>2, <1>3, <1>4, <1>5, EmptyHolds DEF ShownInv, Below
<1>11. ConfigInv'
  BY <1>2, <1>3, EmptyHolds, OnRecord DEF ConfigInv
<1> QED
  BY <1>6, <1>7, <1>8, <1>9, <1>10, <1>11


---------------------------------------------------------------------------
(* Types                                                                   *)

\* The states a worker starts in are states of a worker.
LEMMA StartTyped == Unused \in Worker /\ \A p \in Port : Starting(p) \in Worker
<1>1. (CHOOSE p \in Port : TRUE) \in Port /\ (CHOOSE d \in Device : TRUE) \in Device
  BY LinkAssumption
<1>2. \A S : <<>> \in Seq(S)
  OBVIOUS
<1> QED
  BY <1>1, <1>2 DEF Unused, Starting, Worker

\* One worker, or one of its channels, is replaced by another.
LEMMA WorkerTyped ==
  ASSUME LinkTypeOK, NEW w \in Session
  PROVE  /\ \A r \in Worker : [workers EXCEPT ![w] = r] \in [Session -> Worker]
         /\ \A q \in Seq(QueuedRequest \cup {Close}) :
              [workers EXCEPT ![w].queue = q] \in [Session -> Worker]
         /\ \A s \in Seq(LineEvent \cup {Opened}) :
              [workers EXCEPT ![w].events = s] \in [Session -> Worker]
<1>1. workers \in [Session -> Worker]
  BY DEF LinkTypeOK
<1> QED
  BY <1>1 DEF Worker

\* The first states have the types.
LEMMA InitTyped ==
  ASSUME Init
  PROVE  LinkTypeOK
<1>1. workers \in [Session -> Worker]
  BY StartTyped DEF Init
<1>2. /\ \A S : <<>> \in Seq(S)
      /\ Len(sent) <= MaxRequest
  BY LinkAssumption DEF Init
<1>3. /\ DefaultText["node"] \in Text \cup {Junk}
      /\ \A d \in Device : FactoryText[Kind[d]] \in TextOf(Kind[d]) /\ FactoryText[Kind[d]] \in Text
  BY LinkAssumption DEF Text, TextOf
<1>4. endpoint \in {"node", "hub", "database"} /\ connection \in 0..MaxSession /\ faults \in 0..MaxFault
  BY LinkAssumption DEF Init
<1> QED
  BY <1>1, <1>2, <1>3, <1>4 DEF Init, LinkTypeOK

\* A request that is sent has the type, and so has what is recorded of it.
LEMMA SendTyped ==
  ASSUME LinkTypeOK, NEW c \in Command, NEW t \in Text \cup {NoText}, Send(c, t), connection # 0
  PROVE  /\ workers' \in [Session -> Worker]
         /\ sent' \in Seq(Sent) /\ Len(sent') <= MaxRequest
         /\ UNCHANGED <<executed, shown, swallowed, unanswered, interrupted>>
<1>0. connection \in Session /\ sent \in Seq(Sent) /\ workers[connection] \in Worker
  BY ChannelTypes DEF LinkTypeOK
<1>1. PICK n : n = Len(sent) + 1
  OBVIOUS
<1>2. n \in 1..MaxRequest
  BY <1>0, <1>1 DEF Send
<1>3. Request(n, c, t) \in QueuedRequest
  BY <1>2 DEF Request, QueuedRequest
<1>4. workers' \in [Session -> Worker]
  <2>1. PICK q : q = IF workers[connection].phase = "dead" THEN workers[connection].queue
                     ELSE Append(workers[connection].queue, Request(n, c, t))
    OBVIOUS
  <2>2. q \in Seq(QueuedRequest \cup {Close})
    BY <2>1, <1>0, <1>3 DEF Worker
  <2>3. workers' = [workers EXCEPT ![connection].queue = q]
    BY <2>1, <1>0, <1>1 DEF Send, LinkTypeOK
  <2> QED
    BY <2>2, <2>3, <1>0, WorkerTyped
<1>5. sent' \in Seq(Sent) /\ Len(sent') <= MaxRequest
  <2>1. PICK r : r = [device |-> workers[connection].device, session |-> connection,
                      config |-> c \in {"get_config", "set_config"},
                      fits |-> t \notin LongRequest[Kind[workers[connection].device]]]
    OBVIOUS
  <2>2. r \in Sent
    BY <2>1, <1>0 DEF Sent, Worker
  <2>3. sent' = Append(sent, r)
    BY <2>1 DEF Send
  <2> QED
    BY <2>2, <2>3, <1>0, <1>1, <1>2
<1> QED
  BY <1>4, <1>5 DEF Send

\* The GUI's own steps.
LEMMA UserTyped ==
  ASSUME LinkTypeOK, UserStep
  PROVE  LinkTypeOK'
<1> USE DEF gui, wire, device, history
<1>1. ASSUME NEW e \in {"node", "hub", "database"}, SetEndpoint(e) PROVE LinkTypeOK'
  <2>1. configText' \in Text \cup {Junk}
    BY <1>1, LinkAssumption DEF SetEndpoint, Text
  <2> QED
    BY <1>1, <2>1 DEF SetEndpoint, LinkTypeOK
<1>2. ASSUME NEW p \in Port, Connect(p) PROVE LinkTypeOK'
  <2>1. PICK w \in Session : connection' = w /\ workers' = [workers EXCEPT ![w] = Starting(p)]
    BY <1>2 DEF Connect
  <2>2. workers' \in [Session -> Worker] /\ connection' \in 0..MaxSession /\ shown' \in Seq(1..MaxRequest)
    BY <1>2, <2>1, StartTyped, WorkerTyped, LinkAssumption DEF Session, Connect
  <2> QED
    BY <1>2, <2>2 DEF Connect, LinkTypeOK
<1>3. ASSUME Disconnect PROVE LinkTypeOK'
  <2>1. connection \in Session /\ workers[connection] \in Worker
    BY <1>3, ChannelTypes DEF Disconnect, LinkTypeOK
  <2>2. PICK q : q = IF workers[connection].phase = "dead" THEN workers[connection].queue
                     ELSE Append(workers[connection].queue, Close)
    OBVIOUS
  <2>3. q \in Seq(QueuedRequest \cup {Close}) /\ <<>> \in Seq(LineEvent \cup {Opened})
    BY <2>1, <2>2 DEF Worker
  <2>4. workers' \in [Session -> Worker]
    BY <1>3, <2>1, <2>2, <2>3, WorkerTyped DEF Disconnect, Worker
  <2>5. connection' \in 0..MaxSession /\ shown' \in Seq(1..MaxRequest)
    BY <1>3, LinkAssumption DEF Disconnect
  <2> QED
    BY <1>3, <2>4, <2>5 DEF Disconnect, LinkTypeOK
<1>4. ASSUME NEW t \in Typed, EditText(t) PROVE LinkTypeOK'
  <2>1. t \in Text \cup {Junk}
    BY <1>4, LinkAssumption DEF Text
  <2> QED
    BY <1>4, <2>1 DEF EditText, LinkTypeOK
<1>5. ASSUME NEW c \in {"query", "get_config"}, SendSimple(c) PROVE LinkTypeOK'
  <2>1. c \in Command /\ NoText \in Text \cup {NoText}
    BY DEF Command
  <2>2. /\ workers' \in [Session -> Worker] /\ sent' \in Seq(Sent) /\ Len(sent') <= MaxRequest
        /\ UNCHANGED <<executed, shown, swallowed, unanswered, interrupted>>
    BY <1>5, <2>1, SendTyped DEF SendSimple
  <2> QED
    BY <1>5, <2>2 DEF SendSimple, LinkTypeOK
<1>6. ASSUME SendSetConfig PROVE LinkTypeOK'
  <2>1. "set_config" \in Command /\ configText \in Text \cup {NoText}
    BY <1>6 DEF Command, SendSetConfig, LinkTypeOK
  <2>2. /\ workers' \in [Session -> Worker] /\ sent' \in Seq(Sent) /\ Len(sent') <= MaxRequest
        /\ UNCHANGED <<executed, shown, swallowed, unanswered, interrupted>>
    BY <1>6, <2>1, SendTyped DEF SendSetConfig
  <2> QED
    BY <1>6, <2>2 DEF SendSetConfig, LinkTypeOK
<1>7. ASSUME NEW a \in Destructive, Ask(a) PROVE LinkTypeOK'
  BY <1>7 DEF Ask, LinkTypeOK
<1>8. ASSUME Confirm PROVE LinkTypeOK'
  <2>1. CASE connection # 0 /\ opened
    <3>1. confirmation \in Command /\ NoText \in Text \cup {NoText}
      BY <1>8 DEF Command, Confirm, LinkTypeOK
    <3>2. /\ workers' \in [Session -> Worker] /\ sent' \in Seq(Sent) /\ Len(sent') <= MaxRequest
          /\ UNCHANGED <<executed, shown, swallowed, unanswered, interrupted>>
      BY <1>8, <2>1, <3>1, SendTyped DEF Confirm
    <3> QED
      BY <1>8, <3>2 DEF Confirm, LinkTypeOK
  <2>2. CASE ~(connection # 0 /\ opened)
    <3>1. UNCHANGED <<workers, history>>
      BY <1>8, <2>2 DEF Confirm
    <3> QED
      BY <1>8, <3>1 DEF Confirm, LinkTypeOK
  <2> QED
    BY <2>1, <2>2
<1>9. ASSUME Cancel PROVE LinkTypeOK'
  BY <1>9 DEF Cancel, LinkTypeOK
<1> QED
  BY <1>1, <1>2, <1>3, <1>4, <1>5, <1>6, <1>7, <1>8, <1>9 DEF UserStep

\* What the GUI takes from its channel.
LEMMA PollTyped ==
  ASSUME LinkInv, PollEvents
  PROVE  LinkTypeOK'
<1>1. connection \in Session /\ shown' \in Seq(1..MaxRequest) /\ configText' \in Text \cup {Junk}
  BY PollShows
<1>2. workers' \in [Session -> Worker]
  <2>1. <<>> \in Seq(LineEvent \cup {Opened})
    OBVIOUS
  <2> QED
    BY <2>1, <1>1, WorkerTyped DEF PollEvents, LinkInv
<1>3. opened' \in BOOLEAN
  BY DEF PollEvents
<1> QED
  BY <1>1, <1>2, <1>3 DEF PollEvents, LinkInv, LinkTypeOK, wire, device

\* A worker that ends is one, and holds nothing any more.
LEMMA DieTyped ==
  ASSUME LinkTypeOK, NEW w \in Session, Die(w), workers[w].phase # "unused"
  PROVE  /\ workers' \in [Session -> Worker] /\ Ends(w)
         /\ \A v \in Session : v # w => workers'[v] = workers[v]
         /\ workers'[w].queue = <<>> /\ workers'[w].phase = "dead"
<1>1. workers \in [Session -> Worker] /\ workers[w] \in Worker
  BY DEF LinkTypeOK
<1>2. PICK r : r = [port |-> workers[w].port, device |-> workers[w].device, phase |-> "dead",
                    gone |-> FALSE, queue |-> <<>>, events |-> workers[w].events]
  OBVIOUS
<1>3. r \in Worker
  <2>1. <<>> \in Seq(QueuedRequest \cup {Close})
    OBVIOUS
  <2> QED
    BY <2>1, <1>1, <1>2 DEF Worker
<1>4. workers' = [workers EXCEPT ![w] = r]
  BY <1>2 DEF Die
<1>5. workers' \in [Session -> Worker] /\ workers'[w] = r
      /\ \A v \in Session : v # w => workers'[v] = workers[v]
  BY <1>1, <1>3, <1>4
<1> QED
  BY <1>2, <1>5 DEF Ends

\* A line without a number in front changes no order.
LEMMA UnknownInFront ==
  ASSUME NEW S, NEW s \in Seq(S), NEW e \in S, e.num = 0, Ascending(s)
  PROVE  /\ <<e>> \o s \in Seq(S) /\ Elems(<<e>> \o s) \subseteq Elems(s) \cup {e}
         /\ Ascending(<<e>> \o s)
<1>1. PICK r : r = <<e>> \o s
  OBVIOUS
<1>2. /\ r \in Seq(S) /\ Len(s) \in Nat /\ DOMAIN s = 1..Len(s) /\ DOMAIN r = 1..(Len(s) + 1)
      /\ r[1] = e /\ \A i \in 1..(Len(s) + 1) : i # 1 => r[i] = s[i - 1]
  BY <1>1
<1>3. \A i \in 1..(Len(s) + 1) : i # 1 => i - 1 \in 1..Len(s)
  BY <1>2
<1>4. Elems(r) \subseteq Elems(s) \cup {e}
  BY <1>2, <1>3 DEF Elems
<1>5. ASSUME NEW i \in DOMAIN r, NEW j \in DOMAIN r, i < j, r[i].num # 0, r[j].num # 0
      PROVE  r[i].num < r[j].num
  <2>1. i # 1 /\ j # 1 /\ i - 1 < j - 1
    BY <1>2, <1>5
  <2> QED
    BY SMTT(30), <2>1, <1>2, <1>3, <1>5 DEF Ascending
<1> QED
  BY <1>1, <1>2, <1>4, <1>5 DEF Ascending

\* What is left of lines is a part of them, in order, maybe behind the end of one.
LEMMA RestsFewer ==
  ASSUME NEW S, NEW s \in Seq(S), NEW e \in S, e.num = 0, Ascending(s), NEW r \in Rests(s, e)
  PROVE  r \in Seq(S) /\ Ascending(r) /\ Elems(r) \subseteq Elems(s) \cup {e}
<1>1. CASE \E k \in 1..(Len(s) + 1) : r = SubSeq(s, k, Len(s))
  BY <1>1, PartAscending
<1>2. CASE \E k \in 1..Len(s) : r = <<e>> \o SubSeq(s, k + 1, Len(s))
  <2>1. PICK k \in 1..Len(s) : r = <<e>> \o SubSeq(s, k + 1, Len(s))
    BY <1>2
  <2>2. PICK t : t = SubSeq(s, k + 1, Len(s))
    OBVIOUS
  <2>3. Len(s) \in Nat /\ k + 1 \in 1..(Len(s) + 1)
    OBVIOUS
  <2>4. t \in Seq(S) /\ Elems(t) \subseteq Elems(s) /\ Ascending(t)
    BY <2>2, <2>3, PartAscending
  <2>5. <<e>> \o t \in Seq(S) /\ Elems(<<e>> \o t) \subseteq Elems(t) \cup {e}
        /\ Ascending(<<e>> \o t)
    BY <2>4, UnknownInFront
  <2> QED
    BY <2>1, <2>2, <2>4, <2>5
<1> QED
  BY <1>1, <1>2 DEF Rests

\* What a session leaves of the answers is a part of them, in order.
LEMMA LeftAnswers ==
  ASSUME LinkInv, NEW w \in Session, LeaveAnswers(w)
  PROVE  /\ toHost' \in [Device -> Seq(LineEvent \cup {Unknown})] /\ hostTail' \in [Device -> BOOLEAN]
         /\ \A d \in Device : FewerOrUnknown(toHost[d], toHost'[d])
<1> DEFINE d == workers[w].device
           s == toHost[d]
<1>1. /\ toHost \in [Device -> Seq(LineEvent \cup {Unknown})] /\ hostTail \in [Device -> BOOLEAN]
      /\ d \in Device /\ Ascending(s) /\ s \in Seq(LineEvent \cup {Unknown})
  BY DEF LinkInv, FlowInv, LinkTypeOK, OrderInv, Worker
<1>2. CASE workers[w].gone
  BY <1>1, <1>2 DEF LeaveAnswers, FewerOrUnknown, FewerOrElse
<1>3. CASE ~workers[w].gone
  <2>1. PICK rest \in Rests(s, Unknown) : toHost' = [toHost EXCEPT ![d] = rest]
    BY <1>3 DEF LeaveAnswers
  <2>2. /\ rest \in Seq(LineEvent \cup {Unknown}) /\ Elems(rest) \subseteq Elems(s) \cup {Unknown}
        /\ Ascending(rest)
    BY <1>1, <2>1, Nameless, RestsFewer
  <2>3. toHost' \in [Device -> Seq(LineEvent \cup {Unknown})] /\ toHost'[d] = rest
        /\ \A e \in Device : e # d => toHost'[e] = toHost[e]
    BY <2>1, <2>2, <1>1
  <2>4. hostTail' \in [Device -> BOOLEAN]
    BY <1>1, <1>3 DEF LeaveAnswers
  <2> QED
    BY <2>2, <2>3, <2>4 DEF FewerOrUnknown, FewerOrElse
<1> QED
  BY <1>2, <1>3

\* A fault is counted.
LEMMA FaultTyped ==
  ASSUME LinkTypeOK, Fault \/ UNCHANGED faults
  PROVE  faults' \in 0..MaxFault
BY LinkAssumption DEF LinkTypeOK, Fault

\* A line that is delivered has the type.
LEMMA DeliverTyped ==
  ASSUME LinkTypeOK, NEW d \in Device, NEW l \in QueuedRequest, Deliver(d, l)
  PROVE  /\ toDevice' \in [Device -> Seq(QueuedRequest \cup {Garbled})]
         /\ openTail' \in [Device -> BOOLEAN] /\ swallowed' \subseteq 1..MaxRequest
<1>1. PICK x : x = IF openTail[d] THEN Garbled ELSE l
  OBVIOUS
<1>2. x \in QueuedRequest \cup {Garbled} /\ l.num \in 1..MaxRequest
  BY <1>1 DEF QueuedRequest
<1>3. toDevice' = [toDevice EXCEPT ![d] = Append(toDevice[d], x)]
  BY <1>1 DEF Deliver
<1>4. Append(toDevice[d], x) \in Seq(QueuedRequest \cup {Garbled})
  BY <1>2 DEF LinkTypeOK
<1> QED
  BY <1>2, <1>3, <1>4 DEF Deliver, LinkTypeOK

\* The next command of a worker that is no Close is a request.
LEMMA NextRequest ==
  ASSUME LinkTypeOK, NEW w \in Session, AtRequest(w)
  PROVE  /\ Head(workers[w].queue) \in QueuedRequest /\ workers[w].device \in Device
         /\ Tail(workers[w].queue) \in Seq(QueuedRequest \cup {Close})
         /\ workers[w].phase = "running"
<1>1. /\ workers[w].queue \in Seq(QueuedRequest \cup {Close}) /\ workers[w].queue # <<>>
      /\ workers[w].device \in Device
  BY DEF LinkTypeOK, Worker, AtRequest
<1>2. Head(workers[w].queue) \in QueuedRequest \cup {Close}
      /\ Tail(workers[w].queue) \in Seq(QueuedRequest \cup {Close})
  BY <1>1
<1> QED
  BY <1>1, <1>2 DEF AtRequest

\* An event that is posted has the type.
LEMMA PostTyped ==
  ASSUME LinkTypeOK, NEW w \in Session, NEW e \in Note
  PROVE  Post(w, e) \in Seq(LineEvent \cup {Opened})
<1>1. workers[w].events \in Seq(LineEvent \cup {Opened})
  BY DEF LinkTypeOK, Worker
<1>2. e # Unknown => e \in LineEvent \cup {Opened}
  BY DEF Note
<1> QED
  BY <1>1, <1>2 DEF Post

\* The worker's steps.
LEMMA WorkerStepTyped ==
  ASSUME LinkInv, NEW w \in Session, WorkerStep(w)
  PROVE  LinkTypeOK'
<1> USE DEF gui, wire, device, history
<1>0. LinkTypeOK /\ workers[w] \in Worker
  BY DEF LinkInv, LinkTypeOK
<1>1. CASE OpenPort(w)
  <2>1. PICK d \in Device :
          workers' = [workers EXCEPT ![w] =
            [port |-> workers[w].port, device |-> d, phase |-> "running", gone |-> workers[w].gone,
             queue |-> workers[w].queue, events |-> Post(w, Opened)]]
    BY <1>1 DEF OpenPort
  <2>2. Post(w, Opened) \in Seq(LineEvent \cup {Opened})
    BY <1>0, PostTyped DEF Note
  <2>3. workers' \in [Session -> Worker]
    BY <1>0, <2>1, <2>2, WorkerTyped DEF Worker
  <2> QED
    BY <1>0, <1>1, <2>3 DEF OpenPort, LinkTypeOK
<1>2. CASE OpenFails(w)
  <2>1. workers' \in [Session -> Worker]
    BY <1>0, <1>2, DieTyped DEF OpenFails
  <2>2. faults' \in 0..MaxFault
    BY <1>0, <1>2, FaultTyped DEF OpenFails
  <2> QED
    BY <1>0, <1>2, <2>1, <2>2 DEF OpenFails, LinkTypeOK
<1>3. CASE WriteRequest(w)
  <2>1. /\ Head(workers[w].queue) \in QueuedRequest /\ workers[w].device \in Device
        /\ Tail(workers[w].queue) \in Seq(QueuedRequest \cup {Close})
    BY <1>0, <1>3, NextRequest DEF WriteRequest
  <2>2. workers' \in [Session -> Worker]
    BY <1>0, <1>3, <2>1, WorkerTyped DEF WriteRequest
  <2>3. /\ toDevice' \in [Device -> Seq(QueuedRequest \cup {Garbled})]
        /\ openTail' \in [Device -> BOOLEAN] /\ swallowed' \subseteq 1..MaxRequest
    BY <1>0, <1>3, <2>1, DeliverTyped DEF WriteRequest
  <2> QED
    BY <1>0, <1>3, <2>2, <2>3 DEF WriteRequest, LinkTypeOK
<1>4. CASE WriteFails(w)
  <2>1. /\ Head(workers[w].queue) \in QueuedRequest /\ workers[w].device \in Device
        /\ workers[w].phase # "unused"
    BY <1>0, <1>4, NextRequest DEF WriteFails
  <2>2. workers' \in [Session -> Worker]
    BY <1>0, <1>4, <2>1, DieTyped DEF WriteFails
  <2>3. /\ toDevice' \in [Device -> Seq(QueuedRequest \cup {Garbled})]
        /\ openTail' \in [Device -> BOOLEAN] /\ swallowed' \subseteq 1..MaxRequest
    BY <1>0, <1>4, <2>1, DeliverTyped DEF WriteFails, LinkTypeOK
  <2>4. /\ toHost' \in [Device -> Seq(LineEvent \cup {Unknown})] /\ hostTail' \in [Device -> BOOLEAN]
    BY <1>4, LeftAnswers DEF WriteFails
  <2>5. faults' \in 0..MaxFault
    BY <1>0, <1>4, FaultTyped DEF WriteFails
  <2> QED
    BY <1>0, <1>4, <2>2, <2>3, <2>4, <2>5 DEF WriteFails, LinkTypeOK
<1>5. CASE CloseSession(w)
  <2>1. workers' \in [Session -> Worker]
    BY <1>0, <1>5, DieTyped DEF CloseSession
  <2>2. /\ toHost' \in [Device -> Seq(LineEvent \cup {Unknown})] /\ hostTail' \in [Device -> BOOLEAN]
    BY <1>5, LeftAnswers DEF CloseSession
  <2> QED
    BY <1>0, <1>5, <2>1, <2>2 DEF CloseSession, LinkTypeOK
<1>6. CASE ReadAnswer(w)
  <2> DEFINE d == workers[w].device
  <2>1. d \in Device /\ toHost[d] \in Seq(LineEvent \cup {Unknown}) /\ toHost[d] # <<>>
    BY <1>0, <1>6 DEF ReadAnswer, LinkTypeOK, Worker
  <2>2. Head(toHost[d]) \in Note /\ Tail(toHost[d]) \in Seq(LineEvent \cup {Unknown})
    BY <2>1 DEF Note
  <2>3. workers' \in [Session -> Worker]
    <3>1. PICK told : told = IF Unreadable(d, Head(toHost[d])) THEN workers[w].events
                             ELSE Post(w, Head(toHost[d]))
      OBVIOUS
    <3>2. told \in Seq(LineEvent \cup {Opened})
      BY <1>0, <2>2, <3>1, PostTyped DEF Worker
    <3>3. workers' = [workers EXCEPT ![w].events = told]
      BY <1>0, <1>6, <3>1 DEF ReadAnswer, LinkTypeOK
    <3> QED
      BY <1>0, <3>2, <3>3, WorkerTyped
  <2>4. toHost' \in [Device -> Seq(LineEvent \cup {Unknown})]
    BY <1>0, <1>6, <2>1, <2>2 DEF ReadAnswer, LinkTypeOK
  <2>5. unanswered' \subseteq 1..MaxRequest
    <3>1. ASSUME Unreadable(d, Head(toHost[d])) PROVE Head(toHost[d]).num \in 1..MaxRequest
      <4>1. Head(toHost[d]).data # NoText
        BY <3>1, LinkAssumption DEF Unreadable
      <4>2. Head(toHost[d]) \in LineEvent \cup {Unknown} /\ Unknown.data = NoText
        BY <2>1 DEF Unknown, Answer
      <4> QED
        BY <4>1, <4>2, Nameless
    <3> QED
      BY <1>0, <1>6, <3>1 DEF ReadAnswer, LinkTypeOK
  <2> QED
    BY <1>0, <1>6, <2>3, <2>4, <2>5 DEF ReadAnswer, LinkTypeOK
<1>7. CASE ReadFails(w)
  <2>1. workers' \in [Session -> Worker]
    BY <1>0, <1>7, DieTyped DEF ReadFails
  <2> QED
    BY <1>0, <1>7, <2>1 DEF ReadFails, LinkTypeOK
<1> QED
  BY <1>1, <1>2, <1>3, <1>4, <1>5, <1>6, <1>7 DEF WorkerStep

\* What a device does with a line, whatever the answer.
LEMMA ReplyTyped ==
  ASSUME LinkTypeOK, NEW d \in Device, NEW t \in Text \cup {NoText}, NEW up \in BOOLEAN,
         Reply(d, t, up), toDevice[d] # <<>>, Head(toDevice[d]).num # 0 \/ t = NoText
  PROVE  /\ toDevice' \in [Device -> Seq(QueuedRequest \cup {Garbled})]
         /\ toHost' \in [Device -> Seq(LineEvent \cup {Unknown})]
         /\ openTail' \in [Device -> BOOLEAN] /\ hostTail' \in [Device -> BOOLEAN]
         /\ serving' \in [Device -> BOOLEAN] /\ faults' \in 0..MaxFault
         /\ executed' \in [Device -> Seq(1..MaxRequest)] /\ swallowed' \subseteq 1..MaxRequest
         /\ unanswered' \subseteq 1..MaxRequest
<1>1. PICK n : n = Head(toDevice[d]).num
  OBVIOUS
<1>2. PICK S : S = 1..MaxRequest
  OBVIOUS
<1>3. toDevice[d] \in Seq(QueuedRequest \cup {Garbled})
  BY DEF LinkTypeOK
<1>4. Head(toDevice[d]) \in QueuedRequest \cup {Garbled}
      /\ Tail(toDevice[d]) \in Seq(QueuedRequest \cup {Garbled})
  BY <1>3
<1>5. n # 0 => n \in S
  BY <1>1, <1>2, <1>4, Nameless DEF QueuedRequest
<1>6. toDevice' \in [Device -> Seq(QueuedRequest \cup {Garbled})]
  BY <1>4 DEF Reply, LinkTypeOK
<1>7. executed' \in [Device -> Seq(1..MaxRequest)]
  <2>1. executed \in [Device -> Seq(S)]
    BY <1>2 DEF LinkTypeOK
  <2>2. executed' = IF n = 0 THEN executed ELSE [executed EXCEPT ![d] = Append(executed[d], n)]
    BY <1>1 DEF Reply
  <2>3. n # 0 => Append(executed[d], n) \in Seq(S)
    BY <2>1, <1>5
  <2>4. executed' \in [Device -> Seq(S)]
    BY <2>1, <2>2, <2>3
  <2> QED
    BY <2>4, <1>2
<1>8. toHost' \in [Device -> Seq(LineEvent \cup {Unknown})]
  <2>1. PICK a : a = IF hostTail[d] THEN Unknown ELSE Answer(n, t)
    OBVIOUS
  <2>2. a \in LineEvent \cup {Unknown}
    BY <2>1, <1>1, <1>2, <1>5 DEF LineEvent, Unknown
  <2>3. toHost' = toHost \/ toHost' = [toHost EXCEPT ![d] = Append(toHost[d], a)]
    BY <2>1, <1>1 DEF Reply
  <2>4. toHost \in [Device -> Seq(LineEvent \cup {Unknown})]
    BY DEF LinkTypeOK
  <2>5. Append(toHost[d], a) \in Seq(LineEvent \cup {Unknown})
    BY <2>2, <2>4
  <2> QED
    BY <2>3, <2>4, <2>5
<1>9. hostTail' \in [Device -> BOOLEAN] /\ serving' \in [Device -> BOOLEAN] /\ openTail' \in [Device -> BOOLEAN]
  BY ZenonT(30) DEF Reply, LinkTypeOK
<1>10. faults' \in 0..MaxFault
  BY FaultTyped DEF Reply
<1>11. swallowed' \subseteq 1..MaxRequest
  <2>1. swallowed' = swallowed \/ (n # 0 /\ swallowed' = swallowed \cup {n})
    <3>1. CASE swallowed' = swallowed
      BY <3>1
    <3>2. CASE swallowed' # swallowed
      <4>1. hostTail[d] /\ n # 0 /\ swallowed' = swallowed \cup {n}
        BY <3>2, <1>1 DEF Reply
      <4> QED
        BY <4>1
    <3> QED
      BY <3>1, <3>2
  <2>2. swallowed \subseteq 1..MaxRequest
    BY DEF LinkTypeOK
  <2> QED
    BY <2>1, <2>2, <1>2, <1>5
<1>12. unanswered' \subseteq 1..MaxRequest
  <2>1. unanswered \subseteq 1..MaxRequest
    BY DEF LinkTypeOK
  <2>2. Unsendable(d, t) => n # 0
    BY <1>1, LinkAssumption DEF Unsendable
  <2>3. unanswered' = unanswered \/ (n # 0 /\ unanswered' = unanswered \cup {n})
    BY <2>2, <1>1 DEF Reply
  <2> QED
    BY <2>1, <2>3, <1>2, <1>5
<1> QED
  BY <1>6, <1>7, <1>8, <1>9, <1>10, <1>11, <1>12

\* The devices' steps.
LEMMA DeviceStepTyped ==
  ASSUME LinkInv, NEW d \in Device, DeviceStep(d)
  PROVE  LinkTypeOK'
<1> DEFINE l == Head(toDevice[d])
<1>0. LinkTypeOK
  BY DEF LinkInv
<1>1. toDevice[d] # <<>> /\ l \in QueuedRequest \cup {Garbled}
  <2>1. toDevice[d] # <<>>
    BY DEF DeviceStep, HandleQuery, HandleGetConfig, HandleSetConfig, HandleFactoryReset,
           HandleReboot, HandleGarbled, DropLine, Ready, Reads
  <2>2. toDevice[d] \in Seq(QueuedRequest \cup {Garbled})
    BY <1>0 DEF LinkTypeOK
  <2> QED
    BY <2>1, <2>2
<1>2. ASSUME NEW t \in Text \cup {NoText}, NEW up \in BOOLEAN, Reply(d, t, up),
             l.num # 0 \/ t = NoText,
             config' \in [Device -> Text], \A e \in Device : config'[e] \in TextOf(Kind[e])
      PROVE  LinkTypeOK'
  <2>1. /\ toDevice' \in [Device -> Seq(QueuedRequest \cup {Garbled})]
        /\ toHost' \in [Device -> Seq(LineEvent \cup {Unknown})]
        /\ openTail' \in [Device -> BOOLEAN] /\ hostTail' \in [Device -> BOOLEAN]
        /\ serving' \in [Device -> BOOLEAN] /\ faults' \in 0..MaxFault
        /\ executed' \in [Device -> Seq(1..MaxRequest)] /\ swallowed' \subseteq 1..MaxRequest
        /\ unanswered' \subseteq 1..MaxRequest
    BY <1>0, <1>1, <1>2, ReplyTyped
  <2>2. UNCHANGED <<gui, workers, plugged, sent, shown, interrupted>>
    BY <1>2 DEF Reply
  <2> QED
    BY <1>0, <1>2, <2>1, <2>2 DEF LinkTypeOK, gui
<1>3. NoText \in Text \cup {NoText} /\ config \in [Device -> Text]
      /\ \A e \in Device : config[e] \in TextOf(Kind[e])
  BY <1>0 DEF LinkTypeOK
<1>4. CASE HandleQuery(d)
  BY <1>2, <1>3, <1>4 DEF HandleQuery
<1>5. CASE HandleGetConfig(d)
  <2>1. l.num # 0
    BY <1>1, <1>5, Nameless DEF HandleGetConfig, Ready
  <2> QED
    BY <1>2, <1>3, <1>5, <2>1 DEF HandleGetConfig
<1>6. CASE HandleSetConfig(d)
  <2>1. l.num # 0
    BY <1>1, <1>6, Nameless DEF HandleSetConfig, Ready
  <2>2. TextOf(Kind[d]) \subseteq Text
    BY DEF TextOf, Text
  <2>3. CASE UNCHANGED config /\ Reply(d, NoText, TRUE)
    BY <1>2, <1>3, <2>3
  <2>4. CASE /\ l.text \in TextOf(Kind[d]) /\ config' = [config EXCEPT ![d] = l.text]
             /\ Reply(d, IF Kind[d] = "hub" THEN l.text ELSE NoText, TRUE)
    <3>1. PICK t : t = IF Kind[d] = "hub" THEN l.text ELSE NoText
      OBVIOUS
    <3>2. t \in Text \cup {NoText} /\ Reply(d, t, TRUE)
      BY <2>2, <2>4, <3>1
    <3>3. config' \in [Device -> Text] /\ \A e \in Device : config'[e] \in TextOf(Kind[e])
      BY <1>3, <2>2, <2>4
    <3> QED
      BY <1>2, <2>1, <3>2, <3>3
  <2> QED
    BY <1>6, <2>3, <2>4 DEF HandleSetConfig
<1>7. CASE HandleFactoryReset(d)
  <2>1. FactoryText[Kind[d]] \in TextOf(Kind[d]) /\ FactoryText[Kind[d]] \in Text
    BY LinkAssumption DEF TextOf, Text
  <2> QED
    BY <1>2, <1>3, <1>7, <2>1 DEF HandleFactoryReset
<1>8. CASE HandleReboot(d)
  BY <1>2, <1>3, <1>8 DEF HandleReboot
<1>9. CASE HandleGarbled(d)
  BY <1>2, <1>3, <1>9 DEF HandleGarbled
<1>10. CASE DropLine(d)
  <2>1. toDevice' \in [Device -> Seq(QueuedRequest \cup {Garbled})]
    BY <1>0, <1>1, <1>10 DEF DropLine, LinkTypeOK
  <2> QED
    BY <1>0, <1>10, <2>1 DEF DropLine, LinkTypeOK, gui, device, history
<1> QED
  BY <1>4, <1>5, <1>6, <1>7, <1>8, <1>9, <1>10 DEF DeviceStep

\* A device that goes away takes what is under way with it; its worker has lost it.
LEMMA GoneTyped ==
  ASSUME LinkTypeOK, NEW d \in Device, Gone(d)
  PROVE  /\ plugged' \in [Device -> Port \cup {None}] /\ workers' \in [Session -> Worker]
         /\ toDevice' \in [Device -> Seq(QueuedRequest \cup {Garbled})]
         /\ toHost' \in [Device -> Seq(LineEvent \cup {Unknown})]
         /\ openTail' \in [Device -> BOOLEAN] /\ hostTail' \in [Device -> BOOLEAN]
         /\ \A e \in Device : FewerOrGarbled(toDevice[e], toDevice'[e]) /\ FewerOrUnknown(toHost[e], toHost'[e])
         /\ \A w \in Session : workers'[w] = workers[w] \/ Ends(w)
<1>1. /\ toDevice' = [toDevice EXCEPT ![d] = <<>>] /\ toHost' = [toHost EXCEPT ![d] = <<>>]
      /\ plugged' = [plugged EXCEPT ![d] = None] /\ hostTail' = [hostTail EXCEPT ![d] = FALSE]
      /\ \E part \in BOOLEAN : openTail' = [openTail EXCEPT ![d] = part]
  BY DEF Gone
<1>2. /\ plugged' \in [Device -> Port \cup {None}]
      /\ toDevice' \in [Device -> Seq(QueuedRequest \cup {Garbled})]
      /\ toHost' \in [Device -> Seq(LineEvent \cup {Unknown})]
      /\ openTail' \in [Device -> BOOLEAN] /\ hostTail' \in [Device -> BOOLEAN]
  BY <1>1 DEF LinkTypeOK
<1>3. \A e \in Device : /\ toDevice'[e] \in {toDevice[e], <<>>}
                        /\ toHost'[e] \in {toHost[e], <<>>}
  BY <1>1 DEF LinkTypeOK
<1>4. \A e \in Device : FewerOrGarbled(toDevice[e], toDevice'[e]) /\ FewerOrUnknown(toHost[e], toHost'[e])
  BY <1>3, EmptyHolds DEF FewerOrGarbled, FewerOrUnknown, FewerOrElse
<1>5. ASSUME NEW w \in Session
      PROVE  /\ workers'[w] = IF Holds(w, d) THEN [workers[w] EXCEPT !.gone = TRUE] ELSE workers[w]
             /\ workers'[w] \in Worker
             /\ workers'[w] = workers[w] \/ Ends(w)
  <2>1. workers'[w] = IF Holds(w, d) THEN [workers[w] EXCEPT !.gone = TRUE] ELSE workers[w]
    BY DEF Gone
  <2>2. workers[w] \in Worker
    BY DEF LinkTypeOK
  <2>3. CASE ~Holds(w, d)
    BY <2>1, <2>2, <2>3
  <2>4. CASE Holds(w, d)
    <3>1. workers'[w] = [workers[w] EXCEPT !.gone = TRUE] /\ workers[w].phase = "running"
      BY <2>1, <2>4 DEF Holds
    <3>2. /\ workers'[w] \in Worker /\ workers'[w].gone = TRUE /\ workers'[w].phase = "running"
          /\ workers'[w].queue = workers[w].queue /\ workers'[w].events = workers[w].events
          /\ workers'[w].device = workers[w].device
      BY <3>1, <2>2 DEF Worker
    <3> QED
      BY <3>1, <3>2, <2>1 DEF Ends
  <2> QED
    BY <2>3, <2>4
<1>6. workers' \in [Session -> Worker]
  <2>1. workers' = [w \in Session |-> IF Holds(w, d) THEN [workers[w] EXCEPT !.gone = TRUE] ELSE workers[w]]
    BY DEF Gone
  <2> QED
    BY <2>1, <1>5
<1> QED
  BY <1>2, <1>4, <1>5, <1>6

\* Cables and restarts.
WorldStep(d) ==
  \/ Unplug(d) \/ (\E p \in Port : Plug(d, p))
  \/ NodeResets(d) \/ HangUp(d) \/ HubRestarts(d)

\* They keep the types, and lose at most.
LEMMA WorldStepLoses ==
  ASSUME LinkInv, NEW d \in Device, WorldStep(d)
  PROVE  LinkTypeOK' /\ Loses
<1> USE DEF gui, wire, device, history
<1>0. LinkTypeOK
  BY DEF LinkInv
<1>a. \A e \in Device : FewerOrGarbled(toDevice[e], toDevice[e]) /\ FewerOrUnknown(toHost[e], toHost[e])
                          /\ FewerOrGarbled(toDevice[e], <<>>)
  BY EmptyHolds DEF FewerOrGarbled, FewerOrUnknown, FewerOrElse
<1>1. CASE Unplug(d)
  <2>1. Gone(d) /\ faults' \in 0..MaxFault
    BY <1>0, <1>1, FaultTyped DEF Unplug
  <2>2. UNCHANGED <<gui, serving, config, history>>
    BY <1>1 DEF Unplug
  <2>3. /\ plugged' \in [Device -> Port \cup {None}] /\ workers' \in [Session -> Worker]
        /\ toDevice' \in [Device -> Seq(QueuedRequest \cup {Garbled})]
        /\ toHost' \in [Device -> Seq(LineEvent \cup {Unknown})]
        /\ openTail' \in [Device -> BOOLEAN] /\ hostTail' \in [Device -> BOOLEAN]
        /\ \A e \in Device : FewerOrGarbled(toDevice[e], toDevice'[e]) /\ FewerOrUnknown(toHost[e], toHost'[e])
        /\ \A w \in Session : workers'[w] = workers[w] \/ Ends(w)
    BY <1>0, <2>1, GoneTyped
  <2>4. Loses
    BY <2>2, <2>3 DEF Loses
  <2> QED
    BY <1>0, <2>1, <2>2, <2>3, <2>4 DEF LinkTypeOK
<1>2. ASSUME NEW p \in Port, Plug(d, p) PROVE LinkTypeOK' /\ Loses
  <2>1. Loses
    BY <1>2, <1>a DEF Plug, Loses
  <2> QED
    BY <1>0, <1>2, <2>1 DEF Plug, LinkTypeOK
<1>3. CASE NodeResets(d)
  <2>1. Gone(d) /\ serving' \in [Device -> BOOLEAN]
    BY <1>0, <1>3 DEF NodeResets, LinkTypeOK
  <2>2. UNCHANGED <<gui, config, faults, history>>
    BY <1>3 DEF NodeResets
  <2>3. /\ plugged' \in [Device -> Port \cup {None}] /\ workers' \in [Session -> Worker]
        /\ toDevice' \in [Device -> Seq(QueuedRequest \cup {Garbled})]
        /\ toHost' \in [Device -> Seq(LineEvent \cup {Unknown})]
        /\ openTail' \in [Device -> BOOLEAN] /\ hostTail' \in [Device -> BOOLEAN]
        /\ \A e \in Device : FewerOrGarbled(toDevice[e], toDevice'[e]) /\ FewerOrUnknown(toHost[e], toHost'[e])
        /\ \A w \in Session : workers'[w] = workers[w] \/ Ends(w)
    BY <1>0, <2>1, GoneTyped
  <2>4. Loses
    BY <2>2, <2>3 DEF Loses
  <2> QED
    BY <1>0, <2>1, <2>2, <2>3, <2>4 DEF LinkTypeOK
<1>4. CASE HangUp(d)
  <2>1. Loses
    BY <1>4, <1>a DEF HangUp, Loses
  <2> QED
    BY <1>0, <1>4, <2>1 DEF HangUp, LinkTypeOK
<1>5. CASE HubRestarts(d)
  <2>1. PICK rest \in Rests(toDevice[d], Garbled) : toDevice' = [toDevice EXCEPT ![d] = rest]
    BY <1>5 DEF HubRestarts
  <2>2. /\ rest \in Seq(QueuedRequest \cup {Garbled}) /\ Ascending(rest)
        /\ Elems(rest) \subseteq Elems(toDevice[d]) \cup {Garbled}
    <3>1. toDevice[d] \in Seq(QueuedRequest \cup {Garbled}) /\ Ascending(toDevice[d])
      BY <1>0 DEF LinkTypeOK, LinkInv, FlowInv, OrderInv
    <3> QED
      BY <2>1, <3>1, Nameless, RestsFewer
  <2>3. /\ toDevice' \in [Device -> Seq(QueuedRequest \cup {Garbled})] /\ toDevice'[d] = rest
        /\ \A e \in Device : e # d => toDevice'[e] = toDevice[e]
    BY <1>0, <2>1, <2>2 DEF LinkTypeOK
  <2>4. Loses
    <3>1. \A e \in Device : FewerOrGarbled(toDevice[e], toDevice'[e])
      BY <2>2, <2>3 DEF FewerOrGarbled, FewerOrElse
    <3> QED
      BY <1>5, <1>a, <3>1 DEF HubRestarts, Loses
  <2>5. /\ openTail' \in [Device -> BOOLEAN] /\ serving' \in [Device -> BOOLEAN]
        /\ faults' \in 0..MaxFault
    BY <1>0, <1>5, FaultTyped DEF HubRestarts, LinkTypeOK
  <2>6. interrupted' \subseteq Session
    <3>1. Nums(toDevice[d]) \subseteq DOMAIN sent
      BY DEF LinkInv, FlowInv, AddressInv, IssuedTo
    <3>2. \A i \in DOMAIN toDevice[d] : toDevice[d][i].num # 0 => toDevice[d][i].num \in DOMAIN sent
      BY <3>1 DEF Nums, Elems
    <3>3. \A n \in DOMAIN sent : sent[n].session \in Session
      <4>1. sent \in Seq(Sent)
        BY <1>0 DEF LinkTypeOK
      <4>2. \A n \in DOMAIN sent : sent[n] \in Sent
        BY <4>1
      <4> QED
        BY <4>2 DEF Sent
    <3>4. interrupted' = interrupted \cup {w \in Session : Holds(w, d)}
                           \cup {sent[toDevice[d][i].num].session :
                                    i \in {j \in DOMAIN toDevice[d] : toDevice[d][j].num # 0}}
      BY <1>5 DEF HubRestarts
    <3>5. interrupted \subseteq Session
      BY <1>0 DEF LinkTypeOK
    <3> QED
      BY <3>2, <3>3, <3>4, <3>5
  <2> QED
    BY <1>0, <1>5, <2>3, <2>4, <2>5, <2>6 DEF HubRestarts, LinkTypeOK
<1> QED
  BY <1>1, <1>2, <1>3, <1>4, <1>5 DEF WorldStep

---------------------------------------------------------------------------
(* All steps                                                               *)

\* A worker that fails or is told to end loses at most; the others move requests and answers.
LEMMA WorkerStepKeeps ==
  ASSUME LinkInv, NEW w \in Session, WorkerStep(w)
  PROVE  FlowInv'
<1> USE DEF gui, wire, device, history
<1>0. LinkTypeOK
  BY DEF LinkInv
<1>a. \A e \in Device : FewerOrGarbled(toDevice[e], toDevice[e]) /\ FewerOrUnknown(toHost[e], toHost[e])
  BY DEF FewerOrGarbled, FewerOrUnknown, FewerOrElse
<1>1. CASE OpenPort(w)
  BY <1>1, OpenKeeps
<1>2. CASE OpenFails(w)
  <2>1. /\ Ends(w) /\ \A v \in Session : v # w => workers'[v] = workers[v]
    BY <1>0, <1>2, DieTyped DEF OpenFails
  <2>2. Loses
    BY <1>2, <1>a, <2>1 DEF OpenFails, Loses
  <2> QED
    BY <2>2, LossKeeps
<1>3. CASE WriteRequest(w)
  <2>1. workers' = [workers EXCEPT ![w].queue = Tail(workers[w].queue)] /\ workers \in [Session -> Worker]
    BY <1>0, <1>3 DEF WriteRequest, LinkTypeOK
  <2>2. /\ \A v \in Session : v # w => workers'[v] = workers[v]
        /\ workers'[w].device = workers[w].device /\ workers'[w].events = workers[w].events
        /\ workers'[w].queue = Tail(workers[w].queue)
        /\ workers'[w].phase = workers[w].phase /\ workers'[w].gone = workers[w].gone
    BY <2>1 DEF Worker
  <2>3. Writes(w)
    BY <1>3, <1>a, <2>2 DEF WriteRequest, Writes
  <2> QED
    BY <2>3, WriteKeeps
<1>4. CASE WriteFails(w)
  <2>1. workers[w].phase # "unused" /\ Die(w) /\ LeaveAnswers(w) /\ AtRequest(w)
    BY <1>0, <1>4, NextRequest DEF WriteFails
  <2>2. /\ Ends(w) /\ \A v \in Session : v # w => workers'[v] = workers[v]
        /\ workers'[w].queue = <<>> /\ workers'[w].phase = "dead"
    BY <1>0, <2>1, DieTyped
  <2>3. \A d \in Device : FewerOrUnknown(toHost[d], toHost'[d])
    BY <2>1, LeftAnswers
  <2>4. UNCHANGED <<connection, opened, sent, executed, shown>>
    BY <1>4 DEF WriteFails
  <2>5. CASE ~workers[w].gone /\ Deliver(workers[w].device, Head(workers[w].queue))
    <3>1. Writes(w)
      BY <2>1, <2>2, <2>3, <2>4, <2>5 DEF Writes, Ends
    <3> QED
      BY <3>1, WriteKeeps
  <2>6. CASE UNCHANGED toDevice
    <3>1. Loses
      BY <1>a, <2>2, <2>3, <2>4, <2>6 DEF Loses
    <3> QED
      BY <3>1, LossKeeps
  <2> QED
    BY <1>4, <2>5, <2>6 DEF WriteFails
<1>5. CASE CloseSession(w)
  <2>1. /\ Ends(w) /\ \A v \in Session : v # w => workers'[v] = workers[v]
    BY <1>0, <1>5, DieTyped DEF CloseSession
  <2>2. \A d \in Device : FewerOrUnknown(toHost[d], toHost'[d])
    BY <1>5, LeftAnswers DEF CloseSession
  <2>3. Loses
    BY <1>5, <1>a, <2>1, <2>2 DEF CloseSession, Loses
  <2> QED
    BY <2>3, LossKeeps
<1>6. CASE ReadAnswer(w)
  BY <1>6, ReadKeeps
<1>7. CASE ReadFails(w)
  <2>1. /\ Ends(w) /\ \A v \in Session : v # w => workers'[v] = workers[v]
    BY <1>0, <1>7, DieTyped DEF ReadFails
  <2>2. Loses
    BY <1>7, <1>a, <2>1 DEF ReadFails, Loses
  <2> QED
    BY <2>2, LossKeeps
<1> QED
  BY <1>1, <1>2, <1>3, <1>4, <1>5, <1>6, <1>7 DEF WorkerStep

\* What the user does outside a session moves nothing.
LEMMA UserStepKeeps ==
  ASSUME LinkInv, UserStep
  PROVE  FlowInv'
<1> USE DEF gui, wire, device, history
<1>a. /\ \A e \in Device : FewerOrGarbled(toDevice[e], toDevice[e]) /\ FewerOrUnknown(toHost[e], toHost[e])
      /\ UNCHANGED <<connection, opened, sent, executed, shown, toDevice, toHost, workers>> => Loses
  BY DEF FewerOrGarbled, FewerOrUnknown, FewerOrElse, Loses
<1>b. NoText \in Text \cup {NoText} /\ {"query", "get_config", "set_config"} \cup Destructive \subseteq Command
  BY DEF Command
<1>1. CASE \E e \in {"node", "hub", "database"} : SetEndpoint(e)
  BY <1>1, <1>a, LossKeeps DEF SetEndpoint
<1>2. CASE \E p \in Port : Connect(p)
  BY <1>2, ConnectKeeps
<1>3. CASE Disconnect
  BY <1>3, DisconnectKeeps
<1>4. CASE \E t \in Typed : EditText(t)
  BY <1>4, <1>a, LossKeeps DEF EditText
<1>5. ASSUME NEW c \in {"query", "get_config"}, SendSimple(c) PROVE FlowInv'
  BY <1>5, <1>b, SendKeeps DEF SendSimple
<1>6. CASE SendSetConfig
  <2>1. configText \in Text \cup {NoText}
    BY <1>6 DEF SendSetConfig, LinkInv, LinkTypeOK
  <2> QED
    BY <1>6, <1>b, <2>1, SendKeeps DEF SendSetConfig
<1>7. CASE \E a \in Destructive : Ask(a)
  BY <1>7, <1>a, LossKeeps DEF Ask
<1>8. CASE Confirm
  <2>1. CASE connection # 0 /\ opened
    <3>1. confirmation \in Command
      BY <1>8, <1>b DEF Confirm, LinkInv, LinkTypeOK
    <3> QED
      BY <1>8, <1>b, <2>1, <3>1, SendKeeps DEF Confirm
  <2>2. CASE ~(connection # 0 /\ opened)
    <3>1. UNCHANGED <<workers, history>>
      BY <1>8, <2>2 DEF Confirm
    <3> QED
      BY <1>8, <1>a, <3>1, LossKeeps DEF Confirm
  <2> QED
    BY <2>1, <2>2
<1>9. CASE Cancel
  BY <1>9, <1>a, LossKeeps DEF Cancel
<1> QED
  BY <1>1, <1>2, <1>3, <1>4, <1>5, <1>6, <1>7, <1>8, <1>9 DEF UserStep

\* At first all channels are empty.
LEMMA InitKeeps ==
  ASSUME Init
  PROVE  LinkInv
<1>1. LinkTypeOK
  BY InitTyped
<1>2. /\ connection = 0 /\ opened = FALSE /\ sent = <<>> /\ shown = <<>>
      /\ \A d \in Device : toDevice[d] = <<>> /\ toHost[d] = <<>> /\ executed[d] = <<>>
      /\ \A w \in Session : workers[w] = Unused
  BY DEF Init
<1>3. Unused.queue = <<>> /\ Unused.events = <<>> /\ Unused.phase = "unused"
  BY DEF Unused
<1>4. DOMAIN <<>> = {}
  OBVIOUS
<1>5. \A d \in Device, w \in Session : ~Holds(w, d)
  BY <1>2, <1>3 DEF Holds
<1>6. SessionInv
  BY <1>2, <1>3, <1>4, EmptyHolds DEF SessionInv
<1>7. ExclusiveInv
  BY <1>5 DEF ExclusiveInv
<1>8. AddressInv
  BY <1>2, <1>3, EmptyHolds DEF AddressInv
<1>9. OrderInv
  BY <1>2, <1>3, <1>5, EmptyHolds DEF OrderInv, Below
<1>10. ShownInv
  BY <1>2, <1>4 DEF ShownInv
<1>11. ConfigInv
  BY <1>2, <1>3, EmptyHolds DEF ConfigInv
<1> QED
  BY <1>1, <1>6, <1>7, <1>8, <1>9, <1>10, <1>11 DEF LinkInv, FlowInv

\* A line the device drops is lost.
LEMMA DropLoses ==
  ASSUME LinkInv, NEW d \in Device, DropLine(d)
  PROVE  Loses
<1>1. /\ toDevice' = [toDevice EXCEPT ![d] = Tail(toDevice[d])] /\ toDevice[d] # <<>>
      /\ UNCHANGED <<gui, workers, toHost, history>>
  BY DEF DropLine, Reads
<1>2. toDevice[d] \in Seq(Line) /\ Numbered(Line) /\ Ascending(toDevice[d])
  BY ChannelTypes DEF LinkInv, FlowInv, OrderInv
<1>3. /\ toDevice'[d] = Tail(toDevice[d])
      /\ \A e \in Device : e # d => toDevice'[e] = toDevice[e]
  BY <1>1 DEF LinkInv, LinkTypeOK
<1>4. Elems(Tail(toDevice[d])) \subseteq Elems(toDevice[d]) /\ Ascending(Tail(toDevice[d]))
  BY <1>1, <1>2, HeadAndTail, TailAscending
<1> QED
  BY <1>1, <1>3, <1>4 DEF Loses, FewerOrGarbled, FewerOrUnknown, FewerOrElse, gui, history

\* No step, and no stutter, breaks the invariant.
LEMMA StepKeeps ==
  ASSUME LinkInv, [Next]_vars
  PROVE  LinkInv'
<1>1. CASE UserStep
  BY <1>1, UserTyped, UserStepKeeps DEF LinkInv
<1>2. CASE PollEvents
  BY <1>2, PollTyped, PollKeeps DEF LinkInv
<1>3. CASE \E w \in Session : WorkerStep(w)
  BY <1>3, WorkerStepTyped, WorkerStepKeeps DEF LinkInv
<1>4. CASE \E d \in Device : DeviceStep(d)
  <2>1. PICK d \in Device : DeviceStep(d)
    BY <1>4
  <2>2. CASE Answering(d)
    BY <2>1, <2>2, DeviceStepTyped, DeviceReplies, ReplyKeeps DEF LinkInv
  <2>3. CASE DropLine(d)
    BY <2>1, <2>3, DeviceStepTyped, DropLoses, LossKeeps DEF LinkInv
  <2> QED
    BY <2>1, <2>2, <2>3 DEF DeviceStep, Answering
<1>5. CASE \E d \in Device : WorldStep(d)
  BY <1>5, WorldStepLoses, LossKeeps DEF LinkInv
<1>6. CASE UNCHANGED vars
  <2>1. LinkTypeOK'
    BY <1>6 DEF LinkInv, LinkTypeOK, vars, gui, wire, device, history
  <2>2. Loses
    BY <1>6 DEF Loses, FewerOrGarbled, FewerOrUnknown, FewerOrElse, vars, gui, wire, history
  <2> QED
    BY <2>1, <2>2, LossKeeps DEF LinkInv
<1> QED
  BY <1>1, <1>2, <1>3, <1>4, <1>5, <1>6 DEF Next, WorldStep

---------------------------------------------------------------------------
(* Theorems                                                                *)

\* Types, and the order and the addresses along the way of every request.
THEOREM LinkInvariant == Spec => []LinkInv
<1>1. Init => LinkInv
  BY InitKeeps
<1>2. LinkInv /\ [Next]_vars => LinkInv'
  BY StepKeeps
<1> QED
  BY <1>1, <1>2, PTL DEF Spec

\* Types; and whatever text a device is sent, it stores a configuration of its own kind.
THEOREM LinkTypeCorrect == Spec => []LinkTypeOK
<1>1. LinkInv => LinkTypeOK
  BY DEF LinkInv
<1> QED
  BY <1>1, LinkInvariant, PTL

\* The answers shown in a session come from its device, in the order of their requests,
\* each once, over any number of sessions, failures and replugged devices.
THEOREM AnswersInOrderCorrect == Spec => []AnswersInOrder
<1>1. LinkInv => AnswersInOrder
  <2> SUFFICES ASSUME LinkInv PROVE AnswersInOrder
    OBVIOUS
  <2> USE DEF LinkInv, FlowInv
  <2>1. CASE connection = 0
    BY <2>1 DEF ShownInv, AnswersInOrder
  <2>2. CASE connection # 0
    <3>1. Elems(shown) \subseteq IssuedTo(workers[connection].device)
      BY <2>2 DEF AddressInv
    <3> QED
      BY <3>1 DEF ShownInv, AnswersInOrder, Elems, IssuedTo
  <2> QED
    BY <2>1, <2>2
<1> QED
  BY <1>1, LinkInvariant, PTL

\* Only the answer to a request for a configuration, of this device and still outstanding,
\* replaces the text in the editor.
THEOREM EditsLostOnlyToAnOutstandingRequestCorrect ==
  Spec => EditsLostOnlyToAnOutstandingRequest
<1> DEFINE Replaced ==
      (PollEvents /\ configText' # configText) =>
        \E n \in DOMAIN sent :
          /\ sent[n].config /\ sent[n].device = workers[connection].device
          /\ \A i \in DOMAIN shown : shown[i] < n
<1>1. LinkInv /\ [Next]_vars => [Replaced]_vars
  <2> SUFFICES ASSUME LinkInv, PollEvents, configText' # configText
               PROVE  \E n \in DOMAIN sent :
                        /\ sent[n].config /\ sent[n].device = workers[connection].device
                        /\ \A i \in DOMAIN shown : shown[i] < n
    OBVIOUS
  <2> USE DEF LinkInv, FlowInv
  <2> DEFINE s == workers[connection].events
  <2>1. connection \in Session /\ connection # 0
    BY PollShows DEF PollEvents
  <2>2. PICK i \in DOMAIN s : Carries(s[i])
    BY DEF PollEvents
  <2>3. s[i] \in Elems(s) /\ s[i] \in LineEvent
    <3>1. Elems(s) \subseteq LineEvent \cup {Opened} /\ s[i] \in Elems(s)
      BY <2>1, ChannelTypes DEF Elems
    <3> QED
      BY <3>1, <2>2, Nameless
  <2>4. PICK n : n = s[i].num
    OBVIOUS
  <2>5. n \in Nums(s)
    BY <2>3, <2>4, Nameless DEF Nums
  <2>6. n \in IssuedTo(workers[connection].device)
    BY <2>1, <2>5 DEF AddressInv
  <2>7. sent[n].config
    BY <2>1, <2>2, <2>3, <2>4 DEF ConfigInv, Tells
  <2>8. \A j \in DOMAIN shown : shown[j] < n
    BY <2>1, <2>5 DEF ShownInv, Below, Elems
  <2> QED
    BY <2>6, <2>7, <2>8 DEF IssuedTo
<1> QED
  BY <1>1, LinkInvariant, PTL DEF Spec, EditsLostOnlyToAnOutstandingRequest

\* The device of every request, in the order of their numbers.
Issued(s) == [n \in DOMAIN s |-> s[n].device]

\* Requests are issued one after the other.
LEMMA IssuedGrows ==
  ASSUME NEW s \in Seq(Sent), NEW r \in Sent
  PROVE  Issued(Append(s, r)) = Append(Issued(s), r.device)
<1>1. /\ Append(s, r) \in Seq(Sent) /\ Len(Append(s, r)) = Len(s) + 1 /\ Len(s) \in Nat
      /\ DOMAIN s = 1..Len(s) /\ DOMAIN Append(s, r) = 1..(Len(s) + 1)
      /\ \A i \in 1..Len(s) : Append(s, r)[i] = s[i] /\ s[i] \in Sent
      /\ Append(s, r)[Len(s) + 1] = r
  BY AppendProperties, LenProperties, ElementOfSeq
<1>2. PICK t : t = Issued(s)
  OBVIOUS
<1>3. t \in Seq(Device) /\ Len(t) = Len(s) /\ \A i \in 1..Len(s) : t[i] = s[i].device
  BY <1>1, <1>2 DEF Issued, Sent
<1>4. PICK u : u = Issued(Append(s, r))
  OBVIOUS
<1>5. u \in Seq(Device) /\ Len(u) = Len(s) + 1
      /\ \A i \in 1..(Len(s) + 1) : u[i] = Append(s, r)[i].device
  BY <1>1, <1>4 DEF Issued, Sent
<1>6. PICK v : v = Append(t, r.device)
  OBVIOUS
<1>7. v \in Seq(Device) /\ Len(v) = Len(s) + 1 /\ v[Len(s) + 1] = r.device
      /\ \A i \in 1..Len(s) : v[i] = t[i]
  <2>1. r.device \in Device
    BY DEF Sent
  <2> QED
    BY <2>1, <1>3, <1>6, AppendProperties
<1>8. \A i \in 1..(Len(s) + 1) : u[i] = v[i]
  <2> SUFFICES ASSUME NEW i \in 1..(Len(s) + 1) PROVE u[i] = v[i]
    OBVIOUS
  <2>1. CASE i = Len(s) + 1
    BY <2>1, <1>1, <1>5, <1>7
  <2>2. CASE i # Len(s) + 1
    <3>1. i \in 1..Len(s)
      BY <2>2, <1>1
    <3> QED
      BY <3>1, <1>1, <1>3, <1>5, <1>7
  <2> QED
    BY <2>1, <2>2
<1>9. u = v
  BY <1>1, <1>5, <1>7, <1>8, SeqEqual
<1> QED
  BY <1>2, <1>4, <1>6, <1>9

\* Every step of GUI, workers and devices is a step of CommandContract or leaves it alone:
\* sending issues a command, and a device executes one that was issued to it, after all
\* it executed before.
THEOREM LinkContractCorrect == Spec => LinkContract
<1>1. Init => Contract!Init
  <2> SUFFICES ASSUME Init PROVE Contract!Init
    OBVIOUS
  <2>1. sent = <<>> /\ executed = [d \in Device |-> <<>>]
    BY DEF Init
  <2>2. [n \in DOMAIN sent |-> sent[n].device] = <<>>
    <3>1. DOMAIN sent = {}
      BY <2>1
    <3> QED
      BY <3>1
  <2> QED
    BY <2>1, <2>2 DEF Contract!Init
<1>2. LinkInv /\ [Next]_vars => [Contract!Next]_(Contract!vars)
  <2> SUFFICES ASSUME LinkInv, [Next]_vars
               PROVE  Contract!Next \/ UNCHANGED <<Issued(sent), executed>>
    BY DEF Contract!vars, Issued
  <2>1. ASSUME UNCHANGED <<sent, executed>>
        PROVE  Contract!Next \/ UNCHANGED <<Issued(sent), executed>>
    BY <2>1 DEF Issued
  <2>2. ASSUME NEW c \in Command, NEW t, Send(c, t), connection # 0
        PROVE  Contract!Next
    <3>1. connection \in Session /\ sent \in Seq(Sent) /\ workers[connection] \in Worker
      BY <2>2, ChannelTypes DEF LinkInv, LinkTypeOK
    <3>2. PICK r : r = [device |-> workers[connection].device, session |-> connection,
                        config |-> c \in {"get_config", "set_config"},
                        fits |-> t \notin LongRequest[Kind[workers[connection].device]]]
      OBVIOUS
    <3>3. r \in Sent /\ sent' = Append(sent, r) /\ r.device \in Device /\ UNCHANGED executed
      BY <2>2, <3>1, <3>2 DEF Send, Sent, Worker
    <3>4. Issued(sent') = Append(Issued(sent), r.device)
      BY <3>1, <3>3, IssuedGrows
    <3> QED
      BY <3>3, <3>4 DEF Contract!Next, Contract!Issue, Issued
  <2>3. ASSUME NEW d \in Device, DeviceStep(d)
        PROVE  Contract!Next \/ UNCHANGED <<Issued(sent), executed>>
    <3>0. CASE DropLine(d)
      BY <2>1, <3>0 DEF DropLine, history
    <3> SUFFICES ASSUME Answering(d)
                 PROVE  Contract!Next \/ UNCHANGED <<Issued(sent), executed>>
      BY <2>3, <3>0 DEF DeviceStep, Answering
    <3>1. Replies(d)
      BY DeviceReplies
    <3>2. PICK n : n = Head(toDevice[d]).num
      OBVIOUS
    <3>3. CASE n = 0
      BY <2>1, <3>1, <3>2, <3>3 DEF Replies
    <3>4. CASE n # 0
      <4>1. executed' = [executed EXCEPT ![d] = Append(executed[d], n)] /\ UNCHANGED sent
        BY <3>1, <3>2, <3>4 DEF Replies
      <4>2. toDevice[d] \in Seq(Line) /\ toDevice[d] # <<>>
        BY <3>1, ChannelTypes DEF Replies, LinkInv
      <4>3. n \in Nums(toDevice[d])
        BY <4>2, <3>2, <3>4, HeadAndTail
      <4>4. n \in DOMAIN sent /\ sent[n].device = d
        BY <4>3 DEF LinkInv, FlowInv, AddressInv, IssuedTo
      <4>5. \A i \in DOMAIN executed[d] : executed[d][i] < n
        BY <4>3 DEF LinkInv, FlowInv, OrderInv, Below, Elems
      <4>6. n \in DOMAIN Issued(sent) /\ Issued(sent)[n] = d /\ UNCHANGED Issued(sent)
        BY <4>1, <4>4 DEF Issued
      <4> QED
        BY <4>1, <4>5, <4>6 DEF Contract!Next, Contract!Execute, Issued
    <3> QED
      BY <3>3, <3>4
  <2>4. CASE UserStep
    <3> USE DEF history
    <3>1. ASSUME NEW c \in {"query", "get_config"}, SendSimple(c) PROVE Contract!Next
      BY <2>2, <3>1 DEF SendSimple, Command
    <3>2. ASSUME SendSetConfig PROVE Contract!Next
      BY <2>2, <3>2 DEF SendSetConfig, Command
    <3>3. ASSUME Confirm PROVE Contract!Next \/ UNCHANGED <<sent, executed>>
      <4>1. confirmation \in Command
        BY <3>3 DEF Confirm, LinkInv, LinkTypeOK, Command
      <4> QED
        BY <2>2, <3>3, <4>1 DEF Confirm
    <3>4. ASSUME ~\E c \in {"query", "get_config"} : SendSimple(c), ~SendSetConfig, ~Confirm
          PROVE  UNCHANGED <<sent, executed>>
      BY <2>4, <3>4 DEF UserStep, SetEndpoint, Connect, Disconnect, EditText, Ask, Cancel
    <3> QED
      BY <2>1, <3>1, <3>2, <3>3, <3>4
  <2>5. CASE PollEvents
    BY <2>1, <2>5 DEF PollEvents
  <2>6. ASSUME NEW w \in Session, WorkerStep(w) PROVE UNCHANGED <<sent, executed>>
    BY <2>6 DEF WorkerStep, OpenPort, OpenFails, WriteRequest, WriteFails, CloseSession,
                ReadAnswer, ReadFails, history
  <2>7. ASSUME NEW d \in Device, WorldStep(d) PROVE UNCHANGED <<sent, executed>>
    BY <2>7 DEF WorldStep, Unplug, Plug, NodeResets, HangUp, HubRestarts, history
  <2>8. CASE UNCHANGED vars
    BY <2>1, <2>8 DEF vars, history
  <2> QED
    BY <2>1, <2>3, <2>4, <2>5, <2>6, <2>7, <2>8 DEF Next, WorldStep
<1> QED
  BY <1>1, <1>2, LinkInvariant, PTL DEF Spec, LinkContract, Contract!Spec

---------------------------------------------------------------------------
(* No gaps                                                                 *)

\* A step that moves no request: it may end workers and sessions, and take from the line of a
\* device all that is on it when nobody holds the device, or what it likes of sessions it
\* interrupts.
Quiet ==
  /\ UNCHANGED <<sent, executed, swallowed>> /\ interrupted \subseteq interrupted'
  /\ \A d \in Device :
       \/ toDevice'[d] = toDevice[d]
       \/ /\ \A n \in Nums(toDevice'[d]) : n \in Nums(toDevice[d]) /\ sent[n].session \in interrupted'
          /\ \A w \in Session : Holds(w, d)' => w \in interrupted'
  /\ \A w \in Session :
       /\ Nums(workers'[w].queue) \subseteq Nums(workers[w].queue)
       /\ workers'[w].phase \in {"unused", "opening"} => workers[w].phase \in {"unused", "opening"}
       /\ \A d \in Device : Holds(w, d)' =>
            \/ workers[w].phase = "opening"
            \/ /\ Holds(w, d) /\ Nums(workers'[w].queue) = Nums(workers[w].queue)
               /\ openTail'[d] => openTail[d]

\* Such a step makes no gap.
LEMMA QuietKeeps ==
  ASSUME LinkInv, WholeInv, Quiet
  PROVE  WholeInv'
<1> USE DEF WholeInv
<1>0. /\ \A w : OfSession(w)' = OfSession(w)
      /\ UNCHANGED <<sent, executed, swallowed, Excused>> /\ interrupted \subseteq interrupted'
  BY DEF Quiet, OfSession, Excused
<1>1. ASSUME NEW d \in Device, toDevice'[d] # toDevice[d]
      PROVE  \A w \in Session : w \notin interrupted' =>
               ~Holds(w, d)' /\ OfSession(w) \cap Nums(toDevice'[d]) = {}
  BY <1>1 DEF Quiet, OfSession
<1>2. ASSUME NEW w \in Session, NEW d \in Device, Holds(w, d)'
      PROVE  \/ OfSession(w) = {}
             \/ /\ Holds(w, d) /\ Nums(workers'[w].queue) = Nums(workers[w].queue)
                /\ openTail'[d] => openTail[d]
  BY <1>2 DEF Quiet, OwnInv
<1>3. OwnInv'
  BY <1>0 DEF Quiet, OwnInv
<1>4. GapInv'
  <2> SUFFICES ASSUME NEW d \in Device, NEW w \in Session, w \notin interrupted'
               PROVE  /\ \A n, m \in OfSession(w) : n < m =>
                           /\ m \in Elems(executed[d]) => n \in Elems(executed[d]) \cup Excused
                           /\ m \in Nums(toDevice'[d]) =>
                                n \in Elems(executed[d]) \cup Excused \cup Nums(toDevice'[d])
                      /\ Holds(w, d)' =>
                           OfSession(w) \subseteq Nums(workers'[w].queue) \cup Nums(toDevice'[d])
                                                    \cup Elems(executed[d]) \cup Excused
    BY <1>0 DEF GapInv
  <2>1. w \notin interrupted
    BY <1>0
  <2>2. ASSUME NEW n \in OfSession(w), NEW m \in OfSession(w), n < m
        PROVE  /\ m \in Elems(executed[d]) => n \in Elems(executed[d]) \cup Excused
               /\ m \in Nums(toDevice'[d]) =>
                    n \in Elems(executed[d]) \cup Excused \cup Nums(toDevice'[d])
    BY <2>1, <2>2, <1>1 DEF GapInv
  <2>3. ASSUME Holds(w, d)'
        PROVE  OfSession(w) \subseteq Nums(workers'[w].queue) \cup Nums(toDevice'[d])
                                        \cup Elems(executed[d]) \cup Excused
    <3>1. toDevice'[d] = toDevice[d]
      BY <2>3, <1>1
    <3> QED
      BY <2>1, <2>3, <3>1, <1>2 DEF GapInv
  <2> QED
    BY <2>2, <2>3
<1>5. FirstInv'
  <2>1. ASSUME NEW w \in Session, NEW d \in Device, Holds(w, d)', openTail'[d]
        PROVE  OfSession(w) \subseteq Nums(workers'[w].queue)
    BY <2>1, <1>2 DEF FirstInv
  <2> QED
    BY <2>1, <1>0 DEF FirstInv
<1> QED
  BY <1>3, <1>4, <1>5

\* A new request waits behind all others of its session.
LEMMA SendLeavesNoGap ==
  ASSUME LinkInv, WholeInv, NEW c \in Command, NEW t \in Text \cup {NoText}, Send(c, t),
         connection # 0, opened, UNCHANGED <<toDevice, openTail>>
  PROVE  WholeInv'
<1> DEFINE w == connection
           q == workers[w].queue
           Now(v) == {m \in DOMAIN sent' : sent'[m].session = v}
<1>b. PICK n : n = Len(sent) + 1
  OBVIOUS
<1>c. PICK l : l = Request(n, c, t)
  OBVIOUS
<1>d. Records(c, n, l)
  BY <1>b, <1>c, SendRecords
<1> USE DEF WholeInv
<1>0. w \in Session /\ workers[w].phase \in {"running", "dead"} /\ n # 0
  BY <1>d DEF Records, LinkInv, FlowInv, SessionInv, LinkTypeOK, Worker
<1>1. /\ DOMAIN sent' = DOMAIN sent \cup {n} /\ n \notin DOMAIN sent
      /\ \A m \in DOMAIN sent : sent'[m] = sent[m] /\ m < n
      /\ sent'[n].session = w
      /\ UNCHANGED <<executed, swallowed, interrupted, toDevice, openTail>>
  BY <1>d DEF Records
<1>2. \A v \in Session : v # w => workers'[v] = workers[v]
  BY <1>d DEF Records
<1>3. \A v : v # w => Now(v) = OfSession(v)
  BY <1>1 DEF OfSession
<1>4. Now(w) = OfSession(w) \cup {n}
  BY <1>1 DEF OfSession
<1>5. /\ workers'[w].phase = workers[w].phase /\ workers'[w].gone = workers[w].gone
      /\ workers'[w].device = workers[w].device
      /\ Nums(q) \subseteq Nums(workers'[w].queue) /\ Nums(workers'[w].queue) \subseteq Nums(q) \cup {n}
      /\ workers[w].phase = "running" => n \in Nums(workers'[w].queue)
  <2>1. l \in Line /\ l.num = n /\ q \in Seq(Line)
    <3>1. n \in 1..MaxRequest
      BY <1>d DEF Records
    <3> QED
      BY <1>0, <1>c, <3>1, ChannelTypes DEF LinkInv, Request, Line, QueuedRequest
  <2>2. Nums(Append(q, l)) = Nums(q) \cup {n}
    BY <2>1, <1>0, AppendHolds
  <2>3. workers'[w].queue = IF workers[w].phase = "dead" THEN q ELSE Append(q, l)
    BY <1>d DEF Records
  <2> QED
    BY <2>2, <2>3, <1>d DEF Records
<1>6. \A v \in Session, e \in Device : Holds(v, e)' <=> Holds(v, e)
  BY <1>2, <1>5 DEF Holds
<1>7. \A d \in Device : n \notin Elems(executed[d]) \cup Nums(toDevice[d])
  BY <1>1 DEF LinkInv, FlowInv, AddressInv, IssuedTo
<1>8. OwnInv'
  <2>1. ASSUME NEW v \in Session
        PROVE  /\ Nums(workers'[v].queue) \subseteq Now(v)
               /\ workers'[v].phase \in {"unused", "opening"} => Now(v) = {}
    <3>1. CASE v = w
      BY <3>1, <1>0, <1>4, <1>5 DEF OwnInv
    <3>2. CASE v # w
      BY <3>2, <1>2, <1>3 DEF OwnInv
    <3> QED
      BY <3>1, <3>2
  <2>2. swallowed' \subseteq DOMAIN sent'
    BY <1>1 DEF OwnInv
  <2>3. \A d \in Device : \A i, j \in DOMAIN executed'[d] : i < j => executed'[d][i] < executed'[d][j]
    BY <1>1 DEF OwnInv
  <2> QED
    BY <2>1, <2>2, <2>3 DEF OwnInv, OfSession
<1>9. GapInv'
  <2>1. ASSUME NEW d \in Device, NEW v \in Session, v \notin interrupted,
               NEW x \in Now(v), NEW m \in Now(v), x < m
        PROVE  /\ m \in Elems(executed[d]) => x \in Elems(executed[d]) \cup Excused
               /\ m \in Nums(toDevice[d]) => x \in Elems(executed[d]) \cup Excused \cup Nums(toDevice[d])
    <3>1. CASE m = n
      BY <3>1, <1>7
    <3>2. CASE m # n
      <4>1. m \in OfSession(v) /\ m \in DOMAIN sent
        BY <2>1, <3>2, <1>3, <1>4 DEF OfSession
      <4>2. x # n
        BY <4>1, <2>1, <1>1, <1>b DEF LinkInv, LinkTypeOK
      <4>3. x \in OfSession(v)
        BY <4>2, <2>1, <1>3, <1>4
      <4> QED
        BY <2>1, <4>1, <4>3 DEF GapInv
    <3> QED
      BY <3>1, <3>2
  <2>2. ASSUME NEW d \in Device, NEW v \in Session, v \notin interrupted, Holds(v, d)
        PROVE  Now(v) \subseteq Nums(workers'[v].queue) \cup Nums(toDevice[d])
                                        \cup Elems(executed[d]) \cup Excused
    <3>1. OfSession(v) \subseteq Nums(workers[v].queue) \cup Nums(toDevice[d])
                                  \cup Elems(executed[d]) \cup Excused
      BY <2>2 DEF GapInv
    <3>2. CASE v = w
      BY <2>2, <3>1, <3>2, <1>4, <1>5 DEF Holds
    <3>3. CASE v # w
      BY <3>1, <3>3, <1>2, <1>3
    <3> QED
      BY <3>2, <3>3
  <2>3. Excused \subseteq Excused'
    BY <1>1 DEF Excused
  <2> QED
    BY <2>1, <2>2, <2>3, <1>1, <1>6 DEF GapInv, OfSession
<1>10. FirstInv'
  <2>1. ASSUME NEW d \in Device, NEW v \in Session, Holds(v, d), openTail[d]
        PROVE  Now(v) \subseteq Nums(workers'[v].queue)
    <3>1. OfSession(v) \subseteq Nums(workers[v].queue)
      BY <2>1 DEF FirstInv
    <3>2. CASE v = w
      BY <2>1, <3>1, <3>2, <1>4, <1>5 DEF Holds
    <3>3. CASE v # w
      BY <3>1, <3>3, <1>2, <1>3
    <3> QED
      BY <3>2, <3>3
  <2>2. ASSUME NEW x \in swallowed, x \notin Elems(executed[sent'[x].device]),
               NEW k \in Now(sent'[x].session)
        PROVE  ~ (k < x)
    <3>1. x \in DOMAIN sent /\ sent'[x] = sent[x] /\ x < n
      BY <1>1 DEF OwnInv
    <3>2. CASE k = n
      <4>1. x \in Nat /\ n \in Nat
        BY <3>1, <1>b DEF LinkInv, LinkTypeOK
      <4> QED
        BY <3>1, <3>2, <4>1
    <3>3. CASE k # n
      <4>1. k \in OfSession(sent[x].session)
        BY <2>2, <3>1, <3>3, <1>3, <1>4
      <4> QED
        BY <2>2, <3>1, <4>1 DEF FirstInv
    <3> QED
      BY <3>2, <3>3
  <2> QED
    BY <2>1, <2>2, <1>1, <1>6 DEF FirstInv, OfSession
<1> QED
  BY <1>8, <1>9, <1>10

\* What a device does to the other histories: an answer in the rest of another line is lost.
Swallows(d) ==
  /\ swallowed \subseteq swallowed' /\ swallowed' \subseteq swallowed \cup {Head(toDevice[d]).num}
  /\ 0 \notin swallowed' \/ 0 \in swallowed
  /\ unanswered \subseteq unanswered'
  /\ UNCHANGED <<openTail, interrupted>>

\* Every handler answers, and does no more.
LEMMA DeviceSwallows ==
  ASSUME NEW d \in Device, Answering(d)
  PROVE  Swallows(d)
<1>1. ASSUME NEW t, NEW up, Reply(d, t, up) PROVE Swallows(d)
  <2>1. PICK n : n = Head(toDevice[d]).num
    OBVIOUS
  <2>2. swallowed' = swallowed \/ (n # 0 /\ swallowed' = swallowed \cup {n})
    <3>1. CASE swallowed' = swallowed
      BY <3>1
    <3>2. CASE swallowed' # swallowed
      <4>1. n # 0 /\ swallowed' = swallowed \cup {n}
        BY <1>1, <2>1, <3>2 DEF Reply
      <4> QED
        BY <4>1
    <3> QED
      BY <3>1, <3>2
  <2>3. unanswered \subseteq unanswered' /\ UNCHANGED <<openTail, interrupted>>
    BY <1>1 DEF Reply
  <2> QED
    BY <2>1, <2>2, <2>3 DEF Swallows
<1>2. \E t, up : Reply(d, t, up)
  BY DEF Answering, HandleQuery, HandleGetConfig, HandleSetConfig, HandleFactoryReset,
         HandleReboot, HandleGarbled
<1> QED
  BY <1>1, <1>2

\* The first line is executed: all others of its session that are still on the line come after it.
LEMMA ReplyLeavesNoGap ==
  ASSUME LinkInv, WholeInv, NEW d \in Device, Replies(d), Swallows(d)
  PROVE  WholeInv'
<1> DEFINE l == Head(toDevice[d])
           N == {l.num} \ {0}
<1>a. LinkTypeOK
  BY DEF LinkInv
<1>b. /\ toDevice[d] \in Seq(Line) /\ toDevice[d] # <<>> /\ Numbered(Line)
      /\ Ascending(toDevice[d])
      /\ Elems(toDevice[d]) \subseteq QueuedRequest \cup {Garbled}
  BY <1>a, ChannelTypes DEF Replies, LinkInv, FlowInv, OrderInv
<1> USE DEF WholeInv
<1>0. /\ UNCHANGED <<workers, sent, openTail, interrupted>>
      /\ \A v, e : (Holds(v, e)' <=> Holds(v, e))
      /\ \A v : OfSession(v)' = OfSession(v)
  BY DEF Replies, Swallows, Holds, OfSession
<1>1. /\ swallowed \subseteq swallowed' /\ swallowed' \subseteq swallowed \cup N
  BY DEF Swallows
<1>e. Excused \subseteq Excused'
  BY <1>0, <1>1 DEF Excused
<1>2. /\ Nums(toDevice[d]) = N \cup Nums(Tail(toDevice[d]))
      /\ Below(N, Nums(Tail(toDevice[d]))) /\ l \in Elems(toDevice[d])
      /\ N \subseteq Nums(toDevice[d])
  BY <1>b, HeadAndTail, TailAscending
<1>3. /\ toDevice'[d] = Tail(toDevice[d])
      /\ \A e \in Device : e # d => toDevice'[e] = toDevice[e]
  BY <1>a DEF Replies, LinkTypeOK
<1>4. N \subseteq DOMAIN sent /\ \A n \in N : sent[n].device = d
  BY <1>2 DEF LinkInv, FlowInv, AddressInv, IssuedTo
<1>5. /\ \A e \in Device : e # d => executed'[e] = executed[e]
      /\ Elems(executed'[d]) = Elems(executed[d]) \cup N
      /\ \A i, j \in DOMAIN executed'[d] : i < j => executed'[d][i] < executed'[d][j]
  <2>1. CASE l.num = 0
    BY <2>1 DEF Replies, OwnInv
  <2>2. CASE l.num # 0
    <3>1. executed' = [executed EXCEPT ![d] = Append(executed[d], l.num)]
      BY <2>2 DEF Replies
    <3>2. l.num \in 1..MaxRequest
      BY <2>2, <1>b, <1>2, Nameless DEF QueuedRequest
    <3>3. PICK S : S = 1..MaxRequest
      OBVIOUS
    <3>4. executed \in [Device -> Seq(S)] /\ l.num \in S
      BY <1>a, <3>2, <3>3 DEF LinkTypeOK
    <3>5. PICK r : r = Append(executed[d], l.num)
      OBVIOUS
    <3>6. executed'[d] = r /\ \A e \in Device : e # d => executed'[e] = executed[e]
      BY <3>1, <3>4, <3>5
    <3>7. Elems(r) = Elems(executed[d]) \cup {l.num}
      BY <3>4, <3>5, AppendElems
    <3>8. /\ Len(executed[d]) \in Nat /\ DOMAIN executed[d] = 1..Len(executed[d])
          /\ DOMAIN r = 1..(Len(executed[d]) + 1) /\ r[Len(executed[d]) + 1] = l.num
          /\ \A i \in 1..Len(executed[d]) : r[i] = executed[d][i]
      BY <3>4, <3>5
    <3>9. \A i \in DOMAIN executed[d] : executed[d][i] < l.num
      <4>1. l.num \in Nums(toDevice[d])
        BY <2>2, <1>2
      <4> QED
        BY <4>1 DEF LinkInv, FlowInv, OrderInv, Below, Elems
    <3>10. \A i, j \in DOMAIN r : i < j => r[i] < r[j]
      <4> SUFFICES ASSUME NEW i \in DOMAIN r, NEW j \in DOMAIN r, i < j
                   PROVE  r[i] < r[j]
        OBVIOUS
      <4>1. i \in 1..Len(executed[d])
        BY <3>8
      <4>2. CASE j = Len(executed[d]) + 1
        BY <4>1, <4>2, <3>8, <3>9
      <4>3. CASE j # Len(executed[d]) + 1
        <5>1. j \in 1..Len(executed[d])
          BY <4>3, <3>8
        <5> QED
          BY <4>1, <5>1, <3>8 DEF OwnInv
      <4> QED
        BY <4>2, <4>3
    <3> QED
      BY <2>2, <3>6, <3>7, <3>10
  <2> QED
    BY <2>1, <2>2
<1>6. \A e \in Device : Elems(executed[e]) \subseteq Elems(executed'[e])
  BY <1>5
<1>7. OwnInv'
  <2>1. \A e \in Device : \A i, j \in DOMAIN executed'[e] : i < j => executed'[e][i] < executed'[e][j]
    BY <1>5 DEF OwnInv
  <2> QED
    BY <2>1, <1>0, <1>1, <1>4 DEF OwnInv
<1>8. GapInv'
  <2> SUFFICES ASSUME NEW e \in Device, NEW v \in Session, v \notin interrupted
               PROVE  /\ \A n, m \in OfSession(v) : n < m =>
                           /\ m \in Elems(executed'[e]) => n \in Elems(executed'[e]) \cup Excused'
                           /\ m \in Nums(toDevice'[e]) =>
                                n \in Elems(executed'[e]) \cup Excused' \cup Nums(toDevice'[e])
                      /\ Holds(v, e) =>
                           OfSession(v) \subseteq Nums(workers[v].queue) \cup Nums(toDevice'[e])
                                                    \cup Elems(executed'[e]) \cup Excused'
    BY <1>0 DEF GapInv
  <2>1. /\ \A n, m \in OfSession(v) : n < m =>
             /\ m \in Elems(executed[e]) => n \in Elems(executed[e]) \cup Excused
             /\ m \in Nums(toDevice[e]) =>
                  n \in Elems(executed[e]) \cup Excused \cup Nums(toDevice[e])
        /\ Holds(v, e) =>
             OfSession(v) \subseteq Nums(workers[v].queue) \cup Nums(toDevice[e])
                                      \cup Elems(executed[e]) \cup Excused
    BY DEF GapInv
  <2>2. CASE e # d
    BY <2>1, <2>2, <1>e, <1>3, <1>5
  <2>3. CASE e = d
    <3>1. Nums(toDevice[d]) \subseteq Nums(toDevice'[d]) \cup Elems(executed'[d])
      BY <1>2, <1>3, <1>5
    <3>2. ASSUME NEW n \in OfSession(v), NEW m \in OfSession(v), n < m
          PROVE  /\ m \in Elems(executed'[d]) => n \in Elems(executed'[d]) \cup Excused'
                 /\ m \in Nums(toDevice'[d]) =>
                      n \in Elems(executed'[d]) \cup Excused' \cup Nums(toDevice'[d])
      <4>1. CASE m \in Elems(executed[d])
        BY <2>1, <2>3, <3>2, <4>1, <1>e, <1>6
      <4>2. CASE m \in N
        <5>1. n \in Elems(executed[d]) \cup Excused \cup Nums(toDevice[d])
          BY <2>1, <2>3, <3>2, <4>2, <1>2
        <5>2. n \notin Nums(Tail(toDevice[d]))
          <6>1. ASSUME n \in Nums(Tail(toDevice[d])) PROVE FALSE
            <7>1. m < n
              BY <6>1, <4>2, <1>2 DEF Below
            <7>2. m \in Nat /\ n \in Nat
              <8>1. DOMAIN sent \subseteq Nat
                BY <1>a DEF LinkTypeOK
              <8> QED
                BY <8>1 DEF OfSession
            <7> QED
              BY <3>2, <7>1, <7>2
          <6> QED
            BY <6>1
        <5> QED
          BY <5>1, <5>2, <1>e, <1>2, <1>5
      <4>3. CASE m \in Nums(toDevice'[d]) /\ m \notin Elems(executed'[d])
        <5>1. n \in Elems(executed[d]) \cup Excused \cup Nums(toDevice[d])
          BY <2>1, <2>3, <3>2, <4>3, <1>2, <1>3
        <5> QED
          BY <3>1, <4>3, <5>1, <1>e, <1>6
      <4>4. CASE m \notin Nums(toDevice'[d]) /\ m \notin Elems(executed'[d])
        BY <4>4
      <4> QED
        BY <4>1, <4>2, <4>3, <4>4, <1>5
    <3> QED
      BY <2>1, <2>3, <3>1, <3>2, <1>e, <1>6
  <2> QED
    BY <2>2, <2>3
<1>9. FirstInv'
  <2>1. ASSUME NEW n \in swallowed', n \notin Elems(executed'[sent[n].device]),
               NEW k \in OfSession(sent[n].session)
        PROVE  ~ (k < n)
    <3>1. n \notin N
      BY <2>1, <1>4, <1>5
    <3>2. n \in swallowed
      BY <2>1, <3>1, <1>1
    <3>3. sent[n].device \in Device
      <4>1. n \in DOMAIN sent /\ sent \in Seq(Sent)
        BY <3>2, <1>a DEF LinkTypeOK, OwnInv
      <4>2. sent[n] \in Sent
        BY <4>1
      <4> QED
        BY <4>2 DEF Sent
    <3>4. n \notin Elems(executed[sent[n].device])
      BY <2>1, <3>3, <1>6
    <3> QED
      BY <2>1, <3>2, <3>4 DEF FirstInv
  <2> QED
    BY <2>1, <1>0 DEF FirstInv
<1> QED
  BY <1>7, <1>8, <1>9

\* A line the device drops is on record as too long for it, or has no number.
LEMMA DropLeavesNoGap ==
  ASSUME LinkInv, WholeInv, NEW d \in Device, DropLine(d)
  PROVE  WholeInv'
<1> DEFINE l == Head(toDevice[d])
           N == {l.num} \ {0}
<1> USE DEF WholeInv
<1>1. /\ UNCHANGED <<workers, sent, executed, swallowed, interrupted, openTail>>
      /\ toDevice' = [toDevice EXCEPT ![d] = Tail(toDevice[d])]
      /\ toDevice[d] # <<>> /\ (l = Garbled \/ TooLong(d, l))
  BY DEF DropLine, Reads, history
<1>2. /\ toDevice'[d] = Tail(toDevice[d])
      /\ \A e \in Device : e # d => toDevice'[e] = toDevice[e]
  BY <1>1 DEF LinkInv, LinkTypeOK
<1>3. Nums(toDevice[d]) = N \cup Nums(Tail(toDevice[d])) /\ l \in Elems(toDevice[d])
  BY <1>1, HeadAndTail, ChannelTypes DEF LinkInv
<1>4. N \subseteq Excused
  <2>1. CASE l = Garbled
    BY <2>1, Nameless
  <2>2. CASE TooLong(d, l) /\ l.num # 0
    <3>1. l.num \in DOMAIN sent /\ sent[l.num].device = d
      BY <2>2, <1>3 DEF LinkInv, FlowInv, AddressInv, IssuedTo
    <3>2. Asks(l)
      BY <1>3 DEF LinkInv, FlowInv, ConfigInv
    <3>3. ~sent[l.num].fits
      BY <2>2, <3>1, <3>2 DEF Asks, TooLong
    <3> QED
      BY <3>1, <3>3 DEF Excused
  <2> QED
    BY <1>1, <2>1, <2>2
<1>5. /\ \A e \in Device : Nums(toDevice'[e]) \subseteq Nums(toDevice[e])
                             /\ Nums(toDevice[e]) \subseteq Nums(toDevice'[e]) \cup Excused
      /\ \A v, e : Holds(v, e)' <=> Holds(v, e)
      /\ \A v : OfSession(v)' = OfSession(v)
      /\ Excused' = Excused
  BY <1>1, <1>2, <1>3, <1>4 DEF Holds, OfSession, Excused
<1>6. OwnInv' /\ FirstInv'
  BY <1>1, <1>5 DEF OwnInv, FirstInv
<1>7. GapInv'
  <2> SUFFICES ASSUME NEW e \in Device, NEW v \in Session, v \notin interrupted
               PROVE  /\ \A n, m \in OfSession(v) : n < m =>
                           /\ m \in Elems(executed[e]) => n \in Elems(executed[e]) \cup Excused
                           /\ m \in Nums(toDevice'[e]) =>
                                n \in Elems(executed[e]) \cup Excused \cup Nums(toDevice'[e])
                      /\ Holds(v, e) =>
                           OfSession(v) \subseteq Nums(workers[v].queue) \cup Nums(toDevice'[e])
                                                    \cup Elems(executed[e]) \cup Excused
    BY <1>1, <1>5 DEF GapInv
  <2> QED
    BY <1>5 DEF GapInv
<1> QED
  BY <1>6, <1>7

\* The next request of the queue is the first of its session that was not written yet.
LEMMA WriteLeavesNoGap ==
  ASSUME LinkInv, WholeInv, NEW w \in Session, Writes(w), UNCHANGED interrupted
  PROVE  WholeInv'
<1> DEFINE d == workers[w].device
           q == workers[w].queue
           l == Head(q)
           x == IF openTail[d] THEN Garbled ELSE l
<1>a. LinkTypeOK
  BY DEF LinkInv
<1>b. /\ d \in Device /\ q \in Seq(Line) /\ q # <<>> /\ Numbered(Line) /\ Ascending(q)
      /\ Holds(w, d) /\ l \in QueuedRequest /\ toDevice[d] \in Seq(Line)
  BY <1>a, ChannelTypes, NextRequest
  DEF Writes, AtRequest, LinkInv, FlowInv, OrderInv, LinkTypeOK, Worker, Holds
<1>c. PICK m : m = l.num
  OBVIOUS
<1> USE DEF WholeInv
<1>0. /\ UNCHANGED <<sent, executed, interrupted>>
      /\ \A v : OfSession(v)' = OfSession(v)
  BY DEF Writes, OfSession
<1>1. /\ m # 0 /\ Nums(q) = {m} \cup Nums(Tail(q)) /\ Below({m}, Nums(Tail(q)))
      /\ m \in OfSession(w)
  <2>1. m # 0
    BY <1>b, <1>c, Nameless
  <2>2. Nums(q) = ({m} \ {0}) \cup Nums(Tail(q)) /\ Below({m} \ {0}, Nums(Tail(q)))
    BY <1>b, <1>c, HeadAndTail, TailAscending
  <2> QED
    BY <2>1, <2>2 DEF OwnInv
<1>2. /\ \A e \in Device : e # d => toDevice'[e] = toDevice[e] /\ openTail'[e] = openTail[e]
      /\ toDevice'[d] = Append(toDevice[d], x) /\ openTail'[d] = FALSE
      /\ swallowed' = IF openTail[d] THEN swallowed \cup {m} ELSE swallowed
  BY <1>a, <1>b, <1>c DEF Writes, Deliver, LinkTypeOK
<1>3. /\ Nums(toDevice[d]) \subseteq Nums(toDevice'[d])
      /\ Nums(toDevice'[d]) \subseteq Nums(toDevice[d]) \cup {m}
      /\ m \in Nums(toDevice'[d]) \cup swallowed'
  <2>1. x \in Line
    BY <1>b DEF Line
  <2>2. Nums(Append(toDevice[d], x)) = Nums(toDevice[d]) \cup ({x.num} \ {0})
    BY <1>b, <2>1, AppendHolds
  <2>3. CASE openTail[d]
    BY <2>2, <2>3, <1>2, Nameless
  <2>4. CASE ~openTail[d]
    BY <2>2, <2>4, <1>1, <1>2, <1>c
  <2> QED
    BY <2>3, <2>4
<1>4. swallowed \subseteq swallowed' /\ swallowed' \subseteq swallowed \cup {m}
  BY <1>2
<1>e. /\ Excused \subseteq Excused' /\ swallowed' \subseteq Excused'
  BY <1>0, <1>4 DEF Excused
<1>5. /\ \A v \in Session : v # w => workers'[v] = workers[v]
      /\ workers'[w].device = d
      /\ \/ /\ workers'[w].queue = Tail(q) /\ workers'[w].phase = "running"
         \/ workers'[w].queue = <<>> /\ workers'[w].phase = "dead"
  BY DEF Writes, AtRequest
<1>6. \A v \in Session, e \in Device : Holds(v, e)' =>
        Holds(v, e) /\ (v = w => e = d /\ workers'[w].queue = Tail(q))
  BY <1>b, <1>5 DEF Writes, Holds
<1>7. OwnInv'
  <2>1. ASSUME NEW v \in Session
        PROVE  /\ Nums(workers'[v].queue) \subseteq OfSession(v)
               /\ workers'[v].phase \in {"unused", "opening"} => OfSession(v) = {}
    <3>1. CASE v = w
      BY <3>1, <1>1, <1>5, EmptyHolds DEF OwnInv
    <3>2. CASE v # w
      BY <3>2, <1>5 DEF OwnInv
    <3> QED
      BY <3>1, <3>2
  <2>2. swallowed' \subseteq DOMAIN sent
    BY <1>1, <1>4 DEF OwnInv, OfSession
  <2> QED
    BY <2>1, <2>2, <1>0 DEF OwnInv
<1>8. ASSUME NEW n \in OfSession(w), n < m PROVE n \notin Nums(q)
  <2>1. n \in Nat /\ m \in Nat
    <3>1. DOMAIN sent \subseteq Nat
      BY <1>a DEF LinkTypeOK
    <3> QED
      BY <3>1, <1>1 DEF OfSession
  <2>2. CASE n \in Nums(Tail(q))
    BY <2>1, <2>2, <1>1, <1>8 DEF Below
  <2> QED
    BY <2>1, <2>2, <1>1, <1>8
<1>9. GapInv'
  <2> SUFFICES ASSUME NEW e \in Device, NEW v \in Session, v \notin interrupted
               PROVE  /\ \A n, k \in OfSession(v) : n < k =>
                           /\ k \in Elems(executed[e]) => n \in Elems(executed[e]) \cup Excused'
                           /\ k \in Nums(toDevice'[e]) =>
                                n \in Elems(executed[e]) \cup Excused' \cup Nums(toDevice'[e])
                      /\ Holds(v, e)' =>
                           OfSession(v) \subseteq Nums(workers'[v].queue) \cup Nums(toDevice'[e])
                                                    \cup Elems(executed[e]) \cup Excused'
    BY <1>0 DEF GapInv
  <2>1. Nums(toDevice[e]) \subseteq Nums(toDevice'[e])
    BY <1>2, <1>3
  <2>2. ASSUME NEW n \in OfSession(v), NEW k \in OfSession(v), n < k
        PROVE  /\ k \in Elems(executed[e]) => n \in Elems(executed[e]) \cup Excused'
               /\ k \in Nums(toDevice'[e]) =>
                    n \in Elems(executed[e]) \cup Excused' \cup Nums(toDevice'[e])
    <3>1. /\ k \in Elems(executed[e]) => n \in Elems(executed[e]) \cup Excused
          /\ k \in Nums(toDevice[e]) => n \in Elems(executed[e]) \cup Excused \cup Nums(toDevice[e])
      BY <2>2 DEF GapInv
    <3>2. CASE k \notin Nums(toDevice'[e]) \/ k \in Nums(toDevice[e])
      BY <3>1, <3>2, <2>1, <1>e
    <3>3. CASE k \in Nums(toDevice'[e]) /\ k \notin Nums(toDevice[e])
      <4>1. e = d /\ k = m
        BY <3>3, <1>2, <1>3
      <4>2. v = w
        BY <4>1, <1>1 DEF OfSession
      <4>3. n \in Nums(q) \cup Nums(toDevice[d]) \cup Elems(executed[d]) \cup Excused
        BY <4>2, <1>b DEF GapInv
      <4> QED
        BY <4>1, <4>2, <4>3, <2>1, <2>2, <3>1, <1>e, <1>8
    <3> QED
      BY <3>2, <3>3
  <2>3. ASSUME Holds(v, e)'
        PROVE  OfSession(v) \subseteq Nums(workers'[v].queue) \cup Nums(toDevice'[e])
                                        \cup Elems(executed[e]) \cup Excused'
    <3>1. OfSession(v) \subseteq Nums(workers[v].queue) \cup Nums(toDevice[e])
                                   \cup Elems(executed[e]) \cup Excused
      BY <2>3, <1>6 DEF GapInv
    <3>2. CASE v = w
      <4>1. e = d /\ workers'[v].queue = Tail(q)
        BY <2>3, <3>2, <1>6
      <4> QED
        BY <3>1, <3>2, <4>1, <2>1, <1>1, <1>3, <1>e
    <3>3. CASE v # w
      BY <3>1, <3>3, <2>1, <1>e, <1>5
    <3> QED
      BY <3>2, <3>3
  <2> QED
    BY <2>2, <2>3
<1>10. FirstInv'
  <2>1. ASSUME NEW v \in Session, NEW e \in Device, Holds(v, e)', openTail'[e]
        PROVE  OfSession(v) \subseteq Nums(workers'[v].queue)
    <3>1. e # d
      BY <2>1, <1>2
    <3>2. v # w /\ Holds(v, e) /\ openTail[e]
      BY <2>1, <3>1, <1>2, <1>6
    <3> QED
      BY <3>2, <1>5 DEF FirstInv
  <2>2. ASSUME NEW n \in swallowed', n \notin Elems(executed[sent[n].device]),
               NEW k \in OfSession(sent[n].session)
        PROVE  ~ (k < n)
    <3>1. CASE n \in swallowed
      BY <2>2, <3>1 DEF FirstInv
    <3>2. CASE n \notin swallowed
      <4>1. openTail[d] /\ n = m /\ sent[n].session = w
        BY <2>2, <3>2, <1>1, <1>2 DEF OfSession
      <4>2. k \in Nums(q) /\ k \in OfSession(w)
        BY <2>2, <4>1, <1>b DEF FirstInv
      <4> QED
        BY <4>1, <4>2, <1>8
    <3> QED
      BY <3>1, <3>2
  <2> QED
    BY <2>1, <2>2, <1>0 DEF FirstInv
<1> QED
  BY <1>7, <1>9, <1>10

\* The lines and histories that matter here, and a worker that is as it was.
Still == UNCHANGED <<toDevice, openTail, sent, executed, swallowed, interrupted>>
Lasts(w) ==
  /\ workers'[w].phase = workers[w].phase /\ workers'[w].gone = workers[w].gone
  /\ workers'[w].device = workers[w].device
  /\ Nums(workers'[w].queue) = Nums(workers[w].queue)

\* Workers that go on as they were, or end, move nothing.
LEMMA StillQuiet ==
  ASSUME Still, \A w \in Session : Lasts(w) \/ (workers'[w].phase = "dead" /\ workers'[w].queue = <<>>)
  PROVE  Quiet
<1>1. ASSUME NEW w \in Session
      PROVE  /\ Nums(workers'[w].queue) \subseteq Nums(workers[w].queue)
             /\ workers'[w].phase \in {"unused", "opening"} => workers[w].phase \in {"unused", "opening"}
             /\ \A d \in Device : Holds(w, d)' =>
                  Holds(w, d) /\ Nums(workers'[w].queue) = Nums(workers[w].queue)
  <2>1. CASE Lasts(w)
    BY <2>1 DEF Lasts, Holds
  <2>2. CASE workers'[w].phase = "dead" /\ workers'[w].queue = <<>>
    BY <2>2, EmptyHolds DEF Holds
  <2> QED
    BY <2>1, <2>2
<1>2. /\ UNCHANGED <<toDevice, sent, executed, swallowed, interrupted>>
      /\ \A d \in Device : openTail'[d] => openTail[d]
  BY DEF Still
<1> QED
  BY <1>1, <1>2 DEF Quiet

\* What the worker does about requests: write them, or nothing.
LEMMA WorkerLeavesNoGap ==
  ASSUME LinkInv, WholeInv, NEW w \in Session, WorkerStep(w)
  PROVE  WholeInv'
<1> USE DEF gui, wire, device, history
<1>0. LinkTypeOK /\ workers \in [Session -> Worker]
  BY DEF LinkInv, LinkTypeOK
<1>1. ASSUME Die(w), workers[w].phase # "unused"
      PROVE  \A v \in Session : Lasts(v) \/ (workers'[v].phase = "dead" /\ workers'[v].queue = <<>>)
  BY <1>0, <1>1, DieTyped DEF Lasts
<1>2. CASE OpenPort(w)
  <2>1. workers[w].phase = "opening" /\ Still
    BY <1>2 DEF OpenPort, Still
  <2>2. /\ workers'[w].phase = "running" /\ workers'[w].queue = workers[w].queue
        /\ \A v \in Session : v # w => workers'[v] = workers[v]
    BY <1>0, <1>2 DEF OpenPort
  <2>3. ASSUME NEW v \in Session
        PROVE  /\ Nums(workers'[v].queue) \subseteq Nums(workers[v].queue)
               /\ workers'[v].phase \in {"unused", "opening"} => workers[v].phase \in {"unused", "opening"}
               /\ \A d \in Device : Holds(v, d)' =>
                    \/ workers[v].phase = "opening"
                    \/ Holds(v, d) /\ Nums(workers'[v].queue) = Nums(workers[v].queue)
    BY <2>1, <2>2 DEF Holds
  <2>4. /\ UNCHANGED <<toDevice, sent, executed, swallowed, interrupted>>
        /\ \A d \in Device : openTail'[d] => openTail[d]
    BY <2>1 DEF Still
  <2>5. Quiet
    BY <2>3, <2>4 DEF Quiet
  <2> QED
    BY <2>5, QuietKeeps
<1>3. CASE OpenFails(w)
  BY <1>1, <1>3, StillQuiet, QuietKeeps DEF OpenFails, Still
<1>4. CASE WriteRequest(w)
  <2>1. workers' = [workers EXCEPT ![w].queue = Tail(workers[w].queue)]
    BY <1>4 DEF WriteRequest
  <2>2. /\ \A v \in Session : v # w => workers'[v] = workers[v]
        /\ workers'[w].device = workers[w].device /\ workers'[w].events = workers[w].events
        /\ workers'[w].queue = Tail(workers[w].queue)
        /\ workers'[w].phase = workers[w].phase /\ workers'[w].gone = workers[w].gone
    BY <1>0, <2>1 DEF Worker
  <2>3. Writes(w) /\ UNCHANGED interrupted
    BY <1>4, <2>2 DEF WriteRequest, Writes, FewerOrUnknown, FewerOrElse
  <2> QED
    BY <2>3, WriteLeavesNoGap
<1>5. CASE WriteFails(w)
  <2>1. workers[w].phase # "unused" /\ Die(w) /\ LeaveAnswers(w) /\ AtRequest(w)
        /\ workers[w].phase = "running" /\ workers[w].device \in Device
    BY <1>0, <1>5, NextRequest DEF WriteFails
  <2>2. /\ Ends(w) /\ \A v \in Session : v # w => workers'[v] = workers[v]
        /\ workers'[w].queue = <<>> /\ workers'[w].phase = "dead"
    BY <1>0, <2>1, DieTyped
  <2>3. \A d \in Device : FewerOrUnknown(toHost[d], toHost'[d])
    BY <2>1, LeftAnswers
  <2>4. UNCHANGED <<connection, opened, sent, executed, shown, interrupted>>
    BY <1>5 DEF WriteFails
  <2>5. CASE ~workers[w].gone /\ Deliver(workers[w].device, Head(workers[w].queue))
    <3>1. Writes(w)
      BY <2>1, <2>2, <2>3, <2>4, <2>5 DEF Writes, Ends
    <3> QED
      BY <2>4, <3>1, WriteLeavesNoGap
  <2>6. CASE UNCHANGED <<toDevice, openTail, swallowed>>
    BY <1>1, <2>1, <2>4, <2>6, StillQuiet, QuietKeeps DEF Still
  <2>7. CASE /\ ~workers[w].gone /\ UNCHANGED <<toDevice, swallowed>>
             /\ openTail' = [openTail EXCEPT ![workers[w].device] = TRUE]
    <3>1. \A v \in Session : v # w => ~Holds(v, workers[w].device)
      BY <2>1, <2>7 DEF LinkInv, FlowInv, ExclusiveInv, Holds
    <3>2. \A d \in Device : d # workers[w].device => openTail'[d] = openTail[d]
      BY <1>0, <2>7 DEF LinkTypeOK
    <3>3. ASSUME NEW v \in Session
          PROVE  /\ Nums(workers'[v].queue) \subseteq Nums(workers[v].queue)
                 /\ workers'[v].phase \in {"unused", "opening"} => workers[v].phase \in {"unused", "opening"}
                 /\ \A d \in Device : Holds(v, d)' =>
                      /\ Holds(v, d) /\ Nums(workers'[v].queue) = Nums(workers[v].queue)
                      /\ openTail'[d] = openTail[d]
      <4>1. CASE v = w
        BY <2>2, <4>1, EmptyHolds DEF Holds
      <4>2. CASE v # w
        BY <2>2, <3>1, <3>2, <4>2 DEF Holds
      <4> QED
        BY <4>1, <4>2
    <3>4. Quiet
      BY <2>4, <2>7, <3>3 DEF Quiet
    <3> QED
      BY <3>4, QuietKeeps
  <2> QED
    BY <1>5, <2>5, <2>6, <2>7 DEF WriteFails
<1>6. CASE CloseSession(w)
  BY <1>1, <1>6, StillQuiet, QuietKeeps DEF CloseSession, Still
<1>7. CASE ReadAnswer(w)
  <2>1. \A v \in Session : Lasts(v)
    BY <1>0, <1>7 DEF ReadAnswer, Lasts, Worker
  <2> QED
    BY <1>7, <2>1, StillQuiet, QuietKeeps DEF ReadAnswer, Still
<1>8. CASE ReadFails(w)
  BY <1>1, <1>8, StillQuiet, QuietKeeps DEF ReadFails, Still
<1> QED
  BY <1>2, <1>3, <1>4, <1>5, <1>6, <1>7, <1>8 DEF WorkerStep

\* What the user does about requests: send them, or nothing.
LEMMA UserLeavesNoGap ==
  ASSUME LinkInv, WholeInv, UserStep
  PROVE  WholeInv'
<1> USE DEF gui, wire, device, history
<1>0. LinkTypeOK /\ workers \in [Session -> Worker]
  BY DEF LinkInv, LinkTypeOK
<1>a. Still /\ UNCHANGED workers => Quiet
  BY StillQuiet DEF Lasts
<1>b. NoText \in Text \cup {NoText} /\ {"query", "get_config", "set_config"} \cup Destructive \subseteq Command
  BY DEF Command
<1>1. CASE \E e \in {"node", "hub", "database"} : SetEndpoint(e)
  BY <1>1, <1>a, QuietKeeps DEF SetEndpoint, Still
<1>2. ASSUME NEW p \in Port, Connect(p) PROVE WholeInv'
  <2>1. PICK w \in Session : workers[w].phase = "unused" /\ workers' = [workers EXCEPT ![w] = Starting(p)]
    BY <1>2 DEF Connect
  <2>2. /\ workers'[w] = Starting(p) /\ \A v \in Session : v # w => workers'[v] = workers[v]
    BY <1>0, <2>1
  <2>3. Starting(p).queue = <<>> /\ Starting(p).phase = "opening"
    BY DEF Starting
  <2>4. ASSUME NEW v \in Session
        PROVE  /\ Nums(workers'[v].queue) \subseteq Nums(workers[v].queue)
               /\ workers'[v].phase \in {"unused", "opening"} => workers[v].phase \in {"unused", "opening"}
               /\ \A d \in Device : Holds(v, d)' =>
                    Holds(v, d) /\ Nums(workers'[v].queue) = Nums(workers[v].queue)
    <3>1. CASE v = w
      BY <2>1, <2>2, <2>3, <3>1, EmptyHolds DEF Holds
    <3>2. CASE v # w
      BY <2>2, <3>2 DEF Holds
    <3> QED
      BY <3>1, <3>2
  <2>5. /\ UNCHANGED <<toDevice, sent, executed, swallowed, interrupted>>
        /\ \A d \in Device : openTail'[d] => openTail[d]
    BY <1>2 DEF Connect
  <2>6. Quiet
    BY <2>4, <2>5 DEF Quiet
  <2> QED
    BY <2>6, QuietKeeps
<1>3. CASE Disconnect
  <2> DEFINE c == connection
             q == workers[c].queue
  <2>1. c \in Session /\ q \in Seq(Line) /\ Close \in Line
    BY <1>0, <1>3, ChannelTypes DEF Disconnect, Line
  <2>2. /\ \A v \in Session : v # c => workers'[v] = workers[v]
        /\ workers'[c].device = workers[c].device /\ workers'[c].phase = workers[c].phase
        /\ workers'[c].gone = workers[c].gone /\ workers'[c].queue \in {q, Append(q, Close)}
    BY <1>0, <1>3, <2>1 DEF Disconnect
  <2>3. Nums(Append(q, Close)) = Nums(q)
    <3>1. {Close.num} \ {0} = {}
      BY Nameless
    <3>2. Nums(Append(q, Close)) = Nums(q) \cup ({Close.num} \ {0})
      BY <2>1, AppendHolds
    <3> QED
      BY <3>1, <3>2
  <2>4. \A v \in Session : Lasts(v)
    BY <2>2, <2>3 DEF Lasts
  <2> QED
    BY <1>3, <2>4, StillQuiet, QuietKeeps DEF Disconnect, Still
<1>4. CASE \E t \in Typed : EditText(t)
  BY <1>4, <1>a, QuietKeeps DEF EditText, Still
<1>5. ASSUME NEW c \in {"query", "get_config"}, SendSimple(c) PROVE WholeInv'
  BY <1>5, <1>b, SendLeavesNoGap DEF SendSimple
<1>6. CASE SendSetConfig
  <2>1. configText \in Text \cup {NoText}
    BY <1>6 DEF SendSetConfig, LinkInv, LinkTypeOK
  <2> QED
    BY <1>6, <1>b, <2>1, SendLeavesNoGap DEF SendSetConfig
<1>7. CASE \E a \in Destructive : Ask(a)
  BY <1>7, <1>a, QuietKeeps DEF Ask, Still
<1>8. CASE Confirm
  <2>1. CASE connection # 0 /\ opened
    <3>1. confirmation \in Command
      BY <1>8, <1>b DEF Confirm, LinkInv, LinkTypeOK
    <3> QED
      BY <1>8, <1>b, <2>1, <3>1, SendLeavesNoGap DEF Confirm
  <2>2. CASE ~(connection # 0 /\ opened)
    <3>1. UNCHANGED <<workers, history>>
      BY <1>8, <2>2 DEF Confirm
    <3> QED
      BY <1>8, <1>a, <3>1, QuietKeeps DEF Confirm, Still
  <2> QED
    BY <2>1, <2>2
<1>9. CASE Cancel
  BY <1>9, <1>a, QuietKeeps DEF Cancel, Still
<1> QED
  BY <1>1, <1>2, <1>3, <1>4, <1>5, <1>6, <1>7, <1>8, <1>9 DEF UserStep

\* A device that goes away, or whose hub restarts, takes the line with it, and ends or
\* interrupts the session.
LEMMA WorldLeavesNoGap ==
  ASSUME LinkInv, WholeInv, NEW d \in Device, WorldStep(d)
  PROVE  WholeInv'
<1> USE DEF gui, wire, device, history
<1>0. LinkTypeOK /\ workers \in [Session -> Worker]
      /\ toDevice \in [Device -> Seq(QueuedRequest \cup {Garbled})]
      /\ openTail \in [Device -> BOOLEAN]
  BY DEF LinkInv, LinkTypeOK
<1>a. Still /\ UNCHANGED workers => Quiet
  BY StillQuiet DEF Lasts
<1>1. ASSUME Gone(d), UNCHANGED <<sent, executed, swallowed, interrupted>> PROVE WholeInv'
  <2>1. /\ toDevice'[d] = <<>> /\ \A e \in Device : e # d => toDevice'[e] = toDevice[e]
        /\ \A e \in Device : e # d => openTail'[e] = openTail[e]
    <3>1. toDevice' = [toDevice EXCEPT ![d] = <<>>]
          /\ \E part \in BOOLEAN : openTail' = [openTail EXCEPT ![d] = part]
      BY <1>1 DEF Gone
    <3> QED
      BY <1>0, <3>1
  <2>2. ASSUME NEW v \in Session
        PROVE  /\ Nums(workers'[v].queue) \subseteq Nums(workers[v].queue)
               /\ workers'[v].phase \in {"unused", "opening"} => workers[v].phase \in {"unused", "opening"}
               /\ ~Holds(v, d)'
               /\ \A e \in Device : Holds(v, e)' =>
                    Holds(v, e) /\ Nums(workers'[v].queue) = Nums(workers[v].queue)
    <3>1. workers'[v] = IF Holds(v, d) THEN [workers[v] EXCEPT !.gone = TRUE] ELSE workers[v]
      BY <1>1 DEF Gone
    <3>2. workers[v] \in Worker
      BY <1>0
    <3>3. CASE Holds(v, d)
      <4>1. /\ workers'[v].gone = TRUE /\ workers'[v].phase = workers[v].phase
            /\ workers'[v].queue = workers[v].queue
        BY <3>1, <3>2, <3>3 DEF Worker
      <4> QED
        BY <4>1 DEF Holds
    <3>4. CASE ~Holds(v, d)
      BY <3>1, <3>4 DEF Holds
    <3> QED
      BY <3>3, <3>4
  <2>3. ASSUME NEW v \in Session, NEW e \in Device, Holds(v, e)'
        PROVE  openTail'[e] = openTail[e]
    BY <2>1, <2>2, <2>3
  <2>4. Quiet
    BY <1>1, <2>1, <2>2, <2>3, EmptyHolds DEF Quiet
  <2> QED
    BY <2>4, QuietKeeps
<1>2. CASE Unplug(d)
  BY <1>1, <1>2 DEF Unplug
<1>3. ASSUME NEW p \in Port, Plug(d, p) PROVE WholeInv'
  BY <1>3, <1>a, QuietKeeps DEF Plug, Still
<1>4. CASE NodeResets(d)
  BY <1>1, <1>4 DEF NodeResets
<1>5. CASE HangUp(d)
  BY <1>5, <1>a, QuietKeeps DEF HangUp, Still
<1>6. CASE HubRestarts(d)
  <2>1. PICK rest \in Rests(toDevice[d], Garbled) : toDevice' = [toDevice EXCEPT ![d] = rest]
    BY <1>6 DEF HubRestarts
  <2>2. /\ rest \in Seq(QueuedRequest \cup {Garbled})
        /\ Elems(rest) \subseteq Elems(toDevice[d]) \cup {Garbled}
    <3>1. toDevice[d] \in Seq(QueuedRequest \cup {Garbled}) /\ Ascending(toDevice[d])
      BY <1>0 DEF LinkInv, FlowInv, OrderInv
    <3> QED
      BY <2>1, <3>1, Nameless, RestsFewer
  <2>3. /\ Nums(toDevice'[d]) \subseteq Nums(toDevice[d])
        /\ \A e \in Device : e # d => toDevice'[e] = toDevice[e]
    BY <1>0, <2>1, <2>2, FewerNums, Nameless
  <2>4. PICK part : (part => openTail[d]) /\ openTail' = [openTail EXCEPT ![d] = part]
    BY <1>6 DEF HubRestarts
  <2>5. \A e \in Device : openTail'[e] => openTail[e]
    BY <1>0, <2>4
  <2>6. interrupted' = interrupted \cup {w \in Session : Holds(w, d)}
                         \cup {sent[toDevice[d][i].num].session :
                                  i \in {j \in DOMAIN toDevice[d] : toDevice[d][j].num # 0}}
        /\ UNCHANGED <<workers, sent, executed, swallowed>>
    BY <1>6 DEF HubRestarts
  <2>7. \A n \in Nums(toDevice[d]) : sent[n].session \in interrupted'
    BY <2>6 DEF Nums, Elems
  <2>8. \A v \in Session, e \in Device : Holds(v, e)' <=> Holds(v, e)
    BY <2>6 DEF Holds
  <2>9. ASSUME NEW e \in Device
        PROVE  \/ toDevice'[e] = toDevice[e]
               \/ /\ \A n \in Nums(toDevice'[e]) : n \in Nums(toDevice[e]) /\ sent[n].session \in interrupted'
                  /\ \A w \in Session : Holds(w, e)' => w \in interrupted'
    BY <2>3, <2>6, <2>7, <2>8
  <2>10. Quiet
    BY <2>5, <2>6, <2>8, <2>9 DEF Quiet
  <2> QED
    BY <2>10, QuietKeeps
<1> QED
  BY <1>2, <1>3, <1>4, <1>5, <1>6 DEF WorldStep

\* At first nothing was issued; and no step makes a gap.
THEOREM WholeInvariant == Spec => []WholeInv
<1>1. Init => WholeInv
  <2> SUFFICES ASSUME Init PROVE WholeInv
    OBVIOUS
  <2>1. /\ sent = <<>> /\ swallowed = {} /\ DOMAIN <<>> = {}
        /\ \A d \in Device : toDevice[d] = <<>> /\ executed[d] = <<>>
        /\ \A w \in Session : workers[w] = Unused
    BY DEF Init
  <2>2. Unused.queue = <<>>
    BY DEF Unused
  <2>3. \A w : OfSession(w) = {}
    BY <2>1 DEF OfSession
  <2> QED
    BY <2>1, <2>2, <2>3, EmptyHolds DEF WholeInv, OwnInv, GapInv, FirstInv
<1>2. LinkInv /\ WholeInv /\ [Next]_vars => WholeInv'
  <2> SUFFICES ASSUME LinkInv, WholeInv, [Next]_vars PROVE WholeInv'
    OBVIOUS
  <2>1. CASE UserStep
    BY <2>1, UserLeavesNoGap
  <2>2. CASE PollEvents
    <3>1. connection \in Session /\ workers' = [workers EXCEPT ![connection].events = <<>>]
      BY <2>2, PollShows DEF PollEvents
    <3>2. \A w \in Session : Lasts(w)
      BY <3>1 DEF Lasts, LinkInv, LinkTypeOK, Worker
    <3> QED
      BY <2>2, <3>2, StillQuiet, QuietKeeps DEF PollEvents, Still, wire
  <2>3. CASE \E w \in Session : WorkerStep(w)
    BY <2>3, WorkerLeavesNoGap
  <2>4. CASE \E d \in Device : DeviceStep(d)
    <3>1. PICK d \in Device : DeviceStep(d)
      BY <2>4
    <3>2. CASE Answering(d)
      BY <3>2, DeviceReplies, DeviceSwallows, ReplyLeavesNoGap
    <3>3. CASE DropLine(d)
      BY <3>3, DropLeavesNoGap
    <3> QED
      BY <3>1, <3>2, <3>3 DEF DeviceStep, Answering
  <2>5. CASE \E d \in Device : WorldStep(d)
    BY <2>5, WorldLeavesNoGap
  <2>6. CASE UNCHANGED vars
    <3>1. Still /\ \A w \in Session : Lasts(w)
      BY <2>6 DEF vars, wire, history, Still, Lasts
    <3> QED
      BY <3>1, StillQuiet, QuietKeeps
  <2> QED
    BY <2>1, <2>2, <2>3, <2>4, <2>5, <2>6 DEF Next, WorldStep
<1> QED
  BY <1>1, <1>2, LinkInvariant, PTL DEF Spec

\* Requests are not lost from the middle of a session: those before one that was executed
\* were executed before it, or swallowed, or too long for the device to read, unless the hub
\* was restarted in between.
THEOREM NoGapInSessionCorrect == Spec => []NoGapInSession
<1>1. LinkInv /\ WholeInv => NoGapInSession
  <2> SUFFICES ASSUME LinkInv, WholeInv, NEW d \in Device, NEW i \in DOMAIN executed[d],
                      NEW n \in 1..(executed[d][i] - 1), sent[n].session = sent[executed[d][i]].session,
                      n \notin swallowed, sent[n].fits, sent[n].session \notin interrupted
               PROVE  \E j \in 1..i : executed[d][j] = n
    BY DEF NoGapInSession
  <2>1. PICK m : m = executed[d][i]
    OBVIOUS
  <2>2. m \in Elems(executed[d]) /\ m \in DOMAIN sent
    BY <2>1 DEF LinkInv, FlowInv, AddressInv, IssuedTo, Elems
  <2>3. /\ n \in DOMAIN sent /\ n < m /\ sent \in Seq(Sent)
        /\ executed[d] \in Seq(1..MaxRequest)
    BY <2>1, <2>2 DEF LinkInv, LinkTypeOK
  <2>4. PICK w \in Session : w = sent[n].session
    <3>1. sent[n] \in Sent
      BY <2>3
    <3> QED
      BY <3>1 DEF Sent
  <2>5. n \in OfSession(w) /\ m \in OfSession(w) /\ w \notin interrupted
    BY <2>1, <2>2, <2>3, <2>4 DEF OfSession
  <2>6. n \in Elems(executed[d])
    BY <2>2, <2>3, <2>5 DEF WholeInv, GapInv, Excused
  <2>7. PICK j \in DOMAIN executed[d] : executed[d][j] = n
    BY <2>6 DEF Elems
  <2>8. DOMAIN executed[d] \subseteq Nat \ {0}
    BY <2>3
  <2>9. ~ (i < j)
    <3>1. i < j => m < n
      BY <2>1, <2>7 DEF WholeInv, OwnInv
    <3> QED
      BY <3>1, <2>2, <2>3
  <2> QED
    BY <2>7, <2>8, <2>9
<1> QED
  BY <1>1, LinkInvariant, WholeInvariant, PTL

\* A request becomes part of another line only if it is the first of its session.
THEOREM OnlyFirstRequestSwallowedCorrect == Spec => []OnlyFirstRequestSwallowed
<1>1. LinkInv /\ WholeInv => OnlyFirstRequestSwallowed
  <2> SUFFICES ASSUME LinkInv, WholeInv, NEW n \in swallowed,
                      \A i \in DOMAIN executed[sent[n].device] : executed[sent[n].device][i] # n,
                      NEW k \in 1..(n - 1), sent[k].session = sent[n].session
               PROVE  FALSE
    BY DEF OnlyFirstRequestSwallowed
  <2>1. n \in DOMAIN sent /\ sent \in Seq(Sent)
    BY DEF LinkInv, LinkTypeOK, WholeInv, OwnInv
  <2>2. k \in DOMAIN sent /\ k < n
    BY <2>1
  <2>3. k \in OfSession(sent[n].session)
    BY <2>2 DEF OfSession
  <2>4. n \notin Elems(executed[sent[n].device])
    BY DEF Elems
  <2> QED
    BY <2>2, <2>3, <2>4 DEF WholeInv, FirstInv
<1> QED
  BY <1>1, LinkInvariant, WholeInvariant, PTL

---------------------------------------------------------------------------
(* Answers                                                                 *)

\* The session the GUI is in goes on, and so does the device's server.
Serves(d) ==
  connection # 0 /\ Holds(connection, d) /\ serving[d] /\ connection \notin interrupted

\* The requests whose answers a device sent: under way, told to the GUI, shown, lost in the
\* rest of another line, or too long.
Answered(d) ==
  Nums(toHost[d]) \cup Nums(workers[connection].events) \cup Elems(shown) \cup swallowed \cup unanswered

\* Only the answer to a request for a configuration is too long.
AskedInv == \A n \in unanswered : n \in DOMAIN sent /\ sent[n].config

\* A session keeps the device it issued requests for; and, while it lasts, every request of
\* it that was executed is answered.
ReachInv ==
  /\ \A w \in Session : \A n \in OfSession(w) : workers[w].device = sent[n].device
  /\ \A d \in Device : Serves(d) =>
       Elems(executed[d]) \cap OfSession(connection) \subseteq Answered(d)

\* Enough for a step that issues nothing: what is executed is answered, no answer is dropped.
LEMMA AnsweredStays ==
  ASSUME ReachInv, UNCHANGED <<connection, sent>>,
         \A w \in Session : workers'[w].device = workers[w].device \/ OfSession(w) = {},
         \A d \in Device : Serves(d)' =>
           \/ OfSession(connection) = {}
           \/ /\ Serves(d) /\ Answered(d) \subseteq Answered(d)'
              /\ Elems(executed'[d]) \subseteq Elems(executed[d]) \cup Answered(d)'
  PROVE  ReachInv'
<1>1. \A w : OfSession(w)' = OfSession(w)
  BY DEF OfSession
<1>2. \A w \in Session : \A n \in OfSession(w) : workers'[w].device = sent'[n].device
  BY DEF ReachInv
<1>3. ASSUME NEW d \in Device, Serves(d)'
      PROVE  Elems(executed'[d]) \cap OfSession(connection) \subseteq Answered(d)'
  BY <1>3 DEF ReachInv
<1> QED
  BY <1>1, <1>2, <1>3 DEF ReachInv

\* A worker that ends takes only the answers of its own session with it.
LEMMA EndingStays ==
  ASSUME LinkInv, ReachInv, NEW w \in Session, Die(w), workers[w].phase # "unused",
         UNCHANGED <<connection, sent, executed, shown, serving, unanswered, interrupted>>,
         swallowed \subseteq swallowed',
         toHost' = toHost \/ (workers[w].phase = "running" /\ LeaveAnswers(w))
  PROVE  ReachInv'
<1>1. /\ \A v \in Session : v # w => workers'[v] = workers[v]
      /\ workers'[w].device = workers[w].device /\ workers'[w].phase = "dead"
      /\ connection # 0 => connection \in Session
  BY DieTyped, ChannelTypes DEF LinkInv, Ends
<1>2. ASSUME NEW d \in Device, Serves(d)'
      PROVE  Serves(d) /\ Answered(d) \subseteq Answered(d)'
  <2>1. connection \in Session /\ connection # w
    BY <1>1, <1>2 DEF Serves, Holds
  <2>2. Serves(d) /\ Holds(connection, d)
    BY <1>1, <1>2, <2>1 DEF Serves, Holds
  <2>3. toHost'[d] = toHost[d]
    <3>1. CASE toHost' = toHost
      BY <3>1
    <3>2. CASE workers[w].phase = "running" /\ LeaveAnswers(w) /\ ~workers[w].gone
      <4>1. workers[w].device # d
        BY <2>1, <2>2, <3>2 DEF LinkInv, FlowInv, ExclusiveInv, Holds
      <4>2. \E rest : toHost' = [toHost EXCEPT ![workers[w].device] = rest]
        BY <3>2 DEF LeaveAnswers
      <4>3. toHost \in [Device -> Seq(LineEvent \cup {Unknown})]
        BY DEF LinkInv, LinkTypeOK
      <4> QED
        BY <4>1, <4>2, <4>3
    <3>3. CASE LeaveAnswers(w) /\ workers[w].gone
      BY <3>3 DEF LeaveAnswers
    <3> QED
      BY <3>1, <3>2, <3>3
  <2> QED
    BY <1>1, <2>1, <2>2, <2>3 DEF Answered
<1>3. \A v \in Session : workers'[v].device = workers[v].device
  BY <1>1
<1>4. \A d : Elems(executed'[d]) \subseteq Elems(executed[d])
  OBVIOUS
<1> QED
  BY <1>2, <1>3, <1>4, AnsweredStays

\* What a worker reads it tells the GUI of its session.
LEMMA WorkerStays ==
  ASSUME LinkInv, WholeInv, ReachInv, NEW w \in Session, WorkerStep(w)
  PROVE  ReachInv'
<1> USE DEF gui, wire, device, history
<1>0. /\ LinkTypeOK /\ workers \in [Session -> Worker]
      /\ toHost \in [Device -> Seq(LineEvent \cup {Unknown})]
      /\ connection # 0 => connection \in Session
  BY ChannelTypes DEF LinkInv, LinkTypeOK
<1>1. CASE OpenPort(w)
  <2>1. /\ workers[w].phase = "opening"
        /\ UNCHANGED <<connection, sent, executed, shown, serving, interrupted, toHost, swallowed, unanswered>>
        /\ \A v \in Session : v # w => workers'[v] = workers[v]
    BY <1>0, <1>1 DEF OpenPort
  <2>2. OfSession(w) = {}
    BY <2>1 DEF WholeInv, OwnInv
  <2>3. ASSUME NEW d \in Device, Serves(d)', connection # w
        PROVE  Serves(d) /\ Answered(d) \subseteq Answered(d)'
    <3>1. workers'[connection] = workers[connection]
      BY <1>0, <2>1, <2>3 DEF Serves
    <3> QED
      BY <2>1, <2>3, <3>1 DEF Serves, Holds, Answered
  <2> QED
    BY <2>1, <2>2, <2>3, AnsweredStays
<1>2. CASE OpenFails(w)
  BY <1>2, EndingStays DEF OpenFails
<1>3. CASE WriteRequest(w)
  <2>1. workers' = [workers EXCEPT ![w].queue = Tail(workers[w].queue)]
        /\ UNCHANGED <<connection, sent, executed, shown, serving, interrupted, toHost, unanswered>>
        /\ swallowed \subseteq swallowed'
    BY <1>3 DEF WriteRequest, Deliver
  <2>2. ASSUME NEW v \in Session
        PROVE  /\ workers'[v].device = workers[v].device /\ workers'[v].events = workers[v].events
               /\ workers'[v].phase = workers[v].phase /\ workers'[v].gone = workers[v].gone
    BY <1>0, <2>1 DEF Worker
  <2>3. ASSUME NEW d \in Device, Serves(d)'
        PROVE  Serves(d) /\ Answered(d) \subseteq Answered(d)'
    <3>1. connection \in Session
      BY <1>0, <2>1, <2>3 DEF Serves
    <3> QED
      BY <2>1, <2>2, <2>3, <3>1 DEF Serves, Holds, Answered
  <2> QED
    BY <2>1, <2>2, <2>3, AnsweredStays
<1>4. CASE WriteFails(w)
  <2>1. workers[w].phase = "running" /\ Die(w) /\ LeaveAnswers(w)
        /\ UNCHANGED <<connection, sent, executed, shown, serving, unanswered, interrupted>>
    BY <1>4 DEF WriteFails, AtRequest
  <2>2. swallowed \subseteq swallowed'
    BY <1>4 DEF WriteFails, Deliver
  <2> QED
    BY <2>1, <2>2, EndingStays
<1>5. CASE CloseSession(w)
  BY <1>5, EndingStays DEF CloseSession
<1>6. CASE ReadAnswer(w)
  <2> DEFINE e == workers[w].device
             a == Head(toHost[e])
  <2>1. /\ e \in Device /\ Holds(w, e) /\ toHost[e] \in Seq(Note) /\ toHost[e] # <<>>
        /\ workers[w].events \in Seq(Note) /\ workers[w].phase = "running"
    BY <1>0, <1>6, ChannelTypes DEF ReadAnswer, Worker, Holds
  <2>2. a \in Note /\ Nums(toHost[e]) = ({a.num} \ {0}) \cup Nums(Tail(toHost[e]))
    BY <2>1, HeadAndTail
  <2>3. /\ toHost'[e] = Tail(toHost[e]) /\ \A d \in Device : d # e => toHost'[d] = toHost[d]
        /\ UNCHANGED <<connection, sent, executed, shown, serving, interrupted, swallowed>>
        /\ unanswered' = IF Unreadable(e, a) THEN unanswered \cup {a.num} ELSE unanswered
    BY <1>0, <1>6, <2>1 DEF ReadAnswer
  <2>4. /\ \A v \in Session : v # w => workers'[v] = workers[v]
        /\ workers'[w].device = e /\ workers'[w].phase = workers[w].phase
        /\ workers'[w].gone = workers[w].gone 
        /\ workers'[w].events = IF Unreadable(e, a) THEN workers[w].events ELSE Post(w, a)
    BY <1>0, <1>6 DEF ReadAnswer, Worker
  <2> HIDE DEF a
  <2>5. ASSUME w = connection
        PROVE  Nums(workers[w].events) \cup ({a.num} \ {0})
                 \subseteq Nums(workers'[w].events) \cup unanswered'
    <3>1. CASE Unreadable(e, a)
      BY <2>3, <2>4, <3>1
    <3>2. CASE a = Unknown /\ ~Unreadable(e, a)
      BY <2>4, <3>2, Nameless DEF Post
    <3>3. CASE a # Unknown /\ ~Unreadable(e, a)
      <4>1. workers'[w].events = Append(workers[w].events, a)
        BY <2>4, <2>5, <3>3 DEF Post
      <4> QED
        BY <2>1, <2>2, <4>1, AppendHolds
    <3> QED
      BY <3>1, <3>2, <3>3
  <2>6. ASSUME NEW d \in Device, Serves(d)'
        PROVE  Serves(d) /\ Answered(d) \subseteq Answered(d)'
    <3>1. connection \in Session /\ Serves(d) /\ Holds(connection, d)
      BY <1>0, <2>3, <2>4, <2>6 DEF Serves, Holds
    <3>2. CASE connection = w
      <4>1. d = e
        BY <3>1, <3>2 DEF Holds
      <4> QED
        BY <2>2, <2>3, <2>5, <3>1, <3>2, <4>1 DEF Answered
    <3>3. CASE connection # w
      <4>1. d # e
        BY <2>1, <3>1, <3>3 DEF LinkInv, FlowInv, ExclusiveInv
      <4> QED
        BY <2>3, <2>4, <3>1, <3>3, <4>1 DEF Answered
    <3> QED
      BY <3>2, <3>3
  <2>7. \A v \in Session : workers'[v].device = workers[v].device
    BY <2>4
  <2> QED
    BY <2>3, <2>6, <2>7, AnsweredStays
<1>7. CASE ReadFails(w)
  BY <1>7, EndingStays DEF ReadFails
<1> QED
  BY <1>1, <1>2, <1>3, <1>4, <1>5, <1>6, <1>7 DEF WorkerStep

\* A device whose server goes on has put its answer on the line, or lost it in another one,
\* or had none that was short enough.
LEMMA DeviceAnswers ==
  ASSUME LinkInv, NEW d \in Device, Answering(d), serving'[d]
  PROVE  LET n == Head(toDevice[d]).num
         IN  \/ \E a : /\ toHost' = [toHost EXCEPT ![d] = Append(@, a)]
                       /\ {n} \ {0} \subseteq {a.num} \cup swallowed'
             \/ toHost' = toHost /\ n \in unanswered'
<1> DEFINE n == Head(toDevice[d]).num
<1>1. PICK t, up : Reply(d, t, up)
  BY DEF Answering, HandleQuery, HandleGetConfig, HandleSetConfig, HandleFactoryReset,
         HandleReboot, HandleGarbled
<1>2. serving \in [Device -> BOOLEAN]
  BY DEF LinkInv, LinkTypeOK
<1>3. ~ (serving' = [serving EXCEPT ![d] = FALSE])
  BY <1>2
<1>4. PICK a : a = IF hostTail[d] THEN Unknown ELSE Answer(n, t)
  OBVIOUS
<1>5. \/ /\ toHost' = [toHost EXCEPT ![d] = Append(toHost[d], a)]
         /\ hostTail[d] /\ n # 0 => n \in swallowed'
      \/ toHost' = toHost /\ n \in unanswered'
  BY <1>1, <1>3, <1>4 DEF Reply
<1>6. ~hostTail[d] => a.num = n
  BY <1>4 DEF Answer
<1> QED
  BY <1>5, <1>6

\* A device answers what it executes.
LEMMA DeviceStays ==
  ASSUME LinkInv, ReachInv, NEW d \in Device, Answering(d)
  PROVE  ReachInv'
<1> DEFINE l == Head(toDevice[d])
           N == {l.num} \ {0}
<1>0. /\ toHost \in [Device -> Seq(LineEvent \cup {Unknown})] /\ toHost[d] \in Seq(Note)
      /\ toDevice[d] \in Seq(Line) /\ Elems(toDevice[d]) \subseteq QueuedRequest \cup {Garbled}
      /\ serving \in [Device -> BOOLEAN] /\ executed \in [Device -> Seq(1..MaxRequest)]
  BY ChannelTypes DEF LinkInv, LinkTypeOK
<1>1. Replies(d) /\ Swallows(d)
  BY DeviceReplies, DeviceSwallows
<1>2. /\ UNCHANGED <<connection, workers, sent, shown, interrupted>>
      /\ swallowed \subseteq swallowed' /\ unanswered \subseteq unanswered'
  BY <1>1 DEF Replies, Swallows
<1>3. /\ serving[d] /\ \A e \in Device : e # d => serving'[e] = serving[e]
  <2>1. serving[d]
    BY DEF Answering, HandleQuery, HandleGetConfig, HandleSetConfig, HandleFactoryReset,
           HandleReboot, HandleGarbled, Ready, Reads
  <2>2. PICK t, up : Reply(d, t, up)
    BY DEF Answering, HandleQuery, HandleGetConfig, HandleSetConfig, HandleFactoryReset,
           HandleReboot, HandleGarbled
  <2>3. serving' = serving \/ \E b : serving' = [serving EXCEPT ![d] = b]
    BY <2>2 DEF Reply
  <2> QED
    BY <1>0, <2>1, <2>3
<1>4. /\ \A e \in Device : e # d => executed'[e] = executed[e] /\ toHost'[e] = toHost[e]
      /\ Elems(executed'[d]) \subseteq Elems(executed[d]) \cup N
  <2>1. \A e \in Device : e # d => executed'[e] = executed[e] /\ toHost'[e] = toHost[e]
    BY <1>0, <1>1 DEF Replies
  <2>2. CASE l.num = 0
    <3>1. executed' = executed
      BY <1>1, <2>2 DEF Replies
    <3> QED
      BY <2>1, <3>1
  <2>3. CASE l.num # 0
    <3>1. executed' = [executed EXCEPT ![d] = Append(executed[d], l.num)]
      BY <1>1, <2>3 DEF Replies
    <3>2. l \in Elems(toDevice[d])
      BY <1>0, <1>1, HeadAndTail DEF Replies
    <3>3. l.num \in 1..MaxRequest
      BY <1>0, <2>3, <3>2, Nameless DEF QueuedRequest
    <3>4. Elems(Append(executed[d], l.num)) = Elems(executed[d]) \cup {l.num}
      <4>1. PICK S : S = 1..MaxRequest
        OBVIOUS
      <4>2. executed[d] \in Seq(S) /\ l.num \in S
        BY <1>0, <3>3, <4>1
      <4> QED
        BY <4>2, AppendElems
    <3> QED
      BY <1>0, <2>1, <2>3, <3>1, <3>4
  <2> QED
    BY <2>1, <2>2, <2>3
<1>5. ASSUME NEW e \in Device, Serves(e)'
      PROVE  /\ Serves(e) /\ Answered(e) \subseteq Answered(e)'
             /\ Elems(executed'[e]) \subseteq Elems(executed[e]) \cup Answered(e)'
  <2>1. Serves(e)
    BY <1>2, <1>3, <1>5 DEF Serves, Holds
  <2>2. CASE e # d
    BY <1>2, <1>4, <2>1, <2>2 DEF Answered
  <2>3. CASE e = d
    <3>0. CASE toHost' = toHost /\ l.num \in unanswered'
      BY <1>2, <1>4, <2>1, <2>3, <3>0 DEF Answered
    <3> SUFFICES ASSUME ~(toHost' = toHost /\ l.num \in unanswered')
                 PROVE  /\ Serves(e) /\ Answered(e) \subseteq Answered(e)'
                        /\ Elems(executed'[e]) \subseteq Elems(executed[e]) \cup Answered(e)'
      BY <3>0
    <3>1. PICK a : /\ toHost' = [toHost EXCEPT ![d] = Append(toHost[d], a)]
                   /\ N \subseteq {a.num} \cup swallowed'
      BY <1>5, <2>3, DeviceAnswers DEF Serves
    <3>2. Nums(Append(toHost[d], a)) = Nums(toHost[d]) \cup ({a.num} \ {0})
      <4>1. PICK S : S = Note \cup {a}
        OBVIOUS
      <4>2. toHost[d] \in Seq(S) /\ a \in S
        BY <1>0, <4>1
      <4> QED
        BY <4>2, AppendHolds
    <3>3. Nums(toHost'[d]) = Nums(toHost[d]) \cup ({a.num} \ {0})
      BY <1>0, <3>1, <3>2
    <3>4. Answered(d) \subseteq Answered(d)' /\ N \subseteq Answered(d)'
      BY <1>2, <3>1, <3>3 DEF Answered
    <3> QED
      BY <1>4, <2>1, <2>3, <3>4
  <2> QED
    BY <2>2, <2>3
<1> QED
  BY <1>2, <1>5, AnsweredStays

\* A line the device drops leaves the answers alone.
LEMMA DropStays ==
  ASSUME ReachInv, NEW d \in Device, DropLine(d)
  PROVE  ReachInv'
<1>1. UNCHANGED <<connection, workers, toHost, serving, history>>
  BY DEF DropLine, gui, device
<1> QED
  BY <1>1, AnsweredStays DEF history, Serves, Holds, Answered

\* What cables and restarts take away ends the session or interrupts it.
LEMMA WorldStays ==
  ASSUME LinkInv, ReachInv, NEW d \in Device, WorldStep(d)
  PROVE  ReachInv'
<1> USE DEF gui, wire, device, history
<1>0. /\ workers \in [Session -> Worker] /\ serving \in [Device -> BOOLEAN]
      /\ toHost \in [Device -> Seq(LineEvent \cup {Unknown})]
      /\ connection # 0 => connection \in Session
  BY ChannelTypes DEF LinkInv, LinkTypeOK
<1>1. ASSUME Gone(d), UNCHANGED <<connection, sent, executed, shown, swallowed, unanswered, interrupted>>,
             \A e \in Device : e # d => serving'[e] = serving[e]
      PROVE  ReachInv'
  <2>1. \A e \in Device : e # d => toHost'[e] = toHost[e]
    BY <1>0, <1>1 DEF Gone
  <2>2. ASSUME NEW v \in Session
        PROVE  /\ workers'[v].device = workers[v].device /\ workers'[v].events = workers[v].events
               /\ ~Holds(v, d)' /\ \A e \in Device : Holds(v, e)' => Holds(v, e)
    <3>1. workers'[v] = IF Holds(v, d) THEN [workers[v] EXCEPT !.gone = TRUE] ELSE workers[v]
      BY <1>1 DEF Gone
    <3>2. workers[v] \in Worker
      BY <1>0
    <3>3. CASE Holds(v, d)
      <4>1. /\ workers'[v].gone = TRUE /\ workers'[v].device = workers[v].device
            /\ workers'[v].events = workers[v].events
        BY <3>1, <3>2, <3>3 DEF Worker
      <4> QED
        BY <4>1 DEF Holds
    <3>4. CASE ~Holds(v, d)
      BY <3>1, <3>4 DEF Holds
    <3> QED
      BY <3>3, <3>4
  <2>3. ASSUME NEW e \in Device, Serves(e)'
        PROVE  Serves(e) /\ Answered(e) \subseteq Answered(e)'
    <3>1. connection \in Session /\ e # d /\ Holds(connection, e)
      BY <1>0, <1>1, <2>2, <2>3 DEF Serves
    <3> QED
      BY <1>1, <2>1, <2>2, <2>3, <3>1 DEF Serves, Answered
  <2> QED
    BY <1>1, <2>2, <2>3, AnsweredStays
<1>2. CASE Unplug(d)
  BY <1>1, <1>2 DEF Unplug
<1>3. ASSUME NEW p \in Port, Plug(d, p) PROVE ReachInv'
  <2>1. UNCHANGED <<connection, sent, executed, shown, swallowed, unanswered, interrupted, workers, serving,
                    toHost>>
    BY <1>3 DEF Plug
  <2> QED
    BY <2>1, AnsweredStays DEF Serves, Holds, Answered
<1>4. CASE NodeResets(d)
  <2>1. Gone(d) /\ UNCHANGED <<connection, sent, executed, shown, swallowed, unanswered, interrupted>>
        /\ \A e \in Device : e # d => serving'[e] = serving[e]
    BY <1>0, <1>4 DEF NodeResets
  <2> QED
    BY <1>1, <2>1
<1>5. CASE HangUp(d)
  <2>1. /\ UNCHANGED <<connection, sent, executed, shown, swallowed, unanswered, interrupted, workers, toHost>>
        /\ \A e \in Device : serving'[e] => serving[e]
    BY <1>0, <1>5 DEF HangUp
  <2> QED
    BY <2>1, AnsweredStays DEF Serves, Holds, Answered
<1>6. CASE HubRestarts(d)
  <2>1. /\ UNCHANGED <<connection, sent, executed, shown, swallowed, unanswered, workers, toHost>>
        /\ interrupted \cup {w \in Session : Holds(w, d)} \subseteq interrupted'
        /\ \A e \in Device : e # d => serving'[e] = serving[e]
    BY <1>0, <1>6 DEF HubRestarts
  <2>2. ASSUME NEW e \in Device, Serves(e)'
        PROVE  Serves(e) /\ Answered(e) \subseteq Answered(e)'
    <3>1. connection \in Session /\ Holds(connection, e) /\ connection \notin interrupted'
      BY <1>0, <2>1, <2>2 DEF Serves, Holds
    <3>2. e # d
      BY <2>1, <3>1
    <3> QED
      BY <2>1, <2>2, <3>1, <3>2 DEF Serves, Answered
  <2> QED
    BY <2>1, <2>2, AnsweredStays
<1> QED
  BY <1>2, <1>3, <1>4, <1>5, <1>6 DEF WorldStep

\* While no session is served, nothing is asked of the answers.
LEMMA OutOfSessionStays ==
  ASSUME ReachInv, UNCHANGED sent, \A d \in Device : ~Serves(d)',
         \A w \in Session : workers'[w].device = workers[w].device \/ OfSession(w) = {}
  PROVE  ReachInv'
<1>1. \A w : OfSession(w)' = OfSession(w)
  BY DEF OfSession
<1>2. \A w \in Session : \A n \in OfSession(w) : workers'[w].device = sent'[n].device
  BY DEF ReachInv
<1> QED
  BY <1>1, <1>2 DEF ReachInv

\* A request is issued for the device of its session, and has not been executed.
LEMMA SendStays ==
  ASSUME LinkInv, ReachInv, NEW c \in Command, NEW t \in Text \cup {NoText}, Send(c, t),
         connection # 0, UNCHANGED <<connection, toHost, serving>>
  PROVE  ReachInv'
<1> DEFINE w == connection
<1>a. PICK n : n = Len(sent) + 1
  OBVIOUS
<1>b. PICK l : l = Request(n, c, t)
  OBVIOUS
<1>1. Records(c, n, l)
  BY <1>a, <1>b, SendRecords
<1>2. /\ w \in Session /\ DOMAIN sent' = DOMAIN sent \cup {n} /\ n \notin DOMAIN sent
      /\ \A m \in DOMAIN sent : sent'[m] = sent[m]
      /\ sent'[n].session = w /\ sent'[n].device = workers[w].device
      /\ UNCHANGED <<executed, shown, swallowed, unanswered, interrupted>>
  BY <1>1 DEF Records
<1>3. ASSUME NEW v \in Session
      PROVE  /\ workers'[v].device = workers[v].device /\ workers'[v].phase = workers[v].phase
             /\ workers'[v].gone = workers[v].gone /\ workers'[v].events = workers[v].events
  BY <1>1 DEF Records
<1>4. ASSUME NEW v, NEW m \in OfSession(v)'
      PROVE  m \in OfSession(v) \/ (m = n /\ v = w)
  BY <1>2, <1>4 DEF OfSession
<1>5. ASSUME NEW v \in Session, NEW m \in OfSession(v)'
      PROVE  workers'[v].device = sent'[m].device
  <2>1. CASE m \in OfSession(v)
    BY <1>2, <1>3, <2>1 DEF OfSession, ReachInv
  <2>2. CASE m = n /\ v = w
    BY <1>2, <1>3, <2>2
  <2> QED
    BY <1>4, <1>5, <2>1, <2>2
<1>6. ASSUME NEW d \in Device, Serves(d)'
      PROVE  Elems(executed'[d]) \cap OfSession(connection)' \subseteq Answered(d)'
  <2>1. Serves(d) /\ Answered(d)' = Answered(d)
    BY <1>2, <1>3, <1>6 DEF Serves, Holds, Answered
  <2>2. n \notin Elems(executed[d])
    BY <1>2 DEF LinkInv, FlowInv, AddressInv, IssuedTo
  <2> QED
    BY <1>2, <1>4, <2>1, <2>2 DEF ReachInv
<1> QED
  BY <1>5, <1>6 DEF ReachInv

\* What the user does leaves the answers of a session alone, or ends it.
LEMMA UserStays ==
  ASSUME LinkInv, WholeInv, ReachInv, UserStep
  PROVE  ReachInv'
<1> USE DEF gui, wire, device, history
<1>0. /\ LinkTypeOK /\ workers \in [Session -> Worker]
      /\ connection # 0 => connection \in Session
  BY ChannelTypes DEF LinkInv, LinkTypeOK
<1>a. NoText \in Text \cup {NoText} /\ {"query", "get_config", "set_config"} \cup Destructive \subseteq Command
  BY DEF Command
<1>b. ASSUME UNCHANGED <<connection, workers, toHost, serving, history>>
      PROVE  ReachInv'
  BY <1>b, AnsweredStays DEF Serves, Holds, Answered
<1>1. CASE \E e \in {"node", "hub", "database"} : SetEndpoint(e)
  BY <1>1, <1>b DEF SetEndpoint
<1>2. ASSUME NEW p \in Port, Connect(p) PROVE ReachInv'
  <2>1. PICK w \in Session : /\ workers[w].phase = "unused" /\ connection' = w
                             /\ workers' = [workers EXCEPT ![w] = Starting(p)]
    BY <1>2 DEF Connect
  <2>2. /\ workers'[w] = Starting(p) /\ \A v \in Session : v # w => workers'[v] = workers[v]
    BY <1>0, <2>1
  <2>3. \A d \in Device : ~Serves(d)'
    BY <2>1, <2>2 DEF Starting, Serves, Holds
  <2>4. OfSession(w) = {}
    BY <2>1 DEF WholeInv, OwnInv
  <2>5. UNCHANGED sent
    BY <1>2 DEF Connect
  <2> QED
    BY <2>2, <2>3, <2>4, <2>5, OutOfSessionStays
<1>3. CASE Disconnect
  <2>1. connection' = 0 /\ UNCHANGED sent
    BY <1>3 DEF Disconnect
  <2>2. \A v \in Session : workers'[v].device = workers[v].device
    BY <1>0, <1>3 DEF Disconnect
  <2>3. \A d \in Device : ~Serves(d)'
    BY <2>1 DEF Serves
  <2> QED
    BY <2>1, <2>2, <2>3, OutOfSessionStays
<1>4. CASE \E t \in Typed : EditText(t)
  BY <1>4, <1>b DEF EditText
<1>5. ASSUME NEW c \in {"query", "get_config"}, SendSimple(c) PROVE ReachInv'
  BY <1>5, <1>a, SendStays DEF SendSimple
<1>6. CASE SendSetConfig
  <2>1. configText \in Text \cup {NoText}
    BY <1>6 DEF SendSetConfig, LinkInv, LinkTypeOK
  <2> QED
    BY <1>6, <1>a, <2>1, SendStays DEF SendSetConfig
<1>7. CASE \E a \in Destructive : Ask(a)
  BY <1>7, <1>b DEF Ask
<1>8. CASE Confirm
  <2>1. CASE connection # 0 /\ opened
    <3>1. confirmation \in Command
      BY <1>8, <1>a DEF Confirm, LinkInv, LinkTypeOK
    <3> QED
      BY <1>8, <1>a, <2>1, <3>1, SendStays DEF Confirm
  <2>2. CASE ~(connection # 0 /\ opened)
    <3>1. UNCHANGED <<workers, history>>
      BY <1>8, <2>2 DEF Confirm
    <3> QED
      BY <1>8, <1>b, <3>1 DEF Confirm
  <2> QED
    BY <2>1, <2>2
<1>9. CASE Cancel
  BY <1>9, <1>b DEF Cancel
<1> QED
  BY <1>1, <1>2, <1>3, <1>4, <1>5, <1>6, <1>7, <1>8, <1>9 DEF UserStep

\* The GUI shows every answer it was told.
LEMMA PollStays ==
  ASSUME LinkInv, ReachInv, PollEvents
  PROVE  ReachInv'
<1> DEFINE w == connection
<1>1. /\ w \in Session /\ Elems(shown') = Elems(shown) \cup Nums(workers[w].events)
      /\ workers' = [workers EXCEPT ![w].events = <<>>] /\ workers \in [Session -> Worker]
      /\ UNCHANGED <<connection, sent, executed, toHost, serving, swallowed, unanswered, interrupted>>
  BY PollShows DEF PollEvents, wire, device, LinkInv, LinkTypeOK
<1>2. /\ \A v \in Session : v # w => workers'[v] = workers[v]
      /\ workers'[w].device = workers[w].device /\ workers'[w].phase = workers[w].phase
      /\ workers'[w].gone = workers[w].gone
  BY <1>1 DEF Worker
<1>3. ASSUME NEW d \in Device, Serves(d)'
      PROVE  Serves(d) /\ Answered(d) \subseteq Answered(d)'
  BY <1>1, <1>2, <1>3 DEF Serves, Holds, Answered
<1>4. \A v \in Session : workers'[v].device = workers[v].device
  BY <1>1, <1>2
<1> QED
  BY <1>1, <1>3, <1>4, AnsweredStays

\* At first nothing was issued; and no step drops an answer of the session.
THEOREM ReachInvariant == Spec => []ReachInv
<1>1. Init => ReachInv
  BY DEF Init, ReachInv, OfSession, Serves
<1>2. LinkInv /\ WholeInv /\ ReachInv /\ [Next]_vars => ReachInv'
  <2> SUFFICES ASSUME LinkInv, WholeInv, ReachInv, [Next]_vars PROVE ReachInv'
    OBVIOUS
  <2>1. CASE UserStep
    BY <2>1, UserStays
  <2>2. CASE PollEvents
    BY <2>2, PollStays
  <2>3. CASE \E w \in Session : WorkerStep(w)
    BY <2>3, WorkerStays
  <2>4. CASE \E d \in Device : DeviceStep(d)
    BY <2>4, DeviceStays, DropStays DEF DeviceStep, Answering
  <2>5. CASE \E d \in Device : WorldStep(d)
    BY <2>5, WorldStays
  <2>6. CASE UNCHANGED vars
    BY <2>6, AnsweredStays DEF vars, gui, wire, device, history, Serves, Holds, Answered
  <2> QED
    BY <2>1, <2>2, <2>3, <2>4, <2>5, <2>6 DEF Next, WorldStep
<1> QED
  BY <1>1, <1>2, LinkInvariant, WholeInvariant, PTL DEF Spec

\* An answer that is read with a configuration was asked for one, and so is the line a device
\* handles when its answer would carry one.
LEMMA AskedStays ==
  ASSUME LinkInv, AskedInv, [Next]_vars
  PROVE  AskedInv'
<1> USE DEF gui, wire, device, history
<1>1. ASSUME UNCHANGED sent,
             unanswered' = unanswered
               \/ \E n \in DOMAIN sent : sent[n].config /\ unanswered' = unanswered \cup {n}
      PROVE  AskedInv'
  BY <1>1 DEF AskedInv
<1>2. ASSUME NEW c \in Command, NEW t \in Text \cup {NoText}, Send(c, t), connection # 0
      PROVE  AskedInv'
  <2>1. Records(c, Len(sent) + 1, Request(Len(sent) + 1, c, t))
    BY <1>2, SendRecords
  <2> QED
    BY <2>1 DEF Records, AskedInv
<1>3. CASE UserStep
  <2>1. ASSUME NEW c \in {"query", "get_config"}, SendSimple(c) PROVE AskedInv'
    BY <1>2, <2>1 DEF SendSimple, Command
  <2>2. ASSUME SendSetConfig PROVE AskedInv'
    <3>1. configText \in Text \cup {NoText}
      BY <2>2 DEF SendSetConfig, LinkInv, LinkTypeOK
    <3> QED
      BY <1>2, <2>2, <3>1 DEF SendSetConfig, Command
  <2>3. ASSUME Confirm PROVE AskedInv'
    <3>1. confirmation \in Command
      BY <2>3 DEF Confirm, LinkInv, LinkTypeOK, Command
    <3> QED
      BY <1>1, <1>2, <2>3, <3>1 DEF Confirm
  <2>4. ASSUME ~\E c \in {"query", "get_config"} : SendSimple(c), ~SendSetConfig, ~Confirm
        PROVE  UNCHANGED <<sent, unanswered>>
    BY <1>3, <2>4 DEF UserStep, SetEndpoint, Connect, Disconnect, EditText, Ask, Cancel
  <2> QED
    BY <1>1, <2>1, <2>2, <2>3, <2>4
<1>4. CASE PollEvents
  BY <1>1, <1>4 DEF PollEvents
<1>5. ASSUME NEW w \in Session, WorkerStep(w) PROVE AskedInv'
  <2>1. CASE ReadAnswer(w)
    <3> DEFINE d == workers[w].device
               a == Head(toHost[d])
    <3>1. /\ UNCHANGED sent /\ d \in Device /\ toHost[d] # <<>> /\ toHost[d] \in Seq(Note)
          /\ unanswered' = IF Unreadable(d, a) THEN unanswered \cup {a.num} ELSE unanswered
      BY <2>1, ChannelTypes DEF ReadAnswer, LinkInv, LinkTypeOK, Worker
    <3>2. ASSUME Unreadable(d, a) PROVE a.num \in DOMAIN sent /\ sent[a.num].config
      <4>1. a.data # NoText /\ a.data # "opened" /\ a # Opened
        <5>1. a.data \in NodeText \cup HubText
          BY <3>2, LinkAssumption DEF Unreadable
        <5> HIDE DEF a
        <5> QED
          BY <5>1, LinkAssumption DEF Opened
      <4>2. a \in Elems(toHost[d])
        BY <3>1, HeadAndTail
      <4>3. Tells(a) /\ a.num # 0
        BY <3>1, <4>1, <4>2, ChannelTypes, Nameless
        DEF LinkInv, FlowInv, ConfigInv, Unknown, Answer
      <4>4. a.num \in Nums(toHost[d])
        BY <4>2, <4>3 DEF Nums
      <4> QED
        BY <3>1, <4>1, <4>3, <4>4 DEF Tells, Carries, LinkInv, FlowInv, AddressInv, IssuedTo
    <3> QED
      BY <1>1, <3>1, <3>2
  <2>2. CASE ~ReadAnswer(w)
    <3>1. UNCHANGED <<sent, unanswered>>
      BY <1>5, <2>2 DEF WorkerStep, OpenPort, OpenFails, WriteRequest, WriteFails, CloseSession, ReadFails
    <3> QED
      BY <1>1, <3>1
  <2> QED
    BY <2>1, <2>2
<1>6. ASSUME NEW d \in Device, DeviceStep(d) PROVE AskedInv'
  <2> DEFINE l == Head(toDevice[d])
  <2>1. CASE DropLine(d)
    BY <1>1, <2>1 DEF DropLine
  <2>2. ASSUME NEW t, NEW up, Reply(d, t, up), t \in LongAnswer["node"] => l.cmd = "get_config",
               toDevice[d] # <<>>
        PROVE  AskedInv'
    <3>1. l \in Elems(toDevice[d]) /\ l \in QueuedRequest \cup {Garbled}
      BY <2>2, HeadAndTail, ChannelTypes DEF LinkInv
    <3>2. ASSUME l.cmd = "get_config" PROVE l.num \in DOMAIN sent /\ sent[l.num].config
      <4>1. l.num # 0 /\ l.num \in Nums(toDevice[d])
        BY <3>1, <3>2, Nameless DEF Nums
      <4> QED
        BY <3>1, <3>2, <4>1 DEF LinkInv, FlowInv, ConfigInv, Asks, AddressInv, IssuedTo
    <3>3. UNCHANGED sent /\ (unanswered' = unanswered
                               \/ (t \in LongAnswer["node"] /\ unanswered' = unanswered \cup {l.num}))
      BY <2>2 DEF Reply, Unsendable
    <3> QED
      BY <1>1, <2>2, <3>2, <3>3
  <2>3. CASE Answering(d)
    <3>1. toDevice[d] # <<>>
      BY <2>3 DEF Answering, HandleQuery, HandleGetConfig, HandleSetConfig, HandleFactoryReset,
                  HandleReboot, HandleGarbled, Ready, Reads
    <3>2. NoText \notin LongAnswer["node"]
      BY LinkAssumption
    <3>3. CASE ~HandleSetConfig(d)
      BY <2>2, <2>3, <3>1, <3>2, <3>3 DEF Answering, HandleQuery, HandleGetConfig,
         HandleFactoryReset, HandleReboot, HandleGarbled, Ready
    <3>4. CASE HandleSetConfig(d)
      <4>1. CASE Kind[d] = "hub"
        <5>1. UNCHANGED <<sent, unanswered>>
          BY <3>4, <4>1 DEF HandleSetConfig, Reply, Unsendable
        <5> QED
          BY <1>1, <5>1
      <4>2. CASE Kind[d] # "hub"
        <5>1. Reply(d, NoText, TRUE)
          BY <3>4, <4>2 DEF HandleSetConfig
        <5> QED
          BY <2>2, <3>1, <3>2, <5>1
      <4> QED
        BY <4>1, <4>2
    <3> QED
      BY <3>3, <3>4
  <2> QED
    BY <1>6, <2>1, <2>3 DEF DeviceStep, Answering
<1>7. ASSUME NEW d \in Device, WorldStep(d) PROVE AskedInv'
  <2>1. UNCHANGED <<sent, unanswered>>
    BY <1>7 DEF WorldStep, Unplug, Plug, NodeResets, HangUp, HubRestarts
  <2> QED
    BY <1>1, <2>1
<1>8. CASE UNCHANGED vars
  BY <1>1, <1>8 DEF vars
<1> QED
  BY <1>3, <1>4, <1>5, <1>6, <1>7, <1>8 DEF Next, WorldStep

\* A configuration too long to be answered was asked for.
THEOREM AskedInvariant == Spec => []AskedInv
<1>1. Init => AskedInv
  BY DEF Init, AskedInv
<1> QED
  BY <1>1, AskedStays, LinkInvariant, PTL DEF Spec

\* While session, cable and server last, no request and no answer is dropped but those too
\* long: what the GUI issued is under way to the device, or its answer is under way to the
\* GUI or shown, or another line swallowed it, or the device does not read so long a line,
\* or it asked for a configuration that is too long to be answered.
THEOREM NothingLostCorrect == Spec => []NothingLost
<1>1. LinkInv /\ WholeInv /\ ReachInv /\ AskedInv => NothingLost
  <2> SUFFICES ASSUME LinkInv, WholeInv, ReachInv, AskedInv, NEW n \in DOMAIN sent,
                      NEW w, w = sent[n].session, NEW d, d = sent[n].device,
                      w = connection, workers[w].phase = "running", ~workers[w].gone,
                      serving[d], w \notin interrupted
               PROVE  \/ \E s \in {workers[w].queue, toDevice[d], toHost[d], workers[w].events} :
                            \E i \in DOMAIN s : s[i].num = n
                      \/ \E i \in DOMAIN shown : shown[i] = n
                      \/ n \in swallowed \/ ~sent[n].fits \/ (n \in unanswered /\ sent[n].config)
    BY DEF NothingLost
  <2>1. w \in Session /\ w # 0 /\ d \in Device
    <3>1. sent[n] \in Sent
      BY DEF LinkInv, LinkTypeOK
    <3>2. sent[n].session \in Session /\ sent[n].device \in Device
      BY <3>1 DEF Sent
    <3>3. 0 \notin Session
      BY DEF Session
    <3> QED
      BY <3>2, <3>3
  <2>2. n \in OfSession(w)
    BY DEF OfSession
  <2>3. Holds(w, d) /\ Serves(d)
    BY <2>1, <2>2 DEF ReachInv, Holds, Serves
  <2>4. n \in Nums(workers[w].queue) \cup Nums(toDevice[d]) \cup Elems(executed[d]) \cup Excused
    BY <2>1, <2>2, <2>3 DEF WholeInv, GapInv
  <2>5. n \in Elems(executed[d]) => n \in Answered(d)
    BY <2>1, <2>2, <2>3 DEF ReachInv
  <2>6. \/ n \in Elems(shown) \cup swallowed \/ ~sent[n].fits \/ n \in unanswered
        \/ \E s \in {workers[w].queue, toDevice[d], toHost[d], workers[w].events} : n \in Nums(s)
    BY <2>4, <2>5 DEF Answered, Excused
  <2>7. \A s : n \in Nums(s) => \E i \in DOMAIN s : s[i].num = n
    BY DEF Nums, Elems
  <2> QED
    BY <2>6, <2>7 DEF Elems, AskedInv
<1> QED
  BY <1>1, LinkInvariant, WholeInvariant, ReachInvariant, AskedInvariant, PTL

===============================================================================
