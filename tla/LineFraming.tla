----------------------------- MODULE LineFraming -----------------------------
(***************************************************************************)
(* The three decoders that cut a CDC byte stream into lines: the hub's, the *)
(* node's and the control application's.  They differ in what counts        *)
(* towards the limit, in what becomes of a line beyond it, and in when they *)
(* are reset.  All three read the same stream here, in the same packets; in *)
(* the system each reads its own.                                           *)
(*                                                                         *)
(* Of a byte only this matters: "lf" ends a line, "cr" before it is         *)
(* trimmed, "bad" is no UTF-8, "x" is anything else.                        *)
(***************************************************************************)
EXTENDS Naturals, Sequences, FiniteSets, SequencesExt

CONSTANTS
  MaxLine,     \* MAX_CDC_LINE_SIZE, 4096 at the node, 65536 at the others
  Queue,       \* MAX_CDC_QUEUED_LINES of the node
  PacketSize,  \* bytes one read returns at most
  MinRequest,  \* bytes of the shortest request, line end included
  MaxStream    \* bound on the bytes of a run

ASSUME FramingAssumption ==
  /\ MaxLine \in Nat \ {0} /\ Queue \in Nat \ {0}
  /\ PacketSize \in Nat \ {0} /\ MaxStream \in Nat
  /\ MinRequest \in Nat \ {0}
  \* 64-byte packets hold the ends of at most two requests of 50 bytes or more.
  /\ 1 + (PacketSize - 1) \div MinRequest <= Queue

VARIABLES
  stream,        \* the bytes read since the hub started
  session,       \* those of them read since the last disconnection
  starts,        \* the lengths the session had when one of its packets came
  hub, hubLines,           \* LineDecoder of the hub, the lines it returned
  node, nodeLines,         \* CdcLineParser, the lines that were popped
  control, controlLines    \* LineDecoder of the application, lines and errors

vars == <<stream, session, starts, hub, hubLines, node, nodeLines, control, controlLines>>

Byte == {"x", "cr", "bad", "lf"}
Packet == UNION {[1..n -> Byte] : n \in 1..PacketSize}

---------------------------------------------------------------------------
(* Hub: the limit is on the bytes before the line end; an overlong line is  *)
(* dropped without a word.                                                  *)

\* from_utf8_lossy, then trim_end_matches('\r').
HubText(bytes) ==
  LET kept == {0} \cup {i \in DOMAIN bytes : bytes[i] # "cr"}
      end  == CHOOSE i \in kept : \A j \in kept : j <= i
  IN  [i \in 1..end |-> IF bytes[i] = "bad" THEN "?" ELSE bytes[i]]

NewHub == [current |-> <<>>, dropping |-> FALSE, out |-> <<>>]

\* mistake: the limit is looked at before the byte is.
HubByteLimitFirst(d, b) ==
  IF d.dropping THEN [d EXCEPT !.dropping = b # "lf"]
  ELSE IF Len(d.current) >= MaxLine
  THEN [d EXCEPT !.current = <<>>, !.dropping = b # "lf"]
  ELSE IF b = "lf"
  THEN [d EXCEPT !.current = <<>>, !.out = Append(@, HubText(d.current))]
  ELSE [d EXCEPT !.current = Append(@, b)]

\* The body of feed's loop, for one byte.
HubByte(d, b) ==
  IF b = "lf"
  THEN [current |-> <<>>, dropping |-> FALSE,
        out |-> IF d.dropping THEN d.out ELSE Append(d.out, HubText(d.current))]
  ELSE IF d.dropping THEN d
  ELSE IF Len(d.current) >= MaxLine
  THEN [d EXCEPT !.current = <<>>, !.dropping = TRUE]
  ELSE [d EXCEPT !.current = Append(@, b)]

\* LineDecoder::feed: the bytes of a packet, one after the other.
HubFeed(d, p) == FoldLeft(HubByte, d, p)

---------------------------------------------------------------------------
(* Control application: the limit includes the line end; an overlong line  *)
(* is an error event, reported as soon as the limit is passed.             *)

Failed == [ok |-> FALSE, text |-> <<>>]

\* One line end and one CR are stripped; what is no UTF-8 is an error.
ControlText(bytes) ==
  LET n    == Len(bytes)
      text == IF n > 0 /\ bytes[n] = "cr" THEN SubSeq(bytes, 1, n - 1) ELSE bytes
  IN  IF \E i \in DOMAIN text : text[i] = "bad"
      THEN Failed ELSE [ok |-> TRUE, text |-> text]

NewControl == [current |-> <<>>, dropping |-> FALSE, out |-> <<>>]

\* mistake: the error is reported again for every byte that is dropped.
ControlByteRepeats(d, b) ==
  IF d.dropping
  THEN [d EXCEPT !.dropping = b # "lf", !.out = Append(@, Failed)]
  ELSE IF Len(d.current) >= MaxLine
  THEN [current |-> <<>>, dropping |-> b # "lf", out |-> Append(d.out, Failed)]
  ELSE IF b = "lf"
  THEN [d EXCEPT !.current = <<>>, !.out = Append(@, ControlText(d.current))]
  ELSE [d EXCEPT !.current = Append(@, b)]

\* The body of feed's loop, for one byte.
ControlByte(d, b) ==
  IF d.dropping THEN [d EXCEPT !.dropping = b # "lf"]
  ELSE IF Len(d.current) >= MaxLine
  THEN [current |-> <<>>, dropping |-> b # "lf", out |-> Append(d.out, Failed)]
  ELSE IF b = "lf"
  THEN [d EXCEPT !.current = <<>>, !.out = Append(@, ControlText(d.current))]
  ELSE [d EXCEPT !.current = Append(@, b)]

ControlFeed(d, p) == FoldLeft(ControlByte, d, p)

---------------------------------------------------------------------------
(* Node: the limit includes the line end; overlong lines, and lines that   *)
(* find the queue full, are dropped without a word.                        *)

NewNode == [current |-> <<>>, dropping |-> FALSE, lines |-> <<>>]

\* mistake: the line that does not fit into the queue stays in the buffer.
NodeByteKeepsLine(d, b) ==
  IF d.dropping THEN [d EXCEPT !.dropping = b # "lf"]
  ELSE IF Len(d.current) = MaxLine
  THEN [d EXCEPT !.current = <<>>, !.dropping = b # "lf"]
  ELSE IF b # "lf" THEN [d EXCEPT !.current = Append(@, b)]
  ELSE IF Len(d.lines) < Queue
  THEN [d EXCEPT !.current = <<>>, !.lines = Append(@, d.current)]
  ELSE d

\* The body of feed's loop, for one byte.
NodeByte(d, b) ==
  IF d.dropping THEN [d EXCEPT !.dropping = b # "lf"]
  ELSE IF Len(d.current) = MaxLine
  THEN [d EXCEPT !.current = <<>>, !.dropping = b # "lf"]
  ELSE IF b = "lf"
  THEN [d EXCEPT !.current = <<>>,
                 !.lines = IF Len(@) < Queue THEN Append(@, d.current) ELSE @]
  ELSE [d EXCEPT !.current = Append(@, b)]

NodeFeed(d, p) == FoldLeft(NodeByte, d, p)

---------------------------------------------------------------------------
Init ==
  /\ stream = <<>> /\ session = <<>> /\ starts = {}
  /\ hub = NewHub /\ hubLines = <<>>
  /\ node = NewNode /\ nodeLines = <<>>
  /\ control = NewControl /\ controlLines = <<>>

\* spawn_server: feed, then every line is answered.
HubRead(p) ==
  LET d == HubFeed(hub, p) IN
  /\ hub' = [d EXCEPT !.out = <<>>]
  /\ hubLines' = hubLines \o d.out

\* serial_worker: feed, then every line or error becomes an event.
ControlRead(p) ==
  LET d == ControlFeed(control, p) IN
  /\ control' = [d EXCEPT !.out = <<>>]
  /\ controlLines' = controlLines \o d.out

\* mistake: the parser is created in the inner loop.
NodeReadForgets(p) ==
  LET d == NodeFeed(NewNode, p) IN
  /\ node' = [d EXCEPT !.lines = <<>>]
  /\ nodeLines' = nodeLines \o d.lines

\* cdc_task: feed, its result ignored; then the queue is popped until it is empty.
NodeRead(p) ==
  LET d == NodeFeed(node, p) IN
  /\ node' = [d EXCEPT !.lines = <<>>]
  /\ nodeLines' = nodeLines \o d.lines

Read(p) ==
  /\ Len(stream) + Len(p) <= MaxStream
  /\ stream' = stream \o p
  /\ session' = session \o p
  /\ starts' = starts \cup {Len(session)}
  /\ HubRead(p) /\ NodeRead(p) /\ ControlRead(p)

\* read_packet fails at the node, which starts over with a new parser; the next
\* session of the application has a new decoder.  The hub keeps reading the
\* same device and keeps what it has.
Disconnect ==
  /\ session # <<>>
  /\ session' = <<>> /\ starts' = {}
  /\ node' = NewNode /\ nodeLines' = <<>>
  /\ control' = NewControl /\ controlLines' = <<>>
  /\ UNCHANGED <<stream, hub, hubLines>>

\* The run ends with its stream.
Stop ==
  /\ Len(stream) = MaxStream
  /\ UNCHANGED vars

Next == (\E p \in Packet : Read(p)) \/ Disconnect \/ Stop

Spec == Init /\ [][Next]_vars

---------------------------------------------------------------------------
(* The reference: a stream is cut at its line ends, wherever its packets   *)
(* begin and end.  A line is known by the position of its end.              *)

LineEnds(s) == {i \in DOMAIN s : s[i] = "lf"}

\* Where the last line before position i ended.
LastEnd(s, i) == Max({0} \cup {e \in LineEnds(s) : e < i})

Line(s, e) == SubSeq(s, LastEnd(s, e) + 1, e - 1)

Unfinished(s) == Len(s) - LastEnd(s, Len(s) + 1)

\* A line, its end included, is within the limit.
Fits(l) == Len(l) < MaxLine

Legal(s) == {e \in LineEnds(s) : Fits(Line(s, e))}

\* What f has for each of its positions, in the order of the positions.
InOrder(f) ==
  LET rank(i) == Cardinality({j \in DOMAIN f : j <= i})
  IN  [k \in 1..Cardinality(DOMAIN f) |-> f[CHOOSE i \in DOMAIN f : rank(i) = k]]

\* The start of the packet that position e is in.
PacketStart(at, e) == Max({r \in at : r < e})

\* Of the legal lines that end in one packet, the first Queue.
Taken(s, at) ==
  LET upto(e) == {l \in Legal(s) : PacketStart(at, e) < l /\ l <= e}
  IN  {e \in Legal(s) : Cardinality(upto(e)) <= Queue}

---------------------------------------------------------------------------

\* The hub answers exactly the lines within its limit, in order and each once,
\* however the stream was cut into reads and whatever sessions it spans.
HubLinesExact ==
  LET legal == {e \in LineEnds(stream) : Len(Line(stream, e)) <= MaxLine}
  IN  hubLines = InOrder([e \in legal |-> HubText(Line(stream, e))])

\* The application sees every line of its session in order, as its text or as
\* an error; an overlong line is one error, reported before the line has ended.
ControlLinesExact ==
  LET seen == InOrder([e \in LineEnds(session) |->
                IF e \in Legal(session) THEN ControlText(Line(session, e)) ELSE Failed])
  IN  controlLines = IF Unfinished(session) > MaxLine THEN Append(seen, Failed) ELSE seen

\* The node handles the lines within its limit in order, of each packet the
\* first Queue of them: what it loses depends on the packets.
NodeLinesExact ==
  nodeLines = InOrder([e \in Taken(session, starts) |-> Line(session, e)])

\* As long as the lines are as long as requests are, no packet holds the ends
\* of more of them than the queue takes, and none is lost.
RequestsAreNotCrowdedOut ==
  (\A e \in LineEnds(session) : e - LastEnd(session, e) >= MinRequest)
    => nodeLines = InOrder([e \in Legal(session) |-> Line(session, e)])

==============================================================================
