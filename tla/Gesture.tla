------------------------------- MODULE Gesture -------------------------------
(***************************************************************************)
(* One GPIO input of the node: GestureDetector of input.rs, sampled by     *)
(* input_task.  The task's clock counts samples, not time: it advances by  *)
(* 10 ms per loop however long the loop was held up.  One unit of `now' is *)
(* one sample; the three intervals are given in samples.  The other inputs *)
(* have detectors of their own and share nothing with this one.            *)
(***************************************************************************)
EXTENDS Integers

CONSTANTS
  DebounceTime,  \* debounce_ms of the input
  DoubleClick,   \* double_click_interval_ms
  LongPress,     \* long_press_threshold_ms
  None,          \* Option::None
  MaxNow         \* where the clock saturates: u64::MAX in the code, and here the
                 \* bound on the samples explored

ASSUME GestureAssumption ==
  /\ DebounceTime \in Nat
  /\ DoubleClick \in Nat \ {0}
  /\ LongPress \in Nat \ {0}
  /\ None \notin Nat
  /\ MaxNow \in Nat

VARIABLES
  now,        \* now_ms of input_task
  detector,   \* the GestureDetector
  count,      \* history variable: presses seen, gestures emitted, and the first
              \* clicks that a held second press has swallowed
  lastShort   \* history variable: when the last press that was neither long nor
              \* the second of a pair was released; None once a later one was

vars == <<now, detector, count, lastShort>>

Detector ==
  [stable : BOOLEAN, candidate : BOOLEAN, candidateSince : Nat,
   pressedSince : Nat \cup {None}, longEmitted : BOOLEAN,
   pendingClick : Nat \cup {None}, secondClick : BOOLEAN]

Count == [presses : Nat, clicks : Nat, doubles : Nat, longs : Nat, swallowed : Nat]

TypeOK ==
  /\ now \in Nat
  /\ detector \in Detector
  /\ count \in Count
  /\ lastShort \in Nat \cup {None}

\* elapsed(): saturating subtraction.
Elapsed(t, since) == IF t > since THEN t - since ELSE 0

\* initialize(): an input that is active at boot counts as pressed since then.
Initialized(active) ==
  [stable |-> active, candidate |-> active, candidateSince |-> 0,
   pressedSince |-> IF active THEN 0 ELSE None, longEmitted |-> FALSE,
   pendingClick |-> None, secondClick |-> FALSE]

Init ==
  \E active \in BOOLEAN :
    /\ now = 0
    /\ detector = Initialized(active)
    /\ count = [presses |-> IF active THEN 1 ELSE 0,
                clicks |-> 0, doubles |-> 0, longs |-> 0, swallowed |-> 0]
    /\ lastShort = None

------------------------------------------------------------------------------
(* update(), in the order of the code *)

\* mistake: a second press that is still being debounced does not hold the
\* click back.
ClickDueEager(g, active) ==
  g.pendingClick # None /\ Elapsed(now, g.pendingClick) > DoubleClick

\* mistake: every bounce starts the interval again.
ClickDueRestarted(g, active) ==
  g.pendingClick # None /\ Elapsed(now, g.candidateSince) > DoubleClick

\* A press that is still being debounced, and began within the double-click
\* interval of the pending click.
SecondPressStarting(g, active) ==
  /\ active /\ g.candidate /\ ~ g.stable
  /\ Elapsed(g.candidateSince, g.pendingClick) <= DoubleClick

\* The pending click can no longer become a double click.
ClickDue(g, active) ==
  /\ g.pendingClick # None
  /\ Elapsed(now, g.pendingClick) > DoubleClick
  /\ ~ SecondPressStarting(g, active)

ExpireClick(g, active) ==
  IF ClickDue(g, active) THEN [g EXCEPT !.pendingClick = None, !.secondClick = FALSE]
  ELSE g

\* A press settles; it is a second click if it began within the interval.
Pressed(g) ==
  LET second == /\ g.pendingClick # None
                /\ Elapsed(g.candidateSince, g.pendingClick) <= DoubleClick
  IN  [g EXCEPT !.stable = TRUE, !.pressedSince = now, !.longEmitted = FALSE,
                !.secondClick = second,
                !.pendingClick = IF second THEN None ELSE @]

\* mistake: the release that ends a long press leaves a click pending.
ReleasedAlwaysPending(g) ==
  [g EXCEPT !.stable = FALSE, !.pressedSince = None, !.secondClick = FALSE,
            !.pendingClick = IF g.secondClick THEN None ELSE now]

\* A release settles: the end of a long press, a double click, or a click that
\* has to wait.
Released(g) ==
  [g EXCEPT !.stable = FALSE, !.pressedSince = None, !.secondClick = FALSE,
            !.pendingClick = IF g.longEmitted THEN @
                             ELSE IF g.secondClick THEN None ELSE now]

\* The level has differed from the stable one for the debounce time.
Settles(g) ==
  /\ g.candidate # g.stable
  /\ Elapsed(now, g.candidateSince) >= DebounceTime

Debounced(g, active) ==
  CASE active # g.candidate -> [g EXCEPT !.candidate = active, !.candidateSince = now]
    [] active = g.candidate /\ Settles(g) ->
         IF g.candidate THEN Pressed(g) ELSE Released(g)
    [] OTHER -> g

LongPressDue(g) ==
  /\ g.stable /\ ~ g.longEmitted /\ g.pressedSince # None
  /\ Elapsed(now, g.pressedSince) >= LongPress

Held(g) == IF LongPressDue(g) THEN [g EXCEPT !.longEmitted = TRUE] ELSE g

One(b) == IF b THEN 1 ELSE 0

\* One sample of input_task, and what update() pushed to its output.
Sample(active) ==
  LET g1       == ExpireClick(detector, active)
      g2       == Debounced(g1, active)
      released == g1.stable /\ ~ g2.stable
      double   == released /\ ~ g1.longEmitted /\ g1.secondClick
      short    == released /\ ~ g1.longEmitted /\ ~ g1.secondClick
  IN  /\ now' = IF now < MaxNow THEN now + 1 ELSE now
      /\ detector' = Held(g2)
      /\ count' = [presses   |-> count.presses + One(~ g1.stable /\ g2.stable),
                   clicks    |-> count.clicks + One(ClickDue(detector, active)),
                   doubles   |-> count.doubles + One(double),
                   longs     |-> count.longs + One(LongPressDue(g2)),
                   swallowed |-> count.swallowed + One(LongPressDue(g2) /\ g2.secondClick)]
      /\ lastShort' = IF short THEN now ELSE IF released THEN None ELSE lastShort

Next == \E active \in BOOLEAN : Sample(active)

Spec == Init /\ [][Next]_vars

------------------------------------------------------------------------------
(* Properties *)

\* Presses whose gesture is still open: a click waiting for its interval, a
\* press not released and not yet long, and the first press of a double click.
Open ==
  LET pressed == detector.stable /\ ~ detector.longEmitted
  IN  One(detector.pendingClick # None) + One(pressed)
        + One(pressed /\ detector.secondClick)

\* Every press ends in exactly one gesture, alone or as half of a double click:
\* none is reported twice (no click in addition to a double click or a long
\* press) and none is lost, bar the click whose second press is held.
EveryPressOneGesture ==
  count.presses = count.clicks + 2 * count.doubles + count.longs + count.swallowed + Open

\* A press whose contact last bounced within the interval after a short one is its
\* second click, however it bounced before: the first has not been reported as a click
\* by then.  (candidateSince is that last bounce: a press that still bounces when the
\* interval ends is a new one.)
SecondPressInWindow ==
  [][(~ detector.stable /\ detector'.stable /\ lastShort # None
        /\ detector.candidateSince - lastShort <= DoubleClick)
       => detector'.secondClick]_vars

Longer(a, b) == IF a > b THEN a ELSE b

\* A click is reported at the latest when the interval and one debounce time
\* have passed: a bouncing contact cannot put it off any further.
ClickIsPrompt ==
  detector.pendingClick # None =>
    now - detector.pendingClick <= DoubleClick + Longer(DebounceTime, 1)
==============================================================================
