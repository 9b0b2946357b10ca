--------------------------- MODULE Gesture_proofs ---------------------------
(* Proofs about Gesture: every press ends in exactly one gesture. *)
EXTENDS Gesture, TLAPS

\* A click is pending only while the input is released, a second click is only
\* under way while it is pressed, and no time stamp lies in the future.
ClickInv ==
  /\ detector.pendingClick # None =>
       ~ detector.stable /\ ~ detector.secondClick /\ detector.pendingClick <= now
  /\ detector.secondClick => detector.stable
  /\ detector.candidateSince <= now

GestureInv == TypeOK /\ ClickInv /\ EveryPressOneGesture

\* The unit of counting.
LEMMA OneNat == \A b \in BOOLEAN : One(b) \in {0, 1} /\ (b => One(b) = 1) /\ (~ b => One(b) = 0)
BY DEF One

\* Saturating subtraction.
LEMMA ElapsedNat ==
  \A t, s \in Nat : Elapsed(t, s) \in Nat /\ Elapsed(t, s) <= t /\ (s <= t => Elapsed(t, s) = t - s)
BY DEF Elapsed

\* At boot an input that is held counts as one press, still open.
LEMMA GestureInvInit == Init => GestureInv
<1> SUFFICES ASSUME NEW active \in BOOLEAN,
                    now = 0, detector = Initialized(active),
                    count = [presses |-> IF active THEN 1 ELSE 0,
                             clicks |-> 0, doubles |-> 0, longs |-> 0, swallowed |-> 0],
                    lastShort = None
             PROVE  GestureInv
  BY DEF Init
<1>1. TypeOK
  BY DEF TypeOK, Initialized, Detector, Count
<1>2. ClickInv
  BY DEF ClickInv, Initialized
<1>3. EveryPressOneGesture
  BY DEF EveryPressOneGesture, Open, One, Initialized
<1> QED BY <1>1, <1>2, <1>3 DEF GestureInv

\* What the first part of update() leaves: a pending click is still in reach of
\* a press that is being debounced.
LEMMA ExpireClickLemma ==
  ASSUME GestureInv, NEW active \in BOOLEAN,
         NEW g, g = ExpireClick(detector, active)
  PROVE  /\ g \in Detector
         /\ g = [detector EXCEPT !.pendingClick = g.pendingClick, !.secondClick = g.secondClick]
         /\ ClickDue(detector, active) => g.pendingClick = None /\ g.secondClick = FALSE
                                          /\ detector.pendingClick # None
         /\ ~ ClickDue(detector, active) => g = detector
         /\ (g.pendingClick # None /\ active /\ g.candidate) =>
               Elapsed(g.candidateSince, g.pendingClick) <= DoubleClick
<1> USE GestureAssumption DEF GestureInv, TypeOK, Detector, ClickInv
<1>1. CASE ClickDue(detector, active)
  BY <1>1 DEF ExpireClick, ClickDue
<1>2. CASE ~ ClickDue(detector, active)
  <2>1. g = detector
    BY <1>2 DEF ExpireClick
  <2>2. ASSUME g.pendingClick # None, active, g.candidate
        PROVE  Elapsed(g.candidateSince, g.pendingClick) <= DoubleClick
    <3>1. CASE Elapsed(now, g.pendingClick) <= DoubleClick
      BY <2>1, <2>2, <3>1 DEF Elapsed
    <3>2. CASE Elapsed(now, g.pendingClick) > DoubleClick
      BY <1>2, <2>1, <2>2, <3>2 DEF ClickDue, SecondPressStarting
    <3>3. Elapsed(now, g.pendingClick) \in Nat
      BY <2>1, <2>2 DEF Elapsed
    <3> QED BY <3>1, <3>2, <3>3
  <2> QED BY <1>2, <2>1, <2>2
<1> QED BY <1>1, <1>2

\* One sample keeps the accounts: what it takes from Open it adds to a gesture.
LEMMA GestureStep == GestureInv /\ [Next]_vars => GestureInv'
<1> SUFFICES ASSUME GestureInv, [Next]_vars PROVE GestureInv'
  OBVIOUS
<1>1. CASE UNCHANGED vars
  BY <1>1 DEF vars, GestureInv, TypeOK, ClickInv, EveryPressOneGesture, Open
<1>2. ASSUME NEW active \in BOOLEAN, Sample(active) PROVE GestureInv'
  <2> DEFINE g1 == ExpireClick(detector, active)
             g2 == Debounced(g1, active)
             due == ClickDue(detector, active)
             long == LongPressDue(g2)
             released == g1.stable /\ ~ g2.stable
             double == released /\ ~ g1.longEmitted /\ g1.secondClick
             pressed == ~ g1.stable /\ g2.stable
             short == released /\ ~ g1.longEmitted /\ ~ g1.secondClick
  <2>1. /\ now' = IF now < MaxNow THEN now + 1 ELSE now
        /\ detector' = Held(g2)
        /\ count' = [presses   |-> count.presses + One(pressed),
                     clicks    |-> count.clicks + One(due),
                     doubles   |-> count.doubles + One(double),
                     longs     |-> count.longs + One(long),
                     swallowed |-> count.swallowed + One(long /\ g2.secondClick)]
        /\ lastShort' = IF short THEN now ELSE IF released THEN None ELSE lastShort
    BY <1>2 DEF Sample
  <2>2. /\ g1 \in Detector
        /\ g1 = [detector EXCEPT !.pendingClick = g1.pendingClick,
                                 !.secondClick = g1.secondClick]
        /\ due => g1.pendingClick = None /\ g1.secondClick = FALSE
                  /\ detector.pendingClick # None
        /\ ~ due => g1 = detector
        /\ (g1.pendingClick # None /\ active /\ g1.candidate) =>
              Elapsed(g1.candidateSince, g1.pendingClick) <= DoubleClick
    BY ExpireClickLemma
  <2> HIDE DEF g1, due
  \* The four things debouncing can do.
  <2>3. \/ g2 = [g1 EXCEPT !.candidate = active, !.candidateSince = now] /\ ~ pressed /\ ~ released
        \/ g2 = g1 /\ ~ pressed /\ ~ released
        \/ g2 = Pressed(g1) /\ ~ g1.stable /\ active /\ g1.candidate
        \/ g2 = Released(g1) /\ g1.stable
    BY <2>2 DEF Debounced, Settles, Detector
  <2> HIDE DEF g2
  <2> USE GestureAssumption
  <2>4. g2 \in Detector
    <3> USE DEF Detector, GestureInv, TypeOK
    <3>1. CASE g2 = [g1 EXCEPT !.candidate = active, !.candidateSince = now]
      BY <2>2, <3>1
    <3>2. CASE g2 = Pressed(g1)
      <4>1. \A b \in BOOLEAN :
              [g1 EXCEPT !.stable = TRUE, !.pressedSince = now, !.longEmitted = FALSE,
                         !.secondClick = b,
                         !.pendingClick = IF b THEN None ELSE @] \in Detector
        BY <2>2
      <4> QED BY <2>2, <3>2, <4>1 DEF Pressed
    <3>3. CASE g2 = Released(g1)
      BY <2>2, <3>3 DEF Released
    <3> QED BY <2>2, <2>3, <3>1, <3>2, <3>3
  <2>5. detector' \in Detector
    BY <2>1, <2>4 DEF Held, Detector
  <2>6. TypeOK'
    <3>1. count' \in Count
      BY <2>1, OneNat DEF GestureInv, TypeOK, Count, One
    <3> QED BY <2>1, <2>5, <3>1 DEF GestureInv, TypeOK
  \* Pending click and second press of the three stages of one sample.
  <2>7. /\ g1.pendingClick # None => ~ g1.stable /\ ~ g1.secondClick /\ g1.pendingClick <= now
        /\ g1.secondClick => g1.stable
        /\ g1.candidateSince <= now
    BY <2>2 DEF GestureInv, TypeOK, ClickInv, Detector
  <2>8. /\ g2.pendingClick # None => ~ g2.stable /\ ~ g2.secondClick /\ g2.pendingClick <= now
        /\ g2.secondClick => g2.stable
        /\ g2.candidateSince <= now
    <3> USE DEF Detector, GestureInv, TypeOK
    <3>1. CASE g2 = [g1 EXCEPT !.candidate = active, !.candidateSince = now]
      BY <2>2, <2>7, <3>1
    <3>2. CASE g2 = Pressed(g1) /\ active /\ g1.candidate
      BY <2>2, <2>7, <3>2 DEF Pressed
    <3>3. CASE g2 = Released(g1) /\ g1.stable
      BY <2>2, <2>7, <3>3 DEF Released
    <3> QED BY <2>2, <2>3, <2>7, <3>1, <3>2, <3>3
  <2>9. ClickInv'
    <3>1. now' >= now /\ now \in Nat /\ now' \in Nat
      BY <2>1 DEF GestureInv, TypeOK
    <3> QED BY <2>1, <2>4, <2>8, <3>1 DEF ClickInv, Held, Detector
  <2>10. EveryPressOneGesture'
    <3> DEFINE P(g) == One(g.pendingClick # None)
               W(g) == One(g.stable /\ ~ g.longEmitted)
               V(g) == One(g.stable /\ ~ g.longEmitted /\ g.secondClick)
    <3>1. P(detector) = P(g1) + One(due) /\ W(detector) = W(g1) /\ V(detector) = V(g1)
      <4>1. CASE due
        <5>1. ~ detector.stable /\ ~ g1.stable /\ detector.pendingClick # None
                /\ g1.pendingClick = None
          BY <2>2, <4>1 DEF GestureInv, TypeOK, ClickInv, Detector
        <5> QED BY <4>1, <5>1 DEF One
      <4>2. CASE ~ due
        BY <2>2, <4>2 DEF One, GestureInv, TypeOK
      <4> QED BY <4>1, <4>2
    <3>2. P(g1) + W(g1) + V(g1) + One(pressed) = P(g2) + W(g2) + V(g2) + 2 * One(double)
      <4> USE DEF Detector
      <4>1. CASE g2 = [g1 EXCEPT !.candidate = active, !.candidateSince = now]
        BY <2>2, <4>1 DEF One
      <4>2. CASE g2 = Pressed(g1) /\ ~ g1.stable /\ active /\ g1.candidate
        BY <2>2, <2>7, <4>2 DEF Pressed, One, GestureInv, TypeOK
      <4>3. CASE g2 = Released(g1) /\ g1.stable
        BY <2>2, <2>7, <4>3 DEF Released, One, GestureInv, TypeOK
      <4>4. CASE g2 = g1
        BY <2>2, <4>4 DEF One
      <4> QED BY <2>3, <4>1, <4>2, <4>3, <4>4
    <3>3. P(g2) + W(g2) + V(g2) = Open' + One(long) + One(long /\ g2.secondClick)
      BY <2>1, <2>4, <2>8 DEF Open, Held, LongPressDue, One, Detector
    <3>4. count.presses = count.clicks + 2 * count.doubles + count.longs + count.swallowed
                            + P(detector) + W(detector) + V(detector)
      <4>1. Open = P(detector) + W(detector) + V(detector)
        BY DEF Open, One
      <4> QED BY <4>1 DEF GestureInv, EveryPressOneGesture, TypeOK, Count, One
    <3>5. /\ count'.presses = count.presses + One(pressed)
          /\ count'.clicks = count.clicks + One(due)
          /\ count'.doubles = count.doubles + One(double)
          /\ count'.longs = count.longs + One(long)
          /\ count'.swallowed = count.swallowed + One(long /\ g2.secondClick)
      BY <2>1
    <3>6. Open' \in Int
      BY DEF Open, One
    <3> QED
      <4> DEFINE A0 == P(detector) + W(detector) + V(detector)
                 A1 == P(g1) + W(g1) + V(g1)
                 A2 == P(g2) + W(g2) + V(g2)
                 np == One(pressed)
                 nc == One(due)
                 nd == One(double)
                 nl == One(long)
                 ns == One(long /\ g2.secondClick)
                 O  == Open'
      <4>1. A0 \in Int /\ A1 \in Int /\ A2 \in Int /\ O \in Int
        BY <3>6 DEF One
      <4>2. np \in Int /\ nc \in Int /\ nd \in Int /\ nl \in Int /\ ns \in Int
        BY DEF One
      <4>3. /\ count.presses \in Int /\ count.clicks \in Int /\ count.doubles \in Int
            /\ count.longs \in Int /\ count.swallowed \in Int
        BY DEF GestureInv, TypeOK, Count
      <4>4. A0 = A1 + nc
        BY <3>1 DEF One
      <4>5. A1 + np = A2 + 2 * nd
        BY <3>2
      <4>6. A2 = O + nl + ns
        BY <3>3
      <4>7. count.presses = count.clicks + 2 * count.doubles + count.longs + count.swallowed + A0
        BY <3>4, <4>1, <4>3 DEF One
      <4> HIDE DEF A0, A1, A2, np, nc, nd, nl, ns, O
      <4>8. count.presses + np =
              (count.clicks + nc) + 2 * (count.doubles + nd) + (count.longs + nl)
                + (count.swallowed + ns) + O
        <5> DEFINE B == count.clicks + 2 * count.doubles + count.longs + count.swallowed
                   D == 2 * nd
        <5>1. B \in Int /\ D \in Int
          BY <4>2, <4>3
        <5>2. (count.clicks + nc) + 2 * (count.doubles + nd) + (count.longs + nl)
                + (count.swallowed + ns) + O = B + nc + D + nl + ns + O
          BY <4>1, <4>2, <4>3
        <5>3. count.presses = B + A0 /\ A1 + np = A2 + D
          BY <4>5, <4>7
        <5> HIDE DEF B, D
        <5>4. count.presses + np = B + nc + (A1 + np)
          BY <4>1, <4>2, <4>4, <5>1, <5>3
        <5>5. count.presses + np = B + nc + (A2 + D)
          BY <5>3, <5>4
        <5>6. B + nc + (A2 + D) = B + nc + D + nl + ns + O
          BY <4>1, <4>2, <4>6, <5>1
        <5> QED BY <5>2, <5>5, <5>6
      <4> QED BY <3>5, <4>8 DEF EveryPressOneGesture, np, nc, nd, nl, ns, O
  <2> QED BY <2>6, <2>9, <2>10 DEF GestureInv
<1> QED BY <1>1, <1>2 DEF Next

\* The inductive invariant of a detector.
THEOREM GestureInvariant == Spec => []GestureInv
BY GestureInvInit, GestureStep, PTL DEF Spec

\* Every press ends in exactly one gesture, for every debounce time, interval and
\* threshold and whatever the contact does: no press is reported as a click and
\* again as a double click or a long press, and the only one not reported is the
\* first of a pair whose second is held.
THEOREM EveryPressOneGestureCorrect == Spec => []EveryPressOneGesture
<1>1. GestureInv => EveryPressOneGesture
  BY DEF GestureInv
<1> QED BY GestureInvariant, <1>1, PTL

------------------------------------------------------------------------------
(* The double-click window *)

\* While the input is released after a short press, either its click is still
\* pending or the interval is over, and then a press that is being debounced
\* began after it.
WindowInv ==
  /\ lastShort # None => lastShort <= now
  /\ detector.pendingClick # None => lastShort = detector.pendingClick
  /\ (lastShort # None /\ detector.pendingClick = None /\ ~ detector.stable) =>
       /\ now > lastShort + DoubleClick
       /\ detector.candidate => detector.candidateSince > lastShort + DoubleClick

\* What one sample does, once the click has expired or not.
LEMMA SampleWindow ==
  ASSUME GestureInv, WindowInv, NEW active \in BOOLEAN, Sample(active)
  PROVE  /\ WindowInv'
         /\ (~ detector.stable /\ detector'.stable /\ lastShort # None
               /\ detector.candidateSince - lastShort <= DoubleClick) => detector'.secondClick
<1> DEFINE g1 == ExpireClick(detector, active)
           g2 == Debounced(g1, active)
           due == ClickDue(detector, active)
           released == g1.stable /\ ~ g2.stable
           short == released /\ ~ g1.longEmitted /\ ~ g1.secondClick
<1>1. /\ now' = IF now < MaxNow THEN now + 1 ELSE now
      /\ detector' = Held(g2)
      /\ lastShort' = IF short THEN now ELSE IF released THEN None ELSE lastShort
  BY DEF Sample
<1>2. /\ now \in Nat /\ now' \in Nat /\ now' >= now
      /\ detector \in Detector /\ lastShort \in Nat \cup {None}
  BY <1>1 DEF GestureInv, TypeOK
<1>3. /\ g1 \in Detector
      /\ g1.stable = detector.stable /\ g1.candidate = detector.candidate
      /\ g1.candidateSince = detector.candidateSince
      /\ due => g1.pendingClick = None
      /\ ~ due => g1 = detector
  <2>1. CASE due
    <3>1. g1 = [detector EXCEPT !.pendingClick = None, !.secondClick = FALSE]
      BY <2>1 DEF ExpireClick
    <3> HIDE DEF g1
    <3> QED BY <1>2, <2>1, <3>1 DEF Detector
  <2>2. CASE ~ due
    <3>1. g1 = detector
      BY <2>2 DEF ExpireClick
    <3> QED BY <1>2, <2>2, <3>1
  <2> QED BY <2>1, <2>2
\* The window invariant, for the moment between the two halves of update().
<1>4. /\ g1.pendingClick # None => lastShort = g1.pendingClick
      /\ (lastShort # None /\ g1.pendingClick = None /\ ~ g1.stable) =>
           /\ now > lastShort + DoubleClick
           /\ active /\ g1.candidate => g1.candidateSince > lastShort + DoubleClick
  <2>1. CASE due
    <3>1. /\ detector.pendingClick # None /\ lastShort = detector.pendingClick
          /\ detector.pendingClick \in Nat
          /\ Elapsed(now, lastShort) > DoubleClick
          /\ ~ detector.stable
      BY <1>2, <2>1 DEF ClickDue, WindowInv, GestureInv, ClickInv, Detector
    <3>2. now > lastShort + DoubleClick
      BY <1>2, <3>1, GestureAssumption DEF Elapsed
    <3>3. active /\ detector.candidate => Elapsed(detector.candidateSince, lastShort) > DoubleClick
      <4>1. Elapsed(detector.candidateSince, lastShort) \in Nat
        BY <1>2, <3>1, ElapsedNat DEF Detector
      <4> QED BY <2>1, <3>1, <4>1, GestureAssumption DEF ClickDue, SecondPressStarting
    <3>4. active /\ detector.candidate => detector.candidateSince > lastShort + DoubleClick
      BY <1>2, <3>1, <3>3, GestureAssumption DEF Elapsed, Detector
    <3> QED BY <1>3, <2>1, <3>2, <3>4
  <2>2. CASE ~ due
    BY <1>3, <2>2 DEF WindowInv
  <2> QED BY <2>1, <2>2
<1> HIDE DEF g1, due
<1>5. \/ g2 = [g1 EXCEPT !.candidate = active, !.candidateSince = now] /\ active # g1.candidate
      \/ g2 = g1 /\ active = g1.candidate
      \/ g2 = Pressed(g1) /\ ~ g1.stable /\ active /\ g1.candidate
      \/ g2 = Released(g1) /\ g1.stable
  BY <1>3 DEF Debounced, Settles, Detector
<1> HIDE DEF g2
<1> USE GestureAssumption DEF Detector
<1>6. CASE g2 = [g1 EXCEPT !.candidate = active, !.candidateSince = now] /\ active # g1.candidate
  <2>1. /\ g2.stable = g1.stable /\ g2.pendingClick = g1.pendingClick
        /\ g2.candidate = active /\ g2.candidateSince = now
        /\ lastShort' = lastShort
    BY <1>1, <1>3, <1>6
  <2>2. /\ detector'.stable = g2.stable /\ detector'.pendingClick = g2.pendingClick
        /\ detector'.candidate = g2.candidate /\ detector'.candidateSince = g2.candidateSince
    BY <1>1, <1>3, <1>6 DEF Held
  <2> QED BY <1>2, <1>3, <1>4, <2>1, <2>2 DEF WindowInv
<1>7. CASE g2 = g1 /\ active = g1.candidate
  <2>1. /\ detector'.stable = g1.stable /\ detector'.pendingClick = g1.pendingClick
        /\ detector'.candidate = g1.candidate /\ detector'.candidateSince = g1.candidateSince
        /\ lastShort' = lastShort
    BY <1>1, <1>3, <1>7 DEF Held
  <2> QED BY <1>2, <1>3, <1>4, <1>7, <2>1 DEF WindowInv
<1>8. CASE g2 = Pressed(g1) /\ ~ g1.stable /\ active /\ g1.candidate
  <2> DEFINE second == /\ g1.pendingClick # None
                       /\ Elapsed(g1.candidateSince, g1.pendingClick) <= DoubleClick
  <2>1. /\ g2.stable /\ g2.secondClick = second
        /\ g2.pendingClick = IF second THEN None ELSE g1.pendingClick
        /\ lastShort' = lastShort
    BY <1>1, <1>3, <1>8 DEF Pressed
  <2>2. /\ detector'.stable /\ detector'.pendingClick = g2.pendingClick
        /\ detector'.secondClick = g2.secondClick
    BY <1>1, <1>3, <1>8, <2>1 DEF Held, Pressed
  <2>3. (lastShort # None /\ detector.candidateSince - lastShort <= DoubleClick) => second
    BY <1>2, <1>3, <1>4, <1>8 DEF Elapsed
  <2> QED BY <1>2, <1>4, <2>1, <2>2, <2>3 DEF WindowInv
<1>9. CASE g2 = Released(g1) /\ g1.stable
  <2>1. /\ ~ g2.stable
        /\ g2.pendingClick = IF g1.longEmitted THEN g1.pendingClick
                             ELSE IF g1.secondClick THEN None ELSE now
    BY <1>3, <1>9 DEF Released
  <2>2. ~ detector'.stable /\ detector'.pendingClick = g2.pendingClick
    BY <1>1, <1>3, <1>9, <2>1 DEF Held, Released
  <2>3. g1.pendingClick = None
    BY <1>3, <1>9 DEF GestureInv, ClickInv
  <2> QED BY <1>1, <1>2, <1>9, <2>1, <2>2, <2>3 DEF WindowInv
<1> QED BY <1>5, <1>6, <1>7, <1>8, <1>9

\* A press whose contact last bounced within the interval after a short one is its second
\* click, for every interval and debounce time and every sequence of bounces.
THEOREM SecondPressInWindowCorrect == Spec => SecondPressInWindow
<1>1. Init => WindowInv
  BY GestureAssumption DEF Init, Initialized, WindowInv
<1>2. GestureInv /\ WindowInv /\ [Next]_vars => WindowInv'
  <2>1. ASSUME GestureInv, WindowInv, NEW active \in BOOLEAN, Sample(active) PROVE WindowInv'
    BY <2>1, SampleWindow
  <2>2. WindowInv /\ UNCHANGED vars => WindowInv'
    BY DEF WindowInv, vars
  <2> QED BY <2>1, <2>2 DEF Next
<1>3. GestureInv /\ WindowInv /\ [Next]_vars =>
        [(~ detector.stable /\ detector'.stable /\ lastShort # None
            /\ detector.candidateSince - lastShort <= DoubleClick)
           => detector'.secondClick]_vars
  <2>1. ASSUME GestureInv, WindowInv, NEW active \in BOOLEAN, Sample(active),
               ~ detector.stable, detector'.stable, lastShort # None,
               detector.candidateSince - lastShort <= DoubleClick
        PROVE  detector'.secondClick
    BY <2>1, SampleWindow
  <2> QED BY <2>1 DEF Next
<1> QED BY <1>1, <1>2, <1>3, GestureInvariant, PTL DEF Spec, SecondPressInWindow

------------------------------------------------------------------------------
(* The deadline of a click *)

\* After a sample a click that is still pending is one whose interval is not over, or
\* one that a press of less than the debounce time may yet claim.
LEMMA SamplePrompt ==
  ASSUME GestureInv, NEW active \in BOOLEAN, Sample(active)
  PROVE  ClickIsPrompt'
<1> DEFINE g1 == ExpireClick(detector, active)
           g2 == Debounced(g1, active)
           due == ClickDue(detector, active)
           limit == DoubleClick + Longer(DebounceTime, 1)
<1>1. /\ now' = IF now < MaxNow THEN now + 1 ELSE now
      /\ detector' = Held(g2)
  BY DEF Sample
<1>2. /\ now \in Nat /\ now' \in Nat /\ now' <= now + 1 /\ detector \in Detector
      /\ limit \in Nat /\ limit >= DoubleClick + 1 /\ limit >= DoubleClick + DebounceTime
  BY <1>1, GestureAssumption DEF GestureInv, TypeOK, Longer
<1>3. /\ g1 \in Detector
      /\ due => g1.pendingClick = None
      /\ ~ due => g1 = detector
      /\ (g1.pendingClick # None /\ active /\ g1.candidate) =>
            Elapsed(g1.candidateSince, g1.pendingClick) <= DoubleClick
      /\ g1.pendingClick # None => ~ g1.stable /\ g1.pendingClick <= now
      /\ g1.candidateSince <= now
  <2>1. /\ g1 \in Detector
        /\ g1 = [detector EXCEPT !.pendingClick = g1.pendingClick, !.secondClick = g1.secondClick]
        /\ due => g1.pendingClick = None
        /\ ~ due => g1 = detector
        /\ (g1.pendingClick # None /\ active /\ g1.candidate) =>
              Elapsed(g1.candidateSince, g1.pendingClick) <= DoubleClick
    BY ExpireClickLemma
  <2> HIDE DEF g1, due
  <2> QED BY <1>2, <2>1 DEF GestureInv, ClickInv, Detector
\* A click that survived the first part of update().
<1>4. g1.pendingClick # None =>
        \/ now - g1.pendingClick <= DoubleClick
        \/ /\ active /\ g1.candidate /\ ~ g1.stable
           /\ g1.candidateSince - g1.pendingClick <= DoubleClick
  <2> SUFFICES ASSUME g1.pendingClick # None, now - g1.pendingClick > DoubleClick
               PROVE  /\ active /\ g1.candidate /\ ~ g1.stable
                      /\ g1.candidateSince - g1.pendingClick <= DoubleClick
    BY <1>2, <1>3, GestureAssumption DEF Detector
  <2>1. ~ due /\ g1 = detector
    BY <1>3
  <2> HIDE DEF g1
  <2>2. g1.pendingClick \in Nat /\ g1.candidateSince \in Nat
    BY <1>3 DEF Detector
  <2>3. Elapsed(now, detector.pendingClick) > DoubleClick
    BY <1>2, <1>3, <2>1, <2>2, GestureAssumption DEF Elapsed
  <2>4. SecondPressStarting(detector, active)
    BY <2>1, <2>3 DEF ClickDue
  <2>5. Elapsed(g1.candidateSince, g1.pendingClick) <= DoubleClick
    BY <2>1, <2>4 DEF SecondPressStarting
  <2> QED BY <2>1, <2>2, <2>4, <2>5, GestureAssumption DEF SecondPressStarting, Elapsed
<1>5. \/ g2 = [g1 EXCEPT !.candidate = active, !.candidateSince = now] /\ active # g1.candidate
      \/ g2 = g1 /\ active = g1.candidate /\ ~ Settles(g1)
      \/ g2 = Pressed(g1) /\ ~ g1.stable /\ active /\ g1.candidate
      \/ g2 = Released(g1) /\ g1.stable
  <2> HIDE DEF g1
  <2> QED BY <1>3 DEF Debounced, Settles, Detector
<1> HIDE DEF g1, g2, due, limit
<1> USE GestureAssumption DEF Detector
<1>6. CASE g2 = [g1 EXCEPT !.candidate = active, !.candidateSince = now] /\ active # g1.candidate
  <2>1. detector'.pendingClick = g1.pendingClick
    BY <1>1, <1>3, <1>6 DEF Held
  <2> QED BY <1>2, <1>3, <1>4, <1>6, <2>1 DEF ClickIsPrompt, limit, Longer
<1>7. CASE g2 = g1 /\ active = g1.candidate /\ ~ Settles(g1)
  <2>1. detector'.pendingClick = g1.pendingClick
    BY <1>1, <1>3, <1>7 DEF Held
  <2>2. active /\ g1.candidate /\ ~ g1.stable => now - g1.candidateSince < DebounceTime
    <3> SUFFICES ASSUME active, g1.candidate, ~ g1.stable
                 PROVE  now - g1.candidateSince < DebounceTime
      OBVIOUS
    <3>1. g1.candidate # g1.stable
      BY Zenon
    <3>2. ~ (Elapsed(now, g1.candidateSince) >= DebounceTime)
      BY <1>7, <3>1 DEF Settles
    <3> QED BY <1>2, <1>3, <3>2 DEF Elapsed
  <2> QED BY <1>2, <1>3, <1>4, <2>1, <2>2 DEF ClickIsPrompt, limit, Longer
<1>8. CASE g2 = Pressed(g1) /\ ~ g1.stable /\ active /\ g1.candidate
  <2>1. g2.pendingClick = None
    BY <1>3, <1>8 DEF Pressed
  <2>2. detector'.pendingClick = g2.pendingClick
    BY <1>1, <1>3, <1>8, <2>1 DEF Held, Pressed
  <2> QED BY <2>1, <2>2 DEF ClickIsPrompt
<1>9. CASE g2 = Released(g1) /\ g1.stable
  <2>1. g1.pendingClick = None
    BY <1>3, <1>9
  <2>2. g2.pendingClick \in {None, now}
    BY <1>3, <1>9, <2>1 DEF Released
  <2>3. detector'.pendingClick = g2.pendingClick
    BY <1>1, <1>3, <1>9 DEF Held, Released
  <2> QED BY <1>2, <2>2, <2>3 DEF ClickIsPrompt, limit, Longer
<1> QED BY <1>5, <1>6, <1>7, <1>8, <1>9

\* A pending click is reported, or taken for the first of two, one interval and one
\* debounce time after the release at the latest, whatever the contact does.
THEOREM ClickIsPromptCorrect == Spec => []ClickIsPrompt
<1>1. Init => ClickIsPrompt
  BY GestureAssumption DEF Init, Initialized, ClickIsPrompt
<1>2. GestureInv /\ ClickIsPrompt /\ [Next]_vars => ClickIsPrompt'
  <2>1. ASSUME GestureInv, NEW active \in BOOLEAN, Sample(active) PROVE ClickIsPrompt'
    BY <2>1, SamplePrompt
  <2>2. ClickIsPrompt /\ UNCHANGED vars => ClickIsPrompt'
    BY DEF ClickIsPrompt, vars, Longer
  <2> QED BY <2>1, <2>2 DEF Next
<1> QED BY <1>1, <1>2, GestureInvariant, PTL DEF Spec

\* The types hold in every reachable state.
THEOREM GestureTypeCorrect == Spec => []TypeOK
<1>1. GestureInv => TypeOK
  BY DEF GestureInv
<1> QED BY GestureInvariant, <1>1, PTL
=============================================================================
