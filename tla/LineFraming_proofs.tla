------------------------- MODULE LineFraming_proofs -------------------------
(***************************************************************************)
(* Theorems about LineFraming, for every stream, every way of cutting it    *)
(* into packets, and every limit, queue and packet size.                    *)
(*                                                                         *)
(* What a decoder has read grows byte by byte, so the proofs are by         *)
(* induction on numbers.  The induction theorem of the library takes a      *)
(* predicate; NatInductionSet says the same of a set, and a predicate is    *)
(* used through the set of the numbers that satisfy it.                     *)
(***************************************************************************)
EXTENDS LineFraming, FiniteSetTheorems, SequenceTheorems, WellFoundedInduction, TLAPS

------------------------------------------------------------------------------
(* Induction, maxima and folds *)

\* A set of numbers that is not empty has a least one.
LEMMA LeastOf ==
  ASSUME NEW T, T \subseteq Nat, T # {}
  PROVE  \E n \in T : \A k \in T : n <= k
<1>1. IsWellFoundedOn(OpToRel(<, Nat), Nat)
  BY NatLessThanWellFounded, Zenon
<1>2. PICK x \in T : \A y \in T : ~ (<<y, x>> \in OpToRel(<, Nat))
  BY <1>1, WFMin, Zenon
<1>3. \A y \in T : y \in Nat /\ x \in Nat /\ ~ (y < x)
  BY <1>2 DEF OpToRel
<1> QED BY <1>3

\* A set that has 0, and n + 1 with every n below the bound, has every number
\* up to the bound.
LEMMA NatInductionSet ==
  ASSUME NEW m \in Nat, NEW S, 0 \in S, \A n \in 0..(m - 1) : n \in S => n + 1 \in S
  PROVE  0..m \subseteq S
<1> SUFFICES ASSUME ~ (0..m \subseteq S) PROVE FALSE
  OBVIOUS
<1> DEFINE T == {n \in 0..m : n \notin S}
<1>1. PICK x \in T : \A k \in T : x <= k
  <2>1. T \subseteq Nat /\ T # {}
    OBVIOUS
  <2> QED BY <2>1, LeastOf
<1>2. x # 0 /\ x \in 1..m
  OBVIOUS
<1>3. x - 1 \in 0..(m - 1) /\ x - 1 \notin T
  BY <1>1, <1>2
<1>4. x - 1 \in S
  BY <1>3
<1>5. (x - 1) + 1 \in S
  BY <1>3, <1>4
<1> QED BY <1>2, <1>5

\* The greatest element of a finite set of numbers.
LEMMA MaxIs ==
  ASSUME NEW S, S \subseteq Nat, NEW m \in S, \A i \in S : i <= m
  PROVE  Max(S) = m
<1>1. \E x \in S : \A y \in S : x >= y
  OBVIOUS
<1>2. Max(S) \in S /\ \A y \in S : Max(S) >= y
  BY <1>1 DEF Max
<1>3. Max(S) >= m /\ Max(S) <= m
  BY <1>2
<1>4. Max(S) \in Nat /\ m \in Nat
  BY <1>2
<1> QED BY <1>3, <1>4

\* A set of numbers up to n has a greatest element, which Max finds.
LEMMA MaxUpTo ==
  ASSUME NEW S, NEW n \in Nat, S \subseteq 0..n, S # {}
  PROVE  /\ Max(S) \in S
         /\ \A i \in S : i <= Max(S)
<1> DEFINE T == {k \in 0..n : n - k \in S}
<1>1. T \subseteq Nat /\ T # {}
  <2>1. PICK i \in S : i \in 0..n
    OBVIOUS
  <2>2. n - i \in 0..n /\ n - (n - i) = i
    BY <2>1
  <2>3. n - i \in T
    BY <2>1, <2>2
  <2>4. T \subseteq Nat
    OBVIOUS
  <2> QED BY <2>3, <2>4
<1>2. PICK x \in T : \A k \in T : x <= k
  <2> HIDE DEF T
  <2> QED BY <1>1, LeastOf
<1>3. n - x \in S
  OBVIOUS
<1>4. \A i \in S : i <= n - x
  <2> TAKE i \in S
  <2>1. n - i \in 0..n /\ n - (n - i) = i
    OBVIOUS
  <2>2. x <= n - i
    BY <1>2, <2>1
  <2> QED BY <2>2
<1>5. Max(S) = n - x
  <2>1. S \subseteq Nat
    OBVIOUS
  <2> QED BY <2>1, <1>3, <1>4, MaxIs
<1> QED BY <1>3, <1>4, <1>5

\* g solves the recursion a fold over 1..n is defined by.
Folds(g, n, base, step) ==
  \A s \in SUBSET (1..n) :
    g[s] = IF s = {} THEN base ELSE step[<<g[s \ {Max(s)}], Max(s)>>]

\* The recursion has a solution.
LEMMA FoldExists ==
  ASSUME NEW n \in Nat, NEW D, NEW base \in D, NEW step \in [D \X (1..n) -> D]
  PROVE  \E g \in [SUBSET (1..n) -> D] : Folds(g, n, base, step)
<1> DEFINE
  Solves(g, m) == Folds(g, m, base, step)
  Solvable == {m \in 0..n : \E g \in [SUBSET (1..m) -> D] : Solves(g, m)}
<1>1. 0 \in Solvable
  <2>1. 1..0 = {} /\ SUBSET (1..0) = {{}}
    OBVIOUS
  <2>2. [s \in {{}} |-> base] \in [SUBSET (1..0) -> D]
    BY <2>1
  <2>3. Solves([s \in {{}} |-> base], 0)
    BY <2>1 DEF Folds
  <2>4. \E g \in [SUBSET (1..0) -> D] : Solves(g, 0)
    <3> HIDE DEF Solves
    <3> QED BY <2>2, <2>3
  <2>5. 0 \in 0..n
    OBVIOUS
  <2> HIDE DEF Solves
  <2> QED BY <2>4, <2>5
<1>2. \A m \in 0..(n - 1) : m \in Solvable => m + 1 \in Solvable
  <2> TAKE m \in 0..(n - 1)
  <2> HAVE m \in Solvable
  <2>1. PICK g \in [SUBSET (1..m) -> D] : Solves(g, m)
    OBVIOUS
  <2> DEFINE h == [s \in SUBSET (1..(m + 1)) |->
                     IF m + 1 \in s THEN step[<<g[s \ {m + 1}], m + 1>>] ELSE g[s]]
  <2>2. ASSUME NEW s \in SUBSET (1..(m + 1))
        PROVE  /\ m + 1 \in s => s \ {m + 1} \in SUBSET (1..m)
               /\ m + 1 \notin s => s \in SUBSET (1..m)
    OBVIOUS
  <2>3. h \in [SUBSET (1..(m + 1)) -> D]
    <3>1. ASSUME NEW s \in SUBSET (1..(m + 1)) PROVE h[s] \in D
      <4>1. CASE m + 1 \in s
        <5>1. g[s \ {m + 1}] \in D
          BY <2>2, <4>1
        <5>2. <<g[s \ {m + 1}], m + 1>> \in D \X (1..n)
          BY <5>1
        <5> QED BY <4>1, <5>2
      <4>2. CASE m + 1 \notin s
        BY <2>2, <4>2
      <4> QED BY <4>1, <4>2
    <3> QED BY <3>1
  <2>4. ASSUME NEW s \in SUBSET (1..(m + 1))
        PROVE  h[s] = IF s = {} THEN base ELSE step[<<h[s \ {Max(s)}], Max(s)>>]
    <3>1. CASE m + 1 \in s
      <4>1. Max(s) = m + 1
        <5>1. s \subseteq Nat /\ \A i \in s : i <= m + 1
          OBVIOUS
        <5> QED BY <3>1, <5>1, MaxIs
      <4>2. s \ {m + 1} \in SUBSET (1..(m + 1)) /\ m + 1 \notin s \ {m + 1}
        OBVIOUS
      <4>3. h[s \ {m + 1}] = g[s \ {m + 1}]
        BY <4>2
      <4> QED BY <3>1, <4>1, <4>3
    <3>2. CASE m + 1 \notin s
      <4>1. s \in SUBSET (1..m) /\ h[s] = g[s]
        BY <2>2, <3>2
      <4>2. s \ {Max(s)} \in SUBSET (1..(m + 1)) /\ m + 1 \notin s \ {Max(s)}
        BY <3>2
      <4>3. h[s \ {Max(s)}] = g[s \ {Max(s)}]
        BY <4>2
      <4> QED BY <2>1, <4>1, <4>3 DEF Folds
    <3> QED BY <3>1, <3>2
  <2>5. m + 1 \in 0..n
    OBVIOUS
  <2> HIDE DEF h
  <2>6. Solves(h, m + 1)
    BY <2>4 DEF Folds
  <2> QED BY <2>3, <2>5, <2>6
<1>3. n \in Solvable
  <2> HIDE DEF Solvable
  <2> QED BY <1>1, <1>2, NatInductionSet
<1>4. PICK g \in [SUBSET (1..n) -> D] : Solves(g, n)
  BY <1>3
<1> QED BY <1>4

\* it[s] is known when it[s without its maximum] is in D.
Recurs(it, n, D, base, step) ==
  /\ it[{}] = base
  /\ \A s \in SUBSET (1..n) :
       s # {} /\ it[s \ {Max(s)}] \in D => it[s] = step[<<it[s \ {Max(s)}], Max(s)>>]

\* The values of f follow one another, and the last is what it has for 1..n.
Follows(f, n, base, step, it) ==
  /\ f[0] = base /\ f[n] = it[1..n]
  /\ \A k \in 0..(n - 1) : f[k + 1] = step[<<f[k], k + 1>>]

\* A fold over 1..n goes through its prefixes.
LEMMA FoldFollows ==
  ASSUME NEW n \in Nat, NEW D, NEW base \in D, NEW step \in [D \X (1..n) -> D],
         NEW it, Recurs(it, n, D, base, step)
  PROVE  \E f \in [0..n -> D] : Follows(f, n, base, step, it)
<1>1. it[1..0] = base
  <2>1. 1..0 = {}
    OBVIOUS
  <2> QED BY <2>1 DEF Recurs
<1>2. ASSUME NEW k \in 0..(n - 1), it[1..k] \in D
      PROVE  /\ it[1..(k + 1)] = step[<<it[1..k], k + 1>>]
             /\ it[1..(k + 1)] \in D
  <2>1. 1..(k + 1) \in SUBSET (1..n) /\ 1..(k + 1) # {} /\ k + 1 \in 1..(k + 1)
    <3>1. k \in Nat /\ k + 1 <= n
      OBVIOUS
    <3>2. k + 1 \in 1..(k + 1) /\ \A i \in 1..(k + 1) : i \in 1..n
      BY <3>1
    <3> QED BY <3>2
  <2>2. Max(1..(k + 1)) = k + 1
    <3>1. 1..(k + 1) \subseteq Nat /\ \A i \in 1..(k + 1) : i <= k + 1
      OBVIOUS
    <3> QED BY <2>1, <3>1, MaxIs
  <2>3. (1..(k + 1)) \ {k + 1} = 1..k
    OBVIOUS
  <2>4. it[1..(k + 1)] = step[<<it[1..k], k + 1>>]
    BY <1>2, <2>1, <2>2, <2>3 DEF Recurs
  <2>5. <<it[1..k], k + 1>> \in D \X (1..n)
    BY <1>2
  <2> QED BY <2>4, <2>5
<1>3. \A k \in 0..n : it[1..k] \in D
  <2> DEFINE T == {k \in 0..n : it[1..k] \in D}
  <2>1. 0 \in T
    BY <1>1
  <2>2. ASSUME NEW k \in 0..(n - 1), k \in T PROVE k + 1 \in T
    <3>1. k + 1 \in 0..n
      OBVIOUS
    <3> QED BY <1>2, <2>2, <3>1
  <2>3. 0..n \subseteq T
    <3>1. \A k \in 0..(n - 1) : k \in T => k + 1 \in T
      BY <2>2
    <3> HIDE DEF T
    <3> QED BY <2>1, <3>1, NatInductionSet
  <2> QED BY <2>3
<1> DEFINE f == [k \in 0..n |-> it[1..k]]
<1>4. f \in [0..n -> D] /\ f[0] = base /\ f[n] = it[1..n]
  BY <1>1, <1>3
<1>5. \A k \in 0..(n - 1) : f[k + 1] = step[<<f[k], k + 1>>]
  BY <1>2, <1>3
<1>6. Follows(f, n, base, step, it)
  BY <1>4, <1>5 DEF Follows
<1> HIDE DEF f
<1> QED BY <1>4, <1>6

\* f has the decoder after each byte of p.
HubSteps(f, d, p) ==
  /\ f[0] = d
  /\ \A k \in 0..(Len(p) - 1) : f[k + 1] = HubByte(f[k], p[k + 1])
  /\ HubFeed(d, p) = f[Len(p)]

\* What feed makes of a packet, byte by byte: the hub's decoder,
LEMMA HubFold ==
  ASSUME NEW D, NEW d \in D, NEW p \in Seq(Byte),
         \A x \in D : \A b \in Byte : HubByte(x, b) \in D
  PROVE  \E f \in [0..Len(p) -> D] : HubSteps(f, d, p)
<1> DEFINE
  n == Len(p)
  Def(g) == [s \in SUBSET (1..n) |->
               IF s = {} THEN d ELSE HubByte(g[s \ {Max(s)}], p[Max(s)])]
  it == CHOOSE g : g = Def(g)
  step == [x \in D \X (1..n) |-> HubByte(x[1], p[x[2]])]
<1>1. n \in Nat /\ DOMAIN p = 1..n /\ \A i \in 1..n : p[i] \in Byte
  OBVIOUS
<1>2. step \in [D \X (1..n) -> D]
  BY <1>1
<1>3. ASSUME NEW s \in SUBSET (1..n), s # {} PROVE Max(s) \in 1..n /\ s \ {Max(s)} \in SUBSET (1..n)
  <2>1. s \subseteq 0..n
    BY <1>1
  <2>2. Max(s) \in s
    BY <1>1, <1>3, <2>1, MaxUpTo
  <2> QED BY <2>2
<1>4. \E g : g = Def(g)
  <2>1. PICK g \in [SUBSET (1..n) -> D] : Folds(g, n, d, step)
    <3> HIDE DEF n, step, it, Def
    <3> QED BY <1>1, <1>2, FoldExists
  <2>2. ASSUME NEW s \in SUBSET (1..n), s # {}
        PROVE  <<g[s \ {Max(s)}], Max(s)>> \in D \X (1..n)
    BY <1>3, <2>2
  <2>3. \A s \in SUBSET (1..n) : g[s] = Def(g)[s]
    BY <2>1, <2>2 DEF Folds
  <2>4. g = Def(g)
    BY <2>1, <2>3
  <2> QED BY <2>4
<1>5. it = Def(it)
  BY <1>4
<1>6. HubFeed(d, p) = it[1..n]
  BY <1>1 DEF HubFeed, FoldLeft, MapThenFoldSet
<1> HIDE DEF it
<1>7. Recurs(it, n, D, d, step)
  <2>1. it[{}] = d
    <3>1. {} \in SUBSET (1..n)
      OBVIOUS
    <3> QED BY <1>5, <3>1
  <2>2. ASSUME NEW s \in SUBSET (1..n), s # {}, it[s \ {Max(s)}] \in D
        PROVE  it[s] = step[<<it[s \ {Max(s)}], Max(s)>>]
    <3>1. it[s] = HubByte(it[s \ {Max(s)}], p[Max(s)])
      BY <1>5, <2>2
    <3>2. <<it[s \ {Max(s)}], Max(s)>> \in D \X (1..n)
      BY <1>3, <2>2
    <3> QED BY <3>1, <3>2
  <2> HIDE DEF step, n
  <2> QED BY <2>1, <2>2 DEF Recurs
<1>8. PICK f \in [0..n -> D] : Follows(f, n, d, step, it)
  <2> HIDE DEF n, step
  <2> QED BY <1>1, <1>2, <1>7, FoldFollows
<1>9. \A k \in 0..(n - 1) : f[k + 1] = HubByte(f[k], p[k + 1])
  <2> TAKE k \in 0..(n - 1)
  <2>1. k \in 0..n /\ k + 1 \in 1..n
    <3> HIDE DEF n, step
    <3> QED BY <1>1
  <2>2. <<f[k], k + 1>> \in D \X (1..n)
    BY <2>1
  <2> QED BY <1>8, <2>2 DEF Follows
<1>10. HubSteps(f, d, p)
  BY <1>6, <1>8, <1>9 DEF HubSteps, Follows
<1> QED BY <1>8, <1>10

\* f has the decoder after each byte of p.
ControlSteps(f, d, p) ==
  /\ f[0] = d
  /\ \A k \in 0..(Len(p) - 1) : f[k + 1] = ControlByte(f[k], p[k + 1])
  /\ ControlFeed(d, p) = f[Len(p)]

\* ... the application's,
LEMMA ControlFold ==
  ASSUME NEW D, NEW d \in D, NEW p \in Seq(Byte),
         \A x \in D : \A b \in Byte : ControlByte(x, b) \in D
  PROVE  \E f \in [0..Len(p) -> D] : ControlSteps(f, d, p)
<1> DEFINE
  n == Len(p)
  Def(g) == [s \in SUBSET (1..n) |->
               IF s = {} THEN d ELSE ControlByte(g[s \ {Max(s)}], p[Max(s)])]
  it == CHOOSE g : g = Def(g)
  step == [x \in D \X (1..n) |-> ControlByte(x[1], p[x[2]])]
<1>1. n \in Nat /\ DOMAIN p = 1..n /\ \A i \in 1..n : p[i] \in Byte
  OBVIOUS
<1>2. step \in [D \X (1..n) -> D]
  BY <1>1
<1>3. ASSUME NEW s \in SUBSET (1..n), s # {} PROVE Max(s) \in 1..n /\ s \ {Max(s)} \in SUBSET (1..n)
  <2>1. s \subseteq 0..n
    BY <1>1
  <2>2. Max(s) \in s
    BY <1>1, <1>3, <2>1, MaxUpTo
  <2> QED BY <2>2
<1>4. \E g : g = Def(g)
  <2>1. PICK g \in [SUBSET (1..n) -> D] : Folds(g, n, d, step)
    <3> HIDE DEF n, step, it, Def
    <3> QED BY <1>1, <1>2, FoldExists
  <2>2. ASSUME NEW s \in SUBSET (1..n), s # {}
        PROVE  <<g[s \ {Max(s)}], Max(s)>> \in D \X (1..n)
    BY <1>3, <2>2
  <2>3. \A s \in SUBSET (1..n) : g[s] = Def(g)[s]
    BY <2>1, <2>2 DEF Folds
  <2>4. g = Def(g)
    BY <2>1, <2>3
  <2> QED BY <2>4
<1>5. it = Def(it)
  BY <1>4
<1>6. ControlFeed(d, p) = it[1..n]
  BY <1>1 DEF ControlFeed, FoldLeft, MapThenFoldSet
<1> HIDE DEF it
<1>7. Recurs(it, n, D, d, step)
  <2>1. it[{}] = d
    <3>1. {} \in SUBSET (1..n)
      OBVIOUS
    <3> QED BY <1>5, <3>1
  <2>2. ASSUME NEW s \in SUBSET (1..n), s # {}, it[s \ {Max(s)}] \in D
        PROVE  it[s] = step[<<it[s \ {Max(s)}], Max(s)>>]
    <3>1. it[s] = ControlByte(it[s \ {Max(s)}], p[Max(s)])
      BY <1>5, <2>2
    <3>2. <<it[s \ {Max(s)}], Max(s)>> \in D \X (1..n)
      BY <1>3, <2>2
    <3> QED BY <3>1, <3>2
  <2> HIDE DEF step, n
  <2> QED BY <2>1, <2>2 DEF Recurs
<1>8. PICK f \in [0..n -> D] : Follows(f, n, d, step, it)
  <2> HIDE DEF n, step
  <2> QED BY <1>1, <1>2, <1>7, FoldFollows
<1>9. \A k \in 0..(n - 1) : f[k + 1] = ControlByte(f[k], p[k + 1])
  <2> TAKE k \in 0..(n - 1)
  <2>1. k \in 0..n /\ k + 1 \in 1..n
    <3> HIDE DEF n, step
    <3> QED BY <1>1
  <2>2. <<f[k], k + 1>> \in D \X (1..n)
    BY <2>1
  <2> QED BY <1>8, <2>2 DEF Follows
<1>10. ControlSteps(f, d, p)
  BY <1>6, <1>8, <1>9 DEF ControlSteps, Follows
<1> QED BY <1>8, <1>10

\* f has the decoder after each byte of p.
NodeSteps(f, d, p) ==
  /\ f[0] = d
  /\ \A k \in 0..(Len(p) - 1) : f[k + 1] = NodeByte(f[k], p[k + 1])
  /\ NodeFeed(d, p) = f[Len(p)]

\* ... and the node's.
LEMMA NodeFold ==
  ASSUME NEW D, NEW d \in D, NEW p \in Seq(Byte),
         \A x \in D : \A b \in Byte : NodeByte(x, b) \in D
  PROVE  \E f \in [0..Len(p) -> D] : NodeSteps(f, d, p)
<1> DEFINE
  n == Len(p)
  Def(g) == [s \in SUBSET (1..n) |->
               IF s = {} THEN d ELSE NodeByte(g[s \ {Max(s)}], p[Max(s)])]
  it == CHOOSE g : g = Def(g)
  step == [x \in D \X (1..n) |-> NodeByte(x[1], p[x[2]])]
<1>1. n \in Nat /\ DOMAIN p = 1..n /\ \A i \in 1..n : p[i] \in Byte
  OBVIOUS
<1>2. step \in [D \X (1..n) -> D]
  BY <1>1
<1>3. ASSUME NEW s \in SUBSET (1..n), s # {} PROVE Max(s) \in 1..n /\ s \ {Max(s)} \in SUBSET (1..n)
  <2>1. s \subseteq 0..n
    BY <1>1
  <2>2. Max(s) \in s
    BY <1>1, <1>3, <2>1, MaxUpTo
  <2> QED BY <2>2
<1>4. \E g : g = Def(g)
  <2>1. PICK g \in [SUBSET (1..n) -> D] : Folds(g, n, d, step)
    <3> HIDE DEF n, step, it, Def
    <3> QED BY <1>1, <1>2, FoldExists
  <2>2. ASSUME NEW s \in SUBSET (1..n), s # {}
        PROVE  <<g[s \ {Max(s)}], Max(s)>> \in D \X (1..n)
    BY <1>3, <2>2
  <2>3. \A s \in SUBSET (1..n) : g[s] = Def(g)[s]
    BY <2>1, <2>2 DEF Folds
  <2>4. g = Def(g)
    BY <2>1, <2>3
  <2> QED BY <2>4
<1>5. it = Def(it)
  BY <1>4
<1>6. NodeFeed(d, p) = it[1..n]
  BY <1>1 DEF NodeFeed, FoldLeft, MapThenFoldSet
<1> HIDE DEF it
<1>7. Recurs(it, n, D, d, step)
  <2>1. it[{}] = d
    <3>1. {} \in SUBSET (1..n)
      OBVIOUS
    <3> QED BY <1>5, <3>1
  <2>2. ASSUME NEW s \in SUBSET (1..n), s # {}, it[s \ {Max(s)}] \in D
        PROVE  it[s] = step[<<it[s \ {Max(s)}], Max(s)>>]
    <3>1. it[s] = NodeByte(it[s \ {Max(s)}], p[Max(s)])
      BY <1>5, <2>2
    <3>2. <<it[s \ {Max(s)}], Max(s)>> \in D \X (1..n)
      BY <1>3, <2>2
    <3> QED BY <3>1, <3>2
  <2> HIDE DEF step, n
  <2> QED BY <2>1, <2>2 DEF Recurs
<1>8. PICK f \in [0..n -> D] : Follows(f, n, d, step, it)
  <2> HIDE DEF n, step
  <2> QED BY <1>1, <1>2, <1>7, FoldFollows
<1>9. \A k \in 0..(n - 1) : f[k + 1] = NodeByte(f[k], p[k + 1])
  <2> TAKE k \in 0..(n - 1)
  <2>1. k \in 0..n /\ k + 1 \in 1..n
    <3> HIDE DEF n, step
    <3> QED BY <1>1
  <2>2. <<f[k], k + 1>> \in D \X (1..n)
    BY <2>1
  <2> QED BY <1>8, <2>2 DEF Follows
<1>10. NodeSteps(f, d, p)
  BY <1>6, <1>8, <1>9 DEF NodeSteps, Follows
<1> QED BY <1>8, <1>10

------------------------------------------------------------------------------
(* InOrder *)

\* Nothing in order is nothing.
LEMMA InOrderEmpty == ASSUME NEW f, DOMAIN f = {} PROVE InOrder(f) = <<>>
<1>1. Cardinality(DOMAIN f) = 0
  BY FS_EmptySet
<1> QED BY <1>1 DEF InOrder

\* Of a set of numbers every rank is taken.
LEMMA RankTaken ==
  ASSUME NEW m \in Nat, NEW S, \A j \in S : j \in 0..m
  PROVE  \A k \in 1..Cardinality(S) : \E i \in S : Cardinality({j \in S : j <= i}) = k
<1> DEFINE
  Upto(n) == {j \in S : j <= n}
  Ranked(n) == \A k \in 1..Cardinality(Upto(n)) : \E i \in Upto(n) : Cardinality(Upto(i)) = k
  N == {n \in 0..m : Ranked(n)}
<1>0. \A j \in S : j \in Nat /\ j <= m
  OBVIOUS
<1>1. IsFiniteSet(S)
  <2>1. S \in SUBSET Nat /\ \A i \in S : i <= m
    BY <1>0
  <2> QED BY <2>1, FS_BoundedSetOfNaturals
<1>2. ASSUME NEW n \in Nat PROVE IsFiniteSet(Upto(n)) /\ Cardinality(Upto(n)) \in Nat
  <2>1. Upto(n) \in SUBSET S
    OBVIOUS
  <2>2. IsFiniteSet(Upto(n))
    BY <1>1, <2>1, FS_Subset
  <2> QED BY <2>2, FS_CardinalityType
<1>3. 0 \in N
  <2>1. CASE 0 \in S
    <3>1. Upto(0) = {0}
      BY <1>0, <2>1
    <3>2. Cardinality(Upto(0)) = 1
      BY <3>1, FS_Singleton
    <3>3. \A k \in 1..Cardinality(Upto(0)) : k = 1
      BY <3>2
    <3>4. 0 \in Upto(0)
      BY <3>1
    <3>5. Ranked(0)
      <4> HIDE DEF Upto
      <4> QED BY <3>2, <3>3, <3>4
    <3> QED BY <3>5
  <2>2. CASE 0 \notin S
    <3>1. Upto(0) = {}
      BY <1>0, <2>2
    <3>2. Cardinality(Upto(0)) = 0
      BY <3>1, FS_EmptySet
    <3>3. Ranked(0)
      BY <3>2
    <3> QED BY <3>3
  <2> QED BY <2>1, <2>2
<1>4. \A n \in 0..(m - 1) : n \in N => n + 1 \in N
  <2> TAKE n \in 0..(m - 1)
  <2> HAVE n \in N
  <2>1. Ranked(n)
    OBVIOUS
  <2>2. CASE n + 1 \notin S
    <3>1. Upto(n + 1) = Upto(n)
      <4> HIDE DEF N, Ranked
      <4> QED BY <1>0, <2>2
    <3>2. Ranked(n + 1)
      BY <2>1, <3>1
    <3> QED BY <3>2
  <2>3. CASE n + 1 \in S
    <3>1. Upto(n + 1) = Upto(n) \cup {n + 1} /\ n + 1 \notin Upto(n)
      <4> HIDE DEF N, Ranked
      <4> QED BY <1>0, <2>3
    <3>2. Cardinality(Upto(n + 1)) = Cardinality(Upto(n)) + 1
      <4>1. IsFiniteSet(Upto(n))
        BY <1>2
      <4> HIDE DEF Upto
      <4> QED BY <3>1, <4>1, FS_AddElement
    <3>3. ASSUME NEW k \in 1..Cardinality(Upto(n + 1))
          PROVE  \E i \in Upto(n + 1) : Cardinality(Upto(i)) = k
      <4>1. CASE k \in 1..Cardinality(Upto(n))
        <5>1. PICK i \in Upto(n) : Cardinality(Upto(i)) = k
          BY <2>1, <4>1
        <5> QED BY <3>1, <5>1
      <4>2. CASE k = Cardinality(Upto(n + 1))
        BY <3>1, <4>2
      <4>3. Cardinality(Upto(n)) \in Nat /\ Cardinality(Upto(n + 1)) \in Nat
        <5>1. n \in Nat /\ n + 1 \in Nat
          OBVIOUS
        <5> HIDE DEF Upto
        <5> QED BY <1>2, <5>1
      <4> HIDE DEF Upto, N, Ranked
      <4> QED BY <3>2, <4>1, <4>2, <4>3
    <3>4. Ranked(n + 1)
      BY <3>3
    <3> QED BY <3>4
  <2> QED BY <2>2, <2>3
<1>5. m \in N
  <2> HIDE DEF N
  <2> QED BY <1>3, <1>4, NatInductionSet
<1>6. Upto(m) = S
  BY <1>0
<1>7. ASSUME NEW k \in 1..Cardinality(S)
      PROVE  \E i \in S : Cardinality({j \in S : j <= i}) = k
  BY <1>5, <1>6
<1> QED BY <1>7

\* f with one more position.
Extended(f, m, v) == [i \in DOMAIN f \cup {m} |-> IF i = m THEN v ELSE f[i]]

\* A position beyond the others comes last.
LEMMA InOrderAppend ==
  ASSUME NEW m \in Nat \ {0}, NEW f, DOMAIN f \subseteq 0..(m - 1), NEW v
  PROVE  InOrder(Extended(f, m, v)) = Append(InOrder(f), v)
<1> DEFINE
  h == Extended(f, m, v)
  S == DOMAIN f
  T == S \cup {m}
  c == Cardinality(S)
<1>1. DOMAIN h = T /\ h[m] = v /\ \A i \in S : h[i] = f[i]
  BY DEF Extended
<1>2. c \in Nat /\ IsFiniteSet(T) /\ Cardinality(T) = c + 1
  <2>1. S \in SUBSET Nat /\ \A i \in S : i <= m - 1
    OBVIOUS
  <2>2. IsFiniteSet(S) /\ m \notin S
    <3>1. m - 1 \in Nat /\ \A i \in S : i <= m - 1 /\ i \in Nat
      BY <2>1
    <3>2. m \notin S
      BY <3>1
    <3> HIDE DEF S
    <3> QED BY <2>1, <3>1, <3>2, FS_BoundedSetOfNaturals
  <2> HIDE DEF S
  <2> QED BY <2>2, FS_CardinalityType, FS_AddElement
<1>3. Cardinality({j \in T : j <= m}) = c + 1
  <2>1. {j \in T : j <= m} = T
    OBVIOUS
  <2> QED BY <1>2, <2>1
<1>4. ASSUME NEW i \in S
      PROVE  {j \in T : j <= i} = {j \in S : j <= i} /\ Cardinality({j \in S : j <= i}) <= c
  <2>1. {j \in T : j <= i} = {j \in S : j <= i}
    OBVIOUS
  <2>2. {j \in S : j <= i} \in SUBSET S /\ IsFiniteSet(S)
    BY <1>2, FS_Subset
  <2> QED BY <2>1, <2>2, FS_Subset
<1>5. (CHOOSE i \in T : Cardinality({j \in T : j <= i}) = c + 1) = m
  <2>1. ASSUME NEW i \in T, Cardinality({j \in T : j <= i}) = c + 1 PROVE i = m
    <3>1. ASSUME i \in S PROVE FALSE
      <4>1. Cardinality({j \in S : j <= i}) <= c /\ Cardinality({j \in S : j <= i}) = c + 1
        BY <1>4, <2>1, <3>1
      <4> QED BY <1>2, <4>1
    <3> QED BY <3>1
  <2>2. m \in T
    OBVIOUS
  <2> HIDE DEF T, c
  <2> QED BY <1>3, <2>1, <2>2
<1>6. ASSUME NEW k \in 1..c
      PROVE  (CHOOSE i \in T : Cardinality({j \in T : j <= i}) = k)
               = (CHOOSE i \in S : Cardinality({j \in S : j <= i}) = k)
  <2>1. ASSUME NEW i
        PROVE  (i \in T /\ Cardinality({j \in T : j <= i}) = k)
                 <=> (i \in S /\ Cardinality({j \in S : j <= i}) = k)
    <3>1. CASE i \in S
      BY <1>4, <3>1
    <3>2. CASE i = m
      <4>1. m \notin S /\ k # c + 1
        BY <1>2
      <4> QED BY <1>3, <3>2, <4>1
    <3>3. CASE i \notin T
      BY <3>3
    <3> QED BY <3>1, <3>2, <3>3
  <2> HIDE DEF T, S
  <2> QED BY <2>1
<1>7. InOrder(h) = [k \in 1..(c + 1) |-> h[CHOOSE i \in T : Cardinality({j \in T : j <= i}) = k]]
  BY <1>1, <1>2 DEF InOrder
<1>8. InOrder(f) = [k \in 1..c |-> f[CHOOSE i \in S : Cardinality({j \in S : j <= i}) = k]]
  BY DEF InOrder
<1>9. PICK R : v \in R /\ \A k \in 1..c : InOrder(f)[k] \in R
  <2> DEFINE U == {InOrder(f)[k] : k \in 1..c} \cup {v}
  <2>1. v \in U /\ \A k \in 1..c : InOrder(f)[k] \in U
    OBVIOUS
  <2> QED BY <2>1
<1>10. InOrder(f) \in Seq(R) /\ Len(InOrder(f)) = c
  <2>1. InOrder(f) \in [1..c -> R]
    <3>1. DOMAIN InOrder(f) = 1..c /\ InOrder(f) = [k \in 1..c |-> InOrder(f)[k]]
      BY <1>8
    <3> QED BY <1>9, <3>1
  <2> HIDE DEF c
  <2> QED BY <1>2, <2>1
<1>11. ASSUME NEW k \in 1..c
       PROVE  /\ (CHOOSE i \in S : Cardinality({j \in S : j <= i}) = k) \in S
              /\ InOrder(h)[k] = InOrder(f)[k]
  <2>1. \E i \in S : Cardinality({j \in S : j <= i}) = k
    BY RankTaken
  <2>2. (CHOOSE i \in S : Cardinality({j \in S : j <= i}) = k) \in S
    BY <2>1
  <2>3. k \in 1..(c + 1)
    BY <1>2
  <2> DEFINE i == CHOOSE i \in S : Cardinality({j \in S : j <= i}) = k
  <2>4. InOrder(h)[k] = h[i]
    <3> HIDE DEF c, S, T, h, i
    <3>1. (CHOOSE i1 \in T : Cardinality({j \in T : j <= i1}) = k) = i
      BY <1>6 DEF i
    <3> QED BY <1>7, <2>3, <3>1
  <2>5. InOrder(f)[k] = f[i]
    BY <1>8
  <2> HIDE DEF c, S, T, h
  <2> QED BY <1>1, <2>2, <2>4, <2>5
<1>12. InOrder(h)[c + 1] = v /\ DOMAIN InOrder(h) = 1..(c + 1)
  <2>1. c + 1 \in 1..(c + 1)
    BY <1>2
  <2> HIDE DEF c, S, T, h
  <2> QED BY <1>1, <1>5, <1>7, <2>1
<1>13. Append(InOrder(f), v) = [k \in 1..(c + 1) |-> IF k = c + 1 THEN v ELSE InOrder(f)[k]]
  <2> DEFINE q == InOrder(f)
  <2>1. q \in Seq(R) /\ Len(q) = c /\ v \in R /\ c \in Nat
    BY <1>2, <1>9, <1>10
  <2> HIDE DEF c, q
  <2>2. Append(q, v) \in Seq(R) /\ Len(Append(q, v)) = c + 1
    BY <2>1
  <2>3. Append(q, v) = [k \in 1..(c + 1) |-> Append(q, v)[k]]
    <3> DEFINE a == Append(q, v)
    <3>1. a \in Seq(R) /\ Len(a) = c + 1
      BY <2>2
    <3> HIDE DEF a
    <3>2. a \in [1..(c + 1) -> R]
      BY <2>1, <3>1
    <3> QED BY <3>2 DEF a
  <2>4. \A k \in 1..(c + 1) : Append(q, v)[k] = IF k = c + 1 THEN v ELSE q[k]
    BY <2>1
  <2>5. Append(q, v) = [k \in 1..(c + 1) |-> IF k = c + 1 THEN v ELSE q[k]]
    BY <2>3, <2>4
  <2> QED BY <2>5 DEF q
<1>14. InOrder(h) = [k \in 1..(c + 1) |-> InOrder(h)[k]]
  BY <1>7, <1>12
<1>15. \A k \in 1..(c + 1) : InOrder(h)[k] = IF k = c + 1 THEN v ELSE InOrder(f)[k]
  <2> TAKE k \in 1..(c + 1)
  <2>1. k \in 1..c \/ k = c + 1
    BY <1>2
  <2>2. k \in 1..c => k # c + 1
    BY <1>2
  <2> QED BY <1>11, <1>12, <2>1, <2>2
<1> HIDE DEF c, h
<1>16. InOrder(h) = Append(InOrder(f), v)
  BY <1>13, <1>14, <1>15
<1> QED BY <1>16 DEF h

------------------------------------------------------------------------------
(* One more byte *)

\* What was read since the last line end.
Rest(s) == SubSeq(s, LastEnd(s, Len(s) + 1) + 1, Len(s))

\* Line ends are positions of the stream.
LEMMA EndsIn ==
  ASSUME NEW s \in Seq(Byte)
  PROVE  /\ Len(s) \in Nat
         /\ \A e \in LineEnds(s) : e \in 1..Len(s) /\ s[e] = "lf"
  BY DEF LineEnds

\* The end before a position lies before it, and nothing ends in between.
LEMMA LastEndIs ==
  ASSUME NEW s \in Seq(Byte), NEW i \in Nat
  PROVE  /\ LastEnd(s, i) \in 0..Len(s)
         /\ LastEnd(s, i) # 0 => LastEnd(s, i) \in LineEnds(s) /\ LastEnd(s, i) < i
         /\ \A e \in LineEnds(s) : e < i => e <= LastEnd(s, i)
<1> DEFINE E == {0} \cup {e \in LineEnds(s) : e < i}
<1>1. Len(s) \in Nat /\ \A e \in LineEnds(s) : e \in 1..Len(s)
  BY EndsIn
<1>2. E \subseteq 0..Len(s) /\ E # {}
  BY <1>1
<1>3. Max(E) \in E /\ \A e \in E : e <= Max(E)
  <2> HIDE DEF E
  <2> QED BY <1>1, <1>2, MaxUpTo
<1>4. LastEnd(s, i) = Max(E)
  BY DEF LastEnd
<1> QED BY <1>1, <1>2, <1>3, <1>4

\* What was read since the last line end is as long as the line is so far.
LEMMA RestIs ==
  ASSUME NEW s \in Seq(Byte)
  PROVE  /\ Unfinished(s) \in Nat
         /\ Rest(s) \in Seq(Byte) /\ Len(Rest(s)) = Unfinished(s)
         /\ Unfinished(s) <= Len(s)
<1> DEFINE l == LastEnd(s, Len(s) + 1)
<1>1. Len(s) \in Nat /\ l \in 0..Len(s)
  BY LastEndIs
<1>2. \A i \in (l + 1)..Len(s) : s[i] \in Byte
  BY <1>1
<1> HIDE DEF l
<1>3. SubSeq(s, l + 1, Len(s)) \in Seq(Byte)
  BY <1>1, <1>2, SubSeqProperties
<1>4. Len(SubSeq(s, l + 1, Len(s))) = Len(s) - l
  BY <1>1, <1>2, SubSeqProperties
<1> QED BY <1>1, <1>3, <1>4 DEF Rest, Unfinished, l

\* What Append(s, b) has the ends of, and where.
LEMMA EndsGrow ==
  ASSUME NEW s \in Seq(Byte), NEW b \in Byte
  PROVE  LET t == Append(s, b)
             m == Len(s) + 1
         IN  /\ t \in Seq(Byte) /\ Len(t) = m
             /\ LineEnds(t) = IF b = "lf" THEN LineEnds(s) \cup {m} ELSE LineEnds(s)
             /\ \A i \in 0..m : LastEnd(t, i) = LastEnd(s, i)
             /\ LastEnd(t, m + 1) = IF b = "lf" THEN m ELSE LastEnd(s, m)
<1> DEFINE
  t == Append(s, b)
  m == Len(s) + 1
<1>1. Len(s) \in Nat /\ t \in Seq(Byte) /\ Len(t) = m /\ DOMAIN t = 1..m /\ DOMAIN s = 1..Len(s)
  OBVIOUS
<1>2. t[m] = b /\ \A i \in 1..Len(s) : t[i] = s[i]
  OBVIOUS
<1>3. ASSUME NEW e PROVE e \in LineEnds(t) <=> e \in LineEnds(s) \/ (b = "lf" /\ e = m)
  <2> HIDE DEF t
  <2> QED BY <1>1, <1>2 DEF LineEnds
<1>4. LineEnds(t) = IF b = "lf" THEN LineEnds(s) \cup {m} ELSE LineEnds(s)
  <2> HIDE DEF t, m
  <2> QED BY <1>3
<1>5. \A e \in LineEnds(s) : e \in Nat /\ e < m
  BY EndsIn
<1> HIDE DEF t, m
<1>6. m \in Nat
  BY <1>1 DEF m
<1>7. ASSUME NEW i \in 0..m PROVE LastEnd(t, i) = LastEnd(s, i)
  <2>1. ASSUME NEW e PROVE (e \in LineEnds(t) /\ e < i) <=> (e \in LineEnds(s) /\ e < i)
    BY <1>3, <1>6
  <2>2. {e \in LineEnds(t) : e < i} = {e \in LineEnds(s) : e < i}
    BY <2>1
  <2> QED BY <2>2 DEF LastEnd
<1>8. CASE b = "lf"
  <2>1. {0} \cup {e \in LineEnds(t) : e < m + 1} \subseteq Nat
    BY <1>3, <1>5, <1>6
  <2>2. m \in {0} \cup {e \in LineEnds(t) : e < m + 1}
    BY <1>3, <1>6, <1>8
  <2>3. \A e \in {0} \cup {e \in LineEnds(t) : e < m + 1} : e <= m
    BY <1>6, <2>1
  <2>4. LastEnd(t, m + 1) = m
    BY <2>1, <2>2, <2>3, MaxIs DEF LastEnd
  <2> QED BY <1>1, <1>4, <1>7, <1>8, <2>4 DEF t, m
<1>9. CASE b # "lf"
  <2>1. ASSUME NEW e PROVE (e \in LineEnds(t) /\ e < m + 1) <=> (e \in LineEnds(s) /\ e < m)
    BY <1>3, <1>5, <1>6, <1>9
  <2>2. {e \in LineEnds(t) : e < m + 1} = {e \in LineEnds(s) : e < m}
    BY <2>1
  <2>3. LastEnd(t, m + 1) = LastEnd(s, m)
    BY <2>2 DEF LastEnd
  <2> QED BY <1>1, <1>4, <1>7, <1>9, <2>3 DEF t, m
<1> QED BY <1>8, <1>9

\* The lines that had ended stay what they were; what was unfinished becomes a
\* line or grows by one byte.
LEMMA LinesGrow ==
  ASSUME NEW s \in Seq(Byte), NEW b \in Byte
  PROVE  LET t == Append(s, b) IN
         /\ \A e \in LineEnds(s) : Line(t, e) = Line(s, e)
         /\ b = "lf" => /\ Line(t, Len(s) + 1) = Rest(s)
                        /\ Unfinished(t) = 0 /\ Rest(t) = <<>>
         /\ b # "lf" => /\ Unfinished(t) = Unfinished(s) + 1
                        /\ Rest(t) = Append(Rest(s), b)
<1> DEFINE
  t == Append(s, b)
  n == Len(s)
  l == LastEnd(s, n + 1)
<1>1. /\ n \in Nat /\ t \in Seq(Byte) /\ Len(t) = n + 1 /\ l \in 0..n
      /\ \A i \in 1..n : t[i] = s[i]
      /\ t[n + 1] = b
  BY LastEndIs
<1>2. ASSUME NEW k \in 0..n, NEW j \in 0..n PROVE SubSeq(t, k + 1, j) = SubSeq(s, k + 1, j)
  <2> HIDE DEF t
  <2>1. \A i \in (k + 1)..j : t[i] = s[i] /\ s[i] \in Byte
    BY <1>1
  <2> QED BY SMTT(30), <1>1, <2>1
<1>3. \A e \in LineEnds(s) : Line(t, e) = Line(s, e)
  <2> TAKE e \in LineEnds(s)
  <2>1. e \in 1..n
    BY EndsIn
  <2>2. LastEnd(t, e) = LastEnd(s, e) /\ LastEnd(s, e) \in 0..n
    BY <2>1, EndsGrow, LastEndIs
  <2>3. e - 1 \in 0..n
    BY <2>1
  <2> QED BY <1>2, <2>2, <2>3 DEF Line
<1>4. CASE b = "lf"
  <2>1. Line(t, n + 1) = Rest(s)
    <3>1. LastEnd(t, n + 1) = l
      BY <1>1, EndsGrow
    <3>2. (n + 1) - 1 = n /\ n \in 0..n
      BY <1>1
    <3> QED BY <1>1, <1>2, <3>1, <3>2 DEF Line, Rest
  <2>2. LastEnd(t, n + 2) = n + 1
    <3>1. LastEnd(t, n + 1 + 1) = n + 1
      BY <1>4, EndsGrow
    <3>2. n + 1 + 1 = n + 2
      BY <1>1
    <3> QED BY <3>1, <3>2
  <2>3. Unfinished(t) = 0 /\ Rest(t) = <<>>
    <3>1. Len(t) + 1 = n + 2
      BY <1>1
    <3>2. SubSeq(t, n + 2, n + 1) = <<>>
      <4> HIDE DEF t
      <4> QED BY <1>1, SubSeqEmpty
    <3>3. (n + 1) + 1 = n + 2 /\ (n + 1) - (n + 1) = 0
      BY <1>1
    <3> QED BY <1>1, <2>2, <3>1, <3>2, <3>3 DEF Unfinished, Rest
  <2> QED BY <1>3, <1>4, <2>1, <2>3
<1>5. CASE b # "lf"
  <2>1. LastEnd(t, n + 2) = l
    <3>1. LastEnd(t, n + 1 + 1) = l
      BY <1>5, EndsGrow
    <3>2. n + 1 + 1 = n + 2
      BY <1>1
    <3> QED BY <3>1, <3>2
  <2>2. Unfinished(t) = Unfinished(s) + 1
    <3>1. Len(t) + 1 = n + 2
      BY <1>1
    <3> HIDE DEF t
    <3> QED BY <1>1, <2>1, <3>1 DEF Unfinished
  <2>3. SubSeq(t, l + 1, n + 1) = Append(SubSeq(s, l + 1, n), b)
    <3>1. SubSeq(t, l + 1, n + 1) = SubSeq(t, l + 1, (n + 1) - 1) \o <<t[n + 1]>>
      <4> HIDE DEF t, l
      <4>1. l + 1 \in 1..Len(t) /\ n + 1 \in (l + 1)..Len(t)
        BY <1>1
      <4> QED BY <1>1, <4>1, SubSeqRecursiveSecond
    <3>2. SubSeq(t, l + 1, n) = SubSeq(s, l + 1, n)
      BY SMTT(30), <1>1, <1>2
    <3>3. (n + 1) - 1 = n
      BY <1>1
    <3>4. SubSeq(s, l + 1, n) \in Seq(Byte)
      BY RestIs DEF Rest
    <3>5. SubSeq(s, l + 1, n) \o <<b>> = Append(SubSeq(s, l + 1, n), b)
      <4> HIDE DEF t, l, n
      <4> QED BY SMTT(30), <3>4
    <3> QED BY <1>1, <3>1, <3>2, <3>3, <3>5
  <2>4. Rest(t) = Append(Rest(s), b)
    <3>1. Len(t) + 1 = n + 2 /\ Len(t) = n + 1
      BY <1>1
    <3> HIDE DEF t
    <3> QED BY <2>1, <2>3, <3>1 DEF Rest
  <2> QED BY <1>3, <1>5, <2>2, <2>4
<1> QED BY <1>4, <1>5

\* A packet is a sequence of bytes, and reading it is reading its bytes.
LEMMA PacketIsBytes ==
  ASSUME NEW p \in Packet
  PROVE  p \in Seq(Byte) /\ Len(p) \in 1..PacketSize
<1>1. PICK n \in 1..PacketSize : p \in [1..n -> Byte]
  BY DEF Packet
<1>2. n \in Nat
  BY FramingAssumption
<1> QED BY <1>1, <1>2

\* A stream and a packet: nothing of the packet, one more byte, all of it.
LEMMA ReadByByte ==
  ASSUME NEW s \in Seq(Byte), NEW p \in Seq(Byte)
  PROVE  /\ s \o SubSeq(p, 1, 0) = s
         /\ s \o SubSeq(p, 1, Len(p)) = s \o p
         /\ \A k \in 0..(Len(p) - 1) :
              s \o SubSeq(p, 1, k + 1) = Append(s \o SubSeq(p, 1, k), p[k + 1])
<1>1. SubSeq(p, 1, 0) = <<>> /\ SubSeq(p, 1, Len(p)) = p /\ Len(p) \in Nat
  BY SubSeqEmpty, SubSeqFull
<1>2. s \o <<>> = s
  BY ConcatEmptySeq
<1>3. ASSUME NEW k \in 0..(Len(p) - 1)
      PROVE  s \o SubSeq(p, 1, k + 1) = Append(s \o SubSeq(p, 1, k), p[k + 1])
  <2> DEFINE q == SubSeq(p, 1, k)
  <2>1. q \in Seq(Byte) /\ p[k + 1] \in Byte
    BY <1>1
  <2>2. SubSeq(p, 1, k + 1) = q \o <<p[k + 1]>>
    <3>1. 1 \in 1..Len(p) /\ k + 1 \in 1..Len(p) /\ (k + 1) - 1 = k
      BY <1>1
    <3> QED BY <3>1, SubSeqRecursiveSecond
  <2> HIDE DEF q
  <2>3. s \o (q \o <<p[k + 1]>>) = (s \o q) \o <<p[k + 1]>>
    BY <2>1, ConcatAssociative
  <2>4. s \o q \in Seq(Byte)
    BY <2>1
  <2>5. (s \o q) \o <<p[k + 1]>> = Append(s \o q, p[k + 1])
    BY <2>1, <2>4
  <2> QED BY <2>2, <2>3, <2>5 DEF q
<1> QED BY <1>1, <1>2, <1>3

\* What a decoder holds of the stream s: the unfinished line if it can still be
\* within the limit, nothing but the fact if it cannot.
Decodes(d, s) ==
  IF Unfinished(s) <= MaxLine THEN d.current = Rest(s) /\ d.dropping = FALSE
  ELSE d.current = <<>> /\ d.dropping = TRUE

------------------------------------------------------------------------------
(* The hub *)

HubTexts == {HubText(l) : l \in Seq(Byte)}
HubDecoder == [current : Seq(Byte), dropping : BOOLEAN, out : Seq(HubTexts)]

HubLegal(s) == {e \in LineEnds(s) : Len(Line(s, e)) <= MaxLine}
HubLinesOf(s) == InOrder([e \in HubLegal(s) |-> HubText(Line(s, e))])

\* A byte ends a line the hub answers, or it changes nothing of those.
LEMMA HubLinesGrow ==
  ASSUME NEW s \in Seq(Byte), NEW b \in Byte
  PROVE  HubLinesOf(Append(s, b)) =
           IF b = "lf" /\ Unfinished(s) <= MaxLine
           THEN Append(HubLinesOf(s), HubText(Rest(s))) ELSE HubLinesOf(s)
<1> DEFINE
  t == Append(s, b)
  m == Len(s) + 1
  f == [e \in HubLegal(s) |-> HubText(Line(s, e))]
  h == [e \in HubLegal(t) |-> HubText(Line(t, e))]
<1>1. /\ m \in Nat \ {0} /\ Len(Rest(s)) = Unfinished(s)
      /\ \A e \in LineEnds(s) : e \in 0..(m - 1) /\ e # m
  BY EndsIn, RestIs
<1>2. /\ LineEnds(t) = IF b = "lf" THEN LineEnds(s) \cup {m} ELSE LineEnds(s)
      /\ \A e \in LineEnds(s) : Line(t, e) = Line(s, e)
      /\ b = "lf" => Line(t, m) = Rest(s)
  BY EndsGrow, LinesGrow
<1> HIDE DEF t, m
<1>3. CASE b = "lf" /\ Unfinished(s) <= MaxLine
  <2>1. ASSUME NEW e PROVE e \in HubLegal(t) <=> e \in HubLegal(s) \/ e = m
    BY <1>1, <1>2, <1>3 DEF HubLegal
  <2>2. HubLegal(t) = HubLegal(s) \cup {m}
    BY <2>1
  <2>3. h = Extended(f, m, HubText(Rest(s)))
    <3>1. \A e \in HubLegal(s) : e # m /\ Line(t, e) = Line(s, e)
      BY <1>1, <1>2 DEF HubLegal
    <3>2. \A e \in HubLegal(t) : h[e] = IF e = m THEN HubText(Rest(s)) ELSE f[e]
      BY <1>2, <1>3, <2>2, <3>1
    <3> QED BY <2>2, <3>2 DEF Extended
  <2>4. DOMAIN f \subseteq 0..(m - 1)
    BY <1>1 DEF HubLegal
  <2>5. InOrder(h) = Append(InOrder(f), HubText(Rest(s)))
    <3> HIDE DEF f, h
    <3> QED BY <1>1, <2>3, <2>4, InOrderAppend
  <2> QED BY <1>3, <2>5 DEF HubLinesOf, t
<1>4. CASE ~ (b = "lf" /\ Unfinished(s) <= MaxLine)
  <2>1. ASSUME NEW e PROVE e \in HubLegal(t) <=> e \in HubLegal(s)
    BY <1>1, <1>2, <1>4 DEF HubLegal
  <2>2. HubLegal(t) = HubLegal(s)
    BY <2>1
  <2>3. \A e \in HubLegal(t) : Line(t, e) = Line(s, e)
    BY <1>2, <2>2 DEF HubLegal
  <2>4. h = f
    BY <2>2, <2>3
  <2> QED BY <1>4, <2>4 DEF HubLinesOf, t
<1> QED BY <1>3, <1>4

\* After one more byte the hub's decoder holds what it should of the longer
\* stream, and it has put out the line the byte ended, if that was legal.
LEMMA HubByteIs ==
  ASSUME NEW s \in Seq(Byte), NEW d \in HubDecoder, NEW b \in Byte, Decodes(d, s)
  PROVE  /\ HubByte(d, b) \in HubDecoder
         /\ Decodes(HubByte(d, b), Append(s, b))
         /\ HubByte(d, b).out = IF b = "lf" /\ Unfinished(s) <= MaxLine
                                THEN Append(d.out, HubText(Rest(s))) ELSE d.out
<1>1. Rest(s) \in Seq(Byte) /\ Len(Rest(s)) = Unfinished(s) /\ Unfinished(s) \in Nat
  BY RestIs
<1>2. MaxLine \in Nat \ {0}
  BY FramingAssumption
<1>3. /\ d.current \in Seq(Byte) /\ d.dropping \in BOOLEAN /\ d.out \in Seq(HubTexts)
      /\ d = [current |-> d.current, dropping |-> d.dropping, out |-> d.out]
  BY DEF HubDecoder
<1>4. CASE b = "lf"
  <2>1. Unfinished(Append(s, b)) = 0 /\ Rest(Append(s, b)) = <<>>
    BY <1>4, LinesGrow
  <2>2. HubByte(d, b) = [current |-> <<>>, dropping |-> FALSE,
                         out |-> IF d.dropping THEN d.out ELSE Append(d.out, HubText(d.current))]
    BY <1>4 DEF HubByte
  <2>3. HubByte(d, b).out = IF Unfinished(s) <= MaxLine
                            THEN Append(d.out, HubText(Rest(s))) ELSE d.out
    BY <1>1, <1>2, <2>2 DEF Decodes
  <2>4. HubByte(d, b).out \in Seq(HubTexts)
    <3>1. HubText(Rest(s)) \in HubTexts
      BY <1>1 DEF HubTexts
    <3> QED BY <1>3, <2>3, <3>1
  <2>5. HubByte(d, b) \in HubDecoder
    BY <2>2, <2>4 DEF HubDecoder
  <2>6. Decodes(HubByte(d, b), Append(s, b))
    BY <1>2, <2>1, <2>2 DEF Decodes
  <2> QED BY <1>4, <2>3, <2>5, <2>6
<1>5. CASE b # "lf"
  <2>1. /\ Unfinished(Append(s, b)) = Unfinished(s) + 1
        /\ Rest(Append(s, b)) = Append(Rest(s), b)
    BY <1>5, LinesGrow
  <2>2. CASE Unfinished(s) > MaxLine
    <3>1. HubByte(d, b) = d
      BY <1>1, <1>2, <1>5, <2>2 DEF HubByte, Decodes
    <3> QED BY <1>1, <1>2, <1>5, <2>1, <2>2, <3>1 DEF Decodes
  <2>3. CASE Unfinished(s) = MaxLine
    <3>1. HubByte(d, b) = [d EXCEPT !.current = <<>>, !.dropping = TRUE]
      BY <1>1, <1>2, <1>5, <2>3 DEF HubByte, Decodes
    <3>2. HubByte(d, b) = [current |-> <<>>, dropping |-> TRUE, out |-> d.out]
      BY <1>3, <3>1
    <3>3. HubByte(d, b) \in HubDecoder
      BY <1>3, <3>2 DEF HubDecoder
    <3> QED BY <1>1, <1>2, <1>5, <2>1, <2>3, <3>2, <3>3 DEF Decodes
  <2>4. CASE Unfinished(s) < MaxLine
    <3>1. HubByte(d, b) = [d EXCEPT !.current = Append(@, b)]
      BY <1>1, <1>2, <1>5, <2>4 DEF HubByte, Decodes
    <3>2. HubByte(d, b) = [current |-> Append(Rest(s), b), dropping |-> FALSE, out |-> d.out]
      <4>1. d.current = Rest(s) /\ d.dropping = FALSE
        BY <1>1, <1>2, <2>4 DEF Decodes
      <4>2. d = [current |-> Rest(s), dropping |-> FALSE, out |-> d.out]
        BY <1>3, <4>1
      <4> QED BY <3>1, <4>1, <4>2
    <3>3. HubByte(d, b) \in HubDecoder
      BY <1>1, <1>3, <3>2 DEF HubDecoder
    <3> QED BY <1>1, <1>2, <1>5, <2>1, <2>4, <3>2, <3>3 DEF Decodes
  <2> QED BY <1>1, <1>2, <2>2, <2>3, <2>4
<1> QED BY <1>4, <1>5

\* A packet adds to the lines what the hub returns of it.
LEMMA HubReads ==
  ASSUME NEW s \in Seq(Byte), NEW d \in HubDecoder, Decodes(d, s), d.out = <<>>,
         NEW p \in Seq(Byte), NEW lines \in Seq(HubTexts), lines = HubLinesOf(s)
  PROVE  LET e == HubFeed(d, p) IN
         /\ e \in HubDecoder /\ Decodes(e, s \o p)
         /\ lines \o e.out \in Seq(HubTexts) /\ lines \o e.out = HubLinesOf(s \o p)
<1> DEFINE
  n == Len(p)
  upto(k) == s \o SubSeq(p, 1, k)
<1>1. /\ n \in Nat /\ s \o p \in Seq(Byte)
      /\ upto(0) = s /\ upto(n) = s \o p
      /\ \A k \in 0..(n - 1) : upto(k + 1) = Append(upto(k), p[k + 1]) /\ p[k + 1] \in Byte
  <2>1. n \in Nat /\ s \o p \in Seq(Byte) /\ \A k \in 0..(n - 1) : p[k + 1] \in Byte
    OBVIOUS
  <2> QED BY <2>1, ReadByByte
<1>2. \A x \in HubDecoder : \A b \in Byte : HubByte(x, b) \in HubDecoder
  <2> TAKE x \in HubDecoder
  <2> TAKE b \in Byte
  <2>1. /\ x.current \in Seq(Byte) /\ x.dropping \in BOOLEAN /\ x.out \in Seq(HubTexts)
        /\ x = [current |-> x.current, dropping |-> x.dropping, out |-> x.out]
    BY DEF HubDecoder
  <2>2. HubText(x.current) \in HubTexts
    BY <2>1 DEF HubTexts
  <2>3. Append(x.out, HubText(x.current)) \in Seq(HubTexts) /\ Append(x.current, b) \in Seq(Byte)
    BY <2>1, <2>2
  <2>4. [current |-> <<>>, dropping |-> FALSE,
         out |-> IF x.dropping THEN x.out ELSE Append(x.out, HubText(x.current))] \in HubDecoder
    BY <2>1, <2>3 DEF HubDecoder
  <2>5. [x EXCEPT !.current = <<>>, !.dropping = TRUE] \in HubDecoder
    <3>1. <<>> \in Seq(Byte)
      OBVIOUS
    <3> QED BY <3>1 DEF HubDecoder
  <2>6. [x EXCEPT !.current = Append(@, b)] \in HubDecoder
    BY <2>3 DEF HubDecoder
  <2> QED BY <2>4, <2>5, <2>6 DEF HubByte
<1>3. PICK f \in [0..n -> HubDecoder] : HubSteps(f, d, p)
  <2> HIDE DEF HubDecoder
  <2> QED BY <1>2, HubFold
<1> DEFINE
  Reads(k) == /\ upto(k) \in Seq(Byte) /\ Decodes(f[k], upto(k))
              /\ lines \o f[k].out = HubLinesOf(upto(k))
  T == {k \in 0..n : Reads(k)}
<1>4. 0 \in T
  <2>1. lines \o <<>> = lines
    BY ConcatEmptySeq
  <2>2. Reads(0)
    <3>1. f[0].out = <<>> /\ Decodes(f[0], s)
      BY <1>3 DEF HubSteps
    <3> HIDE DEF upto
    <3> QED BY <1>1, <2>1, <3>1
  <2>3. 0 \in 0..n
    BY <1>1
  <2> HIDE DEF Reads
  <2> QED BY <2>2, <2>3
<1>5. \A k \in 0..(n - 1) : k \in T => k + 1 \in T
  <2> TAKE k \in 0..(n - 1)
  <2> HAVE k \in T
  <2> DEFINE
    t == upto(k)
    b == p[k + 1]
    x == f[k]
  <2>1. /\ k \in 0..n /\ k + 1 \in 0..n /\ b \in Byte /\ x \in HubDecoder
        /\ upto(k + 1) = Append(t, b) /\ f[k + 1] = HubByte(x, b)
    <3>1. k \in 0..n /\ k + 1 \in 0..n
      BY <1>1
    <3> HIDE DEF upto, T, HubDecoder
    <3> QED BY <1>1, <1>3, <3>1 DEF HubSteps
  <2>2. t \in Seq(Byte) /\ Decodes(x, t) /\ lines \o x.out = HubLinesOf(t)
    OBVIOUS
  <2> HIDE DEF t, b, x, T, upto
  <2>3. x.out \in Seq(HubTexts) /\ HubText(Rest(t)) \in HubTexts
    BY <2>1, <2>2, RestIs DEF HubDecoder, HubTexts
  <2>4. HubLinesOf(Append(t, b)) =
          IF b = "lf" /\ Unfinished(t) <= MaxLine
          THEN Append(HubLinesOf(t), HubText(Rest(t))) ELSE HubLinesOf(t)
    BY <2>1, <2>2, HubLinesGrow
  <2>5. /\ Decodes(HubByte(x, b), Append(t, b))
        /\ HubByte(x, b).out = IF b = "lf" /\ Unfinished(t) <= MaxLine
                               THEN Append(x.out, HubText(Rest(t))) ELSE x.out
    BY <2>1, <2>2, HubByteIs
  <2>6. lines \o Append(x.out, HubText(Rest(t))) = Append(lines \o x.out, HubText(Rest(t)))
    BY SMTT(30), <2>3
  <2>7. lines \o HubByte(x, b).out = HubLinesOf(Append(t, b))
    BY <2>2, <2>4, <2>5, <2>6
  <2>8. Append(t, b) \in Seq(Byte)
    BY <2>1, <2>2
  <2>9. Reads(k + 1)
    BY <2>1, <2>5, <2>7, <2>8
  <2> QED BY <2>1, <2>9 DEF T
<1>6. n \in T
  <2>1. n \in Nat
    BY <1>1
  <2> HIDE DEF T, n
  <2>2. 0..n \subseteq T
    BY <2>1, <1>4, <1>5, NatInductionSet
  <2> QED BY <2>1, <2>2
<1>7. f[n] \in HubDecoder /\ f[n].out \in Seq(HubTexts)
  BY <1>1, <1>3 DEF HubDecoder
<1>8. lines \o f[n].out \in Seq(HubTexts)
  BY <1>7
<1> QED BY <1>1, <1>3, <1>6, <1>7, <1>8 DEF HubSteps

------------------------------------------------------------------------------
(* The control application *)

ControlTexts == {Failed} \cup {ControlText(l) : l \in Seq(Byte)}
ControlDecoder == [current : Seq(Byte), dropping : BOOLEAN, out : Seq(ControlTexts)]

ControlSeen(s) ==
  InOrder([e \in LineEnds(s) |->
             IF e \in Legal(s) THEN ControlText(Line(s, e)) ELSE Failed])
ControlLinesOf(s) ==
  IF Unfinished(s) > MaxLine THEN Append(ControlSeen(s), Failed) ELSE ControlSeen(s)

\* What byte b after stream s adds to the lines and errors q.
ControlGrown(q, s, b) ==
  IF Unfinished(s) > MaxLine THEN q
  ELSE IF Unfinished(s) = MaxLine THEN Append(q, Failed)
  ELSE IF b = "lf" THEN Append(q, ControlText(Rest(s)))
  ELSE q

\* What is appended to a part is appended to the whole.
LEMMA AppendConcat ==
  ASSUME NEW S, NEW l \in Seq(S), NEW o \in Seq(S), NEW v \in S
  PROVE  l \o Append(o, v) = Append(l \o o, v)
OBVIOUS

\* A byte makes no line legal or illegal but the one it ends.
LEMMA LegalGrows ==
  ASSUME NEW s \in Seq(Byte), NEW b \in Byte
  PROVE  /\ \A e \in LineEnds(s) : e \in Legal(Append(s, b)) <=> e \in Legal(s)
         /\ b = "lf" => (Len(s) + 1 \in Legal(Append(s, b)) <=> Unfinished(s) < MaxLine)
         /\ Legal(Append(s, b)) = IF b = "lf" /\ Unfinished(s) < MaxLine
                                  THEN Legal(s) \cup {Len(s) + 1} ELSE Legal(s)
<1> DEFINE
  t == Append(s, b)
  m == Len(s) + 1
<1>1. /\ LineEnds(t) = IF b = "lf" THEN LineEnds(s) \cup {m} ELSE LineEnds(s)
      /\ \A e \in LineEnds(s) : Line(t, e) = Line(s, e)
      /\ b = "lf" => Line(t, m) = Rest(s)
      /\ Len(Rest(s)) = Unfinished(s)
  BY EndsGrow, LinesGrow, RestIs
<1> HIDE DEF t, m
<1>2. \A e \in LineEnds(s) : e \in Legal(t) <=> e \in Legal(s)
  BY <1>1 DEF Legal, Fits
<1>3. b = "lf" => (m \in Legal(t) <=> Unfinished(s) < MaxLine)
  BY <1>1 DEF Legal, Fits
<1>4. /\ \A e \in Legal(t) : e \in LineEnds(t)
      /\ \A e \in Legal(s) : e \in LineEnds(s)
  BY DEF Legal
<1>5. ASSUME NEW e
      PROVE  e \in Legal(t) <=> e \in Legal(s) \/ (e = m /\ b = "lf" /\ Unfinished(s) < MaxLine)
  BY <1>1, <1>2, <1>3, <1>4
<1>6. Legal(t) = IF b = "lf" /\ Unfinished(s) < MaxLine THEN Legal(s) \cup {m} ELSE Legal(s)
  BY <1>5
<1> QED BY <1>2, <1>3, <1>6 DEF t, m

\* Every line end adds one text or one error.
LEMMA ControlSeenGrow ==
  ASSUME NEW s \in Seq(Byte), NEW b \in Byte
  PROVE  ControlSeen(Append(s, b)) =
           IF b = "lf"
           THEN Append(ControlSeen(s),
                       IF Unfinished(s) < MaxLine THEN ControlText(Rest(s)) ELSE Failed)
           ELSE ControlSeen(s)
<1> DEFINE
  t == Append(s, b)
  m == Len(s) + 1
  v == IF Unfinished(s) < MaxLine THEN ControlText(Rest(s)) ELSE Failed
  f == [e \in LineEnds(s) |-> IF e \in Legal(s) THEN ControlText(Line(s, e)) ELSE Failed]
  h == [e \in LineEnds(t) |-> IF e \in Legal(t) THEN ControlText(Line(t, e)) ELSE Failed]
<1>1. /\ m \in Nat \ {0}
      /\ \A e \in LineEnds(s) : e \in 0..(m - 1) /\ e # m
  BY EndsIn
<1>2. /\ LineEnds(t) = IF b = "lf" THEN LineEnds(s) \cup {m} ELSE LineEnds(s)
      /\ \A e \in LineEnds(s) : Line(t, e) = Line(s, e) /\ (e \in Legal(t) <=> e \in Legal(s))
      /\ b = "lf" => Line(t, m) = Rest(s) /\ (m \in Legal(t) <=> Unfinished(s) < MaxLine)
  BY EndsGrow, LinesGrow, LegalGrows
<1> HIDE DEF t, m
<1>3. CASE b = "lf"
  <2>1. h = Extended(f, m, v)
    <3>1. \A e \in LineEnds(t) : h[e] = IF e = m THEN v ELSE f[e]
      BY <1>1, <1>2, <1>3
    <3> QED BY <1>2, <1>3, <3>1 DEF Extended
  <2>2. DOMAIN f \subseteq 0..(m - 1)
    BY <1>1
  <2>3. InOrder(h) = Append(InOrder(f), v)
    <3> HIDE DEF f, h, v
    <3> QED BY <1>1, <2>1, <2>2, InOrderAppend
  <2> QED BY <1>3, <2>3 DEF ControlSeen, t
<1>4. CASE b # "lf"
  <2>1. h = f
    BY <1>2, <1>4
  <2> QED BY <1>4, <2>1 DEF ControlSeen, t
<1> QED BY <1>3, <1>4

\* The error of a line comes with the byte that breaks the limit, not with its
\* end: the two ways of counting agree on what there is after every byte.
LEMMA ControlLinesGrow ==
  ASSUME NEW s \in Seq(Byte), NEW b \in Byte
  PROVE  ControlLinesOf(Append(s, b)) = ControlGrown(ControlLinesOf(s), s, b)
<1>1. MaxLine \in Nat \ {0} /\ Unfinished(s) \in Nat
  BY FramingAssumption, RestIs
<1>2. CASE b = "lf"
  <2>1. Unfinished(Append(s, b)) = 0
    BY <1>2, LinesGrow
  <2>2. ControlLinesOf(Append(s, b)) =
          Append(ControlSeen(s), IF Unfinished(s) < MaxLine THEN ControlText(Rest(s)) ELSE Failed)
    BY <1>1, <1>2, <2>1, ControlSeenGrow DEF ControlLinesOf
  <2>3. CASE Unfinished(s) > MaxLine
    BY <1>1, <2>2, <2>3 DEF ControlLinesOf, ControlGrown
  <2>4. CASE Unfinished(s) = MaxLine
    BY <1>1, <2>2, <2>4 DEF ControlLinesOf, ControlGrown
  <2>5. CASE Unfinished(s) < MaxLine
    <3>1. ControlLinesOf(Append(s, b)) = Append(ControlSeen(s), ControlText(Rest(s)))
      BY <2>2, <2>5
    <3>2. ControlLinesOf(s) = ControlSeen(s)
      BY <1>1, <2>5 DEF ControlLinesOf
    <3>3. ~ (Unfinished(s) > MaxLine) /\ Unfinished(s) # MaxLine
      BY <1>1, <2>5
    <3> QED BY <1>2, <3>1, <3>2, <3>3 DEF ControlGrown
  <2> QED BY <1>1, <2>3, <2>4, <2>5
<1>3. CASE b # "lf"
  <2>1. Unfinished(Append(s, b)) = Unfinished(s) + 1
    BY <1>3, LinesGrow
  <2>2. ControlSeen(Append(s, b)) = ControlSeen(s)
    BY <1>3, ControlSeenGrow
  <2> QED BY <1>1, <1>3, <2>1, <2>2 DEF ControlLinesOf, ControlGrown
<1> QED BY <1>2, <1>3

\* After one more byte the application's decoder holds what it should of the
\* longer stream, and it has put out what the byte adds.
LEMMA ControlByteIs ==
  ASSUME NEW s \in Seq(Byte), NEW d \in ControlDecoder, NEW b \in Byte, Decodes(d, s)
  PROVE  /\ Decodes(ControlByte(d, b), Append(s, b))
         /\ ControlByte(d, b).out = ControlGrown(d.out, s, b)
<1>1. Rest(s) \in Seq(Byte) /\ Len(Rest(s)) = Unfinished(s) /\ Unfinished(s) \in Nat
  BY RestIs
<1>2. MaxLine \in Nat \ {0}
  BY FramingAssumption
<1>3. d = [current |-> d.current, dropping |-> d.dropping, out |-> d.out]
  BY DEF ControlDecoder
<1>4. /\ b = "lf" => Unfinished(Append(s, b)) = 0 /\ Rest(Append(s, b)) = <<>>
      /\ b # "lf" => /\ Unfinished(Append(s, b)) = Unfinished(s) + 1
                     /\ Rest(Append(s, b)) = Append(Rest(s), b)
  BY LinesGrow
<1>5. CASE Unfinished(s) > MaxLine
  <2>1. d.dropping = TRUE /\ d.current = <<>>
    BY <1>1, <1>2, <1>5 DEF Decodes
  <2>2. ControlByte(d, b) = [d EXCEPT !.dropping = b # "lf"]
    BY <2>1 DEF ControlByte
  <2>3. ControlByte(d, b) = [current |-> <<>>, dropping |-> b # "lf", out |-> d.out]
    BY <1>3, <2>1, <2>2
  <2>4. ControlByte(d, b).out = ControlGrown(d.out, s, b)
    BY <1>5, <2>3 DEF ControlGrown
  <2>5. CASE b = "lf"
    <3>1. ControlByte(d, b).dropping = FALSE /\ ControlByte(d, b).current = <<>>
      <4>1. (b # "lf") = FALSE
        BY <2>5
      <4>2. ControlByte(d, b).dropping = (b # "lf") /\ ControlByte(d, b).current = <<>>
        BY <2>3
      <4> QED BY <4>1, <4>2
    <3> QED BY <1>2, <1>4, <2>4, <2>5, <3>1 DEF Decodes
  <2>6. CASE b # "lf"
    <3>1. ControlByte(d, b).dropping = TRUE /\ ControlByte(d, b).current = <<>>
      <4>1. (b # "lf") = TRUE
        BY <2>6
      <4>2. ControlByte(d, b).dropping = (b # "lf") /\ ControlByte(d, b).current = <<>>
        BY <2>3
      <4> QED BY <4>1, <4>2
    <3> QED BY <1>1, <1>2, <1>4, <1>5, <2>4, <2>6, <3>1 DEF Decodes
  <2> QED BY <2>5, <2>6
<1>6. CASE Unfinished(s) = MaxLine
  <2>1. d.dropping = FALSE /\ d.current = Rest(s)
    BY <1>1, <1>2, <1>6 DEF Decodes
  <2>2. ControlByte(d, b) = [current |-> <<>>, dropping |-> b # "lf", out |-> Append(d.out, Failed)]
    BY <1>1, <1>2, <1>6, <2>1 DEF ControlByte
  <2>3. ControlByte(d, b).out = ControlGrown(d.out, s, b)
    BY <1>2, <1>6, <2>2 DEF ControlGrown
  <2>4. CASE b = "lf"
    <3>1. ControlByte(d, b).dropping = FALSE /\ ControlByte(d, b).current = <<>>
      <4>1. (b # "lf") = FALSE
        BY <2>4
      <4>2. ControlByte(d, b).dropping = (b # "lf") /\ ControlByte(d, b).current = <<>>
        BY <2>2
      <4> QED BY <4>1, <4>2
    <3> QED BY <1>2, <1>4, <2>3, <2>4, <3>1 DEF Decodes
  <2>5. CASE b # "lf"
    <3>1. ControlByte(d, b).dropping = TRUE /\ ControlByte(d, b).current = <<>>
      <4>1. (b # "lf") = TRUE
        BY <2>5
      <4>2. ControlByte(d, b).dropping = (b # "lf") /\ ControlByte(d, b).current = <<>>
        BY <2>2
      <4> QED BY <4>1, <4>2
    <3> QED BY <1>1, <1>2, <1>4, <1>6, <2>3, <2>5, <3>1 DEF Decodes
  <2> QED BY <2>4, <2>5
<1>7. CASE Unfinished(s) < MaxLine
  <2>1. d.dropping = FALSE /\ d.current = Rest(s)
    BY <1>1, <1>2, <1>7 DEF Decodes
  <2>2. CASE b = "lf"
    <3>1. ControlByte(d, b) = [d EXCEPT !.current = <<>>, !.out = Append(@, ControlText(d.current))]
      BY <1>1, <1>2, <1>7, <2>1, <2>2 DEF ControlByte
    <3>2. ControlByte(d, b) = [current |-> <<>>, dropping |-> FALSE,
                               out |-> Append(d.out, ControlText(Rest(s)))]
      BY <1>3, <2>1, <3>1
    <3>3. ControlByte(d, b).out = ControlGrown(d.out, s, b)
      <4>1. ControlByte(d, b).out = Append(d.out, ControlText(Rest(s)))
        BY <3>2
      <4>2. ~ (Unfinished(s) > MaxLine) /\ Unfinished(s) # MaxLine
        BY <1>1, <1>2, <1>7
      <4> QED BY <2>2, <4>1, <4>2 DEF ControlGrown
    <3> QED BY <1>2, <1>4, <2>2, <3>2, <3>3 DEF Decodes
  <2>3. CASE b # "lf"
    <3>1. ControlByte(d, b) = [d EXCEPT !.current = Append(@, b)]
      BY <1>1, <1>2, <1>7, <2>1, <2>3 DEF ControlByte
    <3>2. ControlByte(d, b) = [current |-> Append(Rest(s), b), dropping |-> FALSE, out |-> d.out]
      BY <1>3, <2>1, <3>1
    <3> QED BY <1>1, <1>2, <1>4, <1>7, <2>3, <3>2 DEF Decodes, ControlGrown
  <2> QED BY <2>2, <2>3
<1> QED BY <1>1, <1>2, <1>5, <1>6, <1>7

\* A packet adds to the lines and errors what the application gets of it.
LEMMA ControlReads ==
  ASSUME NEW s \in Seq(Byte), NEW d \in ControlDecoder, Decodes(d, s), d.out = <<>>,
         NEW p \in Seq(Byte), NEW lines \in Seq(ControlTexts), lines = ControlLinesOf(s)
  PROVE  LET e == ControlFeed(d, p) IN
         /\ e \in ControlDecoder /\ Decodes(e, s \o p)
         /\ lines \o e.out \in Seq(ControlTexts) /\ lines \o e.out = ControlLinesOf(s \o p)
<1> DEFINE
  n == Len(p)
  upto(k) == s \o SubSeq(p, 1, k)
<1>0. lines \in Seq(ControlTexts)
  OBVIOUS
<1>1. /\ n \in Nat /\ s \o p \in Seq(Byte)
      /\ upto(0) = s /\ upto(n) = s \o p
      /\ \A k \in 0..(n - 1) : upto(k + 1) = Append(upto(k), p[k + 1]) /\ p[k + 1] \in Byte
  <2>1. n \in Nat /\ s \o p \in Seq(Byte) /\ \A k \in 0..(n - 1) : p[k + 1] \in Byte
    OBVIOUS
  <2> QED BY <2>1, ReadByByte
<1>2. \A x \in ControlDecoder : \A b \in Byte : ControlByte(x, b) \in ControlDecoder
  <2> TAKE x \in ControlDecoder
  <2> TAKE b \in Byte
  <2>1. /\ x.current \in Seq(Byte) /\ x.dropping \in BOOLEAN /\ x.out \in Seq(ControlTexts)
        /\ <<>> \in Seq(Byte) /\ (b # "lf") \in BOOLEAN
    BY DEF ControlDecoder
  <2>2. ControlText(x.current) \in ControlTexts /\ Failed \in ControlTexts
    BY <2>1 DEF ControlTexts
  <2>3. /\ Append(x.out, ControlText(x.current)) \in Seq(ControlTexts)
        /\ Append(x.out, Failed) \in Seq(ControlTexts)
        /\ Append(x.current, b) \in Seq(Byte)
    BY <2>1, <2>2
  <2>4. [x EXCEPT !.dropping = b # "lf"] \in ControlDecoder
    BY <2>1 DEF ControlDecoder
  <2>5. [current |-> <<>>, dropping |-> b # "lf", out |-> Append(x.out, Failed)] \in ControlDecoder
    BY <2>1, <2>3 DEF ControlDecoder
  <2>6. [x EXCEPT !.current = <<>>, !.out = Append(@, ControlText(x.current))] \in ControlDecoder
    BY <2>1, <2>3 DEF ControlDecoder
  <2>7. [x EXCEPT !.current = Append(@, b)] \in ControlDecoder
    BY <2>3 DEF ControlDecoder
  <2> QED BY <2>4, <2>5, <2>6, <2>7 DEF ControlByte
<1>3. PICK f \in [0..n -> ControlDecoder] : ControlSteps(f, d, p)
  <2> HIDE DEF ControlDecoder
  <2> QED BY <1>2, ControlFold
<1> DEFINE
  Reads(k) == /\ upto(k) \in Seq(Byte) /\ Decodes(f[k], upto(k))
              /\ lines \o f[k].out = ControlLinesOf(upto(k))
  T == {k \in 0..n : Reads(k)}
<1>4. 0 \in T
  <2>1. lines \o <<>> = lines
    BY ConcatEmptySeq
  <2>2. Reads(0)
    <3>1. f[0].out = <<>> /\ Decodes(f[0], s)
      BY <1>3 DEF ControlSteps
    <3> HIDE DEF upto
    <3> QED BY <1>1, <2>1, <3>1
  <2>3. 0 \in 0..n
    BY <1>1
  <2> HIDE DEF Reads
  <2> QED BY <2>2, <2>3
<1>5. \A k \in 0..(n - 1) : k \in T => k + 1 \in T
  <2> TAKE k \in 0..(n - 1)
  <2> HAVE k \in T
  <2> DEFINE
    t == upto(k)
    b == p[k + 1]
    x == f[k]
  <2>1. /\ k \in 0..n /\ k + 1 \in 0..n /\ b \in Byte /\ x \in ControlDecoder
        /\ upto(k + 1) = Append(t, b) /\ f[k + 1] = ControlByte(x, b)
    <3>1. k \in 0..n /\ k + 1 \in 0..n
      BY <1>1
    <3> HIDE DEF upto, T, ControlDecoder
    <3> QED BY <1>1, <1>3, <3>1 DEF ControlSteps
  <2>2. t \in Seq(Byte) /\ Decodes(x, t) /\ lines \o x.out = ControlLinesOf(t)
    OBVIOUS
  <2> HIDE DEF t, b, x, T, upto
  <2>3. x.out \in Seq(ControlTexts) /\ ControlText(Rest(t)) \in ControlTexts /\ Failed \in ControlTexts
    BY <2>1, <2>2, RestIs DEF ControlDecoder, ControlTexts
  <2>4. ControlLinesOf(Append(t, b)) = ControlGrown(ControlLinesOf(t), t, b)
    BY <2>1, <2>2, ControlLinesGrow
  <2>5. /\ Decodes(ControlByte(x, b), Append(t, b))
        /\ ControlByte(x, b).out = ControlGrown(x.out, t, b)
    BY <2>1, <2>2, ControlByteIs
  <2>6. lines \o ControlGrown(x.out, t, b) = ControlGrown(lines \o x.out, t, b)
    <3>1. /\ lines \o Append(x.out, ControlText(Rest(t))) = Append(lines \o x.out, ControlText(Rest(t)))
          /\ lines \o Append(x.out, Failed) = Append(lines \o x.out, Failed)
      <4> DEFINE o == x.out  v == ControlText(Rest(t))
      <4>1. /\ lines \in Seq(ControlTexts) /\ o \in Seq(ControlTexts)
            /\ v \in ControlTexts /\ Failed \in ControlTexts
        BY <1>0, <2>3
      <4> HIDE DEF o, v, ControlTexts
      <4>2. lines \o Append(o, v) = Append(lines \o o, v)
        BY <4>1, AppendConcat
      <4>3. lines \o Append(o, Failed) = Append(lines \o o, Failed)
        BY <4>1, AppendConcat
      <4> QED BY <4>2, <4>3 DEF o, v
    <3> QED BY <3>1 DEF ControlGrown
  <2>7. lines \o ControlByte(x, b).out = ControlLinesOf(Append(t, b))
    BY <2>2, <2>4, <2>5, <2>6
  <2>8. Append(t, b) \in Seq(Byte)
    BY <2>1, <2>2
  <2>9. Reads(k + 1)
    BY <2>1, <2>5, <2>7, <2>8
  <2> QED BY <2>1, <2>9 DEF T
<1>6. n \in T
  <2>1. n \in Nat
    BY <1>1
  <2> HIDE DEF T, n
  <2>2. 0..n \subseteq T
    BY <2>1, <1>4, <1>5, NatInductionSet
  <2> QED BY <2>1, <2>2
<1>7. f[n] \in ControlDecoder /\ f[n].out \in Seq(ControlTexts)
  BY <1>1, <1>3 DEF ControlDecoder
<1>8. lines \o f[n].out \in Seq(ControlTexts)
  BY <1>7
<1> QED BY <1>1, <1>3, <1>6, <1>7, <1>8 DEF ControlSteps

------------------------------------------------------------------------------
(* The node *)

NodeTexts == Seq(Byte)
NodeDecoder == [current : Seq(Byte), dropping : BOOLEAN, lines : Seq(NodeTexts)]
NodeLinesOf(s, at) == InOrder([e \in Taken(s, at) |-> Line(s, e)])

\* The packets at began within s.
StartsIn(at, s) == \A r \in at : r \in 0..Len(s)

\* What a queue holds when it was offered k lines.
Held(k) == IF k < Queue THEN k ELSE Queue

\* The legal lines that have ended in the packet that is being read.
Here(s, at) == {l \in Legal(s) : Max(at) < l}

\* What byte b after stream s adds to the lines q, when k legal lines have ended
\* in its packet.
NodeGrown(q, s, b, k) ==
  IF b = "lf" /\ Unfinished(s) < MaxLine /\ k < Queue THEN Append(q, Rest(s)) ELSE q

\* The legal lines lie within the stream, and sets of them are finite.
LEMMA LegalIn ==
  ASSUME NEW s \in Seq(Byte)
  PROVE  /\ \A e \in Legal(s) : e \in 1..Len(s)
         /\ \A S \in SUBSET Legal(s) : IsFiniteSet(S) /\ Cardinality(S) \in Nat
<1>1. Len(s) \in Nat /\ \A e \in Legal(s) : e \in 1..Len(s)
  BY EndsIn DEF Legal
<1>2. ASSUME NEW S \in SUBSET Legal(s) PROVE IsFiniteSet(S)
  <2>1. S \in SUBSET Nat /\ \A i \in S : i <= Len(s)
    BY <1>1
  <2> QED BY <1>1, <2>1, FS_BoundedSetOfNaturals
<1> QED BY <1>1, <1>2, FS_CardinalityType

\* A line is taken, once it has ended, if the queue has room for it; what was
\* taken of the lines before stays so.
LEMMA TakenGrows ==
  ASSUME NEW s \in Seq(Byte), NEW b \in Byte,
         NEW at, at # {}, StartsIn(at, s)
  PROVE  LET t  == Append(s, b)
             m  == Len(s) + 1
             k  == Cardinality(Here(s, at))
             ok == b = "lf" /\ Unfinished(s) < MaxLine
         IN  /\ k \in Nat
             /\ Taken(t, at) = IF ok /\ k < Queue THEN Taken(s, at) \cup {m} ELSE Taken(s, at)
             /\ Cardinality(Here(t, at)) = IF ok THEN k + 1 ELSE k
<1> DEFINE
  t == Append(s, b)
  m == Len(s) + 1
  k == Cardinality(Here(s, at))
  Upto(u, e) == {l \in Legal(u) : PacketStart(at, e) < l /\ l <= e}
<1>1. /\ m \in Nat /\ \A e \in Legal(s) : e \in Nat /\ e < m
      /\ t \in Seq(Byte)
  BY LegalIn
<1>2. /\ b = "lf" /\ Unfinished(s) < MaxLine => Legal(t) = Legal(s) \cup {m}
      /\ ~ (b = "lf" /\ Unfinished(s) < MaxLine) => Legal(t) = Legal(s)
  BY LegalGrows
<1>3. Max(at) \in at /\ Max(at) \in Nat /\ Max(at) < m
  <2>1. at \subseteq 0..Len(s) /\ Len(s) \in Nat
    BY DEF StartsIn
  <2>2. Max(at) \in at
    BY <2>1, MaxUpTo
  <2>3. Max(at) \in 0..Len(s)
    BY <2>2 DEF StartsIn
  <2> HIDE DEF t, k
  <2> QED BY <2>1, <2>2, <2>3
<1>4. PacketStart(at, m) = Max(at)
  <2>1. {r \in at : r < m} = at
    BY DEF StartsIn
  <2> QED BY <2>1 DEF PacketStart
<1>5. k \in Nat /\ IsFiniteSet(Here(s, at))
  <2>1. Here(s, at) \in SUBSET Legal(s)
    BY DEF Here
  <2> QED BY <2>1, LegalIn
<1> HIDE DEF t, m, k
<1>6. ASSUME NEW e \in Legal(s) PROVE Upto(t, e) = Upto(s, e)
  BY <1>1, <1>2
<1>7. ASSUME NEW e \in Legal(s)
      PROVE  e \in Taken(t, at) <=> e \in Taken(s, at)
  <2>1. e \in Taken(t, at) <=> e \in Legal(t) /\ Cardinality(Upto(t, e)) <= Queue
    BY DEF Taken
  <2>2. e \in Taken(s, at) <=> e \in Legal(s) /\ Cardinality(Upto(s, e)) <= Queue
    BY DEF Taken
  <2> HIDE DEF Upto
  <2> QED BY <1>2, <1>6, <2>1, <2>2
<1>8. CASE b = "lf" /\ Unfinished(s) < MaxLine
  <2>1. Here(t, at) = Here(s, at) \cup {m} /\ m \notin Here(s, at)
    BY <1>1, <1>2, <1>3, <1>8 DEF Here
  <2>2. Cardinality(Here(t, at)) = k + 1
    BY <1>5, <2>1, FS_AddElement DEF k
  <2>3. Upto(t, m) = Here(t, at)
    BY <1>1, <1>2, <1>4, <1>8 DEF Here
  <2>4. m \in Taken(t, at) <=> k < Queue
    <3>1. m \in Taken(t, at) <=> m \in Legal(t) /\ Cardinality(Upto(t, m)) <= Queue
      BY DEF Taken
    <3>2. m \in Legal(t) /\ Queue \in Nat
      BY <1>2, <1>8, FramingAssumption
    <3> HIDE DEF Upto
    <3> QED BY <1>5, <2>2, <2>3, <3>1, <3>2
  <2>5. ASSUME NEW e
        PROVE  e \in Taken(t, at) <=> e \in Taken(s, at) \/ (e = m /\ k < Queue)
    <3>1. e \in Taken(t, at) => e \in Legal(t)
      BY DEF Taken
    <3>2. e \in Taken(s, at) => e \in Legal(s)
      BY DEF Taken
    <3> QED BY <1>2, <1>7, <1>8, <2>4, <3>1, <3>2
  <2>6. Taken(t, at) = IF k < Queue THEN Taken(s, at) \cup {m} ELSE Taken(s, at)
    BY <2>5
  <2> QED BY <1>5, <1>8, <2>2, <2>6 DEF t, m, k
<1>9. CASE ~ (b = "lf" /\ Unfinished(s) < MaxLine)
  <2>1. Here(t, at) = Here(s, at)
    BY <1>2, <1>9 DEF Here
  <2>2. ASSUME NEW e PROVE e \in Taken(t, at) <=> e \in Taken(s, at)
    <3>1. e \in Taken(t, at) => e \in Legal(t)
      BY DEF Taken
    <3>2. e \in Taken(s, at) => e \in Legal(s)
      BY DEF Taken
    <3> QED BY <1>2, <1>7, <1>9, <3>1, <3>2
  <2>3. Taken(t, at) = Taken(s, at)
    BY <2>2
  <2> QED BY <1>5, <1>9, <2>1, <2>3 DEF t, m, k
<1> QED BY <1>8, <1>9

\* A new packet changes nothing of what was taken, and no line has ended in it.
LEMMA TakenStarts ==
  ASSUME NEW s \in Seq(Byte), NEW at, StartsIn(at, s)
  PROVE  LET new == at \cup {Len(s)} IN
         /\ Taken(s, new) = Taken(s, at)
         /\ Here(s, new) = {}
<1> DEFINE
  n == Len(s)
  new == at \cup {n}
<1>1. n \in Nat /\ \A e \in Legal(s) : e \in Nat /\ e <= n
  BY LegalIn
<1>2. Max(new) = n
  <2>1. new \subseteq Nat /\ n \in new /\ \A r \in new : r <= n
    BY DEF StartsIn
  <2> HIDE DEF new, n
  <2> QED BY <2>1, MaxIs
<1> HIDE DEF n
<1>3. Here(s, new) = {}
  BY <1>1, <1>2 DEF Here
<1>4. ASSUME NEW e \in Legal(s) PROVE PacketStart(new, e) = PacketStart(at, e)
  <2>1. {r \in new : r < e} = {r \in at : r < e}
    BY <1>1
  <2> QED BY <2>1 DEF PacketStart
<1>5. ASSUME NEW e PROVE e \in Taken(s, new) <=> e \in Taken(s, at)
  BY <1>4 DEF Taken
<1>6. Taken(s, new) = Taken(s, at)
  BY <1>5
<1> QED BY <1>3, <1>6 DEF n

\* A byte ends a line the node takes, or it changes nothing of those.
LEMMA NodeLinesGrow ==
  ASSUME NEW s \in Seq(Byte), NEW b \in Byte,
         NEW at, at # {}, StartsIn(at, s)
  PROVE  NodeLinesOf(Append(s, b), at) =
           NodeGrown(NodeLinesOf(s, at), s, b, Cardinality(Here(s, at)))
<1> DEFINE
  t == Append(s, b)
  m == Len(s) + 1
  k == Cardinality(Here(s, at))
  f == [e \in Taken(s, at) |-> Line(s, e)]
  h == [e \in Taken(t, at) |-> Line(t, e)]
<1>1. /\ m \in Nat \ {0}
      /\ \A e \in Taken(s, at) : e \in 0..(m - 1) /\ e # m /\ e \in LineEnds(s)
  BY EndsIn DEF Taken, Legal
<1>2. /\ \A e \in LineEnds(s) : Line(t, e) = Line(s, e)
      /\ b = "lf" => Line(t, m) = Rest(s)
  BY LinesGrow
<1>3. /\ (b = "lf" /\ Unfinished(s) < MaxLine) /\ k < Queue => Taken(t, at) = Taken(s, at) \cup {m}
      /\ ~ (b = "lf" /\ Unfinished(s) < MaxLine /\ k < Queue) => Taken(t, at) = Taken(s, at)
  BY TakenGrows
<1> HIDE DEF t, m, k
<1>4. CASE b = "lf" /\ Unfinished(s) < MaxLine /\ k < Queue
  <2>1. h = Extended(f, m, Rest(s))
    <3>1. \A e \in Taken(t, at) : h[e] = IF e = m THEN Rest(s) ELSE f[e]
      BY <1>1, <1>2, <1>3, <1>4
    <3> QED BY <1>3, <1>4, <3>1 DEF Extended
  <2>2. DOMAIN f \subseteq 0..(m - 1)
    BY <1>1
  <2>3. InOrder(h) = Append(InOrder(f), Rest(s))
    <3> HIDE DEF f, h
    <3> QED BY <1>1, <2>1, <2>2, InOrderAppend
  <2> QED BY <1>4, <2>3 DEF NodeLinesOf, NodeGrown, t, k
<1>5. CASE ~ (b = "lf" /\ Unfinished(s) < MaxLine /\ k < Queue)
  <2>1. h = f
    BY <1>1, <1>2, <1>3, <1>5
  <2> QED BY <1>5, <2>1 DEF NodeLinesOf, NodeGrown, t, k
<1> QED BY <1>4, <1>5

\* After one more byte the node's decoder holds what it should of the longer
\* stream, and it has queued the line the byte ended, if there was room.
LEMMA NodeByteIs ==
  ASSUME NEW s \in Seq(Byte), NEW d \in NodeDecoder, NEW b \in Byte, Decodes(d, s),
         NEW k \in Nat, Len(d.lines) = Held(k)
  PROVE  /\ Decodes(NodeByte(d, b), Append(s, b))
         /\ NodeByte(d, b).lines = NodeGrown(d.lines, s, b, k)
<1>1. Rest(s) \in Seq(Byte) /\ Len(Rest(s)) = Unfinished(s) /\ Unfinished(s) \in Nat
  BY RestIs
<1>2. MaxLine \in Nat \ {0} /\ Queue \in Nat \ {0}
  BY FramingAssumption
<1>3. d = [current |-> d.current, dropping |-> d.dropping, lines |-> d.lines]
  BY DEF NodeDecoder
<1>4. /\ b = "lf" => Unfinished(Append(s, b)) = 0 /\ Rest(Append(s, b)) = <<>>
      /\ b # "lf" => /\ Unfinished(Append(s, b)) = Unfinished(s) + 1
                     /\ Rest(Append(s, b)) = Append(Rest(s), b)
  BY LinesGrow
<1>5. CASE Unfinished(s) >= MaxLine
  <2>1. NodeByte(d, b) = [current |-> <<>>, dropping |-> b # "lf", lines |-> d.lines]
    <3>1. CASE Unfinished(s) > MaxLine
      <4>1. d.dropping = TRUE /\ d.current = <<>>
        BY <1>1, <1>2, <3>1 DEF Decodes
      <4>2. NodeByte(d, b) = [d EXCEPT !.dropping = b # "lf"]
        BY <4>1 DEF NodeByte
      <4> QED BY <1>3, <4>1, <4>2
    <3>2. CASE Unfinished(s) = MaxLine
      <4>1. d.dropping = FALSE /\ d.current = Rest(s)
        BY <1>1, <1>2, <3>2 DEF Decodes
      <4>2. NodeByte(d, b) = [d EXCEPT !.current = <<>>, !.dropping = b # "lf"]
        BY <1>1, <3>2, <4>1 DEF NodeByte
      <4> QED BY <1>3, <4>2
    <3> QED BY <1>1, <1>2, <1>5, <3>1, <3>2
  <2>2. NodeByte(d, b).lines = NodeGrown(d.lines, s, b, k)
    <3>1. ~ (Unfinished(s) < MaxLine)
      BY <1>1, <1>2, <1>5
    <3> QED BY <2>1, <3>1 DEF NodeGrown
  <2>3. NodeByte(d, b).dropping = (b # "lf") /\ NodeByte(d, b).current = <<>>
    BY <2>1
  <2>4. CASE b = "lf"
    <3>1. (b # "lf") = FALSE
      BY <2>4
    <3>2. NodeByte(d, b).dropping = FALSE /\ NodeByte(d, b).current = <<>>
      BY <2>3, <3>1
    <3> QED BY <1>2, <1>4, <2>2, <2>4, <3>2 DEF Decodes
  <2>5. CASE b # "lf"
    <3>1. (b # "lf") = TRUE
      BY <2>5
    <3>2. NodeByte(d, b).dropping = TRUE /\ NodeByte(d, b).current = <<>>
      BY <2>3, <3>1
    <3>3. Unfinished(Append(s, b)) > MaxLine
      BY <1>1, <1>2, <1>4, <1>5, <2>5
    <3> QED BY <1>1, <1>2, <1>4, <2>2, <2>5, <3>2, <3>3 DEF Decodes
  <2> QED BY <2>4, <2>5
<1>6. CASE Unfinished(s) < MaxLine
  <2>1. d.dropping = FALSE /\ d.current = Rest(s)
    BY <1>1, <1>2, <1>6 DEF Decodes
  <2>2. CASE b = "lf"
    <3>1. NodeByte(d, b) = [d EXCEPT !.current = <<>>,
                              !.lines = IF Len(@) < Queue THEN Append(@, d.current) ELSE @]
      BY <1>1, <1>2, <1>6, <2>1, <2>2 DEF NodeByte
    <3>2. NodeByte(d, b) = [current |-> <<>>, dropping |-> FALSE,
                            lines |-> IF Len(d.lines) < Queue
                                      THEN Append(d.lines, Rest(s)) ELSE d.lines]
      BY <1>3, <2>1, <3>1
    <3>3. Len(d.lines) < Queue <=> k < Queue
      BY <1>2 DEF Held
    <3>5. NodeByte(d, b).lines = IF k < Queue THEN Append(d.lines, Rest(s)) ELSE d.lines
      BY <3>2, <3>3
    <3>4. NodeByte(d, b).lines = NodeGrown(d.lines, s, b, k)
      BY <1>6, <2>2, <3>5 DEF NodeGrown
    <3> QED BY <1>2, <1>4, <2>2, <3>2, <3>4 DEF Decodes
  <2>3. CASE b # "lf"
    <3>1. NodeByte(d, b) = [d EXCEPT !.current = Append(@, b)]
      BY <1>1, <1>2, <1>6, <2>1, <2>3 DEF NodeByte
    <3>2. NodeByte(d, b) = [current |-> Append(Rest(s), b), dropping |-> FALSE, lines |-> d.lines]
      BY <1>3, <2>1, <3>1
    <3> QED BY <1>1, <1>2, <1>4, <1>6, <2>3, <3>2 DEF Decodes, NodeGrown
  <2> QED BY <2>2, <2>3
<1> QED BY <1>1, <1>2, <1>5, <1>6

\* d has read s in the packets at, and lines were taken of it.
NodeHas(d, s, at, lines) ==
  /\ d \in NodeDecoder /\ Decodes(d, s)
  /\ lines \in Seq(NodeTexts) /\ lines = NodeLinesOf(s, at)

\* A packet adds to the lines what the node takes of it.
LEMMA NodeReads ==
  ASSUME NEW s \in Seq(Byte), NEW at, StartsIn(at, s), NEW p \in Seq(Byte),
         NEW d, d.lines = <<>>, NEW lines, NodeHas(d, s, at, lines)
  PROVE  LET e == NodeFeed(d, p)
         IN  NodeHas(e, s \o p, at \cup {Len(s)}, lines \o e.lines)
<1> DEFINE
  n == Len(p)
  upto(k) == s \o SubSeq(p, 1, k)
<1>0. /\ d \in NodeDecoder /\ Decodes(d, s)
      /\ lines \in Seq(NodeTexts) /\ lines = NodeLinesOf(s, at)
  BY DEF NodeHas
<1>1. /\ n \in Nat /\ s \o p \in Seq(Byte)
      /\ upto(0) = s /\ upto(n) = s \o p
      /\ \A k \in 0..(n - 1) : upto(k + 1) = Append(upto(k), p[k + 1]) /\ p[k + 1] \in Byte
  <2>1. n \in Nat /\ s \o p \in Seq(Byte) /\ \A k \in 0..(n - 1) : p[k + 1] \in Byte
    OBVIOUS
  <2> QED BY <2>1, ReadByByte
<1> DEFINE
  new == at \cup {Len(s)}
  ended(k) == Cardinality(Here(upto(k), new))
<1>2. \A x \in NodeDecoder : \A b \in Byte : NodeByte(x, b) \in NodeDecoder
  <2> TAKE x \in NodeDecoder
  <2> TAKE b \in Byte
  <2>1. /\ x.current \in Seq(Byte) /\ x.dropping \in BOOLEAN /\ x.lines \in Seq(NodeTexts)
        /\ <<>> \in Seq(Byte) /\ (b # "lf") \in BOOLEAN
    BY DEF NodeDecoder
  <2>2. Append(x.lines, x.current) \in Seq(NodeTexts) /\ Append(x.current, b) \in Seq(Byte)
    <3>1. x.current \in NodeTexts
      BY <2>1 DEF NodeTexts
    <3> QED BY <2>1, <3>1
  <2>3. [x EXCEPT !.dropping = b # "lf"] \in NodeDecoder
    BY <2>1 DEF NodeDecoder
  <2>4. [x EXCEPT !.current = <<>>, !.dropping = b # "lf"] \in NodeDecoder
    BY <2>1 DEF NodeDecoder
  <2>5. [x EXCEPT !.current = <<>>,
                  !.lines = IF Len(@) < Queue THEN Append(@, x.current) ELSE @] \in NodeDecoder
    BY <2>1, <2>2 DEF NodeDecoder
  <2>6. [x EXCEPT !.current = Append(@, b)] \in NodeDecoder
    BY <2>2 DEF NodeDecoder
  <2> QED BY <2>3, <2>4, <2>5, <2>6 DEF NodeByte
<1>3. PICK f \in [0..n -> NodeDecoder] : NodeSteps(f, d, p)
  <2> HIDE DEF NodeDecoder
  <2> QED BY <1>0, <1>2, NodeFold
<1> DEFINE
  Reads(k) == /\ upto(k) \in Seq(Byte) /\ Len(s) <= Len(upto(k))
              /\ Decodes(f[k], upto(k))
              /\ Len(f[k].lines) = Held(ended(k))
              /\ lines \o f[k].lines = NodeLinesOf(upto(k), new)
  T == {k \in 0..n : Reads(k)}
<1>4. 0 \in T
  <2>1. lines \o <<>> = lines
    <3>1. lines \in Seq(NodeTexts)
      BY <1>0
    <3> QED BY <3>1, ConcatEmptySeq
  <2>2. Taken(s, new) = Taken(s, at) /\ Here(s, new) = {}
    BY TakenStarts
  <2>3. lines = NodeLinesOf(s, new)
    BY <1>0, <2>2 DEF NodeLinesOf
  <2>4. ended(0) = 0
    BY <1>1, <2>2, FS_EmptySet
  <2>5. Reads(0)
    <3>1. f[0].lines = <<>> /\ Decodes(f[0], s)
      BY <1>0, <1>3 DEF NodeSteps
    <3>2. Held(0) = 0 /\ Len(s) <= Len(s) /\ s \in Seq(Byte) /\ Len(<<>>) = 0
      BY FramingAssumption DEF Held
    <3> HIDE DEF upto, new, ended
    <3> QED BY <1>1, <2>1, <2>3, <2>4, <3>1, <3>2
  <2>6. 0 \in 0..n
    BY <1>1
  <2> HIDE DEF Reads
  <2> QED BY <2>5, <2>6
<1>5. \A k \in 0..(n - 1) : k \in T => k + 1 \in T
  <2> TAKE k \in 0..(n - 1)
  <2> HAVE k \in T
  <2> DEFINE
    t == upto(k)
    b == p[k + 1]
    x == f[k]
    c == ended(k)
  <2>1. /\ k \in 0..n /\ k + 1 \in 0..n /\ b \in Byte /\ x \in NodeDecoder
        /\ upto(k + 1) = Append(t, b) /\ f[k + 1] = NodeByte(x, b)
    <3>1. k \in 0..n /\ k + 1 \in 0..n
      BY <1>1
    <3> HIDE DEF upto, T, NodeDecoder
    <3> QED BY <1>1, <1>3, <3>1 DEF NodeSteps
  <2>2. /\ t \in Seq(Byte) /\ Len(s) <= Len(t) /\ Decodes(x, t)
        /\ Len(x.lines) = Held(c) /\ lines \o x.lines = NodeLinesOf(t, new)
        /\ c = Cardinality(Here(t, new))
    OBVIOUS
  <2> HIDE DEF t, b, x, c, T, upto, Reads
  <2>3. new # {} /\ StartsIn(new, t)
    <3>1. Len(s) \in Nat /\ Len(t) \in Nat
      BY <2>2
    <3> QED BY <2>2, <3>1 DEF StartsIn
  <2> HIDE DEF new
  <2>4. /\ NodeLinesOf(Append(t, b), new) = NodeGrown(NodeLinesOf(t, new), t, b, c)
        /\ c \in Nat
        /\ Cardinality(Here(Append(t, b), new)) = IF b = "lf" /\ Unfinished(t) < MaxLine THEN c + 1 ELSE c
    BY <2>1, <2>2, <2>3, NodeLinesGrow, TakenGrows
  <2>5. /\ Decodes(NodeByte(x, b), Append(t, b))
        /\ NodeByte(x, b).lines = NodeGrown(x.lines, t, b, c)
    BY <2>1, <2>2, <2>4, NodeByteIs
  <2>6. x.lines \in Seq(NodeTexts) /\ Rest(t) \in NodeTexts /\ Queue \in Nat
    BY <2>1, <2>2, RestIs, FramingAssumption DEF NodeDecoder, NodeTexts
  <2>7. lines \o NodeGrown(x.lines, t, b, c) = NodeGrown(lines \o x.lines, t, b, c)
    <3>1. lines \o Append(x.lines, Rest(t)) = Append(lines \o x.lines, Rest(t))
      <4> DEFINE o == x.lines  v == Rest(t)
      <4>1. lines \in Seq(NodeTexts) /\ o \in Seq(NodeTexts) /\ v \in NodeTexts
        BY <1>0, <2>6
      <4> HIDE DEF o, v
      <4>2. lines \o Append(o, v) = Append(lines \o o, v)
        BY <4>1, AppendConcat
      <4> QED BY <4>2 DEF o, v
    <3> QED BY <3>1 DEF NodeGrown
  <2>8. lines \o NodeByte(x, b).lines = NodeLinesOf(Append(t, b), new)
    BY <2>2, <2>4, <2>5, <2>7
  <2>9. Len(NodeByte(x, b).lines) = Held(Cardinality(Here(Append(t, b), new)))
    <3>1. Len(Append(x.lines, Rest(t))) = Len(x.lines) + 1
      BY <2>6
    <3> QED BY SMTT(30), <2>2, <2>4, <2>5, <2>6, <3>1 DEF NodeGrown, Held
  <2>10. Append(t, b) \in Seq(Byte) /\ Len(s) <= Len(Append(t, b))
    BY <2>1, <2>2
  <2>11. Reads(k + 1)
    BY <2>1, <2>5, <2>8, <2>9, <2>10 DEF Reads
  <2> QED BY <2>1, <2>11 DEF T
<1>6. n \in T
  <2>1. n \in Nat
    BY <1>1
  <2> HIDE DEF T, n, new, upto, ended, Reads
  <2>2. 0..n \subseteq T
    BY <2>1, <1>4, <1>5, NatInductionSet
  <2> QED BY <2>1, <2>2
<1>7. f[n] \in NodeDecoder /\ f[n].lines \in Seq(NodeTexts)
  BY <1>1, <1>3 DEF NodeDecoder
<1>8. lines \o f[n].lines \in Seq(NodeTexts)
  BY <1>0, <1>7
<1> HIDE DEF new, ended
<1> QED BY <1>1, <1>3, <1>6, <1>7, <1>8 DEF NodeSteps, NodeHas, new

------------------------------------------------------------------------------
(* How many lines one packet can hold *)

\* Positions after a that are at least d apart: the k-th of them is at least
\* (k - 1) * d behind the first place.
LEMMA SpacedOut ==
  ASSUME NEW d \in Nat \ {0}, NEW a \in Nat, NEW m \in Nat,
         NEW S, \A j \in S : j \in 0..m /\ a < j,
         \A i \in S, j \in S : i < j => j - i >= d
  PROVE  \A e \in S : /\ Cardinality({j \in S : j <= e}) \in Nat
                      /\ (Cardinality({j \in S : j <= e}) - 1) * d <= e - a - 1
<1> DEFINE
  Upto(n) == {j \in S : j <= n}
  Far(e) == Cardinality(Upto(e)) \in Nat /\ (Cardinality(Upto(e)) - 1) * d <= e - a - 1
  N == {n \in 0..m : \A e \in S : e <= n => Far(e)}
<1>0. \A j \in S : j \in Nat /\ j <= m /\ a < j
  OBVIOUS
<1>1. IsFiniteSet(S)
  <2>1. S \in SUBSET Nat /\ \A i \in S : i <= m
    BY <1>0
  <2> QED BY <2>1, FS_BoundedSetOfNaturals
<1>2. ASSUME NEW n \in Nat PROVE IsFiniteSet(Upto(n)) /\ Cardinality(Upto(n)) \in Nat
  <2>1. Upto(n) \in SUBSET S
    OBVIOUS
  <2>2. IsFiniteSet(Upto(n))
    BY <1>1, <2>1, FS_Subset
  <2> QED BY <2>2, FS_CardinalityType
<1>3. 0 \in N
  BY <1>0
<1>4. \A n \in 0..(m - 1) : n \in N => n + 1 \in N
  <2> TAKE n \in 0..(m - 1)
  <2> HAVE n \in N
  <2>1. n \in Nat /\ n + 1 \in 0..m /\ \A e \in S : e <= n => Far(e)
    OBVIOUS
  <2> HIDE DEF N
  <2>2. CASE n + 1 \notin S
    <3>1. \A e \in S : e <= n + 1 => e <= n
      BY <1>0, <2>1, <2>2
    <3> HIDE DEF Far
    <3> QED BY <2>1, <3>1 DEF N
  <2>3. CASE n + 1 \in S
    <3>1. Upto(n + 1) = Upto(n) \cup {n + 1} /\ n + 1 \notin Upto(n)
      BY <1>0, <2>1, <2>3
    <3>2. Cardinality(Upto(n + 1)) = Cardinality(Upto(n)) + 1 /\ Cardinality(Upto(n)) \in Nat
      <4>1. IsFiniteSet(Upto(n)) /\ Cardinality(Upto(n)) \in Nat
        BY <1>2, <2>1
      <4> HIDE DEF Upto
      <4> QED BY <3>1, <4>1, FS_AddElement
    <3>3. Far(n + 1)
      <4>1. CASE Upto(n) = {}
        <5>1. Cardinality(Upto(n)) = 0
          BY <4>1, FS_EmptySet
        <5>2. Cardinality(Upto(n + 1)) = 1 /\ (1 - 1) * d = 0 /\ a < n + 1
          BY <1>0, <2>3, <3>2, <5>1
        <5> HIDE DEF Upto
        <5> QED BY <2>1, <5>2
      <4>2. CASE Upto(n) # {}
        <5>1. PICK e \in Upto(n) : \A i \in Upto(n) : i <= e
          <6>1. Upto(n) \subseteq 0..n
            BY <1>0, <2>1
          <6> HIDE DEF Upto
          <6> QED BY <2>1, <4>2, <6>1, MaxUpTo
        <5>2. e \in S /\ e \in Nat /\ e <= n
          BY <1>0
        <5>3. Upto(e) = Upto(n)
          <6>1. ASSUME NEW i \in S PROVE i <= e <=> i <= n
            <7>1. i \in Nat /\ (i <= n => i \in Upto(n))
              BY <1>0
            <7> HIDE DEF Upto, Far
            <7> QED BY <2>1, <5>1, <5>2, <7>1
          <6> HIDE DEF Far
          <6> QED BY <6>1
        <5>4. Far(e)
          BY <2>1, <5>2
        <5>5. (n + 1) - e >= d
          BY <2>1, <2>3, <5>2
        <5> DEFINE c == Cardinality(Upto(n))
        <5>6. c \in Nat /\ (c - 1) * d <= e - a - 1 /\ Cardinality(Upto(n + 1)) = c + 1
          BY <3>2, <5>3, <5>4
        <5> HIDE DEF c, Upto
        <5>7. ((c + 1) - 1) * d = (c - 1) * d + d
          BY <5>6
        <5>8. ((c + 1) - 1) * d <= (n + 1) - a - 1
          <6> DEFINE x == (c - 1) * d
          <6>1. x \in Int /\ x <= e - a - 1
            BY <5>6
          <6> HIDE DEF x
          <6>2. x + d <= (n + 1) - a - 1
            BY <2>1, <5>2, <5>5, <6>1
          <6> QED BY <5>7, <6>2 DEF x
        <5> QED BY <5>6, <5>8
      <4> QED BY <4>1, <4>2
    <3>4. \A e \in S : e <= n + 1 => e <= n \/ e = n + 1
      BY <1>0, <2>1
    <3> HIDE DEF Far
    <3> QED BY <2>1, <3>3, <3>4 DEF N
  <2> QED BY <2>2, <2>3
<1>5. m \in N
  <2> HIDE DEF N
  <2>1. 0..m \subseteq N
    BY <1>3, <1>4, NatInductionSet
  <2> QED BY <2>1
<1>6. \A e \in S : Far(e)
  BY <1>0, <1>5
<1> QED BY <1>6

\* Every byte of s came in a packet of at most PacketSize bytes.
InPackets(at, s) == \A e \in 1..Len(s) : \E r \in at : r < e /\ e - r <= PacketSize

\* If no line is shorter than a request, every legal line is taken.
LEMMA TakenAreLegal ==
  ASSUME NEW s \in Seq(Byte), NEW at, StartsIn(at, s), InPackets(at, s),
         \A e \in LineEnds(s) : e - LastEnd(s, e) >= MinRequest
  PROVE  Taken(s, at) = Legal(s)
<1>1. Len(s) \in Nat /\ \A e \in Legal(s) : e \in LineEnds(s) /\ e \in 1..Len(s)
  BY LegalIn DEF Legal
<1>2. ASSUME NEW e \in Legal(s) PROVE e \in Taken(s, at)
  <2> DEFINE
    a == PacketStart(at, e)
    S == {l \in Legal(s) : a < l}
    c == Cardinality({l \in S : l <= e})
  <2>1. PICK r \in at : r < e /\ e - r <= PacketSize
    BY <1>1 DEF InPackets
  <2>2. a \in Nat /\ a < e /\ e - a <= PacketSize
    <3> DEFINE R == {q \in at : q < e}
    <3>1. R \subseteq 0..Len(s) /\ r \in R
      BY <2>1 DEF StartsIn
    <3>2. Max(R) \in R /\ r <= Max(R)
      <4> HIDE DEF R
      <4> QED BY <1>1, <3>1, MaxUpTo
    <3>3. a = Max(R)
      BY DEF PacketStart
    <3>4. r \in Nat /\ a \in Nat /\ a < e /\ r <= a
      BY <3>1, <3>2, <3>3
    <3> HIDE DEF a, R
    <3> QED BY <1>1, <2>1, <3>4, FramingAssumption
  <2> HIDE DEF a
  <2>3. \A j \in S : j \in 0..Len(s) /\ a < j
    BY <1>1
  <2>4. ASSUME NEW i \in S, NEW j \in S, i < j PROVE j - i >= MinRequest
    <3>1. i \in LineEnds(s) /\ j \in LineEnds(s) /\ i \in Nat /\ j \in Nat
      BY <1>1
    <3>2. i <= LastEnd(s, j) /\ LastEnd(s, j) \in 0..Len(s)
      BY <2>4, <3>1, LastEndIs
    <3>3. j - LastEnd(s, j) >= MinRequest
      BY <3>1
    <3> HIDE DEF S
    <3> QED BY <1>1, <3>1, <3>2, <3>3, FramingAssumption
  <2>5. e \in S
    BY <2>2
  <2>6. MinRequest \in Nat \ {0}
    BY FramingAssumption
  <2>7. c \in Nat /\ (c - 1) * MinRequest <= e - a - 1
    <3> HIDE DEF S
    <3> QED BY <1>1, <2>2, <2>3, <2>4, <2>5, <2>6, SpacedOut
  <2>8. c <= Queue
    <3> DEFINE w == PacketSize - 1
               x == (c - 1) * MinRequest
    <3> HIDE DEF c, w
    <3>1. w \in Nat /\ 1 + w \div MinRequest <= Queue /\ Queue \in Nat
      BY FramingAssumption DEF w
    <3>2. x <= w
      <4>1. x \in Int /\ x <= e - a - 1
        BY <2>6, <2>7
      <4> HIDE DEF x
      <4> QED BY <1>1, <2>2, <4>1, FramingAssumption DEF w
    <3>3. c - 1 <= w \div MinRequest
      BY <2>6, <2>7, <3>1, <3>2
    <3>4. w \div MinRequest \in Nat
      BY <2>6, <3>1
    <3> QED BY <2>7, <3>1, <3>3, <3>4
  <2>9. {l \in Legal(s) : PacketStart(at, e) < l /\ l <= e} = {l \in S : l <= e}
    BY DEF a
  <2> QED BY <2>8, <2>9 DEF Taken
<1>3. \A e \in Taken(s, at) : e \in Legal(s)
  BY DEF Taken
<1> QED BY <1>2, <1>3

------------------------------------------------------------------------------
(* The invariant *)

\* The hub's decoder has read the stream,
HubInv ==
  /\ hub \in HubDecoder /\ hub.out = <<>> /\ Decodes(hub, stream)
  /\ hubLines \in Seq(HubTexts) /\ hubLines = HubLinesOf(stream)

\* the application's
ControlInv ==
  /\ control \in ControlDecoder /\ control.out = <<>> /\ Decodes(control, session)
  /\ controlLines \in Seq(ControlTexts) /\ controlLines = ControlLinesOf(session)

\* and the node's the session, in its packets.
NodeInv ==
  /\ node.lines = <<>>
  /\ NodeHas(node, session, starts, nodeLines)

BytesInv ==
  /\ stream \in Seq(Byte) /\ session \in Seq(Byte)
  /\ StartsIn(starts, session) /\ InPackets(starts, session)

FramingInv == BytesInv /\ HubInv /\ ControlInv /\ NodeInv

\* Nothing has been read.
LEMMA EmptyStream ==
  /\ NewHub \in HubDecoder /\ NewHub.out = <<>> /\ Decodes(NewHub, <<>>)
  /\ NewControl \in ControlDecoder /\ NewControl.out = <<>> /\ Decodes(NewControl, <<>>)
  /\ NewNode \in NodeDecoder /\ NewNode.lines = <<>> /\ Decodes(NewNode, <<>>)
  /\ HubLinesOf(<<>>) = <<>> /\ ControlLinesOf(<<>>) = <<>> /\ NodeLinesOf(<<>>, {}) = <<>>
  /\ StartsIn({}, <<>>) /\ InPackets({}, <<>>)
<1>1. <<>> \in Seq(Byte) /\ Len(<<>>) = 0
  OBVIOUS
<1>2. LineEnds(<<>>) = {} /\ Legal(<<>>) = {} /\ HubLegal(<<>>) = {} /\ Taken(<<>>, {}) = {}
  BY DEF LineEnds, Legal, HubLegal, Taken
<1>3. Unfinished(<<>>) = 0 /\ Rest(<<>>) = <<>>
  <2> DEFINE s == <<>>
  <2>1. s \in Seq(Byte) /\ Len(s) = 0
    BY <1>1
  <2> HIDE DEF s
  <2>2. /\ Unfinished(s) \in Nat /\ Unfinished(s) <= 0
        /\ Rest(s) \in Seq(Byte) /\ Len(Rest(s)) = Unfinished(s)
    BY <2>1, RestIs
  <2>3. Unfinished(s) = 0 /\ Rest(s) = <<>>
    BY <2>2
  <2> QED BY <2>3 DEF s
<1>4. 0 <= MaxLine /\ ~ (0 > MaxLine)
  BY FramingAssumption
<1>5. /\ NewHub \in HubDecoder /\ NewHub.out = <<>> /\ Decodes(NewHub, <<>>)
  BY <1>3, <1>4 DEF NewHub, HubDecoder, Decodes
<1>6. NewControl \in ControlDecoder /\ NewControl.out = <<>> /\ Decodes(NewControl, <<>>)
  BY <1>3, <1>4 DEF NewControl, ControlDecoder, Decodes
<1>7. NewNode \in NodeDecoder /\ NewNode.lines = <<>> /\ Decodes(NewNode, <<>>)
  BY <1>3, <1>4 DEF NewNode, NodeDecoder, Decodes
<1>8. HubLinesOf(<<>>) = <<>>
  BY <1>2, InOrderEmpty DEF HubLinesOf
<1>9. ControlLinesOf(<<>>) = <<>>
  <2>1. ControlSeen(<<>>) = <<>>
    BY <1>2, InOrderEmpty DEF ControlSeen
  <2> QED BY <1>3, <1>4, <2>1 DEF ControlLinesOf
<1>10. NodeLinesOf(<<>>, {}) = <<>>
  BY <1>2, InOrderEmpty DEF NodeLinesOf
<1>11. StartsIn({}, <<>>) /\ InPackets({}, <<>>)
  BY DEF StartsIn, InPackets
<1> QED BY <1>5, <1>6, <1>7, <1>8, <1>9, <1>10, <1>11

\* Before the first packet there is nothing.
LEMMA FramingInit == Init => FramingInv
<1> SUFFICES ASSUME Init PROVE FramingInv
  OBVIOUS
<1>1. /\ stream = <<>> /\ session = <<>> /\ starts = {}
      /\ hub = NewHub /\ hubLines = <<>> /\ node = NewNode /\ nodeLines = <<>>
      /\ control = NewControl /\ controlLines = <<>>
  BY DEF Init
<1>2. <<>> \in Seq(Byte) /\ <<>> \in Seq(HubTexts) /\ <<>> \in Seq(ControlTexts) /\ <<>> \in Seq(NodeTexts)
  OBVIOUS
<1> QED BY <1>1, <1>2, EmptyStream DEF FramingInv, BytesInv, HubInv, ControlInv, NodeInv, NodeHas

\* Each of the three decoders reads a packet as the stream demands.
LEMMA ReadKeeps ==
  ASSUME NEW p \in Packet, FramingInv, Read(p)
  PROVE  FramingInv'
<1>1. /\ p \in Seq(Byte) /\ Len(p) \in 1..PacketSize
      /\ stream \in Seq(Byte) /\ session \in Seq(Byte)
  BY PacketIsBytes DEF FramingInv, BytesInv
<1>2. /\ stream' = stream \o p /\ session' = session \o p /\ starts' = starts \cup {Len(session)}
      /\ HubRead(p) /\ NodeRead(p) /\ ControlRead(p)
  BY DEF Read
<1>3. BytesInv'
  <2>1. stream \o p \in Seq(Byte) /\ session \o p \in Seq(Byte)
        /\ Len(session \o p) = Len(session) + Len(p)
        /\ Len(session) \in Nat /\ Len(p) \in Nat /\ Len(p) <= PacketSize
    BY <1>1, FramingAssumption
  <2>2. StartsIn(starts, session) /\ InPackets(starts, session)
    BY DEF FramingInv, BytesInv
  <2>3. StartsIn(starts', session \o p)
    BY <1>2, <2>1, <2>2 DEF StartsIn
  <2>4. ASSUME NEW e \in 1..Len(session \o p)
        PROVE  \E r \in starts' : r < e /\ e - r <= PacketSize
    <3>1. CASE e <= Len(session)
      <4>1. e \in 1..Len(session)
        BY <2>1, <3>1
      <4> QED BY <1>2, <2>2, <4>1 DEF InPackets
    <3>2. CASE e > Len(session)
      <4>1. Len(session) \in starts'
        BY <1>2
      <4>2. Len(session) < e /\ e - Len(session) <= PacketSize
        BY <2>1, <3>2, FramingAssumption
      <4> QED BY <4>1, <4>2
    <3> QED BY <2>1, <3>1, <3>2
  <2> QED BY <1>2, <2>1, <2>3, <2>4 DEF BytesInv, InPackets
<1>4. HubInv'
  <2> DEFINE e == HubFeed(hub, p)
  <2>1. /\ e \in HubDecoder /\ Decodes(e, stream \o p)
        /\ hubLines \o e.out \in Seq(HubTexts) /\ hubLines \o e.out = HubLinesOf(stream \o p)
    BY <1>1, HubReads DEF FramingInv, HubInv
  <2>2. hub' = [e EXCEPT !.out = <<>>] /\ hubLines' = hubLines \o e.out
    BY <1>2 DEF HubRead
  <2> HIDE DEF e
  <2>3. [e EXCEPT !.out = <<>>] \in HubDecoder
    <3>1. <<>> \in Seq(HubTexts)
      OBVIOUS
    <3> QED BY <2>1, <3>1 DEF HubDecoder
  <2>4. hub'.out = <<>> /\ hub'.current = e.current /\ hub'.dropping = e.dropping
    BY <2>1, <2>2 DEF HubDecoder
  <2>5. Decodes(hub', stream')
    BY <1>2, <2>1, <2>4 DEF Decodes
  <2> QED BY <1>2, <2>1, <2>2, <2>3, <2>4, <2>5 DEF HubInv
<1>5. ControlInv'
  <2> DEFINE e == ControlFeed(control, p)
  <2>1. /\ e \in ControlDecoder /\ Decodes(e, session \o p)
        /\ controlLines \o e.out \in Seq(ControlTexts)
        /\ controlLines \o e.out = ControlLinesOf(session \o p)
    BY <1>1, ControlReads DEF FramingInv, ControlInv
  <2>2. control' = [e EXCEPT !.out = <<>>] /\ controlLines' = controlLines \o e.out
    BY <1>2 DEF ControlRead
  <2> HIDE DEF e
  <2>3. [e EXCEPT !.out = <<>>] \in ControlDecoder
    <3>1. <<>> \in Seq(ControlTexts)
      OBVIOUS
    <3> QED BY <2>1, <3>1 DEF ControlDecoder
  <2>4. control'.out = <<>> /\ control'.current = e.current /\ control'.dropping = e.dropping
    BY <2>1, <2>2 DEF ControlDecoder
  <2>5. Decodes(control', session')
    BY <1>2, <2>1, <2>4 DEF Decodes
  <2> QED BY <1>2, <2>1, <2>2, <2>3, <2>4, <2>5 DEF ControlInv
<1>6. NodeInv'
  <2> DEFINE e == NodeFeed(node, p)
  <2>1. NodeHas(e, session \o p, starts \cup {Len(session)}, nodeLines \o e.lines)
    BY <1>1, NodeReads DEF FramingInv, BytesInv, NodeInv
  <2>2. node' = [e EXCEPT !.lines = <<>>] /\ nodeLines' = nodeLines \o e.lines
    BY <1>2 DEF NodeRead
  <2> HIDE DEF e
  <2>3. [e EXCEPT !.lines = <<>>] \in NodeDecoder
    <3>1. <<>> \in Seq(NodeTexts)
      OBVIOUS
    <3> QED BY <2>1, <3>1 DEF NodeDecoder, NodeHas
  <2>4. node'.lines = <<>> /\ node'.current = e.current /\ node'.dropping = e.dropping
    BY <2>1, <2>2 DEF NodeDecoder, NodeHas
  <2>5. Decodes(node', session')
    BY <1>2, <2>1, <2>4 DEF Decodes, NodeHas
  <2> QED BY <1>2, <2>1, <2>2, <2>3, <2>4, <2>5 DEF NodeInv, NodeHas
<1> QED BY <1>3, <1>4, <1>5, <1>6 DEF FramingInv

\* A disconnection ends the session of two of the decoders; the hub goes on.
LEMMA DisconnectKeeps ==
  ASSUME FramingInv, Disconnect
  PROVE  FramingInv'
<1>1. /\ session' = <<>> /\ starts' = {} /\ node' = NewNode /\ nodeLines' = <<>>
      /\ control' = NewControl /\ controlLines' = <<>>
      /\ stream' = stream /\ hub' = hub /\ hubLines' = hubLines
  BY DEF Disconnect
<1>2. <<>> \in Seq(Byte) /\ <<>> \in Seq(ControlTexts) /\ <<>> \in Seq(NodeTexts)
  OBVIOUS
<1>3. HubInv'
  BY <1>1 DEF FramingInv, HubInv
<1>4. BytesInv' /\ ControlInv' /\ NodeInv'
  BY <1>1, <1>2, EmptyStream DEF FramingInv, BytesInv, ControlInv, NodeInv, NodeHas
<1> QED BY <1>3, <1>4 DEF FramingInv

\* Every step keeps the invariant.
LEMMA FramingStep == FramingInv /\ [Next]_vars => FramingInv'
<1> SUFFICES ASSUME FramingInv, [Next]_vars PROVE FramingInv'
  OBVIOUS
<1>1. ASSUME NEW p \in Packet, Read(p) PROVE FramingInv'
  BY <1>1, ReadKeeps
<1>2. CASE Disconnect
  BY <1>2, DisconnectKeeps
<1>3. CASE UNCHANGED vars
  BY <1>3 DEF vars, FramingInv, BytesInv, HubInv, ControlInv, NodeInv
<1>4. CASE Stop
  BY <1>3, <1>4 DEF Stop
<1> QED BY <1>1, <1>2, <1>3, <1>4 DEF Next

\* After every read, whatever its packets were, each decoder holds the unfinished
\* line of the bytes it has read, or knows that it is overlong; and the lines it
\* has put out are the ones the stream is cut into.
THEOREM FramingCorrect == Spec => []FramingInv
<1> QED BY FramingInit, FramingStep, PTL DEF Spec

------------------------------------------------------------------------------
(* The properties *)

\* HubLinesExact: the hub answers exactly the lines within its limit, in order
\* and each once, however the stream was cut into reads and across sessions.
THEOREM HubLinesExactCorrect == Spec => []HubLinesExact
<1>1. FramingInv => HubLinesExact
  BY DEF FramingInv, HubInv, HubLinesExact, HubLinesOf, HubLegal
<1> QED BY <1>1, FramingCorrect, PTL

\* ControlLinesExact: the application sees every line of its session in order, as
\* its text or as one error.
THEOREM ControlLinesExactCorrect == Spec => []ControlLinesExact
<1>1. FramingInv => ControlLinesExact
  BY DEF FramingInv, ControlInv, ControlLinesExact, ControlLinesOf, ControlSeen
<1> QED BY <1>1, FramingCorrect, PTL

\* NodeLinesExact: the node handles of each packet the first Queue lines within
\* its limit, and no others.
THEOREM NodeLinesExactCorrect == Spec => []NodeLinesExact
<1>1. FramingInv => NodeLinesExact
  BY DEF FramingInv, NodeInv, NodeHas, NodeLinesExact, NodeLinesOf
<1> QED BY <1>1, FramingCorrect, PTL

\* RequestsAreNotCrowdedOut: where every line is as long as a request, none is
\* lost to the node's queue.
THEOREM RequestsAreNotCrowdedOutCorrect == Spec => []RequestsAreNotCrowdedOut
<1>1. FramingInv => RequestsAreNotCrowdedOut
  <2> SUFFICES ASSUME FramingInv,
                      \A e \in LineEnds(session) : e - LastEnd(session, e) >= MinRequest
               PROVE  nodeLines = InOrder([e \in Legal(session) |-> Line(session, e)])
    BY DEF RequestsAreNotCrowdedOut
  <2>1. Taken(session, starts) = Legal(session)
    BY TakenAreLegal DEF FramingInv, BytesInv
  <2> QED BY <2>1 DEF FramingInv, NodeInv, NodeHas, NodeLinesOf
<1> QED BY <1>1, FramingCorrect, PTL

==============================================================================
