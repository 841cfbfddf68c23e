--------------------------- MODULE AdaptersProofs ---------------------------
(***************************************************************************)
(* Proofs about module Adapters, for every period, delay and document:     *)
(* only leaves are stored, timers make no bursts, and attempts to reach a  *)
(* source that is down are spaced by delays that double.                   *)
(***************************************************************************)
EXTENDS Adapters, SequenceTheorems, WellFoundedInduction, TLAPS

LEMMA AdapterBounds ==
  /\ Period \in Nat \ {0} /\ Initial \in Nat \ {0} /\ BackoffMax \in Nat \ {0}
  /\ Initial <= BackoffMax /\ MaxTime \in Nat /\ MaxSends \in Nat
  BY AdaptersAssumption

-----------------------------------------------------------------------------
(* Numbers                                                                 *)

LEMMA LeastNumber ==
  ASSUME NEW T \in SUBSET Nat, T # {}
  PROVE  \E m \in T : \A n \in T : m <= n
  <1>1. PICK m \in T : \A n \in T : ~ (<<n, m>> \in OpToRel(<, Nat))
    BY NatLessThanWellFounded, WFMin, Zenon
  <1>2. \A n \in T : ~ (n < m)
    BY <1>1 DEF OpToRel
  <1> QED
    BY <1>2

LEMMA MaxOfPair ==
  ASSUME NEW a \in Int, NEW b \in Int, NEW m, m = Max({a, b})
  PROVE  m >= a /\ m >= b /\ m \in {a, b}
  <1>1. \E x \in {a, b} : \A y \in {a, b} : x >= y
    OBVIOUS
  <1> QED
    BY <1>1 DEF Max

LEMMA MinOfPair ==
  ASSUME NEW a \in Int, NEW b \in Int, NEW m, m = Min({a, b})
  PROVE  m <= a /\ m <= b /\ m \in {a, b}
  <1>1. \E x \in {a, b} : \A y \in {a, b} : x =< y
    OBVIOUS
  <1> QED
    BY <1>1 DEF Min

(***************************************************************************)
(* The last of some positions in a sequence is one of them.                *)
(***************************************************************************)
LEMMA MaxOfPositions ==
  ASSUME NEW n \in Nat, NEW S \in SUBSET (1 .. n), S # {}
  PROVE  Max(S) \in S
  <1> DEFINE T == {k \in Nat : n - k \in S}
  <1>1. T \in SUBSET Nat /\ T # {}
    <2> PICK i \in S : TRUE
      OBVIOUS
    <2>1. i \in Nat /\ n - i \in Nat /\ n - (n - i) = i
      OBVIOUS
    <2> QED
      BY <2>1
  <1>2. PICK m \in T : \A k \in T : m <= k
    BY <1>1, LeastNumber
  <1>3. m \in Nat /\ n - m \in S
    BY <1>2
  <1>4. ASSUME NEW y \in S PROVE n - m >= y
    <2>1. y \in Nat /\ n - y \in Nat /\ n - (n - y) = y
      OBVIOUS
    <2>2. n - y \in T
      BY <2>1
    <2>3. m <= n - y
      BY <1>2, <2>2
    <2> QED
      BY <1>3, <2>1, <2>3
  <1> QED
    BY <1>3, <1>4 DEF Max

(***************************************************************************)
(* Functions on the numbers defined by recursion exist: from first, and    *)
(* from each value to the next by step.                                    *)
(***************************************************************************)
Follows(g, n, first, step) ==
    /\ g[0] = first
    /\ \A i \in 0 .. n - 1 : g[i + 1] = step[i][g[i]]

Approximations(n, first, step) ==
    {g \in [0 .. n -> Nat] : Follows(g, n, first, step)}

LEMMA ApproximationsExist ==
  ASSUME NEW first \in Nat, NEW step \in [Nat -> [Nat -> Nat]], NEW n \in Nat
  PROVE  Approximations(n, first, step) # {}
  <1> DEFINE T == {k \in Nat : Approximations(k, first, step) = {}}
  <1> SUFFICES ASSUME T # {} PROVE FALSE
    OBVIOUS
  <1>1. PICK m \in T : \A k \in T : m <= k
    BY LeastNumber
  <1>2. CASE m = 0
    <2> DEFINE g == [i \in 0 .. 0 |-> first]
    <2>1. g \in [0 .. 0 -> Nat] /\ g[0] = first
      OBVIOUS
    <2>2. Follows(g, 0, first, step)
      BY <2>1 DEF Follows
    <2> QED
      BY <1>1, <1>2, <2>1, <2>2 DEF Approximations
  <1>3. CASE m # 0
    <2>1. m \in Nat /\ m - 1 \in Nat /\ (m - 1) + 1 = m /\ ~ (m <= m - 1)
      BY <1>3
    <2>2. Approximations(m - 1, first, step) # {}
      BY <1>1, <2>1
    <2>3. PICK g \in [0 .. m - 1 -> Nat] : Follows(g, m - 1, first, step)
      BY <2>2 DEF Approximations
    <2> DEFINE h == [i \in 0 .. m |->
                       IF i = m THEN step[m - 1][g[m - 1]] ELSE g[i]]
    <2>4. g[m - 1] \in Nat /\ step[m - 1] \in [Nat -> Nat]
      <3>1. m - 1 \in 0 .. m - 1
        BY <2>1
      <3> QED
        BY <2>1, <2>3, <3>1
    <2>5. step[m - 1][g[m - 1]] \in Nat
      BY <2>4
    <2>6. h \in [0 .. m -> Nat]
      <3>1. ASSUME NEW i \in 0 .. m, i # m PROVE g[i] \in Nat
        <4>1. i \in 0 .. m - 1
          BY <2>1, <3>1
        <4> QED
          BY <2>3, <4>1
      <3> QED
        BY <2>5, <3>1
    <2>7. /\ h[m] = step[m - 1][g[m - 1]]
          /\ \A i \in 0 .. m - 1 : h[i] = g[i]
      <3>1. m \in 0 .. m
        BY <2>1
      <3>2. ASSUME NEW i \in 0 .. m - 1 PROVE h[i] = g[i]
        <4>1. i \in 0 .. m /\ i # m
          BY <2>1
        <4> QED
          BY <4>1
      <3> QED
        BY <3>1, <3>2
    <2> HIDE DEF h
    <2>8. h[0] = first
      <3>1. 0 \in 0 .. m - 1
        BY <2>1
      <3>2. h[0] = g[0] /\ g[0] = first
        BY <2>3, <2>7, <3>1 DEF Follows
      <3> QED
        BY <3>2
    <2>9. ASSUME NEW i \in 0 .. m - 1 PROVE h[i + 1] = step[i][h[i]]
      <3>1. CASE i = m - 1
        BY <2>1, <2>7, <3>1
      <3>2. CASE i < m - 1
        <4>1. i \in 0 .. (m - 1) - 1 /\ i + 1 \in 0 .. m - 1
          BY <2>1, <3>2
        <4>2. g[i + 1] = step[i][g[i]]
          BY <2>3, <4>1 DEF Follows
        <4>3. h[i + 1] = g[i + 1] /\ h[i] = g[i]
          BY <2>7, <4>1
        <4> QED
          BY <4>2, <4>3
      <3> QED
        BY <2>1, <3>1, <3>2
    <2>10. Follows(h, m, first, step)
      BY <2>8, <2>9 DEF Follows
    <2> QED
      BY <1>1, <2>6, <2>10 DEF Approximations
  <1> QED
    BY <1>2, <1>3

LEMMA ApproximationsAgree ==
  ASSUME NEW first, NEW step, NEW n \in Nat, NEW m \in Nat, n <= m
  PROVE  \A g, h : Follows(g, n, first, step) /\ Follows(h, m, first, step)
                    => g[n] = h[n]
  <1> SUFFICES ASSUME NEW g, NEW h, Follows(g, n, first, step),
                      Follows(h, m, first, step)
               PROVE  g[n] = h[n]
    OBVIOUS
  <1> DEFINE T == {k \in Nat : k <= n /\ g[k] # h[k]}
  <1> SUFFICES ASSUME g[n] # h[n] PROVE FALSE
    OBVIOUS
  <1>0. n \in T
    OBVIOUS
  <1>1. PICK k \in T : \A i \in T : k <= i
    BY <1>0, LeastNumber
  <1>2. CASE k = 0
    BY <1>1, <1>2 DEF Follows
  <1>3. CASE k # 0
    <2>1. /\ k - 1 \in Nat /\ k - 1 <= n /\ (k - 1) + 1 = k /\ ~ (k <= k - 1)
          /\ k - 1 \in 0 .. n - 1 /\ k - 1 \in 0 .. m - 1
      BY <1>1, <1>3
    <2>2. g[k - 1] = h[k - 1]
      BY <1>1, <2>1
    <2>3. g[(k - 1) + 1] = h[(k - 1) + 1]
      BY <2>1, <2>2 DEF Follows
    <2> QED
      BY <1>1, <2>1, <2>3
  <1> QED
    BY <1>2, <1>3

LEMMA RecursionExists ==
  ASSUME NEW first \in Nat, NEW step \in [Nat -> [Nat -> Nat]]
  PROVE  \E f \in [Nat -> Nat] : /\ f[0] = first
                                 /\ \A n \in Nat : f[n + 1] = step[n][f[n]]
  <1> DEFINE G(n) == CHOOSE g : g \in Approximations(n, first, step)
             f == [n \in Nat |-> G(n)[n]]
  <1>1. ASSUME NEW n \in Nat
        PROVE  G(n) \in [0 .. n -> Nat] /\ Follows(G(n), n, first, step)
    <2>1. \E g : g \in Approximations(n, first, step)
      BY ApproximationsExist
    <2>2. G(n) \in Approximations(n, first, step)
      BY <2>1
    <2> QED
      BY <2>2 DEF Approximations
  <1> HIDE DEF G
  <1>2. f \in [Nat -> Nat]
    <2>1. ASSUME NEW n \in Nat PROVE G(n)[n] \in Nat
      <3>1. n \in 0 .. n
        OBVIOUS
      <3> QED
        BY <1>1, <3>1
    <2> QED
      BY <2>1
  <1>3. f[0] = first
    BY <1>1 DEF Follows
  <1>4. ASSUME NEW n \in Nat PROVE f[n + 1] = step[n][f[n]]
    <2>1. PICK m \in Nat : m = n + 1
      OBVIOUS
    <2>2. n <= m /\ n \in 0 .. m - 1
      BY <2>1
    <2>3. Follows(G(n), n, first, step) /\ Follows(G(m), m, first, step)
      BY <1>1
    <2>4. G(n)[n] = G(m)[n]
      <3>1. n <= m
        BY <2>2
      <3>2. \A g, h : Follows(g, n, first, step) /\ Follows(h, m, first, step)
                         => g[n] = h[n]
        BY <3>1, ApproximationsAgree
      <3> QED
        BY <2>3, <3>2, Zenon
    <2>5. G(m)[n + 1] = step[n][G(m)[n]]
      BY <2>2, <2>3 DEF Follows
    <2>6. f[m] = step[n][f[n]]
      BY <2>1, <2>4, <2>5
    <2> QED
      BY <2>1, <2>6
  <1> QED
    BY <1>2, <1>3, <1>4

LEMMA RecursionUnique ==
  ASSUME NEW f, NEW h, h[0] = f[0],
         \A n \in Nat : h[n] = f[n] => h[n + 1] = f[n + 1]
  PROVE  \A n \in Nat : h[n] = f[n]
  <1> SUFFICES ASSUME NEW n \in Nat, h[n] # f[n] PROVE FALSE
    OBVIOUS
  <1> DEFINE T == {k \in Nat : h[k] # f[k]}
  <1>1. n \in T /\ T \in SUBSET Nat
    OBVIOUS
  <1>2. PICK k \in T : \A i \in T : k <= i
    BY <1>1, LeastNumber
  <1>3. k \in Nat /\ h[k] # f[k]
    BY <1>2
  <1>4. k # 0
    BY <1>3
  <1>5. k - 1 \in Nat /\ (k - 1) + 1 = k /\ ~ (k <= k - 1)
    BY <1>3, <1>4
  <1>6. h[k - 1] = f[k - 1]
    BY <1>2, <1>5
  <1>7. h[(k - 1) + 1] = f[(k - 1) + 1]
    BY <1>5, <1>6
  <1> QED
    BY <1>3, <1>5, <1>7

-----------------------------------------------------------------------------
(* The delays                                                              *)

LEMMA DoubledDoubles ==
  /\ Doubled \in [Nat -> Nat] /\ Doubled[0] = Initial
  /\ \A n \in Nat : Doubled[n + 1] = 2 * Doubled[n]
  <1> DEFINE step == [n \in Nat |-> [v \in Nat |-> 2 * v]]
             Body(g) == [i \in Nat |-> IF i = 0 THEN Initial ELSE 2 * g[i - 1]]
  <1>1. step \in [Nat -> [Nat -> Nat]] /\ Initial \in Nat
    BY AdapterBounds
  <1>2. PICK f \in [Nat -> Nat] :
           f[0] = Initial /\ \A n \in Nat : f[n + 1] = step[n][f[n]]
    <2> HIDE DEF step
    <2> QED
      BY <1>1, RecursionExists
  <1>3. \A n \in Nat : f[n + 1] = 2 * f[n]
    BY <1>2
  <1>4. f = Body(f)
    <2>1. ASSUME NEW i \in Nat
          PROVE  f[i] = IF i = 0 THEN Initial ELSE 2 * f[i - 1]
      <3>1. CASE i = 0
        BY <1>2, <3>1
      <3>2. CASE i # 0
        <4>1. i - 1 \in Nat /\ (i - 1) + 1 = i
          BY <3>2
        <4>2. f[(i - 1) + 1] = 2 * f[i - 1]
          BY <1>3, <4>1
        <4> QED
          BY <3>2, <4>1, <4>2
      <3> QED
        BY <3>1, <3>2
    <2> QED
      BY <2>1
  <1>5. Doubled = Body(Doubled)
    BY <1>4 DEF Doubled
  <1> HIDE DEF Doubled
  <1>6. Doubled[0] = Initial
    BY <1>5
  <1>7. ASSUME NEW n \in Nat PROVE Doubled[n + 1] = 2 * Doubled[n]
    <2>1. n + 1 \in Nat /\ n + 1 # 0 /\ (n + 1) - 1 = n
      OBVIOUS
    <2>2. Doubled[n + 1] = 2 * Doubled[(n + 1) - 1]
      BY <1>5, <2>1
    <2> QED
      BY <2>1, <2>2
  <1>8. \A n \in Nat : Doubled[n] = f[n]
    BY <1>2, <1>3, <1>6, <1>7, RecursionUnique
  <1>9. Doubled \in [Nat -> Nat]
    BY <1>5, <1>8
  <1> QED
    BY <1>6, <1>7, <1>9

LEMMA DelayGrows ==
  /\ \A i \in Nat \ {0} : Delay(i) \in Nat
  /\ Delay(1) = Initial
  /\ \A i \in Nat \ {0} : Delay(i + 1) = Min({2 * Delay(i), BackoffMax})
  <1>1. ASSUME NEW i \in Nat \ {0}
        PROVE  /\ Delay(i) <= Doubled[i - 1] /\ Delay(i) <= BackoffMax
               /\ Delay(i) \in {Doubled[i - 1], BackoffMax}
               /\ Doubled[i - 1] \in Nat
    <2>1. i - 1 \in Nat
      OBVIOUS
    <2>2. Doubled[i - 1] \in Nat
      BY <2>1, DoubledDoubles
    <2>3. PICK x, d : x = Doubled[i - 1] /\ d = Delay(i)
      OBVIOUS
    <2>4. d = Min({x, BackoffMax}) /\ x \in Int /\ BackoffMax \in Int
      BY <2>2, <2>3, AdapterBounds DEF Delay
    <2>5. d <= x /\ d <= BackoffMax /\ d \in {x, BackoffMax}
      BY <2>4, MinOfPair
    <2> QED
      BY <2>2, <2>3, <2>5
  <1>2. ASSUME NEW i \in Nat \ {0} PROVE Delay(i) \in Nat
    BY <1>1, AdapterBounds
  <1>3. Delay(1) = Initial
    <2>1. Doubled[1 - 1] = Initial
      BY DoubledDoubles
    <2> QED
      BY <1>1, <2>1, AdapterBounds
  <1>4. ASSUME NEW i \in Nat \ {0}
        PROVE  Delay(i + 1) = Min({2 * Delay(i), BackoffMax})
    <2>1. PICK d, e, x, m : /\ d = Delay(i) /\ e = Delay(i + 1)
                            /\ x = Doubled[i - 1]
                            /\ m = Min({2 * Delay(i), BackoffMax})
      OBVIOUS
    <2>2. i + 1 \in Nat \ {0} /\ i - 1 \in Nat /\ (i + 1) - 1 = (i - 1) + 1
      OBVIOUS
    <2>3. d <= x /\ d <= BackoffMax /\ d \in {x, BackoffMax} /\ x \in Nat
      BY <1>1, <2>1
    <2>4. Doubled[(i - 1) + 1] = 2 * x
      BY <2>1, <2>2, DoubledDoubles
    <2>5. e <= 2 * x /\ e <= BackoffMax /\ e \in {2 * x, BackoffMax}
      BY <1>1, <2>1, <2>2, <2>4
    <2>6. m <= 2 * d /\ m <= BackoffMax /\ m \in {2 * d, BackoffMax}
      BY <2>1, <2>3, AdapterBounds, MinOfPair
    <2>7. e = m
      BY <2>3, <2>5, <2>6, AdapterBounds
    <2> QED
      BY <2>1, <2>7
  <1> QED
    BY <1>2, <1>3, <1>4

LEMMA TotalDelayAdds ==
  /\ TotalDelay \in [Nat -> Nat] /\ TotalDelay[0] = 0
  /\ \A n \in Nat : TotalDelay[n + 1] = TotalDelay[n] + Delay(n + 1)
  <1> DEFINE step == [n \in Nat |-> [v \in Nat |-> v + Delay(n + 1)]]
             Body(g) == [i \in Nat |-> IF i = 0 THEN 0 ELSE g[i - 1] + Delay(i)]
  <1>0. \A n \in Nat : Delay(n + 1) \in Nat
    BY DelayGrows
  <1>1. step \in [Nat -> [Nat -> Nat]]
    BY <1>0
  <1>2. PICK f \in [Nat -> Nat] :
           f[0] = 0 /\ \A n \in Nat : f[n + 1] = step[n][f[n]]
    <2> HIDE DEF step
    <2> QED
      BY <1>1, RecursionExists
  <1>3. \A n \in Nat : f[n + 1] = f[n] + Delay(n + 1)
    BY <1>2
  <1>4. f = Body(f)
    <2>1. ASSUME NEW i \in Nat
          PROVE  f[i] = IF i = 0 THEN 0 ELSE f[i - 1] + Delay(i)
      <3>1. CASE i = 0
        BY <1>2, <3>1
      <3>2. CASE i # 0
        <4>1. PICK j \in Nat : j = i - 1 /\ j + 1 = i
          BY <3>2
        <4>2. f[j + 1] = f[j] + Delay(j + 1)
          BY <1>3
        <4> QED
          BY <3>2, <4>1, <4>2
      <3> QED
        BY <3>1, <3>2
    <2> QED
      BY <2>1
  <1>5. TotalDelay = Body(TotalDelay)
    BY <1>4 DEF TotalDelay
  <1> HIDE DEF TotalDelay
  <1>6. TotalDelay[0] = 0
    BY <1>5
  <1>7. ASSUME NEW n \in Nat
        PROVE  TotalDelay[n + 1] = TotalDelay[n] + Delay(n + 1)
    <2>1. n + 1 \in Nat /\ n + 1 # 0 /\ (n + 1) - 1 = n
      OBVIOUS
    <2>2. TotalDelay[n + 1] = TotalDelay[(n + 1) - 1] + Delay(n + 1)
      BY <1>5, <2>1
    <2> QED
      BY <2>1, <2>2
  <1>8. \A n \in Nat : TotalDelay[n] = f[n]
    BY <1>2, <1>3, <1>6, <1>7, RecursionUnique
  <1>9. TotalDelay \in [Nat -> Nat]
    BY <1>5, <1>8
  <1> QED
    BY <1>6, <1>7, <1>9

-----------------------------------------------------------------------------
(* The invariants                                                          *)

(***************************************************************************)
(* While a timer waits, the next call is due no earlier than the last one  *)
(* started and a period after the one before; while it calls, no earlier   *)
(* than the call before this one started.                                  *)
(***************************************************************************)
Spaced(at, due, calls) ==
    /\ at = "select" =>
          /\ Len(calls) >= 1 => due >= calls[Len(calls)]
          /\ Len(calls) = 2 => due >= calls[1] + Period
    /\ at = "calling" =>
          /\ Len(calls) >= 1
          /\ Len(calls) = 2 => due >= calls[1]

TimerInv == Spaced(pc, next, starts)

(***************************************************************************)
(* The attempts to connect made since a frame was last produced, while     *)
(* nobody touched the cancel channel: how long they have taken, and the    *)
(* delay that comes next.                                                  *)
(***************************************************************************)
Retrying(at, now, count, first, delay, end) ==
    /\ at # "ended"
    /\ at \in {"select", "calling"} => count = 0
    /\ at = "top" =>
          /\ delay = Delay(count + 1)
          /\ count > 0 => now - first >= TotalDelay[count]
    /\ at \in {"connecting", "open", "reading", "backoff"} =>
          /\ count > 0
          /\ delay = Delay(count)
          /\ now - first >= TotalDelay[count - 1]
    /\ at = "backoff" => end - first >= TotalDelay[count]

LinkInv ==
    /\ version = 0 => flag = FALSE
    /\ Quiet => Retrying(pc, clock, tries, since, backoff, wake)

-----------------------------------------------------------------------------
(* Types                                                                   *)

AreLeaves(stored) ==
    \A p \in DOMAIN stored : ValidPath(p) /\ ~ IsObject(stored[p])

Control ==
    /\ kind \in Timers \cup {"subscribe"}
    /\ pc \in {"select", "calling", "top", "connecting", "open", "reading",
               "backoff", "ended"}
    /\ version \in 0 .. MaxSends /\ seen \in 0 .. version
    /\ flag \in BOOLEAN /\ alive \in BOOLEAN /\ produced \in BOOLEAN

Times ==
    /\ backoff \in Initial .. BackoffMax
    /\ clock \in 0 .. MaxTime
    /\ next \in Nat /\ wake \in Nat /\ tries \in Nat /\ since \in 0 .. clock
    /\ starts \in Seq(0 .. clock) /\ Len(starts) <= 2

LEMMA TypesInGroups ==
  TypeOK <=> Control /\ Times /\ AreLeaves(leaves)
  BY DEF TypeOK, Control, Times, AreLeaves

LEMMA TypesInGroupsNext ==
  TypeOK' <=> Control' /\ Times' /\ AreLeaves(leaves')
  BY DEF TypeOK, Control, Times, AreLeaves

LEMMA EmitStoresLeaves ==
  ASSUME NEW pairs, Len(pairs) \in Nat, DOMAIN pairs = 1 .. Len(pairs),
         AreLeaves(leaves), Emit(pairs)
  PROVE  AreLeaves(leaves')
  <1>1. CASE ~ Acceptable(pairs)
    BY <1>1 DEF Emit
  <1>2. CASE Acceptable(pairs)
    <2> DEFINE written == {pairs[i][1] : i \in DOMAIN pairs}
    <2>1. leaves' = [p \in DOMAIN leaves \cup written |->
             IF p \in written THEN LastPair(pairs, p) ELSE leaves[p]]
      BY <1>2 DEF Emit
    <2>2. ASSUME NEW p \in written
          PROVE  ValidPath(p) /\ ~ IsObject(LastPair(pairs, p))
      <3> DEFINE S == {i \in DOMAIN pairs : pairs[i][1] = p}
      <3>1. S \in SUBSET (1 .. Len(pairs)) /\ S # {}
        OBVIOUS
      <3>2. PICK i : i = Max(S) /\ i \in S
        BY <3>1, MaxOfPositions
      <3>3. i \in DOMAIN pairs /\ pairs[i][1] = p
        BY <3>2
      <3>4. ValidPath(pairs[i][1]) /\ ~ IsObject(pairs[i][2])
        BY <1>2, <3>3 DEF Acceptable
      <3>5. LastPair(pairs, p) = pairs[i][2]
        BY <3>2 DEF LastPair
      <3> QED
        BY <3>3, <3>4, <3>5
    <2> HIDE DEF written
    <2>3. ASSUME NEW p \in DOMAIN leaves'
          PROVE  ValidPath(p) /\ ~ IsObject(leaves'[p])
      <3>1. p \in DOMAIN leaves \cup written
        BY <2>1
      <3>2. CASE p \in written
        <4>1. leaves'[p] = LastPair(pairs, p)
          BY <2>1, <3>2
        <4> QED
          BY <2>2, <3>2, <4>1
      <3>3. CASE p \notin written
        <4>1. leaves'[p] = leaves[p] /\ p \in DOMAIN leaves
          BY <2>1, <3>1, <3>3
        <4> QED
          BY <4>1 DEF AreLeaves
      <3> QED
        BY <3>2, <3>3
    <2> QED
      BY <2>3, Zenon DEF AreLeaves
  <1> QED
    BY <1>1, <1>2

LEMMA ReschedulesLate ==
  ASSUME Reschedule, next + Period \in Int, clock \in Int
  PROVE  /\ next' >= next + Period /\ next' >= clock
         /\ next' \in {next + Period, clock}
  <1>1. next' = Max({next + Period, clock})
    BY DEF Reschedule
  <1> QED
    BY <1>1, MaxOfPair, Zenon

LEMMA DocumentPairs ==
  ASSUME NEW value \in Payloads
  PROVE  /\ Len(Flattened[value]) \in Nat
         /\ DOMAIN Flattened[value] = 1 .. Len(Flattened[value])
  BY AdaptersAssumption

LEMMA TypesInitially == Init => TypeOK
  <1> SUFFICES ASSUME Init PROVE TypeOK
    OBVIOUS
  <1>1. Control
    <2>1. /\ kind \in Timers \cup {"subscribe"}
          /\ pc \in {"select", "top"}
          /\ flag \in BOOLEAN /\ alive \in BOOLEAN /\ produced \in BOOLEAN
      BY Zenon DEF Init
    <2>2. version \in 0 .. MaxSends /\ seen \in 0 .. version
      BY AdapterBounds DEF Init
    <2> QED
      BY <2>1, <2>2 DEF Control
  <1>2. Times
    BY AdapterBounds DEF Init, Times
  <1>3. AreLeaves(leaves)
    BY DEF Init, AreLeaves
  <1> QED
    BY <1>1, <1>2, <1>3, TypesInGroups

LEMMA TypesInductive == TypeOK /\ [Next]_vars => TypeOK'
  <1> SUFFICES ASSUME TypeOK, [Next]_vars PROVE TypeOK'
    OBVIOUS
  <1>0. Control /\ Times /\ AreLeaves(leaves)
    BY TypesInGroups
  <1> USE AdapterBounds
  <1>1. CASE Tick
    <2>1. Control'
      BY <1>0, <1>1 DEF Tick, Control, channel, link
    <2>2. Times'
      BY <1>0, <1>1 DEF Tick, Times, link, timer
    <2>3. leaves' = leaves
      BY <1>1 DEF Tick
    <2> QED
      BY <1>0, <2>1, <2>2, <2>3, TypesInGroupsNext
  <1>2. ASSUME NEW value \in BOOLEAN, Send(value) PROVE TypeOK'
    <2>1. Control'
      BY <1>0, <1>2 DEF Send, Control
    <2>2. Times'
      BY <1>0, <1>2 DEF Send, Times, timer
    <2>3. leaves' = leaves
      BY <1>2 DEF Send
    <2> QED
      BY <1>0, <2>1, <2>2, <2>3, TypesInGroupsNext
  <1>3. CASE DropSender
    <2>1. Control'
      BY <1>0, <1>3 DEF DropSender, Control
    <2>2. Times'
      BY <1>0, <1>3 DEF DropSender, Times, timer
    <2>3. leaves' = leaves
      BY <1>3 DEF DropSender
    <2> QED
      BY <1>0, <2>1, <2>2, <2>3, TypesInGroupsNext
  <1>4. CASE Fire
    <2>1. Control'
      BY <1>0, <1>4 DEF Fire, Control, channel, link
    <2>2. starts' \in Seq(0 .. clock) /\ Len(starts') <= 2
      <3>0. clock \in 0 .. clock /\ starts \in Seq(0 .. clock)
        BY <1>0 DEF Times
      <3>1. Len(starts) \in Nat /\ Len(starts) <= 2
        BY <1>0, <3>0, LenProperties DEF Times
      <3>2. CASE Len(starts) < 2
        <4>1. starts' = Append(starts, clock)
          BY <1>4, <3>2 DEF Fire
        <4> QED
          BY <3>0, <3>1, <3>2, <4>1, AppendProperties
      <3>3. CASE Len(starts) = 2
        <4>1. starts' = <<starts[2], clock>>
          BY <1>4, <3>3 DEF Fire
        <4>2. starts[2] \in 0 .. clock
          <5>1. 2 \in 1 .. Len(starts)
            BY <3>3
          <5> QED
            BY <3>0, <5>1, ElementOfSeq, Zenon
        <4> QED
          BY <3>0, <4>1, <4>2
      <3>4. Len(starts) < 2 \/ Len(starts) = 2
        <4>1. \A n \in Nat : n <= 2 => n < 2 \/ n = 2
          OBVIOUS
        <4> QED
          BY <3>1, <4>1, Zenon
      <3> QED
        BY <3>2, <3>3, <3>4, Zenon
    <2>3. Times'
      BY <1>0, <1>4, <2>2 DEF Fire, Times, link
    <2>4. leaves' = leaves
      BY <1>4 DEF Fire
    <2> QED
      BY <1>0, <2>1, <2>3, <2>4, TypesInGroupsNext
  <1>5. ASSUME Reschedule, UNCHANGED <<clock, starts, link>> PROVE Times'
    <2>1. next + Period \in Nat /\ clock \in Nat
      BY <1>0 DEF Times
    <2>2. next' \in {next + Period, clock}
      BY <1>5, <2>1, ReschedulesLate
    <2> QED
      BY <1>0, <1>5, <2>1, <2>2 DEF Times, link
  <1>6. CASE PeriodicReturns
    <2>1. Control'
      BY <1>0, <1>6 DEF PeriodicReturns, Control, channel, link
    <2>2. Times'
      BY <1>5, <1>6 DEF PeriodicReturns
    <2>3. AreLeaves(leaves')
      <3>1. ASSUME NEW value, Emit(<<<<WritesTo, value>>>>)
            PROVE  AreLeaves(leaves')
        BY <1>0, <3>1, EmitStoresLeaves
      <3>2. ASSUME Emit(<<>>) PROVE AreLeaves(leaves')
        BY <1>0, <3>2 DEF Emit, Acceptable
      <3> QED
        BY <1>6, <3>1, <3>2 DEF PeriodicReturns
    <2> QED
      BY <2>1, <2>2, <2>3, TypesInGroupsNext
  <1>7. CASE PollReturns
    <2>1. Control'
      BY <1>0, <1>7 DEF PollReturns, Control, channel, link
    <2>2. Times'
      BY <1>5, <1>7 DEF PollReturns
    <2>3. AreLeaves(leaves')
      <3>1. ASSUME NEW value \in Payloads, Emit(Flattened[value])
            PROVE  AreLeaves(leaves')
        BY <1>0, <3>1, EmitStoresLeaves, DocumentPairs
      <3>2. ASSUME Emit(<<>>) PROVE AreLeaves(leaves')
        BY <1>0, <3>2 DEF Emit, Acceptable
      <3> QED
        BY <1>7, <3>1, <3>2 DEF PollReturns, PollOnce
    <2> QED
      BY <2>1, <2>2, <2>3, TypesInGroupsNext
  <1>8. CASE TimerCancel
    <2>1. Control'
      BY <1>0, <1>8 DEF TimerCancel, Control, channel, link
    <2>2. Times'
      BY <1>0, <1>8 DEF TimerCancel, Times, link, timer
    <2>3. leaves' = leaves
      BY <1>8 DEF TimerCancel
    <2> QED
      BY <1>0, <2>1, <2>2, <2>3, TypesInGroupsNext
  <1>9. CASE Attempt
    <2>1. Control'
      BY <1>0, <1>9 DEF Attempt, Control, channel
    <2>2. Times'
      BY <1>0, <1>9 DEF Attempt, Times, timer
    <2>3. leaves' = leaves
      BY <1>9 DEF Attempt
    <2> QED
      BY <1>0, <2>1, <2>2, <2>3, TypesInGroupsNext
  <1>10. CASE ConnectFails
    <2>1. Control'
      BY <1>0, <1>10 DEF ConnectFails, Disconnected, Control, channel
    <2>2. Times'
      BY <1>0, <1>10 DEF ConnectFails, Disconnected, Times, timer
    <2>3. leaves' = leaves
      BY <1>10 DEF ConnectFails
    <2> QED
      BY <1>0, <2>1, <2>2, <2>3, TypesInGroupsNext
  <1>11. CASE Connects
    <2>1. Control'
      BY <1>0, <1>11 DEF Connects, Control, channel
    <2>2. Times'
      BY <1>0, <1>11 DEF Connects, Times, timer
    <2>3. leaves' = leaves
      BY <1>11 DEF Connects
    <2> QED
      BY <1>0, <2>1, <2>2, <2>3, TypesInGroupsNext
  <1>12. CASE PollCancel
    <2>1. Control'
      BY <1>0, <1>12 DEF PollCancel, Control, channel, link
    <2>2. Times'
      BY <1>0, <1>12 DEF PollCancel, Times, link, timer
    <2>3. leaves' = leaves
      BY <1>12 DEF PollCancel
    <2> QED
      BY <1>0, <2>1, <2>2, <2>3, TypesInGroupsNext
  <1>13. CASE Wakes
    <2>1. Control'
      BY <1>0, <1>13 DEF Wakes, Control, channel, link
    <2>2. Times'
      BY <1>0, <1>13 DEF Wakes, Times, link, timer
    <2>3. leaves' = leaves
      BY <1>13 DEF Wakes
    <2> QED
      BY <1>0, <2>1, <2>2, <2>3, TypesInGroupsNext
  <1>14. CASE FrameArrives
    <2>1. produced' \in BOOLEAN
      BY <1>0, <1>14 DEF FrameArrives, Control, Acceptable
    <2>2. Control'
      BY <1>0, <1>14, <2>1 DEF FrameArrives, Control, channel
    <2>3. Times'
      BY <1>0, <1>14 DEF FrameArrives, Times, timer
    <2>4. AreLeaves(leaves')
      <3>1. ASSUME NEW value \in Payloads, Emit(Flattened[value])
            PROVE  AreLeaves(leaves')
        BY <1>0, <3>1, EmitStoresLeaves, DocumentPairs
      <3> QED
        BY <1>0, <1>14, <3>1 DEF FrameArrives
    <2> QED
      BY <2>2, <2>3, <2>4, TypesInGroupsNext
  <1>15. CASE StreamEnds
    <2>1. Control'
      BY <1>0, <1>15 DEF StreamEnds, Disconnected, Control, channel
    <2>2. Times'
      BY <1>0, <1>15 DEF StreamEnds, Disconnected, Times, timer
    <2>3. leaves' = leaves
      BY <1>15 DEF StreamEnds
    <2> QED
      BY <1>0, <2>1, <2>2, <2>3, TypesInGroupsNext
  <1>16. CASE WaitEnds
    <2>1. Control'
      BY <1>0, <1>16 DEF WaitEnds, Control, channel
    <2>2. backoff' \in Initial .. BackoffMax
      <3>1. ASSUME Lengthen PROVE backoff' \in Initial .. BackoffMax
        <4>1. backoff' <= BackoffMax /\ backoff' \in {2 * backoff, BackoffMax}
          <5>1. 2 * backoff \in Int /\ BackoffMax \in Int
            BY <1>0 DEF Times
          <5> QED
            BY <3>1, <5>1, MinOfPair DEF Lengthen
        <4> QED
          BY <1>0, <4>1 DEF Times
      <3> QED
        BY <1>0, <1>16, <3>1 DEF WaitEnds, Times
    <2>3. Times'
      BY <1>0, <1>16, <2>2 DEF WaitEnds, Times, timer
    <2>4. leaves' = leaves
      BY <1>16 DEF WaitEnds
    <2> QED
      BY <1>0, <2>1, <2>3, <2>4, TypesInGroupsNext
  <1>17. CASE UNCHANGED vars
    <2>1. Control' /\ Times' /\ leaves' = leaves
      BY <1>0, <1>17 DEF vars, Control, Times
    <2> QED
      BY <1>0, <2>1, TypesInGroupsNext
  <1> QED
    BY <1>1, <1>2, <1>3, <1>4, <1>6, <1>7, <1>8, <1>9, <1>10, <1>11, <1>12,
       <1>13, <1>14, <1>15, <1>16, <1>17
    DEF Next, TimerStep, LinkStep

-----------------------------------------------------------------------------
(* The timers                                                              *)

KeepsPeriod ==
    Len(starts) = 2 /\ starts' # starts => starts'[2] - starts[1] >= Period

LEMMA TimerInitially == Init => TimerInv
  <1> SUFFICES ASSUME Init PROVE TimerInv
    OBVIOUS
  <1>1. Len(starts) = 0 /\ pc # "calling"
    BY DEF Init
  <1> QED
    BY <1>1 DEF TimerInv, Spaced

LEMMA SecondCall ==
  ASSUME NEW S, NEW calls \in Seq(S), NEW time \in S, Len(calls) = 1
  PROVE  /\ Len(Append(calls, time)) = 2
         /\ Append(calls, time)[1] = calls[1]
  <1>1. Len(Append(calls, time)) = Len(calls) + 1
    BY AppendProperties
  <1>2. 1 \in 1 .. Len(calls)
    OBVIOUS
  <1>3. Append(calls, time)[1] = calls[1]
    BY <1>2, AppendProperties
  <1> QED
    BY <1>1, <1>3

LEMMA FireSpaced ==
  ASSUME TypeOK, TimerInv, Fire
  PROVE  TimerInv' /\ KeepsPeriod
  <1>1. /\ pc' = "calling" /\ next' = next /\ pc = "select" /\ clock >= next
        /\ starts' = IF Len(starts) < 2 THEN Append(starts, clock)
                     ELSE <<starts[2], clock>>
    BY DEF Fire
  <1>2. /\ starts \in Seq(0 .. clock) /\ Len(starts) <= 2 /\ next \in Nat
        /\ clock \in Nat
    BY DEF TypeOK
  <1>3. Len(starts) \in Nat
    BY <1>2, LenProperties
  <1>4. /\ Len(starts) >= 1 => next >= starts[Len(starts)]
        /\ Len(starts) = 2 => next >= starts[1] + Period
    BY <1>1 DEF TimerInv, Spaced
  <1>5. CASE Len(starts) = 0
    <2>1. starts' = Append(starts, clock)
      BY <1>1, <1>5
    <2>2. Len(starts') = 1
      BY <1>2, <1>5, <2>1, AppendProperties
    <2> QED
      BY <1>1, <1>5, <2>2 DEF TimerInv, Spaced, KeepsPeriod
  <1>6. CASE Len(starts) = 1
    <2>1. starts' = Append(starts, clock)
      BY <1>1, <1>6
    <2>2. 1 \in 1 .. Len(starts) /\ clock \in 0 .. clock
      BY <1>2, <1>6
    <2>3. Len(starts') = 2 /\ starts'[1] = starts[1]
      BY <1>2, <1>6, <2>1, <2>2, SecondCall, Zenon
    <2>4. next >= starts[1]
      BY <1>4, <1>6
    <2> QED
      BY <1>1, <1>6, <2>3, <2>4 DEF TimerInv, Spaced, KeepsPeriod
  <1>7. CASE Len(starts) = 2
    <2>1. starts' = <<starts[2], clock>>
      BY <1>1, <1>7
    <2>2. Len(starts') = 2 /\ starts'[1] = starts[2] /\ starts'[2] = clock
      BY <2>1
    <2>3. next >= starts[2] /\ next >= starts[1] + Period
      BY <1>4, <1>7
    <2>4. 1 \in 1 .. Len(starts)
      BY <1>7
    <2>5. starts[1] \in 0 .. clock
      BY <1>2, <2>4, ElementOfSeq, Zenon
    <2>6. clock - starts[1] >= Period
      BY <1>1, <1>2, <2>3, <2>5, AdapterBounds
    <2>7. KeepsPeriod
      BY <2>2, <2>6 DEF KeepsPeriod
    <2>8. TimerInv'
      <3>1. Spaced(pc', next', starts')
        BY <1>1, <2>2, <2>3 DEF Spaced
      <3> QED
        BY <3>1 DEF TimerInv
    <2> QED
      BY <2>7, <2>8
  <1>8. \A n \in Nat : n <= 2 => n = 0 \/ n = 1 \/ n = 2
    OBVIOUS
  <1>9. Len(starts) = 0 \/ Len(starts) = 1 \/ Len(starts) = 2
    BY <1>2, <1>3, <1>8, Zenon
  <1> QED
    BY <1>5, <1>6, <1>7, <1>9, Zenon

LEMMA RescheduleSpaced ==
  ASSUME TypeOK, TimerInv, Reschedule, pc = "calling", pc' = "select",
         starts' = starts
  PROVE  TimerInv' /\ KeepsPeriod
  <1>1. /\ next \in Nat /\ clock \in Nat /\ starts \in Seq(0 .. clock)
        /\ next + Period \in Int /\ clock \in Int
    BY AdapterBounds DEF TypeOK
  <1>2. next' >= next + Period /\ next' >= clock
    BY <1>1, ReschedulesLate, Zenon
  <1>3. next' \in Nat
    <2>1. next' \in {next + Period, clock}
      BY <1>1, ReschedulesLate
    <2> QED
      BY <1>1, <2>1, AdapterBounds
  <1>4. ASSUME NEW i \in 1 .. Len(starts) PROVE starts[i] \in 0 .. clock
    BY <1>1, ElementOfSeq, Zenon
  <1>5. ASSUME Len(starts) >= 1 PROVE next' >= starts[Len(starts)]
    <2>1. Len(starts) \in 1 .. Len(starts)
      BY <1>1, <1>5, LenProperties
    <2>2. starts[Len(starts)] \in 0 .. clock
      BY <1>4, <2>1, Zenon
    <2> QED
      BY <1>1, <1>2, <1>3, <2>2
  <1>6. ASSUME Len(starts) = 2 PROVE next' >= starts[1] + Period
    <2>1. 1 \in 1 .. Len(starts)
      BY <1>6
    <2>2. starts[1] \in 0 .. clock
      BY <1>4, <2>1, Zenon
    <2>3. next >= starts[1]
      BY <1>6 DEF TimerInv, Spaced
    <2> QED
      BY <1>1, <1>2, <1>3, <2>2, <2>3, AdapterBounds
  <1>7. TimerInv'
    <2>1. /\ Len(starts') >= 1 => next' >= starts'[Len(starts')]
          /\ Len(starts') = 2 => next' >= starts'[1] + Period
      BY <1>5, <1>6, Zenon
    <2> QED
      BY <2>1 DEF TimerInv, Spaced
  <1> QED
    BY <1>7 DEF KeepsPeriod

LEMMA TimerInductive ==
  ASSUME TypeOK, TimerInv, [Next]_vars
  PROVE  TimerInv' /\ KeepsPeriod
  <1>1. ASSUME UNCHANGED timer, pc' = pc \/ pc' \notin {"select", "calling"}
        PROVE  TimerInv' /\ KeepsPeriod
    <2>1. next' = next /\ starts' = starts
      BY <1>1 DEF timer
    <2>2. CASE pc' = pc
      BY <2>1, <2>2 DEF TimerInv, KeepsPeriod
    <2>3. CASE pc' \notin {"select", "calling"}
      BY <2>1, <2>3 DEF TimerInv, Spaced, KeepsPeriod
    <2> QED
      BY <1>1, <2>2, <2>3
  <1>2. CASE Fire
    BY <1>2, FireSpaced
  <1>3. CASE PeriodicReturns \/ PollReturns
    BY <1>3, RescheduleSpaced DEF PeriodicReturns, PollReturns
  <1>4. CASE Tick
    BY <1>1, <1>4 DEF Tick
  <1>5. CASE \E value \in BOOLEAN : Send(value)
    BY <1>1, <1>5 DEF Send
  <1>6. CASE DropSender
    BY <1>1, <1>6 DEF DropSender
  <1>7. CASE TimerCancel
    <2>1. UNCHANGED timer /\ (pc' = pc \/ pc' = "ended")
      BY <1>7 DEF TimerCancel
    <2> QED
      BY <1>1, <2>1
  <1>8. CASE LinkStep
    <2>1. /\ UNCHANGED timer
          /\ \/ pc' = pc
             \/ pc' \in {"ended", "connecting", "backoff", "open", "reading",
                         "top"}
      BY <1>8 DEF LinkStep, Attempt, ConnectFails, Disconnected, Connects,
                  PollCancel, Wakes, WaitEnds
    <2> QED
      BY <1>1, <2>1
  <1>9. CASE FrameArrives
    <2>1. UNCHANGED timer /\ pc' = "open"
      BY <1>9 DEF FrameArrives
    <2> QED
      BY <1>1, <2>1
  <1>10. CASE StreamEnds
    <2>1. UNCHANGED timer /\ pc' \in {"top", "backoff"}
      BY <1>10 DEF StreamEnds, Disconnected
    <2> QED
      BY <1>1, <2>1
  <1>11. CASE UNCHANGED vars
    <2>1. UNCHANGED timer /\ pc' = pc
      BY <1>11 DEF vars, timer
    <2> QED
      BY <1>1, <2>1
  <1> QED
    BY <1>2, <1>3, <1>4, <1>5, <1>6, <1>7, <1>8, <1>9, <1>10, <1>11
    DEF Next, TimerStep

-----------------------------------------------------------------------------
(* The subscription                                                        *)

LEMMA DelaysAddUp ==
  ASSUME NEW n \in Nat \ {0}
  PROVE  /\ TotalDelay[n] \in Nat /\ TotalDelay[n - 1] \in Nat
         /\ Delay(n) \in Nat
         /\ TotalDelay[n] = TotalDelay[n - 1] + Delay(n)
  <1>1. PICK m \in Nat : m = n - 1 /\ m + 1 = n
    OBVIOUS
  <1>2. TotalDelay[m + 1] = TotalDelay[m] + Delay(m + 1)
    BY TotalDelayAdds
  <1>3. TotalDelay[n] \in Nat /\ TotalDelay[m] \in Nat /\ Delay(n) \in Nat
    BY TotalDelayAdds, DelayGrows
  <1> QED
    BY <1>1, <1>2, <1>3

LEMMA LinkInitially == Init => LinkInv
  <1> SUFFICES ASSUME Init PROVE LinkInv
    OBVIOUS
  <1>1. /\ flag = FALSE /\ tries = 0 /\ backoff = Delay(0 + 1)
        /\ pc \in {"select", "top"}
    BY DelayGrows DEF Init
  <1> QED
    BY <1>1 DEF LinkInv, Retrying

(***************************************************************************)
(* A channel that nobody has touched after a step was so before it.        *)
(***************************************************************************)
LEMMA QuietBefore ==
  ASSUME TypeOK, LinkInv, [Next]_vars, Quiet'
  PROVE  /\ Quiet /\ flag = FALSE /\ version = 0 /\ alive /\ seen = 0
         /\ UNCHANGED channel
         /\ Retrying(pc, clock, tries, since, backoff, wake)
  <1>0. version \in Nat /\ seen \in 0 .. version
    BY AdapterBounds DEF TypeOK
  <1>1. ASSUME NEW value, Send(value) PROVE FALSE
    BY <1>0, <1>1 DEF Send, Quiet
  <1>2. ASSUME DropSender PROVE FALSE
    BY <1>2 DEF DropSender, Quiet
  <1>3. UNCHANGED channel
    BY <1>1, <1>2 DEF Next, TimerStep, LinkStep, Tick, Fire, PeriodicReturns,
       PollReturns, TimerCancel, Attempt, ConnectFails, Connects, PollCancel,
       Wakes, WaitEnds, FrameArrives, StreamEnds, vars, channel
  <1>4. version = 0 /\ alive
    BY <1>3 DEF Quiet, channel
  <1> QED
    BY <1>0, <1>3, <1>4 DEF LinkInv, Quiet

LEMMA LinkInductive ==
  ASSUME TypeOK, LinkInv, [Next]_vars
  PROVE  LinkInv'
  <1>0. /\ version \in Nat /\ clock \in Nat /\ tries \in Nat /\ since \in Nat
        /\ backoff \in Nat /\ wake \in Nat
    BY AdapterBounds DEF TypeOK
  <1>1. version' = 0 => flag' = FALSE
    <2>1. ASSUME NEW value, Send(value) PROVE version' # 0
      BY <1>0, <2>1 DEF Send
    <2>2. ASSUME ~ \E value \in BOOLEAN : Send(value)
          PROVE  version' = version /\ flag' = flag
      BY <2>2 DEF Next, TimerStep, LinkStep, Tick, DropSender, Fire,
         PeriodicReturns, PollReturns, TimerCancel, Attempt, ConnectFails,
         Connects, PollCancel, Wakes, WaitEnds, FrameArrives, StreamEnds,
         vars, channel
    <2> QED
      BY <2>1, <2>2 DEF LinkInv
  <1>2. ASSUME Quiet'
        PROVE  Retrying(pc', clock', tries', since', backoff', wake')
    <2>0. /\ Quiet /\ flag = FALSE /\ version = 0 /\ alive /\ seen = 0
          /\ Retrying(pc, clock, tries, since, backoff, wake)
          /\ UNCHANGED channel
      BY <1>2, QuietBefore
    <2>1. ~ Changed(0)
      BY <2>0 DEF Changed
    <2>2. ASSUME pc' = pc, clock' = clock, UNCHANGED link
          PROVE  Retrying(pc', clock', tries', since', backoff', wake')
      BY <2>0, <2>2, Zenon DEF link
    <2>3. ASSUME UNCHANGED <<backoff, wake, tries, since>>, clock' = clock,
                 pc \in {"connecting", "open", "reading"},
                 pc' \in {"open", "reading"}
          PROVE  Retrying(pc', clock', tries', since', backoff', wake')
      BY <2>0, <2>3 DEF Retrying
    <2>4. ASSUME Disconnected, UNCHANGED <<backoff, tries, since, clock>>,
                 pc \in {"connecting", "reading"}
          PROVE  Retrying(pc', clock', tries', since', backoff', wake')
      <3>1. /\ tries > 0 /\ backoff = Delay(tries)
            /\ clock - since >= TotalDelay[tries - 1]
        BY <2>0, <2>4 DEF Retrying
      <3>2. PICK n \in Nat \ {0} : n = tries
        BY <1>0, <3>1
      <3>3. /\ TotalDelay[n] = TotalDelay[n - 1] + Delay(n)
            /\ TotalDelay[n - 1] \in Nat /\ Delay(n) \in Nat
        BY DelaysAddUp
      <3>4. (clock + backoff) - since >= TotalDelay[tries]
        BY <1>0, <3>1, <3>2, <3>3
      <3>5. pc' = "backoff" /\ wake' = clock + backoff
        BY <2>4 DEF Disconnected
      <3> QED
        BY <2>4, <3>1, <3>4, <3>5 DEF Retrying
    <2>5. CASE Tick
      <3>1. /\ clock' = clock + 1 /\ pc' = pc /\ tries' = tries
            /\ since' = since /\ backoff' = backoff /\ wake' = wake
        BY <2>5 DEF Tick, link
      <3>2. tries > 0 => TotalDelay[tries] \in Nat /\ TotalDelay[tries - 1] \in Nat
        BY <1>0, DelaysAddUp
      <3> QED
        BY <1>0, <2>0, <3>1, <3>2 DEF Retrying
    <2>6. CASE (\E value \in BOOLEAN : Send(value)) \/ DropSender
      <3>1. version' = version /\ alive' = alive
        BY <2>0 DEF channel
      <3>2. ASSUME NEW value, Send(value) PROVE FALSE
        BY <1>0, <3>1, <3>2 DEF Send
      <3>3. ASSUME DropSender PROVE FALSE
        BY <1>2, <3>3 DEF DropSender, Quiet
      <3> QED
        BY <2>6, <3>2, <3>3
    <2>7. CASE Fire \/ PeriodicReturns \/ PollReturns
      <3>1. /\ pc \in {"select", "calling"} /\ pc' \in {"select", "calling"}
            /\ tries' = tries
        BY <2>7 DEF Fire, PeriodicReturns, PollReturns, link
      <3> QED
        BY <2>0, <3>1 DEF Retrying
    <2>8. CASE TimerCancel
      <3>1. Changed(0)
        BY <2>0, <2>8, Zenon DEF TimerCancel
      <3> QED
        BY <2>1, <3>1
    <2>9. CASE Attempt
      <3>1. /\ pc = "top" /\ pc' = "connecting" /\ tries' = tries + 1
            /\ since' = IF tries = 0 THEN clock ELSE since
            /\ clock' = clock /\ backoff' = backoff /\ wake' = wake
        BY <2>0, <2>9 DEF Attempt
      <3>2. /\ backoff = Delay(tries + 1)
            /\ tries > 0 => clock - since >= TotalDelay[tries]
        BY <2>0, <3>1 DEF Retrying
      <3>3. clock - since' >= TotalDelay[tries]
        <4>1. CASE tries = 0
          BY <1>0, <3>1, <4>1, TotalDelayAdds
        <4>2. CASE tries # 0
          BY <1>0, <3>1, <3>2, <4>2
        <4> QED
          BY <4>1, <4>2
      <3>4. tries + 1 > 0 /\ (tries + 1) - 1 = tries
        BY <1>0
      <3> QED
        BY <3>1, <3>2, <3>3, <3>4 DEF Retrying
    <2>10. CASE ConnectFails
      BY <2>4, <2>10 DEF ConnectFails
    <2>11. CASE Connects
      BY <2>3, <2>11 DEF Connects
    <2>12. CASE PollCancel
      <3>1. pc = "open" /\ pc' = "reading" /\ clock' = clock /\ UNCHANGED link
        BY <2>0, <2>1, <2>12 DEF PollCancel
      <3> QED
        BY <2>3, <3>1 DEF link
    <2>13. CASE Wakes
      <3>1. Changed(0)
        BY <2>0, <2>13, Zenon DEF Wakes
      <3> QED
        BY <2>1, <3>1
    <2>14. CASE FrameArrives
      <3>1. /\ pc = "reading" /\ pc' = "open" /\ clock' = clock
            /\ UNCHANGED <<backoff, wake, tries, since>>
        BY <2>14 DEF FrameArrives
      <3> QED
        BY <2>3, <3>1
    <2>15. CASE StreamEnds
      <3>1. CASE produced
        <4>1. pc' = "top" /\ backoff' = Initial /\ tries' = 0
          BY <2>15, <3>1 DEF StreamEnds
        <4>2. Delay(0 + 1) = Initial
          BY DelayGrows
        <4> QED
          BY <4>1, <4>2 DEF Retrying
      <3>2. CASE ~ produced
        BY <2>4, <2>15, <3>2 DEF StreamEnds
      <3> QED
        BY <3>1, <3>2
    <2>16. CASE WaitEnds
      <3>1. /\ pc = "backoff" /\ pc' = "top" /\ clock >= wake
            /\ backoff' = Min({2 * backoff, BackoffMax})
            /\ clock' = clock /\ tries' = tries /\ since' = since
            /\ wake' = wake
        BY <2>1, <2>16 DEF WaitEnds, Lengthen
      <3>2. /\ tries > 0 /\ backoff = Delay(tries)
            /\ wake - since >= TotalDelay[tries]
        BY <2>0, <3>1 DEF Retrying
      <3>3. PICK n \in Nat \ {0} : n = tries
        BY <1>0, <3>2
      <3>4. Delay(n + 1) = Min({2 * Delay(n), BackoffMax})
        BY DelayGrows
      <3>5. backoff' = Delay(tries' + 1)
        BY <3>1, <3>2, <3>3, <3>4, Zenon
      <3>6. clock - since >= TotalDelay[tries]
        <4>1. TotalDelay[n] \in Nat
          BY DelaysAddUp
        <4> QED
          BY <1>0, <3>1, <3>2, <3>3, <4>1
      <3> QED
        BY <3>1, <3>5, <3>6 DEF Retrying
    <2>17. CASE UNCHANGED vars
      BY <2>2, <2>17 DEF vars, link
    <2> QED
      BY <2>5, <2>6, <2>7, <2>8, <2>9, <2>10, <2>11, <2>12, <2>13, <2>14,
         <2>15, <2>16, <2>17
      DEF Next, TimerStep, LinkStep
  <1> QED
    BY <1>1, <1>2, Zenon DEF LinkInv

LEMMA AttemptsAreSpaced ==
  ASSUME TypeOK, LinkInv
  PROVE  RetriesSlowDown
  <1> SUFFICES ASSUME Quiet, tries > 0
               PROVE  clock - since >= TotalDelay[tries - 1]
    BY DEF RetriesSlowDown
  <1>1. Retrying(pc, clock, tries, since, backoff, wake)
    BY DEF LinkInv
  <1>2. clock \in Nat /\ tries \in Nat \ {0} /\ since \in Nat
    BY AdapterBounds DEF TypeOK
  <1>3. CASE pc = "top"
    <2>1. clock - since >= TotalDelay[tries]
      BY <1>1, <1>3 DEF Retrying
    <2>2. /\ TotalDelay[tries] \in Nat /\ TotalDelay[tries - 1] \in Nat
          /\ Delay(tries) \in Nat
          /\ TotalDelay[tries] = TotalDelay[tries - 1] + Delay(tries)
      BY <1>2, DelaysAddUp
    <2> QED
      BY <1>2, <2>1, <2>2
  <1>4. CASE pc \in {"connecting", "open", "reading", "backoff"}
    BY <1>1, <1>4 DEF Retrying
  <1>5. pc \notin {"select", "calling", "ended"}
    BY <1>1, <1>2 DEF Retrying
  <1>6. pc \in {"select", "calling", "top", "connecting", "open", "reading",
                "backoff", "ended"}
    BY DEF TypeOK
  <1> QED
    BY <1>3, <1>4, <1>5, <1>6

-----------------------------------------------------------------------------
(* The theorems                                                            *)

(***************************************************************************)
(* The fields of a task have their types, and whatever a source sends and  *)
(* a closure returns, the scene an adapter writes holds leaves at valid    *)
(* paths and never an object (scene.emit checks all pairs before it stores *)
(* any).                                                                   *)
(***************************************************************************)
THEOREM AdapterTypes == Spec => []TypeOK
  BY TypesInitially, TypesInductive, PTL DEF Spec

(***************************************************************************)
(* For every period and however late a timer is scheduled or a call        *)
(* returns, the third of three calls starts a period or more after the     *)
(* first (next += period, then at least now, in spawn_periodic and         *)
(* http_poll).                                                             *)
(***************************************************************************)
THEOREM TimersNeverBurst == Spec => NoBurst
  <1>1. Init => TimerInv
    BY TimerInitially
  <1>2. TypeOK /\ TimerInv /\ [Next]_vars => TimerInv'
    BY TimerInductive
  <1>3. TypeOK /\ TimerInv /\ [Next]_vars =>
          [Len(starts) = 2 /\ starts' # starts
               => starts'[2] - starts[1] >= Period]_vars
    BY TimerInductive DEF KeepsPeriod
  <1> QED
    BY <1>1, <1>2, <1>3, AdapterTypes, PTL DEF Spec, NoBurst

(***************************************************************************)
(* For every initial and maximal delay: n attempts of a subscription to    *)
(* reach a source that produces nothing take at least the sum of the       *)
(* first n - 1 delays, which double up to the maximum (the backoff of      *)
(* websocket_subscribe), as long as nobody touches the cancel channel.     *)
(***************************************************************************)
THEOREM BackoffSpacesAttempts == Spec => []RetriesSlowDown
  <1>1. Init => LinkInv
    BY LinkInitially
  <1>2. TypeOK /\ LinkInv /\ [Next]_vars => LinkInv'
    BY LinkInductive
  <1>3. TypeOK /\ LinkInv => RetriesSlowDown
    BY AttemptsAreSpaced
  <1> QED
    BY <1>1, <1>2, <1>3, AdapterTypes, PTL DEF Spec
=============================================================================
