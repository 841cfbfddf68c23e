--------------------------- MODULE InteropProofs ----------------------------
(***************************************************************************)
(* Proofs about module Interop: what holds of the test control plane, its  *)
(* connections and the harness for every suite of scenarios and every      *)
(* command line.                                                           *)
(***************************************************************************)
EXTENDS Interop, FiniteSetTheorems, NaturalsInduction, WellFoundedInduction,
        TLAPS

-----------------------------------------------------------------------------
(* Iteration                                                               *)

LEMMA LeastNumber ==
  ASSUME NEW T \in SUBSET Nat, T # {}
  PROVE  \E m \in T : \A n \in T : m <= n
  <1>1. PICK m \in T : \A n \in T : ~ (<<n, m>> \in OpToRel(<, Nat))
    BY NatLessThanWellFounded, WFMin, Zenon
  <1>2. \A n \in T : ~ (n < m)
    BY <1>1 DEF OpToRel
  <1> QED
    BY <1>2

(***************************************************************************)
(* The recursive functions of the model go from each value to the next by  *)
(* one of three rules: a turn of the walk, the next generation of a        *)
(* layout, the next scenario that is kept.                                 *)
(***************************************************************************)
Following(rule, n, x) ==
    CASE rule.of = "stack" -> Turn(x)
      [] rule.of = "generation" -> UNION {Offspring(node) : node \in x}
      [] OTHER -> IF Wanted(rule.inv, rule.scenarios[n])
                  THEN Append(x, rule.scenarios[n]) ELSE x

Traces(g, m, rule, first) ==
    /\ DOMAIN g = 0 .. m
    /\ g[0] = first
    /\ \A n \in 1 .. m : g[n] = Following(rule, n, g[n - 1])

LEMMA TracesExist ==
  ASSUME NEW rule, NEW first, NEW m \in Nat
  PROVE  \E g : Traces(g, m, rule, first)
  <1> DEFINE T == {k \in Nat : ~ \E g : Traces(g, k, rule, first)}
  <1> SUFFICES ASSUME T # {} PROVE FALSE
    OBVIOUS
  <1>1. PICK k \in T : \A n \in T : k <= n
    BY LeastNumber
  <1>2. CASE k = 0
    <2> DEFINE g == [i \in 0 .. 0 |-> first]
    <2>1. DOMAIN g = 0 .. 0 /\ g[0] = first /\ 1 .. 0 = {}
      OBVIOUS
    <2>2. Traces(g, 0, rule, first)
      BY <2>1 DEF Traces
    <2> QED
      BY <1>1, <1>2, <2>2
  <1>3. CASE k # 0
    <2>1. k - 1 \in Nat /\ ~ (k <= k - 1)
      BY <1>1, <1>3
    <2>2. PICK g : Traces(g, k - 1, rule, first)
      BY <1>1, <2>1
    <2> DEFINE x == Following(rule, k, g[k - 1])
               h == [i \in 0 .. k |-> IF i = k THEN x ELSE g[i]]
    <2>3. h[k] = x /\ \A i \in 0 .. k - 1 : h[i] = g[i]
      BY <1>1
    <2>4. DOMAIN h = 0 .. k
      OBVIOUS
    <2> HIDE DEF h
    <2>5. h[0] = first
      BY <1>1, <2>1, <2>2, <2>3 DEF Traces
    <2>6. ASSUME NEW n \in 1 .. k PROVE h[n] = Following(rule, n, h[n - 1])
      <3>1. h[n - 1] = g[n - 1]
        <4>1. n - 1 \in 0 .. k - 1
          BY <1>1
        <4> QED
          BY <2>3, <4>1
      <3>2. CASE n = k
        BY <2>3, <3>1, <3>2
      <3>3. CASE n # k
        <4>1. n \in 1 .. k - 1 /\ n \in 0 .. k - 1
          BY <1>1, <3>3
        <4>2. g[n] = Following(rule, n, g[n - 1])
          BY <2>2, <4>1 DEF Traces
        <4> QED
          BY <2>3, <3>1, <4>1, <4>2
      <3> QED
        BY <3>2, <3>3
    <2>7. Traces(h, k, rule, first)
      BY <2>4, <2>5, <2>6 DEF Traces
    <2> QED
      BY <1>1, <2>7
  <1> QED
    BY <1>2, <1>3

LEMMA TracesAgree ==
  ASSUME NEW rule, NEW first, NEW a \in Nat, NEW b \in Nat,
         NEW g, Traces(g, a, rule, first), NEW h, Traces(h, b, rule, first),
         NEW i \in Nat, i <= a, i <= b
  PROVE  g[i] = h[i]
  <1> DEFINE T == {k \in Nat : k <= a /\ k <= b /\ g[k] # h[k]}
  <1> SUFFICES ASSUME T # {} PROVE FALSE
    OBVIOUS
  <1>1. PICK k \in T : \A n \in T : k <= n
    BY LeastNumber
  <1>2. k \in Nat /\ k <= a /\ k <= b /\ g[k] # h[k]
    BY <1>1
  <1>3. k # 0
    BY <1>2 DEF Traces
  <1>4. k - 1 \in Nat /\ k - 1 <= a /\ k - 1 <= b /\ ~ (k <= k - 1)
    BY <1>2, <1>3
  <1>5. g[k - 1] = h[k - 1]
    BY <1>1, <1>4
  <1>6. k \in 1 .. a /\ k \in 1 .. b
    BY <1>2, <1>3
  <1>7. /\ g[k] = Following(rule, k, g[k - 1])
        /\ h[k] = Following(rule, k, h[k - 1])
    BY <1>6 DEF Traces
  <1> QED
    BY <1>2, <1>5, <1>7

Obeys(h, rule, first) ==
    h = [n \in Nat |-> IF n = 0 THEN first ELSE Following(rule, n, h[n - 1])]

LEMMA IterationExists ==
  ASSUME NEW rule, NEW first
  PROVE  \E h : Obeys(h, rule, first)
  <1> DEFINE G(n) == CHOOSE g : Traces(g, n, rule, first)
             h == [n \in Nat |-> G(n)[n]]
  <1>1. ASSUME NEW n \in Nat PROVE Traces(G(n), n, rule, first)
    BY TracesExist
  <1>2. ASSUME NEW n \in Nat PROVE h[n] = G(n)[n]
    OBVIOUS
  <1>3. h = [n \in Nat |-> h[n]]
    OBVIOUS
  <1> HIDE DEF G, h
  <1>4. h[0] = first
    BY <1>1, <1>2 DEF Traces
  <1>5. ASSUME NEW n \in Nat, n # 0 PROVE h[n] = Following(rule, n, h[n - 1])
    <2>1. n - 1 \in Nat /\ n - 1 <= n - 1 /\ n - 1 <= n /\ n \in 1 .. n
      BY <1>5
    <2>2. PICK m \in Nat : m = n - 1
      BY <2>1
    <2>3. Traces(G(n), n, rule, first) /\ Traces(G(m), m, rule, first)
      BY <1>1
    <2>4. G(n)[m] = G(m)[m]
      BY <2>1, <2>2, <2>3, TracesAgree
    <2>5. G(n)[n] = Following(rule, n, G(n)[n - 1])
      BY <2>1, <2>3 DEF Traces
    <2> QED
      BY <1>2, <2>2, <2>4, <2>5
  <1>6. h = [n \in Nat |-> IF n = 0 THEN first ELSE Following(rule, n, h[n - 1])]
    BY <1>3, <1>4, <1>5
  <1> QED
    BY <1>6 DEF Obeys

LEMMA StacksTurn ==
  ASSUME NEW root
  PROVE  /\ Stacks(root)[0] = <<root>>
         /\ \A n \in Nat : Stacks(root)[n + 1] = Turn(Stacks(root)[n])
  <1> DEFINE rule == [of |-> "stack"]
             S == Stacks(root)
  <1>1. ASSUME NEW h
        PROVE  Obeys(h, rule, <<root>>) <=>
               h = [n \in Nat |-> IF n = 0 THEN <<root>> ELSE Turn(h[n - 1])]
    BY DEF Obeys, Following
  <1>2. \E h : h = [n \in Nat |-> IF n = 0 THEN <<root>> ELSE Turn(h[n - 1])]
    BY <1>1, IterationExists
  <1>3. S = [n \in Nat |-> IF n = 0 THEN <<root>> ELSE Turn(S[n - 1])]
    BY <1>2, Zenon DEF Stacks
  <1> HIDE DEF S
  <1>4. S[0] = <<root>>
    BY <1>3
  <1>5. ASSUME NEW n \in Nat PROVE S[n + 1] = Turn(S[n])
    <2>1. PICK m \in Nat : m = n + 1 /\ m # 0 /\ m - 1 = n
      OBVIOUS
    <2> QED
      BY <1>3, <2>1
  <1> QED
    BY <1>4, <1>5 DEF S

LEMMA GenerationsFollow ==
  ASSUME NEW root
  PROVE  /\ Generations(root)[0] = {root}
         /\ \A n \in Nat : Generations(root)[n + 1] =
               UNION {Offspring(node) : node \in Generations(root)[n]}
  <1> DEFINE rule == [of |-> "generation"]
             G == Generations(root)
  <1>1. ASSUME NEW h
        PROVE  Obeys(h, rule, {root}) <=>
               h = [n \in Nat |-> IF n = 0 THEN {root}
                                  ELSE UNION {Offspring(node) : node \in h[n - 1]}]
    BY DEF Obeys, Following
  <1>2. \E h : h = [n \in Nat |-> IF n = 0 THEN {root}
                                  ELSE UNION {Offspring(node) : node \in h[n - 1]}]
    BY <1>1, IterationExists
  <1>3. G = [n \in Nat |-> IF n = 0 THEN {root}
                           ELSE UNION {Offspring(node) : node \in G[n - 1]}]
    BY <1>2, Zenon DEF Generations
  <1> HIDE DEF G
  <1>4. G[0] = {root}
    BY <1>3
  <1>5. ASSUME NEW n \in Nat
        PROVE  G[n + 1] = UNION {Offspring(node) : node \in G[n]}
    <2>1. PICK m \in Nat : m = n + 1 /\ m # 0 /\ m - 1 = n
      OBVIOUS
    <2> QED
      BY <1>3, <2>1
  <1> QED
    BY <1>4, <1>5 DEF G

-----------------------------------------------------------------------------
(* The walk over a layout                                                  *)

Sequence(s) == s \in Seq(Range(s))

LEMMA RangeOfSequence ==
  ASSUME NEW A, NEW s \in Seq(A)
  PROVE  /\ Sequence(s)
         /\ Range(s) = {s[i] : i \in 1 .. Len(s)}
         /\ Range(s) \subseteq A
         /\ Len(s) \in Nat /\ DOMAIN s = 1 .. Len(s)
  BY DEF Sequence, Range

LEMMA SequenceOver ==
  ASSUME NEW s, Sequence(s), NEW A, Range(s) \subseteq A
  PROVE  s \in Seq(A)
  BY DEF Sequence

LEMMA Concatenation ==
  ASSUME NEW A, NEW s \in Seq(A), NEW t \in Seq(A)
  PROVE  /\ s \o t \in Seq(A)
         /\ Len(s \o t) = Len(s) + Len(t)
         /\ \A i \in 1 .. Len(s) : (s \o t)[i] = s[i]
         /\ \A i \in 1 .. Len(t) : (s \o t)[Len(s) + i] = t[i]
  <1>1. s \o t \in Seq(A) /\ Len(s \o t) = Len(s) + Len(t)
    OBVIOUS
  <1>2. ASSUME NEW i \in 1 .. Len(s) PROVE (s \o t)[i] = s[i]
    OBVIOUS
  <1>3. ASSUME NEW i \in 1 .. Len(t) PROVE (s \o t)[Len(s) + i] = t[i]
    OBVIOUS
  <1> QED
    BY <1>1, <1>2, <1>3

\* what a pop leaves, and what the pushes add
LEMMA TurnOfStack ==
  ASSUME NEW s, Sequence(s), s # <<>>, NEW t, Sequence(t)
  PROVE  /\ Sequence(Front(s) \o t)
         /\ Last(s) \in Range(s)
         /\ \A x \in Range(s) : x = Last(s) \/ x \in Range(Front(s) \o t)
         /\ Range(t) \subseteq Range(Front(s) \o t)
         /\ \A x \in Range(Front(s) \o t) : x \in Range(s) \/ x \in Range(t)
  <1> DEFINE A == Range(s) \cup Range(t)
             m == Len(s) - 1
             r == Front(s) \o t
  <1>1. s \in Seq(A) /\ t \in Seq(A)
    BY DEF Sequence
  <1>2. /\ Len(s) \in Nat /\ DOMAIN s = 1 .. Len(s)
        /\ Len(t) \in Nat /\ DOMAIN t = 1 .. Len(t)
    BY <1>1
  <1>3. m \in Nat /\ Len(s) \in 1 .. Len(s)
    BY <1>1, <1>2
  <1>4. Front(s) \in Seq(A) /\ Len(Front(s)) = m
        /\ \A i \in 1 .. m : Front(s)[i] = s[i]
    BY <1>1, <1>2, <1>3 DEF Front
  <1>5. /\ r \in Seq(A) /\ Len(r) = m + Len(t)
        /\ \A i \in 1 .. m : r[i] = s[i]
        /\ \A i \in 1 .. Len(t) : r[m + i] = t[i]
        /\ DOMAIN r = 1 .. m + Len(t)
    <2>1. PICK q \in Seq(A) : q = Front(s)
      BY <1>4
    <2>2. r = q \o t /\ Len(q) = m /\ \A i \in 1 .. m : q[i] = s[i]
      BY <1>4, <2>1
    <2> HIDE DEF m, r, A
    <2>3. /\ q \o t \in Seq(A)
          /\ Len(q \o t) = Len(q) + Len(t)
          /\ \A i \in 1 .. Len(q) : (q \o t)[i] = q[i]
          /\ \A i \in 1 .. Len(t) : (q \o t)[Len(q) + i] = t[i]
      <3>1. t \in Seq(A)
        BY <1>1
      <3> QED
        BY <2>1, <3>1, Concatenation
    <2>4. DOMAIN (q \o t) = 1 .. Len(q \o t)
      BY <2>3, RangeOfSequence, Zenon
    <2> QED
      BY <2>2, <2>3, <2>4
  <1> HIDE DEF r
  <1>6. Last(s) \in Range(s)
    BY <1>2, <1>3 DEF Last, Range
  <1>7. ASSUME NEW x \in Range(s) PROVE x = Last(s) \/ x \in Range(r)
    <2>1. PICK i \in 1 .. Len(s) : x = s[i]
      BY <1>2 DEF Range
    <2>2. CASE i = Len(s)
      BY <2>1, <2>2 DEF Last
    <2>3. CASE i # Len(s)
      <3>1. i \in 1 .. m
        <4>1. \A k \in Nat : \A n \in 1 .. k : n # k => n \in 1 .. k - 1
          OBVIOUS
        <4> QED
          BY <1>2, <2>1, <2>3, <4>1, Zenon
      <3>2. i \in DOMAIN r
        BY <1>2, <1>3, <1>5, <3>1
      <3> QED
        BY <1>5, <2>1, <3>1, <3>2 DEF Range
    <2> QED
      BY <2>2, <2>3
  <1>8. ASSUME NEW x \in Range(t) PROVE x \in Range(r)
    <2>1. PICK i \in 1 .. Len(t) : x = t[i]
      BY <1>2 DEF Range
    <2>2. m + i \in DOMAIN r
      BY <1>2, <1>3, <1>5
    <2> QED
      BY <1>5, <2>1, <2>2 DEF Range
  <1>9. ASSUME NEW x \in Range(r) PROVE x \in Range(s) \/ x \in Range(t)
    <2>1. PICK i \in 1 .. m + Len(t) : x = r[i]
      BY <1>5 DEF Range
    <2>2. CASE i <= m
      <3>1. i \in 1 .. m /\ i \in DOMAIN s
        BY <1>2, <1>3, <2>2
      <3> QED
        BY <1>5, <2>1, <3>1 DEF Range
    <2>3. CASE ~ (i <= m)
      <3>1. PICK j \in 1 .. Len(t) : i = m + j
        <4>1. i - m \in 1 .. Len(t) /\ i = m + (i - m)
          BY <1>2, <1>3, <2>3
        <4> QED
          BY <4>1
      <3> QED
        BY <1>2, <1>5, <2>1, <3>1 DEF Range
    <2> QED
      BY <2>2, <2>3
  <1>10. Sequence(r)
    BY <1>5, RangeOfSequence
  <1> QED
    BY <1>6, <1>7, <1>8, <1>9, <1>10 DEF r

LEMMA BelowIsOffspring ==
  ASSUME NEW node, Sequence(Elements(node, "children"))
  PROVE  Sequence(Below(node)) /\ Range(Below(node)) = Offspring(node)
  <1> DEFINE kids == Elements(node, "children")
             rest == IF Has(node, "template") THEN <<node.f["template"]>> ELSE <<>>
             A == Offspring(node)
  <1>1. Range(rest) = {node.f[k] : k \in {k \in {"template"} : Has(node, k)}}
        /\ Len(rest) \in Nat
    <2>1. CASE Has(node, "template")
      BY <2>1 DEF Range
    <2>2. CASE ~ Has(node, "template")
      BY <2>2 DEF Range
    <2> QED
      BY <2>1, <2>2
  <1>2. kids \in Seq(A) /\ rest \in Seq(A)
    <2>1. kids \in Seq(A)
      <3>1. Range(kids) \subseteq A
        BY DEF Offspring
      <3> HIDE DEF A
      <3> QED
        BY <3>1, SequenceOver
    <2>2. rest \in Seq(A)
      <3>1. CASE Has(node, "template")
        <4>1. node.f["template"] \in A
          BY <3>1 DEF Offspring
        <4> HIDE DEF A
        <4> QED
          BY <3>1, <4>1
      <3>2. CASE ~ Has(node, "template")
        BY <3>2
      <3> QED
        BY <3>1, <3>2
    <2> QED
      BY <2>1, <2>2
  <1>3. Below(node) = kids \o rest
    BY DEF Below
  <1>4. Offspring(node) = Range(kids) \cup Range(rest)
    BY <1>1 DEF Offspring
  <1> HIDE DEF kids, rest, A
  <1>5. PICK s \in Seq(A), t \in Seq(A) : s = kids /\ t = rest
    BY <1>2
  <1>6. /\ s \o t \in Seq(A)
        /\ Len(s \o t) = Len(s) + Len(t)
        /\ \A i \in 1 .. Len(s) : (s \o t)[i] = s[i]
        /\ \A i \in 1 .. Len(t) : (s \o t)[Len(s) + i] = t[i]
    BY Concatenation
  <1>7. /\ Len(s) \in Nat /\ DOMAIN s = 1 .. Len(s)
        /\ Len(t) \in Nat /\ DOMAIN t = 1 .. Len(t)
        /\ DOMAIN (s \o t) = 1 .. Len(s) + Len(t)
    BY <1>6
  <1>8. PICK r : r = s \o t
    OBVIOUS
  <1>9. Range(r) \subseteq A
    BY <1>6, <1>8, RangeOfSequence
  <1>10. ASSUME NEW x \in Range(s) PROVE x \in Range(r)
    <2>1. PICK i \in 1 .. Len(s) : x = s[i]
      BY <1>7 DEF Range
    <2>2. i \in 1 .. Len(s) + Len(t)
      BY <1>7
    <2> QED
      BY <1>6, <1>7, <1>8, <2>1, <2>2 DEF Range
  <1>11. ASSUME NEW x \in Range(t) PROVE x \in Range(r)
    <2>1. PICK i \in 1 .. Len(t) : x = t[i]
      BY <1>7 DEF Range
    <2>2. Len(s) + i \in 1 .. Len(s) + Len(t)
      BY <1>7
    <2> QED
      BY <1>6, <1>7, <1>8, <2>1, <2>2 DEF Range
  <1>12. Range(r) = A
    BY <1>4, <1>5, <1>9, <1>10, <1>11 DEF A
  <1>13. Sequence(r)
    BY <1>6, <1>8, RangeOfSequence
  <1> QED
    BY <1>3, <1>5, <1>8, <1>12, <1>13 DEF A

LEMMA PoppedByTurn ==
  ASSUME NEW root, NEW n \in 0 .. MaxNodes, Stacks(root)[n] # <<>>
  PROVE  Last(Stacks(root)[n]) \in Popped(root)
  BY DEF Popped

\* every stack of the walk is a sequence, and its nodes lie in a generation
LEMMA StacksAreSequences ==
  ASSUME NEW root, WalkEnds(root), NEW n \in 0 .. MaxNodes
  PROVE  /\ Sequence(Stacks(root)[n])
         /\ \A x \in Range(Stacks(root)[n]) :
               \E k \in 0 .. n : x \in Generations(root)[k]
  <1> DEFINE S == Stacks(root)
             G == Generations(root)
             Good(m) == /\ Sequence(S[m])
                        /\ \A x \in Range(S[m]) : \E k \in 0 .. m : x \in G[k]
             T == {m \in Nat : m <= MaxNodes /\ ~ Good(m)}
  <1> USE BundlesAssumption
  <1>1. S[0] = <<root>> /\ \A m \in Nat : S[m + 1] = Turn(S[m])
    BY StacksTurn
  <1>2. /\ G[0] = {root}
        /\ \A m \in Nat : G[m + 1] = UNION {Offspring(node) : node \in G[m]}
    BY GenerationsFollow
  <1>3. ASSUME NEW m \in 0 .. MaxNodes, S[m] # <<>> PROVE Last(S[m]) \in Popped(root)
    BY <1>3, PoppedByTurn
  <1> HIDE DEF S, G
  <1> SUFFICES ASSUME T # {} PROVE FALSE
    BY DEF S, G
  <1>4. PICK m \in T : \A j \in T : m <= j
    BY LeastNumber
  <1>5. m \in Nat /\ m <= MaxNodes /\ ~ Good(m)
    BY <1>4
  <1>6. CASE m = 0
    <2>1. Sequence(S[0]) /\ Range(S[0]) = {root}
      BY <1>1 DEF Sequence, Range
    <2>2. 0 \in 0 .. 0
      OBVIOUS
    <2> QED
      BY <1>2, <1>5, <1>6, <2>1, <2>2
  <1>7. CASE m # 0
    <2>1. PICK j \in Nat : m = j + 1 /\ j <= MaxNodes /\ ~ (m <= j)
      <3>1. m - 1 \in Nat /\ m = (m - 1) + 1 /\ m - 1 <= MaxNodes /\ ~ (m <= m - 1)
        BY <1>5, <1>7
      <3> QED
        BY <3>1
    <2>2. Good(j)
      BY <1>4, <2>1
    <2>3. S[m] = Turn(S[j]) /\ G[m] = UNION {Offspring(node) : node \in G[j]}
      BY <1>1, <1>2, <2>1
    <2>4. CASE S[j] = <<>>
      <3>1. S[m] = <<>> /\ Sequence(<<>>) /\ Range(<<>>) = {}
        BY <2>3, <2>4 DEF Turn, Sequence, Range
      <3> QED
        BY <1>5, <3>1
    <2>5. CASE S[j] # <<>>
      <3> DEFINE v == Last(S[j])
      <3>1. v \in Popped(root)
        BY <1>3, <2>1, <2>5
      <3>2. Sequence(Elements(v, "children"))
        BY <3>1 DEF WalkEnds, Sequence
      <3> HIDE DEF v
      <3>3. Sequence(Below(v)) /\ Range(Below(v)) = Offspring(v)
        BY <3>2, BelowIsOffspring
      <3>4. S[m] = Front(S[j]) \o Below(v)
        BY <2>3, <2>5 DEF Turn, v
      <3>5. /\ Sequence(S[m])
            /\ v \in Range(S[j])
            /\ \A x \in Range(S[m]) : x \in Range(S[j]) \/ x \in Range(Below(v))
        BY <2>2, <2>5, <3>3, <3>4, TurnOfStack DEF v
      <3>6. ASSUME NEW x \in Range(S[m]) PROVE \E k \in 0 .. m : x \in G[k]
        <4>1. CASE x \in Range(S[j])
          <5>1. PICK k \in 0 .. j : x \in G[k]
            BY <2>2, <4>1
          <5>2. k \in 0 .. m
            BY <2>1
          <5> QED
            BY <5>1, <5>2
        <4>2. CASE x \in Offspring(v)
          <5>1. PICK k \in 0 .. j : v \in G[k]
            BY <2>2, <3>5
          <5>2. k + 1 \in 0 .. m /\ k \in Nat
            BY <2>1
          <5>3. x \in G[k + 1]
            BY <1>2, <4>2, <5>1, <5>2
          <5> QED
            BY <5>2, <5>3
        <4> QED
          BY <3>3, <3>5, <4>1, <4>2
      <3> QED
        BY <1>5, <3>5, <3>6
    <2> QED
      BY <2>4, <2>5
  <1> QED
    BY <1>6, <1>7

\* whatever is on a stack is popped before the walk ends
LEMMA StackIsPopped ==
  ASSUME NEW root, WalkEnds(root), NEW n \in 0 .. MaxNodes
  PROVE  Range(Stacks(root)[n]) \subseteq Popped(root)
  <1> DEFINE S == Stacks(root)
             T == {k \in Nat : k <= MaxNodes
                               /\ ~ (Range(S[MaxNodes - k]) \subseteq Popped(root))}
  <1> USE BundlesAssumption
  <1>1. \A m \in Nat : S[m + 1] = Turn(S[m])
    BY StacksTurn
  <1>2. ASSUME NEW m \in 0 .. MaxNodes, S[m] # <<>> PROVE Last(S[m]) \in Popped(root)
    BY <1>2, PoppedByTurn
  <1>3. ASSUME NEW m \in 0 .. MaxNodes PROVE Sequence(S[m])
    BY <1>3, StacksAreSequences
  <1>4. S[MaxNodes] = <<>>
    BY DEF WalkEnds
  <1> HIDE DEF S
  <1>5. ASSUME T # {} PROVE FALSE
    <2>1. PICK k \in T : \A j \in T : k <= j
      BY <1>5, LeastNumber
    <2>2. k \in Nat /\ k <= MaxNodes
      BY <2>1
    <2>3. k # 0
      <3>1. Range(<<>>) = {}
        BY DEF Range
      <3>2. MaxNodes - 0 = MaxNodes
        OBVIOUS
      <3> QED
        BY <1>4, <2>1, <3>1, <3>2
    <2>4. PICK m \in Nat : m = MaxNodes - k
      BY <2>2
    <2>5. /\ m \in 0 .. MaxNodes /\ m + 1 \in 0 .. MaxNodes
          /\ k - 1 \in Nat /\ k - 1 <= MaxNodes /\ ~ (k <= k - 1)
          /\ MaxNodes - (k - 1) = m + 1
      BY <2>2, <2>3, <2>4
    <2>6. Range(S[m + 1]) \subseteq Popped(root)
      BY <2>1, <2>5
    <2>7. PICK x \in Range(S[m]) : x \notin Popped(root)
      BY <2>1, <2>4
    <2>8. S[m] # <<>>
      BY <2>7 DEF Range
    <2>9. PICK v : v = Last(S[m])
      OBVIOUS
    <2>10. v \in Popped(root)
      BY <1>2, <2>5, <2>8, <2>9
    <2>11. Sequence(Below(v))
      BY <2>10, BelowIsOffspring DEF WalkEnds, Sequence
    <2>12. S[m + 1] = Front(S[m]) \o Below(v)
      BY <1>1, <2>8, <2>9 DEF Turn
    <2>13. \A y \in Range(S[m]) : y = Last(S[m]) \/ y \in Range(Front(S[m]) \o Below(v))
      BY <1>3, <2>5, <2>8, <2>11, TurnOfStack
    <2> QED
      BY <2>6, <2>7, <2>9, <2>10, <2>12, <2>13
  <1>6. PICK k \in Nat : k <= MaxNodes /\ MaxNodes - k = n
    <2>1. MaxNodes - n \in Nat /\ MaxNodes - n <= MaxNodes /\ MaxNodes - (MaxNodes - n) = n
      OBVIOUS
    <2> QED
      BY <2>1
  <1> QED
    BY <1>5, <1>6 DEF S

(***************************************************************************)
(* check_zab_capture_nodes and check_layout_invariants pop every node of   *)
(* the layout, at any depth and below templates too, and nothing else.     *)
(***************************************************************************)
THEOREM WalkVisitsEveryNode ==
  ASSUME NEW root, WalkEnds(root)
  PROVE  Popped(root) = Nodes(root)
  <1> DEFINE S == Stacks(root)
             G == Generations(root)
             T == {m \in Nat : m <= MaxNodes /\ ~ (G[m] \subseteq Popped(root))}
  <1> USE BundlesAssumption
  <1>1. S[0] = <<root>> /\ \A m \in Nat : S[m + 1] = Turn(S[m])
    BY StacksTurn
  <1>2. /\ G[0] = {root}
        /\ \A m \in Nat : G[m + 1] = UNION {Offspring(node) : node \in G[m]}
    BY GenerationsFollow
  <1>3. ASSUME NEW m \in 0 .. MaxNodes
        PROVE  /\ Sequence(S[m])
               /\ Range(S[m]) \subseteq Popped(root)
               /\ \A x \in Range(S[m]) : \E k \in 0 .. m : x \in G[k]
    BY <1>3, StacksAreSequences, StackIsPopped
  <1>4. S[MaxNodes] = <<>>
    BY DEF WalkEnds
  <1>5. Popped(root) = {Last(S[n]) : n \in {n \in 0 .. MaxNodes : S[n] # <<>>}}
    BY DEF Popped
  <1>6. Nodes(root) = UNION {G[n] : n \in 0 .. MaxNodes}
    BY DEF Nodes
  <1> HIDE DEF S, G
  <1>7. ASSUME NEW v \in Popped(root)
        PROVE  v \in Nodes(root) /\ Offspring(v) \subseteq Popped(root)
    <2>1. PICK n \in 0 .. MaxNodes : S[n] # <<>> /\ v = Last(S[n])
      BY <1>5
    <2>2. n \in Nat /\ n + 1 \in 0 .. MaxNodes
      BY <1>4, <2>1
    <2>3. Sequence(Elements(v, "children"))
      BY DEF WalkEnds, Sequence
    <2>4. Sequence(Below(v)) /\ Range(Below(v)) = Offspring(v)
      BY <2>3, BelowIsOffspring
    <2>5. S[n + 1] = Front(S[n]) \o Below(v)
      BY <1>1, <2>1, <2>2 DEF Turn
    <2>6. v \in Range(S[n]) /\ Range(Below(v)) \subseteq Range(S[n + 1])
      BY <1>3, <2>1, <2>4, <2>5, TurnOfStack
    <2>7. PICK k \in 0 .. n : v \in G[k]
      BY <1>3, <2>1, <2>6
    <2>8. k \in 0 .. MaxNodes
      BY <2>1
    <2> QED
      BY <1>3, <1>6, <2>2, <2>4, <2>6, <2>7, <2>8
  <1>8. ASSUME T # {} PROVE FALSE
    <2>1. PICK m \in T : \A j \in T : m <= j
      BY <1>8, LeastNumber
    <2>2. m \in Nat /\ m <= MaxNodes /\ ~ (G[m] \subseteq Popped(root))
      BY <2>1
    <2>3. m # 0
      <3>1. root \in Range(S[0])
        BY <1>1 DEF Range
      <3>2. root \in Popped(root)
        BY <1>3, <3>1
      <3> QED
        BY <1>2, <2>2, <3>2
    <2>4. PICK j \in Nat : m = j + 1 /\ j <= MaxNodes /\ ~ (m <= j)
      <3>1. m - 1 \in Nat /\ m = (m - 1) + 1 /\ m - 1 <= MaxNodes /\ ~ (m <= m - 1)
        BY <2>2, <2>3
      <3> QED
        BY <3>1
    <2>5. G[j] \subseteq Popped(root)
      BY <2>1, <2>4
    <2>6. G[m] = UNION {Offspring(node) : node \in G[j]}
      BY <1>2, <2>4
    <2> QED
      BY <1>7, <2>2, <2>5, <2>6
  <1>9. Nodes(root) \subseteq Popped(root)
    BY <1>6, <1>8
  <1> QED
    BY <1>7, <1>9

LEMMA CaptureCheckIsRight ==
  ASSUME NEW inline, Has(inline, "layout") => WalkEnds(inline.f["layout"])
  PROVE  /\ Has(inline, "layout") =>
               (CheckZabCaptureNodes(inline.f["layout"]) <=> ~ Malformed(inline))
         /\ ~ Has(inline, "layout") => ~ Malformed(inline)
         /\ Validate(inline) => ~ Malformed(inline)
  <1>1. CASE ~ Has(inline, "layout")
    BY <1>1 DEF Malformed
  <1>2. CASE Has(inline, "layout")
    <2> DEFINE root == inline.f["layout"]
    <2>1. Popped(root) = Nodes(root)
      BY <1>2, WalkVisitsEveryNode
    <2>2. CheckZabCaptureNodes(root) <=> ~ Malformed(inline)
      BY <1>2, <2>1 DEF CheckZabCaptureNodes, Malformed
    <2>3. \A node : IsCapture(node) => IsObject(node)
      BY DEF IsCapture, StringIn, HasString, Has
    <2>4. CheckLayoutInvariants(root) => CheckZabCaptureNodes(root)
      BY <2>3 DEF CheckLayoutInvariants, CheckZabCaptureNodes, CheckNode
    <2> QED
      BY <1>2, <2>2, <2>4 DEF Validate
  <1> QED
    BY <1>1, <1>2

-----------------------------------------------------------------------------
(* The harness                                                             *)

LEMMA FilterKeepsOrder ==
  ASSUME NEW inv, NEW scenarios, Sequence(scenarios)
  PROVE  /\ FilterScenarios(inv, scenarios) \in Seq(Range(scenarios))
         /\ Len(FilterScenarios(inv, scenarios)) <= Len(scenarios)
  <1> DEFINE rule == [of |-> "kept", inv |-> inv, scenarios |-> scenarios]
             Next1(n, x) == IF Wanted(inv, scenarios[n])
                            THEN Append(x, scenarios[n]) ELSE x
             K == CHOOSE h : h = [n \in Nat |-> IF n = 0 THEN <<>>
                                                ELSE Next1(n, h[n - 1])]
             R == Range(scenarios)
             T == {n \in Nat : n <= Len(scenarios)
                               /\ ~ (K[n] \in Seq(R) /\ Len(K[n]) <= n)}
  <1>1. ASSUME NEW h
        PROVE  Obeys(h, rule, <<>>) <=>
               h = [n \in Nat |-> IF n = 0 THEN <<>> ELSE Next1(n, h[n - 1])]
    BY DEF Obeys, Following
  <1>2. \E h : h = [n \in Nat |-> IF n = 0 THEN <<>> ELSE Next1(n, h[n - 1])]
    BY <1>1, IterationExists
  <1>3. K = [n \in Nat |-> IF n = 0 THEN <<>> ELSE Next1(n, K[n - 1])]
    BY <1>2, Zenon
  <1>4. FilterScenarios(inv, scenarios) = K[Len(scenarios)]
    BY DEF FilterScenarios
  <1>5. Len(scenarios) \in Nat /\ DOMAIN scenarios = 1 .. Len(scenarios)
    BY DEF Sequence
  <1>6. ASSUME NEW i \in 1 .. Len(scenarios) PROVE scenarios[i] \in R
    BY <1>5 DEF Range
  <1> HIDE DEF K, R
  <1>7. ASSUME T # {} PROVE FALSE
    <2>1. PICK m \in T : \A n \in T : m <= n
      BY <1>7, LeastNumber
    <2>2. /\ m \in Nat /\ m <= Len(scenarios)
          /\ ~ (K[m] \in Seq(R) /\ Len(K[m]) <= m)
      BY <2>1
    <2>3. m # 0
      <3>1. K[0] = <<>>
        BY <1>3
      <3>2. <<>> \in Seq(R) /\ Len(<<>>) <= 0
        OBVIOUS
      <3> QED
        BY <2>2, <3>1, <3>2, Zenon
    <2>4. m - 1 \in Nat /\ m - 1 <= Len(scenarios) /\ ~ (m <= m - 1)
          /\ m \in 1 .. Len(scenarios)
      BY <1>5, <2>2, <2>3
    <2>5. PICK x : x = K[m - 1]
      OBVIOUS
    <2>6. x \in Seq(R) /\ Len(x) <= m - 1
      BY <2>1, <2>4, <2>5
    <2>7. K[m] = Next1(m, x)
      BY <1>3, <2>2, <2>3, <2>5
    <2>8. scenarios[m] \in R
      BY <1>6, <2>4
    <2>9. PICK s \in R : s = scenarios[m]
      BY <2>8
    <2>10. K[m] = x \/ K[m] = Append(x, s)
      BY <2>7, <2>9
    <2>11. Append(x, s) \in Seq(R) /\ Len(Append(x, s)) = Len(x) + 1
      BY <2>6
    <2>12. Len(x) \in Nat /\ Len(x) <= m /\ Len(x) + 1 <= m
      BY <2>4, <2>6
    <2>13. K[m] \in Seq(R) /\ Len(K[m]) <= m
      BY <2>6, <2>10, <2>11, <2>12
    <2> QED
      BY <2>2, <2>13
  <1> QED
    BY <1>4, <1>5, <1>7 DEF R

Busy == {"setup", "step", "asking", "emitting", "reading", "failed",
         "resetting", "cleaning"}

(***************************************************************************)
(* The suite is what a directory that loads holds, the one that was named  *)
(* if one was.                                                             *)
(***************************************************************************)
Chosen(inv, scenarios) ==
    \E d \in DOMAIN Dirs :
        /\ Loads(d)
        /\ scenarios = FilterScenarios(inv, Dirs[d])
        /\ \A e \in inv.flag : e = d

(***************************************************************************)
(* Every scenario played so far has its outcome, in order; only scenarios  *)
(* for the runtime are skipped.                                            *)
(***************************************************************************)
HarnessInv ==
    /\ call \in Invocations
    /\ pc \in {"begin", "next", "done"} \cup Busy
    /\ exit \in {-1, 0, 1, 2} /\ (pc = "done" <=> exit # -1)
    /\ Sequence(outcomes) /\ at = Len(outcomes) + 1
    /\ Sequence(suite) /\ at <= Len(suite) + 1
    /\ pc = "begin" => suite = <<>> /\ outcomes = <<>>
    /\ pc \in Busy => at <= Len(suite) /\ Scenario.target # "runtime"
    /\ suite # <<>> => Chosen(call, suite)
    /\ \A i \in 1 .. Len(outcomes) :
          outcomes[i].verdict = "skipped" => suite[i].target = "runtime"
    /\ exit = 0 => suite # <<>> /\ AllPassed /\ at > Len(suite)

LEMMA HarnessInitially == Init => HarnessInv
  <1> SUFFICES ASSUME Init PROVE HarnessInv
    OBVIOUS
  <1>1. Sequence(<<>>) /\ Len(<<>>) = 0
    BY DEF Sequence, Range
  <1> QED
    BY <1>1 DEF Init, HarnessInv, Busy

\* a step that only moves the player within a scenario
LEMMA MovesOfThePlayer ==
  ASSUME PlayerStep \/ OpenWs \/ ResetAfterPass \/ ResetAfterFail
  PROVE  /\ UNCHANGED <<call, suite, at, outcomes, exit>>
         /\ pc \in Busy /\ pc' \in Busy
  <1> USE DEF Busy, HarnessRest
  <1>1. ASSUME NEW ok, Passes(ok) PROVE pc' \in Busy
    BY <1>1 DEF Passes
  <1>2. ASSUME NEW kinds, Playing(kinds) PROVE pc \in Busy
    BY <1>2 DEF Playing
  <1>3. Reading => pc \in Busy
    BY <1>2 DEF Reading
  <1>4. CASE ClientSends
    BY <1>1, <1>2, <1>4 DEF ClientSends
  <1>5. CASE ReadFrame
    <2> DEFINE message == Head(conn[W].out)
    <2>1. CASE message.msg = "text"
      BY <1>1, <1>3, <1>5, <2>1 DEF ReadFrame
    <2>2. CASE message.msg # "text"
      BY <1>3, <1>5, <2>2 DEF ReadFrame
    <2> QED
      BY <2>1, <2>2
  <1>6. CASE ReadTimesOut
    BY <1>1, <1>3, <1>6 DEF ReadTimesOut
  <1>7. CASE ExpectRuntimeState
    BY <1>1, <1>2, <1>7 DEF ExpectRuntimeState
  <1>8. CASE ExpectServerState
    BY <1>1, <1>2, <1>8 DEF ExpectServerState
  <1>9. CASE ExpectNoFrameFor
    <2>1. CASE conn[W].out # <<>>
      BY <1>1, <1>2, <1>9, <2>1 DEF ExpectNoFrameFor
    <2>2. CASE conn[W].out = <<>>
      BY <1>1, <1>2, <1>9, <2>2 DEF ExpectNoFrameFor
    <2> QED
      BY <2>1, <2>2
  <1>10. CASE ExpectClose
    <2>1. CASE conn[W].out # <<>>
      BY <1>1, <1>2, <1>10, <2>1 DEF ExpectClose
    <2>2. CASE conn[W].out = <<>>
      BY <1>1, <1>2, <1>10, <2>2 DEF ExpectClose
    <2> QED
      BY <2>1, <2>2
  <1>11. CASE JudgeStep
    BY <1>1, <1>11 DEF JudgeStep
  <1>12. CASE ServerEmits
    BY <1>2, <1>12 DEF ServerEmits
  <1>13. CASE OpenWs
    BY <1>13 DEF OpenWs
  <1>14. CASE ResetAfterPass
    BY <1>14 DEF ResetAfterPass
  <1>15. CASE ResetAfterFail
    BY <1>15 DEF ResetAfterFail
  <1> QED
    BY <1>4, <1>5, <1>6, <1>7, <1>8, <1>9, <1>10, <1>11, <1>12, <1>13,
       <1>14, <1>15 DEF PlayerStep

LEMMA SuiteIsChosen ==
  ASSUME call \in Invocations, RunConformance, pc' = "next"
  PROVE  Chosen(call, suite')
  <1> DEFINE dir == ResolveScenariosDir(call)
             d == CHOOSE x \in dir : TRUE
  <1>1. /\ suite' = FilterScenarios(call, Dirs[d])
        /\ dir # {} /\ \A x \in dir : Loads(x)
    BY DEF RunConformance
  <1>2. d \in dir
    BY <1>1
  <1>3. /\ \A x \in dir : x \in DOMAIN Dirs
        /\ call.flag # {} => dir \subseteq call.flag
    <2>1. CASE call.flag # {}
      BY <2>1 DEF ResolveScenariosDir, IsDir
    <2>2. CASE call.flag = {} /\ call.env # {}
      BY <2>2 DEF ResolveScenariosDir, IsDir
    <2>3. CASE call.flag = {} /\ call.env = {}
      <3>1. dir = FirstDir(ScenarioDirCandidates(call))
        BY <2>3 DEF ResolveScenariosDir
      <3> QED
        BY <2>3, <3>1 DEF FirstDir, IsDir
    <2> QED
      BY <2>1, <2>2, <2>3
  <1> HIDE DEF dir, d
  <1>4. \A e \in call.flag : e = d
    BY <1>2, <1>3, InteropAssumption
  <1> QED
    BY <1>1, <1>2, <1>3, <1>4 DEF Chosen

LEMMA ChosenIsSequence ==
  ASSUME NEW inv, NEW scenarios, Chosen(inv, scenarios)
  PROVE  /\ Sequence(scenarios)
         /\ Len(scenarios) \in Nat /\ Len(scenarios) <= Len(Sessions)
         /\ \E d \in DOMAIN Dirs : Loads(d) /\ Range(scenarios) \subseteq Range(Dirs[d])
  <1>1. PICK d \in DOMAIN Dirs :
           Loads(d) /\ scenarios = FilterScenarios(inv, Dirs[d])
    BY DEF Chosen
  <1>2. Sequence(Dirs[d]) /\ Len(Dirs[d]) <= Len(Sessions)
    BY InteropAssumption DEF Sequence
  <1>3. scenarios \in Seq(Range(Dirs[d])) /\ Len(scenarios) <= Len(Dirs[d])
    BY <1>1, <1>2, FilterKeepsOrder
  <1>4. Sequence(scenarios) /\ Range(scenarios) \subseteq Range(Dirs[d])
        /\ Len(scenarios) \in Nat
    BY <1>3, RangeOfSequence
  <1>5. Len(Dirs[d]) \in Nat /\ Len(Sessions) \in Nat
    BY <1>2, InteropAssumption DEF Sequence
  <1> QED
    BY <1>1, <1>2, <1>3, <1>4, <1>5

\* one more outcome
LEMMA AppendOutcome ==
  ASSUME NEW s, Sequence(s), NEW x
  PROVE  /\ Sequence(Append(s, x))
         /\ Len(s) \in Nat /\ Len(Append(s, x)) = Len(s) + 1
         /\ \A i \in 1 .. Len(s) : Append(s, x)[i] = s[i]
         /\ Append(s, x)[Len(s) + 1] = x
  <1> DEFINE A == Range(s) \cup {x}
  <1>1. s \in Seq(A) /\ x \in A
    BY DEF Sequence
  <1> HIDE DEF A
  <1>2. Append(s, x) \in Seq(A)
    BY <1>1
  <1>3. Sequence(Append(s, x))
    BY <1>2, RangeOfSequence
  <1> QED
    BY <1>1, <1>3

LEMMA HarnessInductive == HarnessInv /\ [Next]_vars => HarnessInv'
  <1> SUFFICES ASSUME HarnessInv, [Next]_vars PROVE HarnessInv'
    OBVIOUS
  <1> DEFINE Same == UNCHANGED <<call, suite, at, outcomes, exit>>
  <1>1. ASSUME Same, pc' = pc PROVE HarnessInv'
    BY <1>1 DEF HarnessInv, Scenario, AllPassed, Count
  <1>2. ASSUME Same, pc \in Busy, pc' \in Busy PROVE HarnessInv'
    BY <1>2 DEF HarnessInv, Scenario, AllPassed, Count, Busy
  <1>3. CASE StartScenario
    BY <1>3 DEF StartScenario, HarnessInv, Scenario, AllPassed, Count, Busy
  <1>4. CASE RunConformance
    <2>1. CASE pc' = "next"
      <3>1. Chosen(call, suite')
        BY <1>4, <2>1, SuiteIsChosen DEF HarnessInv
      <3>2. Sequence(suite') /\ Len(suite') \in Nat
        BY <3>1, ChosenIsSequence
      <3>3. /\ pc = "begin" /\ UNCHANGED <<call, at, outcomes, exit>>
        BY <1>4, <2>1 DEF RunConformance
      <3>4. outcomes = <<>> /\ at = 1 /\ Len(outcomes) = 0
        BY <3>3 DEF HarnessInv
      <3> QED
        BY <2>1, <3>1, <3>2, <3>3, <3>4 DEF HarnessInv, Busy
    <2>2. CASE pc' # "next"
      <3>1. /\ pc = "begin" /\ pc' = "done" /\ exit' = 2
            /\ UNCHANGED <<call, at, outcomes, suite>>
        BY <1>4, <2>2 DEF RunConformance
      <3> QED
        BY <3>1 DEF HarnessInv, Busy
    <2> QED
      BY <2>1, <2>2
  <1>5. CASE SkipScenario \/ FinishScenario
    <2>1. PICK verdict :
             /\ outcomes' = Append(outcomes, [name |-> Scenario.name,
                                              verdict |-> verdict])
             /\ verdict = "skipped" => Scenario.target = "runtime"
             /\ at' = at + 1 /\ at <= Len(suite) /\ pc' = "next" /\ pc # "done"
             /\ UNCHANGED <<call, suite, exit>>
      <3>1. CASE SkipScenario
        BY <3>1 DEF SkipScenario, Outcome
      <3>2. CASE FinishScenario
        <4>1. PICK verdict \in {"passed", "failed"} :
                 outcomes' = Append(outcomes, [name |-> Scenario.name,
                                               verdict |-> verdict])
          BY <3>2 DEF FinishScenario, Outcome
        <4>2. /\ at' = at + 1 /\ at <= Len(suite) /\ pc' = "next" /\ pc # "done"
              /\ UNCHANGED <<call, suite, exit>>
          BY <3>2 DEF FinishScenario, HarnessInv, Busy
        <4> QED
          BY <4>1, <4>2
      <3> QED
        BY <1>5, <3>1, <3>2
    <2>2. PICK o : /\ outcomes' = Append(outcomes, o)
                   /\ o.verdict = verdict
      BY <2>1
    <2>3. /\ Sequence(outcomes') /\ Len(outcomes) \in Nat
          /\ Len(outcomes') = Len(outcomes) + 1
          /\ \A i \in 1 .. Len(outcomes) : outcomes'[i] = outcomes[i]
          /\ outcomes'[Len(outcomes) + 1] = o
      BY <2>1, <2>2, AppendOutcome DEF HarnessInv
    <2>4. Len(suite) \in Nat
      BY DEF HarnessInv, Sequence
    <2>5. ASSUME NEW i \in 1 .. Len(outcomes'), outcomes'[i].verdict = "skipped"
          PROVE  suite'[i].target = "runtime"
      <3>1. CASE i = Len(outcomes) + 1
        BY <2>1, <2>2, <2>3, <2>5, <3>1 DEF HarnessInv, Scenario
      <3>2. CASE i # Len(outcomes) + 1
        <4>1. i \in 1 .. Len(outcomes)
          BY <2>3, <3>2
        <4> QED
          BY <2>1, <2>3, <2>5, <4>1 DEF HarnessInv
      <3> QED
        BY <3>1, <3>2
    <2>6. at' = Len(outcomes') + 1 /\ at' <= Len(suite') + 1
      BY <2>1, <2>3, <2>4 DEF HarnessInv
    <2> QED
      BY <2>1, <2>3, <2>5, <2>6 DEF HarnessInv, Busy
  <1>6. CASE ExitCode
    BY <1>6 DEF ExitCode, HarnessInv, Busy, AllPassed, Count, Sequence
  <1>7. CASE PlayerStep \/ OpenWs \/ ResetAfterPass \/ ResetAfterFail
    BY <1>2, <1>7, MovesOfThePlayer
  <1>8. ASSUME UNCHANGED Alone PROVE HarnessInv'
    BY <1>1, <1>8 DEF Alone
  <1>9. CASE VisitorComes \/ VisitorReads
    BY <1>1, <1>9 DEF VisitorComes, VisitorReads
  <1>10. CASE UNCHANGED vars
    BY <1>1, <1>10 DEF vars
  <1> QED
    BY <1>3, <1>4, <1>5, <1>6, <1>7, <1>8, <1>9, <1>10 DEF Next, HarnessStep

(***************************************************************************)
(* As many scenarios passed or were skipped as there are: none failed.     *)
(***************************************************************************)
LEMMA NoneFailed ==
  ASSUME NEW n \in Nat, NEW P \in SUBSET (1 .. n), NEW S \in SUBSET (1 .. n),
         P \cap S = {}, Cardinality(P) + Cardinality(S) = n
  PROVE  P \cup S = 1 .. n
  <1>1. IsFiniteSet(1 .. n) /\ Cardinality(1 .. n) = n
    BY FS_Interval
  <1>2. IsFiniteSet(P) /\ IsFiniteSet(S)
    BY <1>1, FS_Subset
  <1>3. Cardinality(P \cap S) = 0
    BY FS_EmptySet
  <1>4. /\ IsFiniteSet(P \cup S)
        /\ Cardinality(P \cup S) = Cardinality(P) + Cardinality(S) - Cardinality(P \cap S)
    BY <1>2, FS_Union
  <1>5. Cardinality(P) \in Nat /\ Cardinality(S) \in Nat
    BY <1>2, FS_CardinalityType
  <1>6. Cardinality(P \cup S) = Cardinality(1 .. n)
    BY <1>1, <1>3, <1>4, <1>5
  <1> QED
    BY <1>1, <1>6, FS_Subset

LEMMA HonestExit == HarnessInv => ExitIsHonest
  <1> SUFFICES ASSUME HarnessInv, exit = 0 PROVE ExitIsHonest
    BY DEF ExitIsHonest
  <1>1. /\ suite # <<>> /\ AllPassed /\ at > Len(suite)
        /\ Chosen(call, suite)
    BY DEF HarnessInv
  <1>2. /\ Len(suite) \in Nat /\ DOMAIN suite = 1 .. Len(suite)
        /\ Len(outcomes) \in Nat /\ DOMAIN outcomes = 1 .. Len(outcomes)
    BY DEF HarnessInv, Sequence
  <1>3. Len(outcomes) = Len(suite)
    <2>1. at = Len(outcomes) + 1 /\ at <= Len(suite) + 1
      BY DEF HarnessInv
    <2>2. \A k, n \in Nat : k + 1 > n /\ k + 1 <= n + 1 => k = n
      OBVIOUS
    <2> QED
      BY <1>1, <1>2, <2>1, <2>2
  <1>4. PICK n \in Nat : n = Len(suite)
    BY <1>2
  <1> DEFINE P == {i \in DOMAIN outcomes : outcomes[i].verdict = "passed"}
             S == {i \in DOMAIN outcomes : outcomes[i].verdict = "skipped"}
  <1>5. P \cup S = 1 .. n
    <2>1. P \in SUBSET (1 .. n) /\ S \in SUBSET (1 .. n) /\ P \cap S = {}
      BY <1>2, <1>3, <1>4
    <2>2. Cardinality(P) + Cardinality(S) = n
      BY <1>1, <1>4 DEF AllPassed, Count
    <2> HIDE DEF P, S
    <2> QED
      BY <2>1, <2>2, NoneFailed
  <1>6. ASSUME NEW i \in DOMAIN suite, suite[i].target # "runtime"
        PROVE  outcomes[i].verdict = "passed"
    <2>1. i \in 1 .. n /\ i \in 1 .. Len(outcomes)
      BY <1>2, <1>3, <1>4
    <2>2. i \notin S
      BY <1>6, <2>1 DEF HarnessInv
    <2> QED
      BY <1>5, <2>1, <2>2
  <1>7. ASSUME NEW d \in call.flag
        PROVE  IsDir(d) /\ suite = FilterScenarios(call, Dirs[d])
    <2>1. PICK e \in DOMAIN Dirs :
             suite = FilterScenarios(call, Dirs[e]) /\ \A x \in call.flag : x = e
      BY <1>1 DEF Chosen
    <2>2. d = e
      BY <2>1
    <2> QED
      BY <2>1, <2>2 DEF IsDir
  <1> QED
    BY <1>1, <1>6, <1>7 DEF ExitIsHonest

-----------------------------------------------------------------------------
(* The control plane                                                       *)

CallersHaveIds ==
    \A k \in Callers :
        step[k] \in {"creating", "inserted", "activating", "announcing"} =>
            arg[k] \in Ids

SceneFields ==
    {"id", "version", "seq", "leaves", "specs", "inline", "seed", "ready"}

StoreOK ==
    /\ Sequence(store) /\ Len(store) = made
    /\ \A o \in 1 .. made : DOMAIN store[o] = SceneFields

\* where the harness waits for an answer, and the request it has sent
Talking == {"setup", "asking", "emitting", "resetting", "cleaning"}

OpOf ==
    [setup |-> "setup", asking |-> "state", emitting |-> "emit",
     resetting |-> "reset", cleaning |-> "reset"]

SetupPhases ==
    {"install", "register", "create", "first", "judge", "declare", "seed",
     "activate", "point", "announce"}

\* no setup or reset is under way
Calm == {"idle", "writing"}

\* the scene has been created
ScenePhases == SetupPhases \ {"install", "register", "create"}

FitLayout(inline) == Has(inline, "layout") => WalkEnds(inline.f["layout"])

(***************************************************************************)
(* One request at a time: there is one exactly while the harness waits for *)
(* its answer, and it is the one the phase of the handler belongs to.      *)
(***************************************************************************)
ControlInv ==
    /\ phase \in {"idle", "writing", "clearing", "auth"} \cup SetupPhases
    /\ pc \in Talking => request.op = OpOf[pc]
    /\ pc \notin Talking => request = NoRequest /\ response = NoResponse
    /\ phase # "idle" => response = NoResponse
    /\ phase = "writing" => request.op = "emit"
    /\ phase \notin Calm => request.op \in {"setup", "reset"}
    /\ phase \in SetupPhases => request.op = "setup"
    /\ phase \in ScenePhases => made # 0
    /\ request.op = "setup" => SceneId \in Ids /\ FitLayout(Inline(Bundle))

(***************************************************************************)
(* A scene is judged right, or is the one whose layout is about to be      *)
(* judged.                                                                 *)
(***************************************************************************)
Judged(o) == o \in rejected <=> Malformed(store[o].inline)

ToBeJudged(o) ==
    /\ o \notin rejected
    /\ store[o].inline = Inline(Bundle) /\ ~ store[o].ready

Pending(o) == o = made /\ phase \in {"first", "judge"}

ScenesOK ==
    \A o \in 1 .. made :
        /\ FitLayout(store[o].inline)
        /\ IF Pending(o) THEN ToBeJudged(o) ELSE Judged(o)
        /\ DOMAIN store[o].seed \subseteq DOMAIN store[o].leaves

TokensOK == Range(tokens) \subseteq Range(Roles)

ServerInv ==
    RegistryTypeOK /\ CallersHaveIds /\ StoreOK /\ ControlInv /\ ScenesOK
    /\ TokensOK

-----------------------------------------------------------------------------
(* What the steps of the harness and of the handlers leave alone           *)

LEMMA HarnessKeepsServer ==
  ASSUME HarnessStep \/ VisitorComes \/ VisitorReads
  PROVE  UNCHANGED <<registryVars, phase, store, tokens, write>>
  <1> USE DEF Rest, serverVars
  <1>1. CASE RunConformance \/ SkipScenario \/ ExitCode
    BY <1>1 DEF RunConformance, SkipScenario, ExitCode
  <1>2. CASE StartScenario \/ ResetAfterPass
    BY <1>2 DEF StartScenario, ResetAfterPass, Post
  <1>3. CASE OpenWs \/ FinishScenario
    BY <1>3 DEF OpenWs, FinishScenario, Return
  <1>4. CASE ResetAfterFail
    BY <1>4 DEF ResetAfterFail
  <1>5. CASE ClientSends \/ ReadFrame \/ ReadTimesOut
    BY <1>5 DEF ClientSends, ReadFrame, ReadTimesOut
  <1>6. CASE ExpectRuntimeState \/ JudgeStep
    BY <1>6 DEF ExpectRuntimeState, JudgeStep
  <1>7. CASE ExpectNoFrameFor \/ ExpectClose
    BY <1>7 DEF ExpectNoFrameFor, ExpectClose
  <1>8. CASE ExpectServerState
    BY <1>8 DEF ExpectServerState, Post, Return
  <1>9. CASE ServerEmits
    BY <1>9 DEF ServerEmits, Post, Return
  <1>10. CASE VisitorComes \/ VisitorReads
    BY <1>10 DEF VisitorComes, VisitorReads
  <1> QED
    BY <1>1, <1>2, <1>3, <1>4, <1>5, <1>6, <1>7, <1>8, <1>9, <1>10
       DEF HarnessStep, PlayerStep

\* the harness says nothing, sends a request, or takes the answer
SaysNothing ==
    pc \notin Talking /\ pc' \notin Talking /\ UNCHANGED <<request, response>>

Asks ==
    /\ pc \notin Talking /\ pc' \in Talking
    /\ request'.op = OpOf[pc'] /\ UNCHANGED response
    /\ pc' = "setup" =>
          /\ pc = "next" /\ at <= Len(suite)
          /\ request'.bundles = BuildSetupBundles(Scenario)

Hears ==
    /\ pc \in Talking /\ pc' \notin Talking
    /\ response # NoResponse
    /\ request' = NoRequest /\ response' = NoResponse

LEMMA HarnessTalks ==
  ASSUME HarnessStep
  PROVE  SaysNothing \/ Asks \/ Hears
  <1> USE DEF Rest, serverVars, Talking
  <1>a. ASSUME NEW ok, Passes(ok) PROVE pc' \notin Talking
    BY <1>a DEF Passes
  <1>b. ASSUME NEW kinds, Playing(kinds) PROVE pc \notin Talking
    BY <1>b DEF Playing
  <1>c. Reading => pc \notin Talking
    BY <1>b DEF Reading
  <1>1. CASE RunConformance \/ SkipScenario \/ ExitCode
    BY <1>1 DEF RunConformance, SkipScenario, ExitCode, SaysNothing
  <1>2. CASE StartScenario
    BY <1>2 DEF StartScenario, Post, Asks, OpOf
  <1>3. CASE ResetAfterPass
    BY <1>3 DEF ResetAfterPass, Post, Asks, OpOf
  <1>4. CASE ResetAfterFail
    BY <1>4 DEF ResetAfterFail, Asks, OpOf
  <1>5. CASE OpenWs
    BY <1>5 DEF OpenWs, Return, Answered, Hears
  <1>6. CASE FinishScenario
    BY <1>6 DEF FinishScenario, Return, Answered, Hears
  <1>7. CASE ClientSends
    BY <1>a, <1>b, <1>7 DEF ClientSends, SaysNothing
  <1>8. CASE ReadFrame
    <2>1. pc \notin Talking /\ UNCHANGED <<request, response>>
      BY <1>c, <1>8 DEF ReadFrame
    <2>2. CASE Head(conn[W].out).msg = "text"
      BY <1>a, <1>8, <2>1, <2>2 DEF ReadFrame, SaysNothing
    <2>3. CASE Head(conn[W].out).msg # "text"
      BY <1>8, <2>1, <2>3 DEF ReadFrame, SaysNothing
    <2> QED
      BY <2>2, <2>3
  <1>9. CASE ReadTimesOut
    BY <1>a, <1>c, <1>9 DEF ReadTimesOut, SaysNothing
  <1>10. CASE ExpectRuntimeState
    BY <1>a, <1>b, <1>10 DEF ExpectRuntimeState, SaysNothing
  <1>11. CASE ExpectServerState
    <2>1. CASE Playing({"expect-server-state"}) /\ Post([op |-> "state"])
               /\ pc' = "asking"
      BY <1>b, <2>1 DEF Post, Asks, OpOf
    <2>2. CASE pc = "asking" /\ Answered /\ Return
               /\ Passes(response.status = 200
                         /\ Shows(Step.f["state"].f, response.state))
      BY <1>a, <2>2 DEF Return, Answered, Hears
    <2> QED
      BY <1>11, <2>1, <2>2 DEF ExpectServerState
  <1>12. CASE ExpectNoFrameFor
    <2>1. pc \notin Talking /\ UNCHANGED <<request, response>>
      BY <1>b, <1>12 DEF ExpectNoFrameFor
    <2>2. CASE conn[W].out # <<>>
      BY <1>a, <1>12, <2>1, <2>2 DEF ExpectNoFrameFor, SaysNothing
    <2>3. CASE conn[W].out = <<>>
      BY <1>a, <1>12, <2>1, <2>3 DEF ExpectNoFrameFor, SaysNothing
    <2> QED
      BY <2>2, <2>3
  <1>13. CASE ExpectClose
    <2>1. pc \notin Talking /\ UNCHANGED <<request, response>>
      BY <1>b, <1>13 DEF ExpectClose
    <2>2. CASE conn[W].out # <<>>
      BY <1>a, <1>13, <2>1, <2>2 DEF ExpectClose, SaysNothing
    <2>3. CASE conn[W].out = <<>>
      BY <1>a, <1>13, <2>1, <2>3 DEF ExpectClose, SaysNothing
    <2> QED
      BY <2>2, <2>3
  <1>14. CASE JudgeStep
    BY <1>a, <1>14 DEF JudgeStep, SaysNothing
  <1>15. CASE ServerEmits
    <2>1. CASE /\ Playing({"server-emits"})
               /\ LET patches == FrameOf(Step).f["patches"].e IN
                  Post([op |-> "emit", pairs |-> [i \in DOMAIN patches |->
                          <<PatchPath(patches[i]), Apply(PatchValue(patches[i]))>>]])
               /\ pc' = "emitting"
      BY <1>b, <2>1 DEF Post, Asks, OpOf
    <2>2. CASE pc = "emitting" /\ Answered /\ Return
               /\ pc' = IF response.status = 200 THEN "reading" ELSE "failed"
      BY <2>2 DEF Return, Answered, Hears
    <2> QED
      BY <1>15, <2>1, <2>2 DEF ServerEmits
  <1> QED
    BY <1>1, <1>2, <1>3, <1>4, <1>5, <1>6, <1>7, <1>8, <1>9, <1>10, <1>11,
       <1>12, <1>13, <1>14, <1>15 DEF HarnessStep, PlayerStep

(***************************************************************************)
(* A sequence with one element replaced.                                   *)
(***************************************************************************)
LEMMA Replaced ==
  ASSUME NEW s, Sequence(s), NEW o \in 1 .. Len(s), NEW x
  PROVE  /\ Sequence([s EXCEPT ![o] = x])
         /\ Len([s EXCEPT ![o] = x]) = Len(s)
         /\ [s EXCEPT ![o] = x][o] = x
         /\ \A i \in 1 .. Len(s) : i # o => [s EXCEPT ![o] = x][i] = s[i]
  <1> DEFINE A == Range(s) \cup {x}
             t == [s EXCEPT ![o] = x]
  <1>1. s \in Seq(A) /\ x \in A
    BY DEF Sequence
  <1> HIDE DEF A
  <1>2. t \in Seq(A) /\ Len(t) = Len(s)
    BY <1>1
  <1>3. Sequence(t)
    BY <1>2, RangeOfSequence
  <1> QED
    BY <1>1, <1>2, <1>3

(***************************************************************************)
(* What a handler may do to the scenes: their leaves only grow in number,  *)
(* their numbers only grow, and what setup has decided stays.              *)
(***************************************************************************)
SceneKept(old, new) ==
    /\ DOMAIN new = DOMAIN old
    /\ new.inline = old.inline /\ new.seed = old.seed /\ new.ready = old.ready
    /\ DOMAIN old.leaves \subseteq DOMAIN new.leaves
    /\ old.seq \in Nat \ {0} => new.seq \in Nat \ {0} /\ old.seq <= new.seq

StoreKept ==
    /\ Sequence(store') /\ Len(store') = Len(store)
    /\ \A o \in 1 .. Len(store) : SceneKept(store[o], store'[o])

\* one scene replaced by another that is kept
LEMMA ReplacedKeepsStore ==
  ASSUME StoreOK, NEW o, NEW new, store' = [store EXCEPT ![o] = new],
         o \in 1 .. made => SceneKept(store[o], new)
  PROVE  StoreKept
  <1>1. Sequence(store) /\ DOMAIN store = 1 .. Len(store) /\ Len(store) = made
    BY DEF StoreOK, Sequence
  <1>0. \A x : SceneKept(x, x)
    BY DEF SceneKept
  <1>2. CASE o \notin 1 .. made
    <2>1. store' = store
      BY <1>1, <1>2 DEF Sequence
    <2> QED
      BY <1>1, <1>0, <2>1 DEF StoreKept
  <1>3. CASE o \in 1 .. made
    <2>1. /\ Sequence(store') /\ Len(store') = Len(store) /\ store'[o] = new
          /\ \A i \in 1 .. Len(store) : i # o => store'[i] = store[i]
      BY <1>1, <1>3, Replaced
    <2>2. ASSUME NEW i \in 1 .. Len(store) PROVE SceneKept(store[i], store'[i])
      <3>1. CASE i = o
        BY <1>3, <2>1, <3>1
      <3>2. CASE i # o
        BY <1>0, <2>1, <3>2
      <3> QED
        BY <3>1, <3>2
    <2> QED
      BY <2>1, <2>2 DEF StoreKept
  <1> QED
    BY <1>2, <1>3

LEMMA StoreLeavesKeepsStore ==
  ASSUME StoreOK, NEW w, NEW o, NEW pairs, StoreLeaves(w, o, pairs)
  PROVE  StoreKept
  <1>1. PICK new : new = [store[o] EXCEPT !.leaves = Written(@, pairs)]
    OBVIOUS
  <1>2. store' = [store EXCEPT ![o] = new]
    BY <1>1 DEF StoreLeaves
  <1>3. ASSUME o \in 1 .. made PROVE SceneKept(store[o], new)
    <2>1. DOMAIN store[o] = SceneFields
      BY <1>3 DEF StoreOK
    <2>2. DOMAIN store[o].leaves \subseteq DOMAIN Written(store[o].leaves, pairs)
      BY DEF Written
    <2>3. new.leaves = Written(store[o].leaves, pairs)
      BY <1>1, <2>1 DEF SceneFields
    <2>4. /\ DOMAIN new = DOMAIN store[o]
          /\ new.inline = store[o].inline /\ new.seed = store[o].seed
          /\ new.ready = store[o].ready /\ new.seq = store[o].seq
      BY <1>1, <2>1 DEF SceneFields
    <2> QED
      BY <2>2, <2>3, <2>4 DEF SceneKept
  <1> QED
    BY <1>2, <1>3, ReplacedKeepsStore

\* a number is taken, by a write or by a swap
LEMMA NumberKeepsStore ==
  ASSUME StoreOK, NEW o, store' = [store EXCEPT ![o].seq = store[o].seq + 1]
  PROVE  StoreKept
  <1>1. PICK new : new = [store[o] EXCEPT !.seq = store[o].seq + 1]
    OBVIOUS
  <1>2. store' = [store EXCEPT ![o] = new]
    BY <1>1
  <1>3. ASSUME o \in 1 .. made PROVE SceneKept(store[o], new)
    <2>1. DOMAIN store[o] = SceneFields
      BY <1>3 DEF StoreOK
    <2> QED
      BY <1>1, <2>1 DEF SceneKept, SceneFields
  <1> QED
    BY <1>2, <1>3, ReplacedKeepsStore

LEMMA HandlersKeepServer ==
  ASSUME StoreOK, NEW c,
         HandlerStep(c) \/ PeerGone(c) \/ SubscribeTimeout(c)
  PROVE  UNCHANGED <<registryVars, phase, request, response, tokens>> /\ StoreKept
  <1> USE DEF Rest
  <1>1. ASSUME UNCHANGED store PROVE StoreKept
    BY <1>1 DEF StoreOK, StoreKept, SceneKept
  <1>2. CASE RecvSubscribe(c) \/ Authenticate(c) \/ ResolveId(c)
    BY <1>1, <1>2 DEF RecvSubscribe, Authenticate, ResolveId
  <1>3. CASE FindScene(c) \/ CheckRejection(c) \/ Attach(c)
    BY <1>1, <1>3 DEF FindScene, CheckRejection, Attach
  <1>4. CASE ReadSeq(c) \/ SendSnapshot(c) \/ Resubscribe(c)
    BY <1>1, <1>4 DEF ReadSeq, SendSnapshot, Resubscribe
  <1>5. CASE HandleDelta(c) \/ PeerGone(c) \/ SubscribeTimeout(c)
    BY <1>1, <1>5 DEF HandleDelta, PeerGone, SubscribeTimeout
  <1>6. CASE HandleText(c)
    <2>1. UNCHANGED <<registryVars, phase, request, response, tokens>>
      BY <1>6 DEF HandleText
    <2>2. (\E patches : HandleInput(c, patches)) \/ UNCHANGED store
      BY <1>6 DEF HandleText
    <2>3. ASSUME NEW patches, HandleInput(c, patches)
          PROVE  (\E o, pairs : StoreLeaves(c, o, pairs)) \/ UNCHANGED store
      <3> DEFINE bad == {i \in DOMAIN patches :
                            PatchError(conn[c].role, store[conn[c].scene].specs,
                                       patches[i]) # "none"}
      <3>1. CASE bad = {}
        BY <2>3, <3>1 DEF HandleInput
      <3>2. CASE bad # {}
        BY <2>3, <3>2 DEF HandleInput
      <3> QED
        BY <3>1, <3>2
    <2> QED
      BY <1>1, <2>1, <2>2, <2>3, StoreLeavesKeepsStore
  <1>7. CASE FinishInput(c)
    <2>1. UNCHANGED <<registryVars, phase, request, response, tokens>>
      BY <1>7 DEF FinishInput
    <2>2. UNCHANGED store \/ AdvanceSeq(c)
      BY <1>7 DEF FinishInput
    <2>3. ASSUME AdvanceSeq(c) PROVE StoreKept
      <3>1. \E o : store' = [store EXCEPT ![o].seq = store[o].seq + 1]
        BY <2>3 DEF AdvanceSeq
      <3> QED
        BY <3>1, NumberKeepsStore
    <2> QED
      BY <1>1, <2>1, <2>2, <2>3
  <1>8. CASE HandleEvent(c)
    <2>1. UNCHANGED <<registryVars, phase, request, response, tokens>>
      BY <1>8 DEF HandleEvent
    <2>2. UNCHANGED store
          \/ \E o : store' = [store EXCEPT ![o].seq = store[o].seq + 1]
      BY <1>8 DEF HandleEvent
    <2> QED
      BY <1>1, <2>1, <2>2, NumberKeepsStore
  <1> QED
    BY <1>2, <1>3, <1>4, <1>5, <1>6, <1>7, <1>8 DEF HandlerStep

-----------------------------------------------------------------------------
(* The registry, whose only caller is the control task                     *)

LEMMA RegistryBounds == NoId \notin Ids /\ MaxScenes \in Nat /\ MaxCalls \in Nat
  BY RegistryAssumption

LEMMA ControlCalls == Callers = {Control} /\ Offered = Operations
  BY ControlAssumption

LEMMA RegistryInitially == RegistryInit => RegistryTypeOK /\ CallersHaveIds
  <1> SUFFICES ASSUME RegistryInit PROVE RegistryTypeOK /\ CallersHaveIds
    OBVIOUS
  <1>1. events \in Seq(Ids)
    BY DEF RegistryInit
  <1>2. RegistryTypeOK
    BY <1>1, RegistryBounds DEF RegistryInit, RegistryTypeOK, CallerSteps
  <1> QED
    BY <1>2 DEF RegistryInit, CallersHaveIds

LEMMA RegistryUnchanged ==
  ASSUME RegistryTypeOK, CallersHaveIds, UNCHANGED registryVars
  PROVE  RegistryTypeOK' /\ CallersHaveIds' /\ made' = made
  BY DEF RegistryTypeOK, CallersHaveIds, registryVars

LEMMA ControlKeepsRegistry ==
  ASSUME RegistryTypeOK, CallersHaveIds, NEW k \in Callers,
         \/ \E id \in Ids : CheckFree(k, id) \/ CheckKnown(k, id)
         \/ ClearTable(k) \/ Reject(k) \/ Finish(k)
  PROVE  RegistryTypeOK' /\ CallersHaveIds'
  <1> USE RegistryBounds DEF RegistryTypeOK, CallerSteps
  <1>1. ASSUME NEW id \in Ids, CheckFree(k, id) \/ CheckKnown(k, id)
        PROVE  RegistryTypeOK' /\ CallersHaveIds'
    <2>1. /\ step' \in [Callers -> CallerSteps]
          /\ arg' \in [Callers -> Ids \cup {NoId}]
      BY <1>1 DEF CheckFree, CheckKnown, Begin
    <2>2. /\ calls' \in 0 .. MaxCalls
          /\ UNCHANGED <<scenes, active, events, rejected, made>>
      BY <1>1 DEF CheckFree, CheckKnown
    <2>3. CallersHaveIds'
      BY <1>1 DEF CheckFree, CheckKnown, Begin, CallersHaveIds
    <2> QED
      BY <2>1, <2>2, <2>3
  <1>2. CASE ClearTable(k)
    <2>1. RegistryTypeOK'
      BY <1>2 DEF ClearTable, Begin
    <2>2. CallersHaveIds'
      BY <1>2 DEF ClearTable, Begin, CallersHaveIds
    <2> QED
      BY <2>1, <2>2
  <1>3. CASE Reject(k)
    BY <1>3 DEF Reject, CallersHaveIds
  <1>4. CASE Insert(k)
    <2>1. /\ arg[k] \in Ids /\ made' = made + 1 /\ made' \in 0 .. MaxScenes
          /\ scenes' = [scenes EXCEPT ![arg[k]] = made + 1]
          /\ UNCHANGED <<active, events, rejected, calls>>
      BY <1>4 DEF Insert, Move, CallersHaveIds
    <2>2. step' \in [Callers -> CallerSteps]
          /\ arg' \in [Callers -> Ids \cup {NoId}]
      BY <1>4 DEF Insert, Move
    <2>3. scenes' \in [Ids -> 0 .. made'] /\ rejected' \subseteq 1 .. made'
      BY <2>1
    <2>4. CallersHaveIds'
      BY <1>4 DEF Insert, Move, CallersHaveIds
    <2> QED
      BY <2>1, <2>2, <2>3, <2>4
  <1>5. CASE ActivateFirst(k) \/ WriteActive(k) \/ ClearActive(k)
    <2>1. step' \in [Callers -> CallerSteps]
          /\ arg' \in [Callers -> Ids \cup {NoId}]
          /\ active' \in Ids \cup {NoId}
          /\ UNCHANGED <<scenes, events, rejected, made, calls>>
      BY <1>5 DEF ActivateFirst, WriteActive, ClearActive, Move
    <2>2. CallersHaveIds'
      BY <1>5 DEF ActivateFirst, WriteActive, ClearActive, Move, CallersHaveIds
    <2> QED
      BY <2>1, <2>2
  <1>6. CASE Announce(k)
    <2>1. arg[k] \in Ids /\ events' = Append(events, arg[k])
      BY <1>6 DEF Announce, Move, CallersHaveIds
    <2>2. events' \in Seq(Ids)
      BY <2>1
    <2>3. step' \in [Callers -> CallerSteps]
          /\ arg' \in [Callers -> Ids \cup {NoId}]
          /\ UNCHANGED <<scenes, active, rejected, made, calls>>
      BY <1>6 DEF Announce, Move
    <2>4. CallersHaveIds'
      BY <1>6 DEF Announce, Move, CallersHaveIds
    <2> QED
      BY <2>2, <2>3, <2>4
  <1> QED
    BY <1>1, <1>2, <1>3, <1>4, <1>5, <1>6, Zenon DEF Finish

-----------------------------------------------------------------------------
(* The server's invariant                                                  *)

LEMMA ServerInitially == Init => ServerInv
  <1> SUFFICES ASSUME Init PROVE ServerInv
    OBVIOUS
  <1>1. RegistryTypeOK /\ CallersHaveIds
    BY RegistryInitially DEF Init, ServerInit
  <1>2. made = 0 /\ store = <<>>
    BY DEF Init, ServerInit, RegistryInit
  <1>3. Sequence(<<>>) /\ Len(<<>>) = 0
    BY DEF Sequence, Range
  <1>4. StoreOK /\ ScenesOK
    BY <1>2, <1>3 DEF StoreOK, ScenesOK
  <1>5. TokensOK
    BY DEF Init, ServerInit, TokensOK, NoFields, Range
  <1>6. ControlInv
    BY DEF Init, ServerInit, ControlInv, NoRequest, NoResponse, Talking,
           SetupPhases, ScenePhases, Calm
  <1> QED
    BY <1>1, <1>4, <1>5, <1>6 DEF ServerInv

(***************************************************************************)
(* While nobody sets up, what is true of the scenes stays true.            *)
(***************************************************************************)
LEMMA ScenesKept ==
  ASSUME ServerInv, UNCHANGED <<registryVars, tokens>>, StoreKept,
         phase = phase' \/ {phase, phase'} \subseteq Calm,
         phase \notin Calm => UNCHANGED request
  PROVE  RegistryTypeOK' /\ CallersHaveIds' /\ StoreOK' /\ ScenesOK' /\ TokensOK'
  <1>1. RegistryTypeOK' /\ CallersHaveIds' /\ made' = made
    BY RegistryUnchanged DEF ServerInv
  <1>2. rejected' = rejected /\ Len(store) = made
    BY DEF registryVars, ServerInv, StoreOK
  <1>3. TokensOK'
    BY DEF ServerInv, TokensOK
  <1>4. StoreOK'
    BY <1>1, <1>2 DEF StoreOK, StoreKept, SceneKept, ServerInv
  <1>5. ASSUME NEW o \in 1 .. made
        PROVE  /\ FitLayout(store'[o].inline)
               /\ IF Pending(o)' THEN ToBeJudged(o)' ELSE Judged(o)'
               /\ DOMAIN store'[o].seed \subseteq DOMAIN store'[o].leaves
    <2>1. SceneKept(store[o], store'[o])
      BY <1>2, <1>5 DEF StoreKept
    <2>2. /\ FitLayout(store[o].inline)
          /\ IF Pending(o) THEN ToBeJudged(o) ELSE Judged(o)
          /\ DOMAIN store[o].seed \subseteq DOMAIN store[o].leaves
      BY <1>5 DEF ServerInv, ScenesOK
    <2>3. Pending(o)' <=> Pending(o)
      BY <1>1 DEF Pending, Calm
    <2>4. ASSUME Pending(o) PROVE ToBeJudged(o)'
      BY <1>2, <2>1, <2>2, <2>4 DEF Pending, ToBeJudged, SceneKept, Bundle, Calm
    <2>5. ASSUME ~ Pending(o) PROVE Judged(o)'
      BY <1>2, <2>1, <2>2, <2>5 DEF Judged, SceneKept
    <2>6. FitLayout(store'[o].inline)
          /\ DOMAIN store'[o].seed \subseteq DOMAIN store'[o].leaves
      BY <2>1, <2>2 DEF SceneKept
    <2> QED
      BY <2>3, <2>4, <2>5, <2>6
  <1>6. ScenesOK'
    BY <1>1, <1>5 DEF ScenesOK
  <1> QED
    BY <1>1, <1>3, <1>4, <1>6

\* the first bundle of the next scenario
LEMMA NextBundleFits ==
  ASSUME HarnessInv, at <= Len(suite), pc = "next"
  PROVE  LET bundle == BuildSetupBundles(Scenario)[1] IN
         IdOf(bundle) \in Ids /\ FitLayout(Inline(bundle))
  <1>1. /\ Sequence(suite) /\ Sequence(outcomes) /\ at = Len(outcomes) + 1
        /\ suite # <<>> => Chosen(call, suite)
    BY DEF HarnessInv
  <1>2. /\ Len(suite) \in Nat /\ DOMAIN suite = 1 .. Len(suite)
        /\ Len(outcomes) \in Nat
    BY <1>1 DEF Sequence
  <1>3. at \in DOMAIN suite
    BY <1>1, <1>2
  <1>4. suite # <<>>
    BY <1>3
  <1>5. PICK d \in DOMAIN Dirs : Loads(d) /\ Range(suite) \subseteq Range(Dirs[d])
    BY <1>1, <1>4, ChosenIsSequence
  <1>6. Scenario \in Range(Dirs[d])
    BY <1>3, <1>5 DEF Scenario, Range
  <1>7. PICK i \in DOMAIN Dirs[d] : Scenario = Dirs[d][i]
    BY <1>6 DEF Range
  <1> QED
    BY <1>5, <1>7, ScenariosAssumption DEF FitLayout

LEMMA HarnessKeepsServerInv ==
  ASSUME HarnessInv, ServerInv, HarnessStep \/ VisitorComes \/ VisitorReads
  PROVE  ServerInv'
  <1>1. UNCHANGED <<registryVars, phase, store, tokens>>
    BY HarnessKeepsServer
  <1>2. StoreKept
    BY <1>1 DEF StoreKept, SceneKept, ServerInv, StoreOK
  <1>3. made' = made
    BY <1>1 DEF registryVars
  <1>4. ASSUME UNCHANGED <<request, response>>,
               pc \in Talking \/ pc' \in Talking => pc' = pc
        PROVE  ControlInv'
    BY <1>1, <1>3, <1>4 DEF ServerInv, ControlInv, SceneId, Bundle
  <1>5. ASSUME Asks PROVE ControlInv' /\ phase = "idle"
    <2>1. request = NoRequest /\ response = NoResponse
      BY <1>5 DEF Asks, ServerInv, ControlInv
    <2>2. request.op \notin {"setup", "reset", "emit"}
      BY <2>1 DEF NoRequest
    <2>3. phase = "idle"
      BY <2>2 DEF ServerInv, ControlInv, Calm
    <2>4. pc' = "setup" => SceneId' \in Ids /\ FitLayout(Inline(Bundle'))
      <3>1. ASSUME pc' = "setup"
            PROVE  /\ pc = "next" /\ at <= Len(suite)
                   /\ Bundle' = BuildSetupBundles(Scenario)[1]
        BY <1>5, <3>1 DEF Asks, Bundle
      <3> QED
        BY <3>1, NextBundleFits DEF SceneId
    <2>5. request'.op = "setup" => pc' = "setup"
      BY <1>5 DEF Asks, OpOf, Talking
    <2> QED
      BY <1>1, <1>5, <2>1, <2>3, <2>4, <2>5
         DEF Asks, ControlInv, SetupPhases, ScenePhases, Calm
  <1>6. ASSUME Hears PROVE ControlInv' /\ phase = "idle"
    <2>1. phase = "idle"
      BY <1>6 DEF Hears, ServerInv, ControlInv
    <2> QED
      BY <1>1, <1>6, <2>1
         DEF Hears, ControlInv, NoRequest, SetupPhases, ScenePhases, Calm
  <1>7. CASE VisitorComes \/ VisitorReads
    <2>1. UNCHANGED <<request, response, pc>>
      BY <1>7 DEF VisitorComes, VisitorReads, Rest
    <2> QED
      BY <1>1, <1>2, <1>4, <2>1, ScenesKept DEF ServerInv
  <1>8. CASE HarnessStep
    <2>1. CASE SaysNothing
      BY <1>1, <1>2, <1>4, <2>1, ScenesKept DEF ServerInv, SaysNothing
    <2>2. CASE Asks \/ Hears
      BY <1>1, <1>2, <1>5, <1>6, <2>2, ScenesKept DEF ServerInv, Calm
    <2> QED
      BY <1>8, <2>1, <2>2, HarnessTalks
  <1> QED
    BY <1>7, <1>8

LEMMA HandlersKeepServerInv ==
  ASSUME ServerInv, UNCHANGED pc, NEW c,
         HandlerStep(c) \/ PeerGone(c) \/ SubscribeTimeout(c)
  PROVE  ServerInv'
  <1>1. UNCHANGED <<registryVars, phase, request, response, tokens>> /\ StoreKept
    BY HandlersKeepServer DEF ServerInv
  <1>2. made' = made
    BY <1>1 DEF registryVars
  <1>3. ControlInv'
    BY <1>1, <1>2 DEF ServerInv, ControlInv, SceneId, Bundle
  <1> QED
    BY <1>1, <1>3, ScenesKept DEF ServerInv

LEMMA ControlMovesRegistry ==
  ASSUME ServerInv, ControlStep
  PROVE  RegistryTypeOK' /\ CallersHaveIds'
  <1>1. RegistryTypeOK /\ CallersHaveIds /\ ControlInv
    BY DEF ServerInv
  <1>2. Control \in Callers
    BY ControlCalls
  <1>3. ASSUME UNCHANGED registryVars PROVE RegistryTypeOK' /\ CallersHaveIds'
    BY <1>1, <1>3, RegistryUnchanged
  <1>4. CASE StartClear
    BY <1>1, <1>2, <1>4, ControlKeepsRegistry DEF StartClear
  <1>5. CASE ClearPointer
    BY <1>1, <1>2, <1>5, ControlKeepsRegistry DEF ClearPointer, Finish
  <1>6. CASE ClearTokens \/ InstallTokens \/ DeclareInputs \/ SeedScene
    BY <1>3, <1>6 DEF ClearTokens, InstallTokens, DeclareInputs, SeedScene
  <1>7. ASSUME phase \in SetupPhases PROVE SceneId \in Ids
    BY <1>1, <1>7 DEF ControlInv
  <1>8. CASE Register
    <2>1. CheckFree(Control, SceneId) /\ SceneId \in Ids
      BY <1>7, <1>8 DEF Register, Goes, SetupPhases
    <2> QED
      BY <1>1, <1>2, <2>1, ControlKeepsRegistry
  <1>9. CASE CreateScene
    BY <1>1, <1>2, <1>9, ControlKeepsRegistry DEF CreateScene, Finish
  <1>10. CASE FirstScene
    BY <1>1, <1>2, <1>10, ControlKeepsRegistry DEF FirstScene, Finish
  <1>11. CASE JudgeLayout
    <2>1. Reject(Control) \/ UNCHANGED registryVars
      BY <1>11 DEF JudgeLayout
    <2> QED
      BY <1>1, <1>2, <1>3, <2>1, ControlKeepsRegistry
  <1>12. CASE Activate
    <2>1. \/ CheckKnown(Control, SceneId) /\ SceneId \in Ids
          \/ WriteActive(Control)
      BY <1>7, <1>12 DEF Activate, Goes, SetupPhases
    <2> QED
      BY <1>1, <1>2, <2>1, ControlKeepsRegistry DEF Finish
  <1>13. CASE AnnounceScene
    BY <1>1, <1>2, <1>13, ControlKeepsRegistry DEF AnnounceScene, Finish
  <1>14. CASE HandleState \/ HandleEmit \/ FinishEmit
    BY <1>3, <1>14 DEF HandleState, HandleEmit, FinishEmit
  <1> QED
    BY <1>4, <1>5, <1>6, <1>8, <1>9, <1>10, <1>11, <1>12, <1>13, <1>14
       DEF ControlStep

LEMMA ControlMovesPhase ==
  ASSUME ServerInv, ControlStep, UNCHANGED pc
  PROVE  ControlInv' /\ UNCHANGED request
  <1>1. ControlInv /\ RegistryTypeOK /\ made \in Nat
    BY DEF ServerInv, RegistryTypeOK
  <1> USE DEF SetupPhases, ScenePhases, Calm, Goes, Answers, ControlRest
  <1>2. UNCHANGED request => UNCHANGED <<SceneId, Bundle>>
    BY DEF SceneId, Bundle
  <1>3. ASSUME UNCHANGED request, request.op \in {"setup", "reset"},
               phase' \in {"idle", "clearing", "auth"} \cup SetupPhases,
               phase' # "idle" => response' = NoResponse,
               phase' \in SetupPhases => request.op = "setup",
               phase' \in ScenePhases => made' # 0
        PROVE  ControlInv'
    <2>1. pc \in Talking
      BY <1>1, <1>3 DEF ControlInv, NoRequest
    <2> QED
      BY <1>1, <1>2, <1>3, <2>1 DEF ControlInv
  <1>4. ASSUME phase \notin Calm
        PROVE  request.op \in {"setup", "reset"} /\ response = NoResponse
    BY <1>1, <1>4 DEF ControlInv
  <1>5. ASSUME phase \in SetupPhases PROVE request.op = "setup"
    BY <1>1, <1>5 DEF ControlInv
  <1>6. ASSUME phase \in ScenePhases PROVE made # 0
    BY <1>1, <1>6 DEF ControlInv
  <1>7. CASE StartClear
    BY <1>3, <1>7 DEF StartClear
  <1>8. CASE ClearPointer
    BY <1>3, <1>4, <1>8 DEF ClearPointer
  <1>9. CASE ClearTokens
    <2>1. CASE request.op = "reset"
      BY <1>3, <1>9, <2>1 DEF ClearTokens
    <2>2. CASE request.op # "reset"
      BY <1>3, <1>4, <1>9, <2>2 DEF ClearTokens
    <2> QED
      BY <2>1, <2>2
  <1>10. CASE InstallTokens
    <2>1. CASE RefusesSetup
      BY <1>3, <1>5, <1>10, <2>1 DEF InstallTokens
    <2>2. CASE ~ RefusesSetup
      BY <1>3, <1>4, <1>5, <1>10, <2>2 DEF InstallTokens
    <2> QED
      BY <2>1, <2>2
  <1>11. CASE Register
    BY <1>3, <1>4, <1>5, <1>11 DEF Register
  <1>12. CASE CreateScene
    <2>1. made' # 0
      BY <1>1, <1>12 DEF CreateScene, Insert
    <2> QED
      BY <1>3, <1>4, <1>5, <1>12, <2>1 DEF CreateScene
  <1>13. CASE FirstScene
    BY <1>3, <1>4, <1>5, <1>6, <1>13 DEF FirstScene, ActivateFirst
  <1>14. CASE JudgeLayout
    <2>1. made' = made
      BY <1>14 DEF JudgeLayout, Reject, registryVars
    <2> QED
      BY <1>3, <1>4, <1>5, <1>6, <1>14, <2>1 DEF JudgeLayout
  <1>15. CASE DeclareInputs \/ SeedScene
    BY <1>3, <1>4, <1>5, <1>6, <1>15 DEF DeclareInputs, SeedScene, registryVars
  <1>16. CASE Activate
    BY <1>3, <1>4, <1>5, <1>6, <1>16 DEF Activate, CheckKnown, WriteActive
  <1>17. CASE AnnounceScene
    BY <1>3, <1>5, <1>17 DEF AnnounceScene
  <1>18. CASE HandleState \/ HandleEmit \/ FinishEmit
    <2>1. /\ UNCHANGED request /\ request.op \in {"state", "emit"}
          /\ phase' \in Calm
          /\ phase' # "idle" => response' = NoResponse /\ request.op = "emit"
      <3>1. CASE HandleState
        BY <1>1, <3>1 DEF HandleState, ControlInv
      <3>2. CASE HandleEmit
        BY <3>2 DEF HandleEmit
      <3>3. CASE FinishEmit
        BY <1>1, <3>3 DEF FinishEmit, ControlInv
      <3> QED
        BY <1>18, <3>1, <3>2, <3>3
    <2>2. pc \in Talking
      BY <1>1, <2>1 DEF ControlInv, NoRequest
    <2> QED
      BY <1>1, <1>2, <2>1, <2>2 DEF ControlInv
  <1> QED
    BY <1>7, <1>8, <1>9, <1>10, <1>11, <1>12, <1>13, <1>14, <1>15, <1>16,
       <1>17, <1>18 DEF ControlStep

LEMMA ControlMovesTokens ==
  ASSUME ServerInv, ControlStep
  PROVE  TokensOK'
  <1>1. CASE UNCHANGED tokens
    BY <1>1 DEF ServerInv, TokensOK
  <1>2. CASE ClearTokens
    BY <1>2 DEF ClearTokens, TokensOK, NoFields, Range
  <1>3. CASE InstallTokens
    <2> DEFINE known == DOMAIN request.tokens \cap DOMAIN Roles
    <2>1. tokens' = Installed
      BY <1>3 DEF InstallTokens
    <2>2. ASSUME NEW t \in {request.tokens[p] : p \in known}
          PROVE  Installed[t] \in Range(Roles)
      <3>1. PICK p \in known : p = CHOOSE q \in known : request.tokens[q] = t
        BY <2>2
      <3> QED
        BY <2>2, <3>1 DEF Installed, Range
    <2>3. DOMAIN Installed = {request.tokens[p] : p \in known}
      BY DEF Installed
    <2> QED
      BY <2>1, <2>2, <2>3 DEF TokensOK, Range
  <1>4. \/ UNCHANGED tokens \/ ClearTokens \/ InstallTokens
    BY DEF ControlStep, StartClear, ClearPointer, Register, CreateScene,
           FirstScene, JudgeLayout, DeclareInputs, SeedScene, Activate,
           AnnounceScene, HandleState, HandleEmit, FinishEmit, ControlRest
  <1> QED
    BY <1>1, <1>2, <1>3, <1>4

(***************************************************************************)
(* A step that neither makes nor judges a scene.                           *)
(***************************************************************************)
LEMMA JudgementStays ==
  ASSUME ServerInv, UNCHANGED <<request, made, rejected>>,
         Sequence(store'), Len(store') = Len(store),
         \A o \in 1 .. Len(store) :
             /\ DOMAIN store'[o] = SceneFields
             /\ store'[o].inline = store[o].inline
             /\ DOMAIN store'[o].seed \subseteq DOMAIN store'[o].leaves,
         \/ phase \in {"first", "judge"} /\ phase' \in {"first", "judge"}
            /\ UNCHANGED store
         \/ phase \notin {"first", "judge"} /\ phase' \notin {"first", "judge"}
  PROVE  StoreOK' /\ ScenesOK'
  <1>1. Len(store) = made
    BY DEF ServerInv, StoreOK
  <1>2. ASSUME NEW o \in 1 .. made
        PROVE  /\ FitLayout(store'[o].inline)
               /\ IF Pending(o)' THEN ToBeJudged(o)' ELSE Judged(o)'
    <2>1. /\ FitLayout(store[o].inline)
          /\ IF Pending(o) THEN ToBeJudged(o) ELSE Judged(o)
      BY DEF ServerInv, ScenesOK
    <2>2. store'[o].inline = store[o].inline
      BY <1>1
    <2>3. Pending(o)' <=> Pending(o)
      BY DEF Pending
    <2>4. ASSUME Pending(o) PROVE ToBeJudged(o)'
      BY <2>1, <2>4 DEF Pending, ToBeJudged, Bundle
    <2>5. ASSUME ~ Pending(o) PROVE Judged(o)'
      BY <2>1, <2>2, <2>5 DEF Judged
    <2> QED
      BY <2>1, <2>2, <2>3, <2>4, <2>5
  <1>3. ScenesOK'
    BY <1>1, <1>2 DEF ScenesOK
  <1> QED
    BY <1>1, <1>3 DEF StoreOK

\* a step that changes a scene in the making
LEMMA SceneInTheMaking ==
  ASSUME ServerInv, phase \in ScenePhases,
         NEW specs, NEW leaves, NEW seed, NEW ready,
         store' = [store EXCEPT ![made] =
                      [store[made] EXCEPT !.specs = specs, !.leaves = leaves,
                                          !.seed = seed, !.ready = ready]],
         DOMAIN seed \subseteq DOMAIN leaves
  PROVE  /\ Sequence(store') /\ Len(store') = Len(store)
         /\ \A o \in 1 .. Len(store) :
                /\ DOMAIN store'[o] = SceneFields
                /\ store'[o].inline = store[o].inline
                /\ DOMAIN store'[o].seed \subseteq DOMAIN store'[o].leaves
  <1> DEFINE new == [store[made] EXCEPT !.specs = specs, !.leaves = leaves,
                                        !.seed = seed, !.ready = ready]
  <1>1. made # 0 /\ made \in Nat /\ Len(store) = made /\ Sequence(store)
    BY DEF ServerInv, ControlInv, StoreOK, RegistryTypeOK
  <1>2. made \in 1 .. Len(store) /\ made \in 1 .. made
    BY <1>1
  <1>3. DOMAIN store[made] = SceneFields
    BY <1>2 DEF ServerInv, StoreOK
  <1>4. /\ DOMAIN new = SceneFields /\ new.inline = store[made].inline
        /\ new.seed = seed /\ new.leaves = leaves
    BY <1>3 DEF SceneFields
  <1>5. PICK x : x = new
    OBVIOUS
  <1> HIDE DEF new
  <1>6. /\ Sequence(store') /\ Len(store') = Len(store) /\ store'[made] = new
        /\ \A i \in 1 .. Len(store) : i # made => store'[i] = store[i]
    <2>1. PICK s, m : s = store /\ m = made
      OBVIOUS
    <2>2. Sequence(s) /\ m \in 1 .. Len(s)
      BY <1>1, <1>2, <2>1
    <2>3. /\ Sequence([s EXCEPT ![m] = x])
          /\ Len([s EXCEPT ![m] = x]) = Len(s)
          /\ [s EXCEPT ![m] = x][m] = x
          /\ \A i \in 1 .. Len(s) : i # m => [s EXCEPT ![m] = x][i] = s[i]
      BY <2>2, Replaced
    <2>4. store' = [s EXCEPT ![m] = x]
      BY <1>5, <2>1 DEF new
    <2> QED
      BY <1>5, <2>1, <2>3, <2>4
  <1>7. \A o \in 1 .. made : /\ DOMAIN store[o] = SceneFields
                             /\ DOMAIN store[o].seed \subseteq DOMAIN store[o].leaves
    BY DEF ServerInv, StoreOK, ScenesOK
  <1> QED
    BY <1>1, <1>4, <1>6, <1>7

LEMMA CreateKeepsScenes ==
  ASSUME ServerInv, CreateScene
  PROVE  StoreOK' /\ ScenesOK'
  <1>1. PICK x : /\ x = [id |-> SceneId, version |-> Bundle.hash, seq |-> 1,
                         leaves |-> NoFields, specs |-> NoFields,
                         inline |-> Inline(Bundle), seed |-> NoFields,
                         ready |-> FALSE]
                 /\ store' = Append(store, x)
    BY DEF CreateScene
  <1>2. /\ Sequence(store) /\ Len(store) = made /\ made \in Nat
        /\ rejected \subseteq 1 .. made
    BY DEF ServerInv, StoreOK, RegistryTypeOK
  <1>3. /\ Sequence(store') /\ Len(store') = made + 1
        /\ \A o \in 1 .. made : store'[o] = store[o]
        /\ store'[made + 1] = x
    BY <1>1, <1>2, AppendOutcome
  <1>4. /\ phase = "create" /\ phase' = "first" /\ made' = made + 1
        /\ UNCHANGED <<request, rejected>>
    BY DEF CreateScene, Goes, Insert
  <1>5. DOMAIN x = SceneFields /\ x.inline = Inline(Bundle) /\ ~ x.ready
        /\ DOMAIN x.seed \subseteq DOMAIN x.leaves
    BY <1>1 DEF SceneFields
  <1>6. FitLayout(Inline(Bundle))
    BY <1>4 DEF ServerInv, ControlInv, SetupPhases
  <1>7. ASSUME NEW o \in 1 .. made'
        PROVE  /\ DOMAIN store'[o] = SceneFields
               /\ FitLayout(store'[o].inline)
               /\ IF Pending(o)' THEN ToBeJudged(o)' ELSE Judged(o)'
               /\ DOMAIN store'[o].seed \subseteq DOMAIN store'[o].leaves
    <2>1. CASE o = made + 1
      <3>1. o \notin rejected
        BY <1>2, <2>1
      <3>2. Pending(o)' /\ store'[o] = x
        BY <1>3, <1>4, <2>1 DEF Pending
      <3>3. ToBeJudged(o)'
        BY <1>4, <1>5, <3>1, <3>2 DEF ToBeJudged, Bundle
      <3> QED
        BY <1>5, <1>6, <3>2, <3>3
    <2>2. CASE o # made + 1
      <3>1. o \in 1 .. made /\ store'[o] = store[o]
        BY <1>2, <1>3, <1>4, <2>2
      <3>2. ~ Pending(o) /\ ~ Pending(o)'
        BY <1>4, <2>2 DEF Pending
      <3>3. /\ DOMAIN store[o] = SceneFields
            /\ FitLayout(store[o].inline) /\ Judged(o)
            /\ DOMAIN store[o].seed \subseteq DOMAIN store[o].leaves
        BY <3>1, <3>2 DEF ServerInv, StoreOK, ScenesOK
      <3>4. Judged(o)'
        BY <1>4, <3>1, <3>3 DEF Judged
      <3> QED
        BY <3>1, <3>2, <3>3, <3>4
    <2> QED
      BY <2>1, <2>2
  <1>8. ScenesOK'
    BY <1>7 DEF ScenesOK
  <1>9. StoreOK'
    BY <1>3, <1>4, <1>7 DEF StoreOK
  <1> QED
    BY <1>8, <1>9

(***************************************************************************)
(* test_control.rs judges the layout of the scene it has just made.        *)
(***************************************************************************)
LEMMA JudgeKeepsScenes ==
  ASSUME ServerInv, JudgeLayout
  PROVE  StoreOK' /\ ScenesOK'
  <1>1. /\ phase = "judge" /\ phase' = "declare"
        /\ UNCHANGED <<request, store>>
    BY DEF JudgeLayout, Goes, ControlRest
  <1>2. made' = made
    BY DEF JudgeLayout, Reject, registryVars
  <1>3. made \in Nat /\ made # 0
    BY <1>1 DEF ServerInv, RegistryTypeOK, ControlInv, ScenePhases, SetupPhases
  <1>4. StoreOK'
    BY <1>1, <1>2 DEF ServerInv, StoreOK
  <1>5. /\ FitLayout(store[made].inline) /\ made \notin rejected
        /\ store[made].inline = Inline(Bundle)
    <2>1. made \in 1 .. made /\ Pending(made)
      BY <1>1, <1>3 DEF Pending
    <2> QED
      BY <2>1 DEF ServerInv, ScenesOK, ToBeJudged
  <1>6. PICK inline : inline = Inline(Bundle)
    OBVIOUS
  <1>7. /\ Has(inline, "layout") =>
              (CheckZabCaptureNodes(inline.f["layout"]) <=> ~ Malformed(inline))
        /\ ~ Has(inline, "layout") => ~ Malformed(inline)
    BY <1>5, <1>6, CaptureCheckIsRight DEF FitLayout
  <1>8. rejected' = IF Malformed(inline) THEN rejected \cup {made} ELSE rejected
    <2>1. CASE Malformed(inline)
      BY <1>6, <1>7, <2>1 DEF JudgeLayout
    <2>2. CASE ~ Malformed(inline)
      BY <1>6, <1>7, <2>2 DEF JudgeLayout, registryVars
    <2> QED
      BY <2>1, <2>2
  <1>9. ASSUME NEW o \in 1 .. made
        PROVE  /\ FitLayout(store[o].inline) /\ ~ Pending(o)' /\ Judged(o)'
               /\ DOMAIN store[o].seed \subseteq DOMAIN store[o].leaves
    <2>1. /\ FitLayout(store[o].inline) /\ ~ Pending(o)'
          /\ DOMAIN store[o].seed \subseteq DOMAIN store[o].leaves
      BY <1>1 DEF ServerInv, ScenesOK, Pending
    <2>2. CASE o = made
      BY <1>1, <1>5, <1>6, <1>8, <2>1, <2>2 DEF Judged
    <2>3. CASE o # made
      <3>1. Judged(o)
        BY <2>3 DEF ServerInv, ScenesOK, Pending
      <3> QED
        BY <1>1, <1>8, <2>1, <2>3, <3>1 DEF Judged
    <2> QED
      BY <2>2, <2>3
  <1>10. ScenesOK'
    BY <1>1, <1>2, <1>9 DEF ScenesOK
  <1> QED
    BY <1>4, <1>10

LEMMA ControlMovesScenes ==
  ASSUME ServerInv, ControlStep, UNCHANGED pc
  PROVE  StoreOK' /\ ScenesOK'
  <1> USE DEF Goes, Answers, ControlRest
  <1>1. /\ Sequence(store) /\ Len(store) = made
        /\ \A o \in 1 .. made :
               /\ DOMAIN store[o] = SceneFields
               /\ DOMAIN store[o].seed \subseteq DOMAIN store[o].leaves
    BY DEF ServerInv, StoreOK, ScenesOK
  <1>2. UNCHANGED request
    BY ControlMovesPhase
  <1>3. ASSUME UNCHANGED <<store, made, rejected>>,
               \/ phase = "first" /\ phase' = "judge"
               \/ phase \notin {"first", "judge"} /\ phase' \notin {"first", "judge"}
        PROVE  StoreOK' /\ ScenesOK'
    BY <1>1, <1>2, <1>3, JudgementStays
  <1>4. CASE StartClear \/ ClearPointer \/ Register \/ Activate \/ FirstScene
    <2>1. UNCHANGED <<store, made, rejected>>
      BY <1>4 DEF StartClear, ClearPointer, Register, Activate, FirstScene,
                  ClearTable, ClearActive, CheckFree, CheckKnown, WriteActive,
                  ActivateFirst
    <2> QED
      BY <1>3, <1>4, <2>1 DEF StartClear, ClearPointer, Register, Activate,
                              FirstScene
  <1>5. CASE ClearTokens \/ InstallTokens
    <2>1. UNCHANGED <<store, made, rejected>>
      BY <1>5 DEF ClearTokens, InstallTokens, registryVars
    <2> QED
      BY <1>3, <1>5, <2>1 DEF ClearTokens, InstallTokens
  <1>6. ASSUME phase \in ScenePhases
        PROVE  made \in DOMAIN store /\ DOMAIN store[made] = SceneFields
               /\ made \in 1 .. made
    <2>1. made # 0 /\ made \in Nat
      BY <1>6 DEF ServerInv, ControlInv, RegistryTypeOK
    <2> QED
      BY <1>1, <2>1 DEF Sequence
  <1>7. CASE DeclareInputs
    <2>1. /\ phase \in ScenePhases /\ phase \notin {"first", "judge"}
          /\ phase' \notin {"first", "judge"}
          /\ UNCHANGED <<request, made, rejected>>
      BY <1>7 DEF DeclareInputs, ScenePhases, SetupPhases, registryVars
    <2>2. PICK specs : store' = [store EXCEPT ![made].specs = specs]
      BY <1>7 DEF DeclareInputs
    <2>3. store' = [store EXCEPT ![made] =
                       [store[made] EXCEPT !.specs = specs, !.leaves = store[made].leaves,
                           !.seed = store[made].seed, !.ready = store[made].ready]]
      BY <1>6, <2>1, <2>2 DEF SceneFields
    <2>4. /\ Sequence(store') /\ Len(store') = Len(store)
          /\ \A o \in 1 .. Len(store) :
                 /\ DOMAIN store'[o] = SceneFields
                 /\ store'[o].inline = store[o].inline
                 /\ DOMAIN store'[o].seed \subseteq DOMAIN store'[o].leaves
      BY <1>1, <1>6, <2>1, <2>3, SceneInTheMaking
    <2> QED
      BY <2>1, <2>4, JudgementStays
  <1>8. CASE SeedScene
    <2>1. /\ phase \in ScenePhases /\ phase \notin {"first", "judge"}
          /\ phase' \notin {"first", "judge"}
          /\ UNCHANGED <<request, made, rejected>>
      BY <1>8 DEF SeedScene, ScenePhases, SetupPhases, registryVars
    <2>2. PICK seed, leaves :
             /\ store' = [store EXCEPT ![made].leaves = leaves, ![made].seed = seed]
             /\ DOMAIN seed \subseteq DOMAIN leaves
      <3>1. store' = [store EXCEPT ![made].leaves = Over(Seed, store[made].leaves),
                                   ![made].seed = Seed]
        BY <1>8 DEF SeedScene
      <3>2. DOMAIN Seed \subseteq DOMAIN Over(Seed, store[made].leaves)
        BY DEF Over
      <3> QED
        BY <3>1, <3>2
    <2>3. PICK specs, ready :
             store' = [store EXCEPT ![made] =
                          [store[made] EXCEPT !.specs = specs, !.leaves = leaves,
                                              !.seed = seed, !.ready = ready]]
      <3>1. store' = [store EXCEPT ![made] =
                         [store[made] EXCEPT !.specs = store[made].specs,
                             !.leaves = leaves, !.seed = seed,
                             !.ready = store[made].ready]]
        BY <1>6, <2>1, <2>2 DEF SceneFields
      <3> QED
        BY <3>1
    <2>4. /\ Sequence(store') /\ Len(store') = Len(store)
          /\ \A o \in 1 .. Len(store) :
                 /\ DOMAIN store'[o] = SceneFields
                 /\ store'[o].inline = store[o].inline
                 /\ DOMAIN store'[o].seed \subseteq DOMAIN store'[o].leaves
      <3>1. phase \in ScenePhases /\ DOMAIN seed \subseteq DOMAIN leaves
        BY <2>1, <2>2
      <3> QED
        BY <2>3, <3>1, SceneInTheMaking
    <2> QED
      BY <2>1, <2>4, JudgementStays
  <1>9. CASE AnnounceScene
    <2>1. /\ phase \in ScenePhases /\ phase \notin {"first", "judge"}
          /\ phase' \notin {"first", "judge"}
          /\ UNCHANGED <<request, made, rejected>>
      BY <1>9 DEF AnnounceScene, ScenePhases, SetupPhases, Announce
    <2>2. store' = [store EXCEPT ![made].ready = TRUE]
      BY <1>9 DEF AnnounceScene
    <2>3. store' = [store EXCEPT ![made] =
                       [store[made] EXCEPT !.specs = store[made].specs,
                           !.leaves = store[made].leaves,
                           !.seed = store[made].seed, !.ready = TRUE]]
      BY <1>6, <2>1, <2>2 DEF SceneFields
    <2>4. /\ Sequence(store') /\ Len(store') = Len(store)
          /\ \A o \in 1 .. Len(store) :
                 /\ DOMAIN store'[o] = SceneFields
                 /\ store'[o].inline = store[o].inline
                 /\ DOMAIN store'[o].seed \subseteq DOMAIN store'[o].leaves
      BY <1>1, <1>6, <2>1, <2>3, SceneInTheMaking
    <2> QED
      BY <2>1, <2>4, JudgementStays
  <1>10. CASE HandleState \/ HandleEmit \/ FinishEmit
    <2>1. UNCHANGED <<registryVars, tokens>> /\ phase \in Calm /\ phase' \in Calm
      <3>1. CASE HandleState
        BY <3>1 DEF HandleState, ServerInv, ControlInv, Calm
      <3>2. CASE HandleEmit
        BY <3>2 DEF HandleEmit, Calm
      <3>3. CASE FinishEmit
        BY <3>3 DEF FinishEmit, Calm
      <3> QED
        BY <1>10, <3>1, <3>2, <3>3
    <2>2. StoreKept
      <3>1. \/ UNCHANGED store
            \/ StoreLeaves(Control, ActiveScene, request.pairs)
            \/ AdvanceSeq(Control)
        <4>1. CASE HandleState
          BY <4>1 DEF HandleState
        <4>2. CASE HandleEmit
          BY <4>2 DEF HandleEmit
        <4>3. CASE FinishEmit
          BY <4>3 DEF FinishEmit
        <4> QED
          BY <1>10, <4>1, <4>2, <4>3
      <3>2. ASSUME AdvanceSeq(Control) PROVE StoreKept
        <4>1. \E o : store' = [store EXCEPT ![o].seq = store[o].seq + 1]
          BY <3>2 DEF AdvanceSeq
        <4> QED
          BY <4>1, NumberKeepsStore DEF ServerInv
      <3>3. UNCHANGED store => StoreKept
        BY <1>1 DEF StoreKept, SceneKept
      <3> QED
        BY <3>1, <3>2, <3>3, StoreLeavesKeepsStore DEF ServerInv
    <2> QED
      BY <1>2, <2>1, <2>2, ScenesKept
  <1> QED
    BY <1>4, <1>5, <1>7, <1>8, <1>9, <1>10, CreateKeepsScenes,
       JudgeKeepsScenes DEF ControlStep

LEMMA ServerInductive ==
  HarnessInv /\ ServerInv /\ [Next]_vars => ServerInv'
  <1> SUFFICES ASSUME HarnessInv, ServerInv, [Next]_vars PROVE ServerInv'
    OBVIOUS
  <1>1. UNCHANGED Alone => UNCHANGED pc
    BY DEF Alone
  <1>2. CASE ControlStep /\ UNCHANGED Alone
    BY <1>1, <1>2, ControlMovesRegistry, ControlMovesPhase, ControlMovesTokens,
       ControlMovesScenes DEF ServerInv
  <1>3. CASE UNCHANGED vars
    BY <1>3 DEF vars, serverVars, registryVars, ServerInv, RegistryTypeOK,
       CallersHaveIds, StoreOK, ControlInv, SceneId, Bundle, ScenesOK, Judged,
       ToBeJudged, Pending, TokensOK
  <1> QED
    BY <1>1, <1>2, <1>3, HarnessKeepsServerInv, HandlersKeepServerInv
       DEF Next, Server, Silence

-----------------------------------------------------------------------------
(***************************************************************************)
(* Types, the numbering of the scenes and of the outcomes, and an exit     *)
(* code exactly at the end.                                                *)
(***************************************************************************)
THEOREM InteropTypes == Spec => []TypeOK
  <1>1. HarnessInv /\ ServerInv => TypeOK
    BY DEF HarnessInv, ServerInv, StoreOK, TokensOK, TypeOK
  <1> QED
    BY <1>1, HarnessInitially, HarnessInductive, ServerInitially,
       ServerInductive, PTL DEF Spec

(***************************************************************************)
(* For every command line and every suite, `lumencast conformance` exits   *)
(* with 0 only if it played the suite it was told to play, there was       *)
(* something to play, and every scenario for servers passed.               *)
(***************************************************************************)
THEOREM ExitHonesty == Spec => []ExitIsHonest
  BY HarnessInitially, HarnessInductive, HonestExit, PTL DEF Spec

(***************************************************************************)
(* Whatever the layout of a bundle, its scene is unservable after setup if *)
(* and only if a capture at some depth breaks the rules, and never when    *)
(* Bundle::parse would have accepted the bundle.                           *)
(***************************************************************************)
THEOREM RejectionRight == Spec => []RejectionIsRight
  <1>1. HarnessInv /\ ServerInv => RejectionIsRight
    <2> SUFFICES ASSUME ServerInv, NEW o \in DOMAIN store, store[o].ready
                 PROVE  /\ (o \in rejected) = Malformed(store[o].inline)
                        /\ Validate(store[o].inline) => o \notin rejected
      BY DEF RejectionIsRight
    <2>1. o \in 1 .. made
      BY DEF ServerInv, StoreOK, Sequence
    <2>2. FitLayout(store[o].inline) /\ ~ Pending(o) /\ Judged(o)
      BY <2>1 DEF ServerInv, ScenesOK, ToBeJudged
    <2>3. Validate(store[o].inline) => ~ Malformed(store[o].inline)
      BY <2>2, CaptureCheckIsRight DEF FitLayout
    <2>4. Malformed(store[o].inline) \in BOOLEAN
      BY DEF Malformed
    <2> QED
      BY <2>2, <2>3, <2>4 DEF Judged
  <1> QED
    BY <1>1, HarnessInitially, HarnessInductive, ServerInitially,
       ServerInductive, PTL DEF Spec

-----------------------------------------------------------------------------
(* The connections                                                         *)

ConnFields ==
    {"pc", "up", "in", "out", "scene", "seq", "role", "want", "feed",
     "deltas", "heard", "calm", "first"}

Unresolved == {"subscribe", "auth", "resolve", "find"}
Handshake == Unresolved \cup {"judge", "initial"}
Serving == {"number", "leaves", "receive", "loop", "writing"}

(***************************************************************************)
(* What holds of a connection k, whatever the others do: nothing has been  *)
(* sent during the handshake; a subscriber that no setup or reset has      *)
(* caught before its first frame has its scene from the time in between.   *)
(***************************************************************************)
ConnOK(k) ==
    /\ DOMAIN k = ConnFields
    /\ k.pc \in Unresolved => k.scene = 0
    /\ k.pc \in {"judge", "initial"} \cup Serving => k.scene \in 1 .. made
    /\ k.pc \in Handshake => k.out = <<>> /\ k.deltas = <<>> /\ k.first = <<>>
    /\ k.pc \in Serving =>
          Sequence(k.out) /\ Sequence(k.deltas) /\ k.heard \in Nat
    /\ k.feed => k.pc \in Serving
    /\ k.pc \in Serving \ {"number", "leaves"} => k.first # <<>>
    /\ k.calm /\ k.first = <<>> => phase \in Calm
    /\ k.calm /\ k.first = <<>> /\ k.pc \in {"initial", "number", "leaves"} =>
          k.scene \notin rejected

\* a function to pairs
Paired(pairs) == pairs = [i \in DOMAIN pairs |-> <<pairs[i][1], pairs[i][2]>>]

ConnsOK == DOMAIN conn = Conns /\ \A c \in Conns : ConnOK(conn[c])

(***************************************************************************)
(* The write a task has under way is of a scene there is, whose number it  *)
(* has raised once it has one; the task does nothing else meanwhile.       *)
(***************************************************************************)
WriteOK(record) ==
    /\ DOMAIN record = {"scene", "pairs", "seq"}
    /\ record.scene \in 0 .. made
    /\ record.seq # 0 => record.scene # 0 /\ store[record.scene].seq > 1

WritesOK ==
    /\ DOMAIN write = Writers
    /\ \A w \in Writers : WriteOK(write[w])
    /\ write[Control].scene # 0 => phase = "writing"
    /\ \A c \in Conns : write[c].scene # 0 => conn[c].pc = "writing"

(***************************************************************************)
(* A scene shows its seed until somebody begins to write it.               *)
(***************************************************************************)
SeedsOK ==
    \A o \in 1 .. made :
        /\ store[o].seq \in Nat \ {0}
        /\ SameFields(store[o].leaves, store[o].seed) \/ WriteBegun(o)
        /\ o = made /\ phase \in {"first", "judge", "declare", "seed"} =>
              DOMAIN store[o].seed = {}

LEMMA ConnsInitially == Init => ConnsOK /\ WritesOK /\ SeedsOK
  <1> SUFFICES ASSUME Init PROVE ConnsOK /\ WritesOK /\ SeedsOK
    OBVIOUS
  <1>1. ConnOK(NoConn)
    BY DEF ConnOK, NoConn, ConnFields, Unresolved, Handshake, Serving
  <1>2. ConnsOK
    BY <1>1 DEF Init, ServerInit, ConnsOK
  <1>3. made = 0 /\ write = [w \in Writers |-> NoWrite]
    BY DEF Init, ServerInit, RegistryInit
  <1>4. WriteOK(NoWrite) /\ NoWrite.scene = 0
    BY <1>3 DEF WriteOK, NoWrite
  <1>5. WritesOK
    BY <1>3, <1>4 DEF WritesOK, Writers
  <1>6. SeedsOK
    BY <1>3 DEF SeedsOK
  <1> QED
    BY <1>2, <1>5, <1>6

LEMMA TailOfSequence ==
  ASSUME NEW s, Sequence(s), s # <<>>
  PROVE  /\ Sequence(Tail(s)) /\ Head(s) = s[1]
         /\ Len(s) \in Nat \ {0} /\ Len(Tail(s)) = Len(s) - 1
         /\ \A i \in 1 .. Len(s) - 1 : Tail(s)[i] = s[i + 1]
  <1>1. PICK A : A = Range(s)
    OBVIOUS
  <1>2. s \in Seq(A)
    BY <1>1 DEF Sequence
  <1>3. Tail(s) \in Seq(A)
    BY <1>2
  <1>4. Sequence(Tail(s))
    BY <1>3, RangeOfSequence
  <1> QED
    BY <1>2, <1>4

LEMMA AppendTwo ==
  ASSUME NEW s, Sequence(s), NEW a, NEW b
  PROVE  /\ s \o <<a, b>> = Append(Append(s, a), b)
         /\ Sequence(s \o <<a, b>>)
  <1>1. PICK A : A = Range(s) \cup {a, b}
    OBVIOUS
  <1>2. s \in Seq(A) /\ a \in A /\ b \in A
    BY <1>1 DEF Sequence
  <1>3. s \o <<a, b>> = Append(Append(s, a), b)
    BY <1>2
  <1>4. Append(Append(s, a), b) \in Seq(A)
    BY <1>2
  <1> QED
    BY <1>3, <1>4, RangeOfSequence

(***************************************************************************)
(* What the peers do to a connection.                                      *)
(***************************************************************************)
Touched(old, new) ==
    \/ new = old
    \/ \E x : new = [old EXCEPT !.in = x]
    \/ \E x : new = [old EXCEPT !.up = x]
    \/ old.out # <<>> /\ new = [old EXCEPT !.out = Tail(@)]
    \/ new = [old EXCEPT !.out = <<>>]
    \/ old.pc = "none" /\ \E frames : new = Accepted(frames)

\* what a write of another connection or of the control plane does to it
Informed(old, new) == \E m : new = [old EXCEPT !.deltas = Append(@, m)]

LEMMA ConnTouched ==
  ASSUME UNCHANGED <<made, rejected>>, phase \in Calm => phase' \in Calm,
         NEW k, ConnOK(k), NEW new, Touched(k, new)
  PROVE  ConnOK(new)'
  <1> USE DEF ConnOK, ConnFields, Unresolved, Handshake, Serving
  <1>1. CASE new = k
    BY <1>1
  <1>2. CASE \E x : new = [k EXCEPT !.in = x]
    BY <1>2
  <1>3. CASE \E x : new = [k EXCEPT !.up = x]
    BY <1>3
  <1>4. CASE k.out # <<>> /\ new = [k EXCEPT !.out = Tail(@)]
    <2>1. Sequence(k.out) => Sequence(Tail(k.out))
      BY <1>4, TailOfSequence
    <2> QED
      BY <1>4, <2>1
  <1>5. CASE new = [k EXCEPT !.out = <<>>]
    <2>1. Sequence(<<>>)
      BY DEF Sequence, Range
    <2> QED
      BY <1>5, <2>1
  <1>6. CASE \E frames : new = Accepted(frames)
    BY <1>6 DEF Accepted, NoConn
  <1> QED
    BY <1>1, <1>2, <1>3, <1>4, <1>5, <1>6 DEF Touched

LEMMA ConnInformed ==
  ASSUME UNCHANGED <<made, rejected>>, phase \in Calm => phase' \in Calm,
         NEW k, ConnOK(k), NEW new, k.feed, Informed(k, new)
  PROVE  ConnOK(new)'
  <1>1. PICK m : new = [k EXCEPT !.deltas = Append(@, m)]
    BY DEF Informed
  <1>2. Sequence(k.deltas)
    BY DEF ConnOK
  <1>3. Sequence(Append(k.deltas, m))
    BY <1>2, AppendOutcome
  <1> QED
    BY <1>1, <1>3 DEF ConnOK, ConnFields, Unresolved, Handshake, Serving

LEMMA HarnessTouches ==
  ASSUME DOMAIN conn = Conns, HarnessStep \/ VisitorComes \/ VisitorReads
  PROVE  DOMAIN conn' = Conns /\ \A c \in Conns : Touched(conn[c], conn'[c])
  <1> USE DEF serverVars, Rest, Touched
  <1>1. ASSUME UNCHANGED conn PROVE DOMAIN conn' = Conns
               /\ \A c \in Conns : Touched(conn[c], conn'[c])
    BY <1>1
  <1>2. ASSUME NEW d, NEW x, conn' = [conn EXCEPT ![d].in = x]
        PROVE  DOMAIN conn' = Conns /\ \A c \in Conns : Touched(conn[c], conn'[c])
    BY <1>2
  <1>3. ASSUME NEW d, conn[d].out # <<>>, conn' = [conn EXCEPT ![d].out = Tail(@)]
        PROVE  DOMAIN conn' = Conns /\ \A c \in Conns : Touched(conn[c], conn'[c])
    BY <1>3
  <1>4. ASSUME NEW d, NEW frames, conn[d].pc = "none",
               conn' = [conn EXCEPT ![d] = Accepted(frames)]
        PROVE  DOMAIN conn' = Conns /\ \A c \in Conns : Touched(conn[c], conn'[c])
    BY <1>4
  <1>5. ASSUME Hangup
        PROVE  DOMAIN conn' = Conns /\ \A c \in Conns : Touched(conn[c], conn'[c])
    BY <1>5 DEF Hangup
  <1>6. CASE VisitorComes
    BY <1>4, <1>6 DEF VisitorComes
  <1>7. CASE VisitorReads
    BY <1>7 DEF VisitorReads
  <1>8. CASE RunConformance \/ SkipScenario \/ ExitCode \/ StartScenario
             \/ ResetAfterPass
    BY <1>1, <1>8 DEF RunConformance, SkipScenario, ExitCode, StartScenario,
                      ResetAfterPass, Post
  <1>9. CASE ResetAfterFail \/ FinishScenario
    BY <1>5, <1>9 DEF ResetAfterFail, FinishScenario
  <1>10. CASE OpenWs
    <2>1. \/ UNCHANGED conn
          \/ /\ conn[Sessions[at]].pc = "none"
             /\ conn' = [conn EXCEPT ![Sessions[at]] = Accepted(<<>>)]
      BY <1>10 DEF OpenWs
    <2> QED
      BY <1>1, <1>4, <2>1
  <1>11. CASE ClientSends
    <2>1. UNCHANGED conn \/ \E x : conn' = [conn EXCEPT ![W].in = x]
      BY <1>11 DEF ClientSends
    <2>2. PICK d : d = W
      OBVIOUS
    <2> QED
      BY <1>1, <1>2, <2>1, <2>2
  <1>12. CASE ReadFrame \/ ExpectNoFrameFor \/ ExpectClose
    <2>1. \/ UNCHANGED conn
          \/ conn[W].out # <<>> /\ conn' = [conn EXCEPT ![W].out = Tail(@)]
      <3>1. CASE ReadFrame
        BY <3>1 DEF ReadFrame
      <3>2. CASE conn[W].out # <<>> /\ (ExpectNoFrameFor \/ ExpectClose)
        BY <3>2 DEF ExpectNoFrameFor, ExpectClose
      <3>3. CASE conn[W].out = <<>> /\ (ExpectNoFrameFor \/ ExpectClose)
        BY <3>3 DEF ExpectNoFrameFor, ExpectClose
      <3> QED
        BY <1>12, <3>1, <3>2, <3>3
    <2>2. PICK d : d = W
      OBVIOUS
    <2> QED
      BY <1>1, <1>3, <2>1, <2>2
  <1>13. CASE ReadTimesOut \/ ExpectRuntimeState \/ JudgeStep
    BY <1>1, <1>13 DEF ReadTimesOut, ExpectRuntimeState, JudgeStep
  <1>14. CASE ExpectServerState
    BY <1>1, <1>14 DEF ExpectServerState, Post
  <1>15. CASE ServerEmits
    BY <1>1, <1>15 DEF ServerEmits, Post
  <1> QED
    BY <1>6, <1>7, <1>8, <1>9, <1>10, <1>11, <1>12, <1>13, <1>14, <1>15
       DEF HarnessStep, PlayerStep

-----------------------------------------------------------------------------
(* What the handlers do to the connections                                 *)

LEMMA ClosingKeepsConn ==
  ASSUME UNCHANGED <<made, phase, rejected>>, NEW c \in Conns, ConnOK(conn[c]),
         NEW frames, NEW q, NEW x,
         q = Closing(c, frames) \/ q = [Closing(c, frames) EXCEPT !.in = x]
  PROVE  ConnOK(q)'
  <1>1. PICK k : k = conn[c] /\ ConnOK(k)
    OBVIOUS
  <1>2. PICK r : r = [k EXCEPT !.pc = "closed",
                               !.out = @ \o frames \o <<CloseNormal>>,
                               !.feed = FALSE, !.deltas = <<>>,
                               !.first = IF @ = <<>> THEN frames ELSE @]
    OBVIOUS
  <1>3. q = r \/ q = [r EXCEPT !.in = x]
    BY <1>1, <1>2 DEF Closing
  <1>4. /\ DOMAIN r = ConnFields /\ r.pc = "closed" /\ r.calm = k.calm
        /\ r.first = <<>> => k.first = <<>>
        /\ ~ r.feed
    BY <1>1, <1>2 DEF ConnOK, ConnFields
  <1> QED
    BY <1>1, <1>3, <1>4 DEF ConnOK, ConnFields, Unresolved, Handshake, Serving

LEMMA HandshakeKeepsConn ==
  ASSUME ServerInv, NEW c \in Conns, ConnOK(conn[c]), NEW q, Set(c, q),
         UNCHANGED <<made, phase, rejected>>,
         \/ RecvSubscribe(c) \/ SubscribeTimeout(c) \/ Authenticate(c)
         \/ ResolveId(c) \/ FindScene(c) \/ CheckRejection(c)
         \/ Attach(c) \/ ReadSeq(c) \/ SendSnapshot(c) \/ Resubscribe(c)
         \/ PeerGone(c),
         DOMAIN conn = Conns
  PROVE  ConnOK(q)'
  <1>1. q = conn'[c]
    BY DEF Set
  <1>2. PICK k : k = conn[c] /\ ConnOK(k)
    OBVIOUS
  <1>3. ASSUME NEW r, Set(c, r) PROVE r = q
    BY <1>1, <1>3 DEF Set
  <1>4. ASSUME NEW code, q = Failing(c, code) PROVE ConnOK(q)'
    BY <1>4, ClosingKeepsConn DEF Failing
  <1> USE DEF ConnOK, ConnFields, Unresolved, Handshake, Serving
  <1>5. CASE RecvSubscribe(c)
    <2>1. CASE DecodeClient(Head(conn[c].in)) = "subscribe"
      <3>1. q = [Received(c) EXCEPT !.pc = "auth", !.want = {Head(conn[c].in)},
                                    !.calm = phase \in {"idle", "writing"}]
        BY <1>1, <1>5, <2>1 DEF RecvSubscribe, Set
      <3>2. k.pc = "subscribe"
        BY <1>2, <1>5 DEF RecvSubscribe
      <3> QED
        BY <1>2, <3>1, <3>2 DEF Received, Calm
    <2>2. CASE DecodeClient(Head(conn[c].in)) # "subscribe"
      <3>1. q = [Closing(c, <<>>) EXCEPT !.in = Tail(@)]
        BY <1>1, <1>5, <2>2 DEF RecvSubscribe, Set
      <3>2. PICK x : q = [Closing(c, <<>>) EXCEPT !.in = x]
        BY <3>1
      <3> HIDE DEF ConnOK
      <3> QED
        BY <3>2, ClosingKeepsConn
    <2> QED
      BY <2>1, <2>2
  <1>6. CASE SubscribeTimeout(c)
    <2>1. q = Closing(c, <<>>)
      BY <1>1, <1>6 DEF SubscribeTimeout, Set
    <2> HIDE DEF ConnOK
    <2> QED
      BY <2>1, ClosingKeepsConn
  <1>7. CASE Authenticate(c)
    <2>1. \/ \E x : q = [conn[c] EXCEPT !.pc = "resolve", !.role = x]
          \/ q = Failing(c, "AUTH_DENIED")
      <3>1. PICK token : token = StringAt(Subscription(c), "token")
        OBVIOUS
      <3>2. CASE token \in DOMAIN tokens
        BY <1>3, <1>7, <3>1, <3>2 DEF Authenticate
      <3>3. CASE token \notin DOMAIN tokens
        BY <1>3, <1>7, <3>1, <3>3 DEF Authenticate
      <3> QED
        BY <3>2, <3>3
    <2>2. k.pc = "auth"
      BY <1>2, <1>7 DEF Authenticate
    <2> QED
      BY <1>2, <1>4, <2>1, <2>2
  <1>8. CASE ResolveId(c)
    <2>1. \/ \E x : q = [conn[c] EXCEPT !.pc = "find", !.want = x]
          \/ q = Failing(c, "SCENE_NOT_FOUND")
      <3>1. PICK id : id = IF HasString(Subscription(c), "scene")
                           THEN StringAt(Subscription(c), "scene") ELSE active
        OBVIOUS
      <3>2. CASE id = NoId
        BY <1>3, <1>8, <3>1, <3>2 DEF ResolveId
      <3>3. CASE id # NoId
        BY <1>3, <1>8, <3>1, <3>3 DEF ResolveId
      <3> QED
        BY <3>2, <3>3
    <2>2. k.pc = "resolve"
      BY <1>2, <1>8 DEF ResolveId
    <2> QED
      BY <1>2, <1>4, <2>1, <2>2
  <1>9. CASE FindScene(c)
    <2>1. PICK o \in 0 .. made :
             q = IF o = 0 THEN Failing(c, "SCENE_NOT_FOUND")
                 ELSE [conn[c] EXCEPT !.pc = "judge", !.want = {}, !.scene = o]
      <3>1. PICK id : id = CHOOSE x \in conn[c].want : TRUE
        OBVIOUS
      <3>2. PICK o : o = IF id \in Ids THEN scenes[id] ELSE 0
        OBVIOUS
      <3>3. Set(c, IF o = 0 THEN Failing(c, "SCENE_NOT_FOUND")
                   ELSE [conn[c] EXCEPT !.pc = "judge", !.want = {}, !.scene = o])
        BY <1>9, <3>1, <3>2 DEF FindScene
      <3>4. o \in 0 .. made
        BY <3>2 DEF ServerInv, RegistryTypeOK
      <3> QED
        BY <1>1, <3>3, <3>4 DEF Set
    <2>2. k.pc = "find"
      BY <1>2, <1>9 DEF FindScene
    <2>3. CASE o # 0
      <3>1. o \in 1 .. made /\ made \in Nat
        BY <2>3 DEF ServerInv, RegistryTypeOK
      <3> QED
        BY <1>2, <2>1, <2>2, <2>3, <3>1
    <2> QED
      BY <1>4, <2>1, <2>3
  <1>10. CASE CheckRejection(c)
    <2>1. \/ q = Failing(c, "INVALID_VALUE")
          \/ /\ conn[c].scene \notin rejected
             /\ q = [conn[c] EXCEPT !.pc = "initial"]
      BY <1>1, <1>10 DEF CheckRejection, Set
    <2>2. k.pc = "judge"
      BY <1>2, <1>10 DEF CheckRejection
    <2> QED
      BY <1>2, <1>4, <2>1, <2>2
  <1>11. CASE Attach(c)
    <2>1. PICK n \in Nat : n = Len(events)
      BY DEF ServerInv, RegistryTypeOK
    <2>2. q = [conn[c] EXCEPT !.pc = "number", !.feed = TRUE, !.heard = n]
      BY <1>1, <1>11, <2>1 DEF Attach, Set
    <2>3. k.pc = "initial" /\ k.out = <<>> /\ k.deltas = <<>>
      BY <1>2, <1>11 DEF Attach
    <2>4. Sequence(<<>>)
      BY DEF Sequence, Range
    <2> QED
      BY <1>2, <2>2, <2>3, <2>4
  <1>a. CASE ReadSeq(c)
    <2>1. PICK n : q = [conn[c] EXCEPT !.pc = "leaves", !.seq = n]
      <3>1. PICK n : n = store[conn[c].scene].seq
        OBVIOUS
      <3>2. Set(c, [conn[c] EXCEPT !.pc = "leaves", !.seq = n])
        BY <1>a, <3>1 DEF ReadSeq
      <3> QED
        BY <1>3, <3>2
    <2>2. k.pc = "number"
      BY <1>2, <1>a DEF ReadSeq
    <2> QED
      BY <1>2, <2>1, <2>2
  <1>b. CASE SendSnapshot(c)
    <2>1. PICK frame :
             q = [conn[c] EXCEPT !.pc = IF conn[c].feed THEN "loop" ELSE "receive",
                                 !.seq = 0, !.out = Append(@, frame),
                                 !.first = IF @ = <<>> THEN <<frame>> ELSE @]
      <3>1. PICK frame :
               frame = Text(SnapshotFrame(conn[c].seq, store[conn[c].scene]))
        OBVIOUS
      <3>2. Set(c, [conn[c] EXCEPT !.pc = IF conn[c].feed THEN "loop" ELSE "receive",
                                   !.seq = 0, !.out = Append(@, frame),
                                   !.first = IF @ = <<>> THEN <<frame>> ELSE @])
        BY <1>b, <3>1 DEF SendSnapshot
      <3> QED
        BY <1>3, <3>2
    <2>2. k.pc = "leaves" /\ Sequence(k.out)
      BY <1>2, <1>b DEF SendSnapshot
    <2>3. Sequence(Append(k.out, frame))
      BY <2>2, AppendOutcome
    <2>4. /\ DOMAIN q = ConnFields /\ q.pc \in {"loop", "receive"}
          /\ q.scene = k.scene /\ q.out = Append(k.out, frame)
          /\ q.deltas = k.deltas /\ q.heard = k.heard
          /\ q.first # <<>>
      BY <1>2, <2>1
    <2> QED
      BY <1>2, <2>2, <2>3, <2>4
  <1>c. CASE Resubscribe(c)
    <2>1. q = [conn[c] EXCEPT !.pc = "loop", !.feed = TRUE]
      BY <1>1, <1>c DEF Resubscribe, Set
    <2>2. k.pc = "receive"
      BY <1>2, <1>c DEF Resubscribe
    <2> QED
      BY <1>2, <2>1, <2>2
  <1>12. CASE PeerGone(c)
    <2>1. q = NoConn
      BY <1>1, <1>12 DEF PeerGone, Set
    <2> QED
      BY <2>1 DEF NoConn
  <1> QED
    BY <1>5, <1>6, <1>7, <1>8, <1>9, <1>10, <1>11, <1>12, <1>a, <1>b, <1>c

LEMMA DecodedKinds ==
  ASSUME NEW frame
  PROVE  DecodeClient(frame) \in {"envelope", "subscribe", "input", "json",
                                  "invalid", "ping", "unsubscribe"}
  BY DEF DecodeClient

(***************************************************************************)
(* What the loop of a handler does to its connection.                      *)
(***************************************************************************)
Replies(c, new) ==
    \E frame : /\ ~ HasType(frame, "snapshot") /\ ~ HasType(frame, "delta")
               /\ new = [conn[c] EXCEPT !.in = Tail(@), !.out = Append(@, Text(frame))]

Ended(c, new) == \E frames, x : new = [Closing(c, frames) EXCEPT !.in = x]

Stores(c) ==
    \E pairs : /\ Paired(pairs)
               /\ StoreLeaves(c, conn[c].scene, pairs)
               /\ Set(c, [conn[c] EXCEPT !.in = Tail(@), !.pc = "writing"])

LEMMA FrameType ==
  ASSUME NEW type, NEW fields
  PROVE  /\ \A u : HasType(Frame(type, fields), u) <=> type = u
         /\ \A key \in DOMAIN fields \ {"v", "type"} :
               Frame(type, fields).f[key] = fields[key]
  <1>1. PICK f : f = Over([v |-> Num(1), type |-> Str(type)], fields)
    OBVIOUS
  <1>2. "type" \in DOMAIN f /\ f["type"] = Str(type)
    BY <1>1 DEF Over
  <1>3. \A key \in DOMAIN fields \ {"v", "type"} : f[key] = fields[key]
    BY <1>1 DEF Over
  <1>4. Frame(type, fields) = [tag |-> "object", f |-> f]
    BY <1>1 DEF Frame, Obj
  <1> QED
    BY <1>2, <1>3, <1>4 DEF HasType, HasString, Has, IsObject, IsString, StringAt, Str

LEMMA TextCases ==
  ASSUME NEW c, HandleText(c)
  PROVE  /\ conn[c].pc = "loop"
         /\ \/ Stores(c)
            \/ /\ UNCHANGED <<store, write>>
               /\ \E q : Set(c, q) /\ (Replies(c, q) \/ Ended(c, q))
  <1>1. PICK frame : frame = Head(conn[c].in)
    OBVIOUS
  <1>2. PICK kind : kind = DecodeClient(frame)
    OBVIOUS
  <1>3. kind \in {"envelope", "subscribe", "input", "json", "invalid", "ping",
                  "unsubscribe"}
    BY <1>2, DecodedKinds
  <1>4. ASSUME NEW reply, Reply(c, reply),
               ~ HasType(reply, "snapshot"), ~ HasType(reply, "delta")
        PROVE  \E q : Set(c, q) /\ Replies(c, q)
    <2>1. PICK q : q = [conn[c] EXCEPT !.in = Tail(@), !.out = Append(@, Text(reply))]
      OBVIOUS
    <2>2. q = [Received(c) EXCEPT !.out = Append(@, Text(reply))]
      BY <2>1 DEF Received
    <2>3. Set(c, q)
      BY <1>4, <2>2 DEF Reply
    <2> QED
      BY <1>4, <2>1, <2>3 DEF Replies
  <1>5. ASSUME NEW frames, Ends(c, frames)
        PROVE  \E q : Set(c, q) /\ Ended(c, q)
    <2>1. PICK q, x : q = [Closing(c, frames) EXCEPT !.in = x] /\ Set(c, q)
      BY <1>5 DEF Ends
    <2> QED
      BY <2>1 DEF Ended
  <1>6. ASSUME NEW code, NEW path
        PROVE  /\ ~ HasType(ErrorFrame(c, code, path), "snapshot")
               /\ ~ HasType(ErrorFrame(c, code, path), "delta")
    BY FrameType DEF ErrorFrame
  <1>7. CASE kind = "input"
    <2>1. PICK patches : HandleInput(c, patches)
      BY <1>1, <1>2, <1>7 DEF HandleText
    <2> DEFINE bad == {i \in DOMAIN patches :
                          PatchError(conn[c].role, store[conn[c].scene].specs,
                                     patches[i]) # "none"}
    <2>2. CASE bad = {}
      <3>1. PICK pairs : pairs = [i \in DOMAIN patches |->
                                     <<PatchPath(patches[i]), PatchValue(patches[i])>>]
        OBVIOUS
      <3>2. /\ StoreLeaves(c, conn[c].scene, pairs)
            /\ Set(c, [Received(c) EXCEPT !.pc = "writing"])
        BY <2>1, <2>2, <3>1 DEF HandleInput
      <3>3. Paired(pairs)
        BY <3>1 DEF Paired
      <3>4. [Received(c) EXCEPT !.pc = "writing"]
            = [conn[c] EXCEPT !.in = Tail(@), !.pc = "writing"]
        BY DEF Received
      <3> QED
        BY <3>2, <3>3, <3>4 DEF Stores, HandleText
    <2>3. CASE bad # {}
      <3>1. PICK code, path :
               /\ Set(c, [Received(c) EXCEPT !.out =
                             Append(@, Text(ErrorFrame(c, code, path)))])
               /\ UNCHANGED <<store, write>>
        BY <2>1, <2>3 DEF HandleInput
      <3>2. Reply(c, ErrorFrame(c, code, path))
        BY <3>1 DEF Reply
      <3> QED
        BY <1>4, <1>6, <3>1, <3>2 DEF HandleText
    <2> QED
      BY <2>2, <2>3
  <1>8. CASE kind = "invalid"
    <2>1. PICK path : Reply(c, ErrorFrame(c, "INVALID_VALUE", path))
          /\ UNCHANGED <<store, write>>
      BY <1>1, <1>2, <1>8 DEF HandleText
    <2> QED
      BY <1>4, <1>6, <2>1 DEF HandleText
  <1>9. CASE kind = "ping"
    <2>1. Reply(c, Frame("pong", NoFields)) /\ UNCHANGED <<store, write>>
      BY <1>1, <1>2, <1>9 DEF HandleText
    <2> QED
      BY <1>4, <2>1, FrameType DEF HandleText
  <1>10. CASE kind \in {"json", "envelope", "subscribe", "unsubscribe"}
    <2>1. PICK frames : Ends(c, frames) /\ UNCHANGED <<store, write>>
      BY <1>1, <1>2, <1>10 DEF HandleText
    <2> QED
      BY <1>5, <2>1 DEF HandleText
  <1> QED
    BY <1>3, <1>7, <1>8, <1>9, <1>10

LEMMA EventCases ==
  ASSUME ServerInv, NEW c, ConnOK(conn[c]), HandleEvent(c)
  PROVE  \/ UNCHANGED store /\ Set(c, [conn[c] EXCEPT !.heard = @ + 1])
         \/ \E o \in 1 .. made : \E changed :
               /\ store' = [store EXCEPT ![conn[c].scene].seq = @ + 1]
               /\ ~ HasType(changed, "snapshot") /\ ~ HasType(changed, "delta")
               /\ Set(c, [conn[c] EXCEPT !.heard = @ + 1, !.pc = "number",
                      !.scene = o, !.feed = FALSE, !.deltas = <<>>,
                      !.out = Append(@, Text(changed))])
  <1>1. PICK k : k = conn[c] /\ ConnOK(k)
    OBVIOUS
  <1>2. PICK heard : heard = [k EXCEPT !.heard = @ + 1]
    OBVIOUS
  <1>3. PICK o : o = scenes[events[heard.heard]]
    OBVIOUS
  <1>4. heard.heard = k.heard + 1 /\ k.heard \in Nat /\ k.heard < Len(events)
    BY <1>1, <1>2 DEF ConnOK, ConnFields, Serving, HandleEvent
  <1>5. o \in 0 .. made /\ made \in Nat
    <2>1. /\ events \in Seq(Ids) /\ scenes \in [Ids -> 0 .. made]
          /\ made \in Nat
      BY DEF ServerInv, RegistryTypeOK
    <2>2. PICK n : n = k.heard + 1
      OBVIOUS
    <2>3. n \in 1 .. Len(events)
      BY <1>4, <2>1, <2>2
    <2>4. events[n] \in Ids
      BY <2>1, <2>3
    <2> QED
      BY <1>3, <1>4, <2>1, <2>2, <2>4
  <1>6. CASE o = 0
    BY <1>1, <1>2, <1>3, <1>6 DEF HandleEvent
  <1>7. CASE o # 0
    <2>1. o \in 1 .. made
      BY <1>5, <1>7
    <2>2. PICK seq : seq = store[k.scene].seq + 1
      OBVIOUS
    <2>3. PICK changed : changed = SceneChangedFrame(seq, store[o])
      OBVIOUS
    <2>4. /\ store' = [store EXCEPT ![k.scene].seq = seq]
          /\ Set(c, [heard EXCEPT !.pc = "number", !.scene = o,
                     !.feed = FALSE, !.deltas = <<>>,
                     !.out = Append(@, Text(changed))])
      BY <1>1, <1>2, <1>3, <1>7, <2>2, <2>3 DEF HandleEvent
    <2>5. store' = [store EXCEPT ![conn[c].scene].seq = @ + 1]
      BY <1>1, <2>2, <2>4
    <2>6. ~ HasType(changed, "snapshot") /\ ~ HasType(changed, "delta")
      BY <2>3, FrameType DEF SceneChangedFrame
    <2>7. [heard EXCEPT !.pc = "number", !.scene = o, !.feed = FALSE,
              !.deltas = <<>>, !.out = Append(@, Text(changed))]
          = [k EXCEPT !.heard = @ + 1, !.pc = "number", !.scene = o,
                !.feed = FALSE, !.deltas = <<>>, !.out = Append(@, Text(changed))]
      BY <1>1, <1>2 DEF ConnOK, ConnFields
    <2> QED
      BY <1>1, <2>1, <2>4, <2>5, <2>6, <2>7
  <1> QED
    BY <1>6, <1>7

\* a receiver of scene o gets the message m
Reached(old, o, m) ==
    IF old.feed /\ old.scene = o
    THEN [old EXCEPT !.deltas = Append(@, m)] ELSE old

LEMMA SendCases ==
  ASSUME NEW w, NEW cs, SendDelta(w, cs)
  PROVE  \E m :
            /\ m = Text(DeltaFrame(write[w].seq, PatchesOf(write[w].pairs)))
            /\ DOMAIN conn' = Conns
            /\ \A d \in Conns : conn'[d] = Reached(cs[d], write[w].scene, m)
  <1>1. PICK m : m = Text(DeltaFrame(write[w].seq, PatchesOf(write[w].pairs)))
    OBVIOUS
  <1>2. conn' = [d \in Conns |->
                    IF cs[d].feed /\ cs[d].scene = write[w].scene
                    THEN [cs[d] EXCEPT !.deltas = Append(@, m)] ELSE cs[d]]
    BY <1>1 DEF SendDelta
  <1> QED
    BY <1>1, <1>2 DEF Reached

LEMMA SendKeepsConns ==
  ASSUME UNCHANGED <<made, rejected>>, phase \in Calm => phase' \in Calm,
         NEW w, NEW cs, \A d \in Conns : ConnOK(cs[d]), SendDelta(w, cs)
  PROVE  ConnsOK'
  <1>0. PICK o : o = write[w].scene
    OBVIOUS
  <1>1. PICK m :
           /\ DOMAIN conn' = Conns
           /\ \A d \in Conns : conn'[d] = Reached(cs[d], o, m)
    BY <1>0, SendCases
  <1>2. ASSUME NEW d \in Conns PROVE ConnOK(conn[d])'
    <2>1. PICK k, new : k = cs[d] /\ ConnOK(k) /\ new = conn'[d]
      BY <1>2
    <2>2. CASE k.feed /\ k.scene = o
      <3>1. new = [k EXCEPT !.deltas = Append(@, m)]
        BY <1>1, <2>1, <2>2 DEF Reached
      <3>2. ConnOK(new)'
        BY <2>1, <2>2, <3>1, ConnInformed DEF Informed
      <3> QED
        BY <2>1, <3>2
    <2>3. CASE ~ (k.feed /\ k.scene = o)
      <3>1. new = k
        BY <1>1, <2>1, <2>3 DEF Reached
      <3>2. ConnOK(new)'
        BY <2>1, <3>1, ConnTouched DEF Touched
      <3> QED
        BY <2>1, <3>2
    <2> QED
      BY <2>2, <2>3
  <1> QED
    BY <1>1, <1>2 DEF ConnsOK

LEMMA LoopKeepsConns ==
  ASSUME ServerInv, ConnsOK, NEW c \in Conns, UNCHANGED <<made, phase, rejected>>,
         HandleText(c) \/ FinishInput(c) \/ HandleEvent(c) \/ HandleDelta(c)
  PROVE  ConnsOK'
  <1>1. DOMAIN conn = Conns /\ \A d \in Conns : ConnOK(conn[d])
    BY DEF ConnsOK
  <1>2. PICK k : k = conn[c] /\ ConnOK(k)
    BY <1>1
  <1>3. ASSUME NEW q, Set(c, q), ConnOK(q)' PROVE ConnsOK'
    <2>1. DOMAIN conn' = Conns
      BY <1>1, <1>3 DEF Set
    <2>2. ASSUME NEW d \in Conns PROVE ConnOK(conn[d])'
      <3>1. CASE d = c
        BY <1>1, <1>3, <3>1 DEF Set
      <3>2. CASE d # c
        <4>1. PICK r : r = conn[d] /\ r = conn'[d] /\ ConnOK(r)
          BY <1>1, <1>3, <3>2 DEF Set
        <4>2. ConnOK(r)'
          BY <4>1, ConnTouched DEF Touched
        <4> QED
          BY <4>1, <4>2
      <3> QED
        BY <3>1, <3>2
    <2> QED
      BY <2>1, <2>2 DEF ConnsOK
  <1>4. /\ k.pc \in {"loop", "writing"} /\ DOMAIN k = ConnFields
        /\ Sequence(k.out) /\ Sequence(k.deltas) /\ k.heard \in Nat
        /\ k.first # <<>> /\ k.scene \in 1 .. made
    BY <1>2 DEF ConnOK, Serving, HandleText, FinishInput, HandleEvent, HandleDelta
  <1>5. ASSUME NEW m PROVE Sequence(Append(k.out, m))
    BY <1>4, AppendOutcome
  <1> USE DEF ConnOK, ConnFields, Unresolved, Handshake, Serving
  <1>6. CASE HandleText(c)
    <2>1. CASE Stores(c)
      <3>1. PICK x, q : Set(c, q) /\ q = [k EXCEPT !.in = x, !.pc = "writing"]
        BY <1>2, <2>1 DEF Stores
      <3>2. ConnOK(q)'
        BY <1>2, <1>4, <3>1
      <3> HIDE DEF ConnOK
      <3> QED
        BY <1>3, <3>1, <3>2
    <2>2. ASSUME NEW q, Set(c, q), Replies(c, q) PROVE ConnsOK'
      <3>1. PICK x, m : q = [k EXCEPT !.in = x, !.out = Append(@, m)]
        BY <1>2, <2>2 DEF Replies
      <3>2. ConnOK(q)'
        BY <1>2, <1>4, <1>5, <3>1
      <3> HIDE DEF ConnOK
      <3> QED
        BY <1>3, <2>2, <3>2
    <2>3. ASSUME NEW q, Set(c, q), Ended(c, q) PROVE ConnsOK'
      <3> HIDE DEF ConnOK
      <3>1. ConnOK(q)'
        BY <1>1, <2>3, ClosingKeepsConn DEF Ended
      <3> QED
        BY <1>3, <2>3, <3>1
    <2> QED
      BY <1>6, <2>1, <2>2, <2>3, TextCases
  <1>7. CASE HandleEvent(c)
    <2>1. CASE Set(c, [conn[c] EXCEPT !.heard = @ + 1])
      <3>1. PICK q : q = [k EXCEPT !.heard = @ + 1]
        OBVIOUS
      <3>2. ConnOK(q)'
        BY <1>2, <1>4, <3>1
      <3> HIDE DEF ConnOK
      <3> QED
        BY <1>2, <1>3, <2>1, <3>1, <3>2
    <2>2. ASSUME NEW o \in 1 .. made, NEW m,
                 Set(c, [conn[c] EXCEPT !.heard = @ + 1, !.pc = "number",
                            !.scene = o, !.feed = FALSE, !.deltas = <<>>,
                            !.out = Append(@, m)])
          PROVE  ConnsOK'
      <3>1. Sequence(<<>>)
        BY DEF Sequence, Range
      <3>2. PICK q : q = [k EXCEPT !.heard = @ + 1, !.pc = "number", !.scene = o,
                                   !.feed = FALSE, !.deltas = <<>>,
                                   !.out = Append(@, m)]
        OBVIOUS
      <3>3. ConnOK(q)'
        BY <1>2, <1>4, <1>5, <3>1, <3>2
      <3> HIDE DEF ConnOK
      <3> QED
        BY <1>2, <1>3, <2>2, <3>2, <3>3
    <2> QED
      BY <1>1, <1>7, <2>1, <2>2, EventCases
  <1>8. CASE HandleDelta(c)
    <2>1. PICK q : q = [k EXCEPT !.deltas = Tail(@), !.out = Append(@, Head(k.deltas))]
      OBVIOUS
    <2>2. Set(c, q) /\ k.deltas # <<>>
      BY <1>2, <1>8, <2>1 DEF HandleDelta
    <2>3. Sequence(Tail(k.deltas))
      BY <1>4, <2>2, TailOfSequence
    <2>4. ConnOK(q)'
      BY <1>2, <1>4, <1>5, <2>1, <2>3
    <2> HIDE DEF ConnOK
    <2> QED
      BY <1>3, <2>2, <2>4
  <1>9. CASE FinishInput(c)
    <2>1. CASE UNCHANGED conn
      <3> HIDE DEF ConnOK
      <3>1. ASSUME NEW d \in Conns PROVE ConnOK(conn[d])'
        <4>1. PICK r : r = conn[d] /\ r = conn'[d] /\ ConnOK(r)
          BY <1>1, <2>1
        <4>2. ConnOK(r)'
          BY <4>1, ConnTouched DEF Touched
        <4> QED
          BY <4>1, <4>2
      <3> QED
        BY <1>1, <2>1, <3>1 DEF ConnsOK
    <2>2. CASE SendDelta(c, [conn EXCEPT ![c].pc = "loop"])
      <3>1. PICK cs : cs = [conn EXCEPT ![c].pc = "loop"]
        OBVIOUS
      <3>2. ASSUME NEW d \in Conns PROVE ConnOK(cs[d])
        <4>1. CASE d = c
          <5>1. cs[c] = [k EXCEPT !.pc = "loop"]
            BY <1>1, <1>2, <3>1
          <5> QED
            BY <1>2, <1>4, <4>1, <5>1
        <4>2. CASE d # c
          <5> HIDE DEF ConnOK
          <5> QED
            BY <1>1, <3>1, <4>2
        <4> QED
          BY <4>1, <4>2
      <3> HIDE DEF ConnOK
      <3> QED
        BY <2>2, <3>1, <3>2, SendKeepsConns
    <2> QED
      BY <1>9, <2>1, <2>2 DEF FinishInput
  <1> QED
    BY <1>6, <1>7, <1>8, <1>9

LEMMA ControlKeepsConns ==
  ASSUME ServerInv, ConnsOK, ControlStep
  PROVE  ConnsOK'
  <1>1. DOMAIN conn = Conns /\ \A d \in Conns : ConnOK(conn[d])
    BY DEF ConnsOK
  <1>2. ASSUME NEW k, ConnOK(k), phase \notin Calm, made' \in {made, made + 1}
        PROVE  ConnOK(k)'
    <2>1. ~ (k.calm /\ k.first = <<>>)
      BY <1>2 DEF ConnOK
    <2>3. k.scene \in 1 .. made => k.scene \in 1 .. made'
      <3>1. made \in Nat
        BY DEF ServerInv, RegistryTypeOK
      <3> QED
        BY <1>2, <3>1
    <2> QED
      BY <1>2, <2>1, <2>3 DEF ConnOK
  <1>3. CASE phase \notin Calm /\ UNCHANGED conn /\ made' \in {made, made + 1}
    <2>1. ASSUME NEW d \in Conns PROVE ConnOK(conn[d])'
      <3>1. PICK k : k = conn[d] /\ k = conn'[d] /\ ConnOK(k)
        BY <1>1, <1>3
      <3>2. ConnOK(k)'
        BY <1>2, <1>3, <3>1
      <3> QED
        BY <3>1, <3>2
    <2> QED
      BY <1>1, <1>3, <2>1 DEF ConnsOK
  <1>4. CASE StartClear
    <2>1. /\ UNCHANGED <<made, rejected>>
          /\ conn' = [c \in Conns |->
                         [conn[c] EXCEPT !.calm = @ /\ conn[c].first # <<>>]]
      BY <1>4 DEF StartClear, ClearTable
    <2>2. ASSUME NEW d \in Conns PROVE ConnOK(conn[d])'
      <3>1. PICK k : k = conn[d] /\ ConnOK(k)
        BY <1>1
      <3>2. PICK new : new = [k EXCEPT !.calm = @ /\ k.first # <<>>]
                       /\ new = conn'[d]
        BY <2>1, <3>1
      <3>3. ConnOK(new)'
        BY <2>1, <3>1, <3>2 DEF ConnOK, ConnFields, Unresolved, Handshake, Serving
      <3> QED
        BY <3>2, <3>3
    <2> QED
      BY <2>1, <2>2 DEF ConnsOK
  <1>5. CASE HandleState \/ HandleEmit \/ FinishEmit
    <2>1. /\ UNCHANGED <<made, rejected>>
          /\ phase \in Calm => phase' \in Calm
          /\ UNCHANGED conn \/ \E w : SendDelta(w, conn)
      <3>1. CASE HandleState
        BY <3>1 DEF HandleState, registryVars
      <3>2. CASE HandleEmit
        BY <3>2 DEF HandleEmit, registryVars, Calm
      <3>3. CASE FinishEmit
        BY <3>3 DEF FinishEmit, registryVars, Calm, Answers, Goes
      <3> QED
        BY <1>5, <3>1, <3>2, <3>3
    <2>3. CASE UNCHANGED conn
      <3>1. ASSUME NEW d \in Conns PROVE ConnOK(conn[d])'
        <4>1. PICK k : k = conn[d] /\ k = conn'[d] /\ ConnOK(k)
          BY <1>1, <2>3
        <4>2. ConnOK(k)'
          BY <2>1, <4>1, ConnTouched DEF Touched
        <4> QED
          BY <4>1, <4>2
      <3> QED
        BY <1>1, <2>3, <3>1 DEF ConnsOK
    <2>4. ASSUME NEW w, SendDelta(w, conn) PROVE ConnsOK'
      <3>1. PICK cs : cs = conn
        OBVIOUS
      <3> QED
        BY <1>1, <2>1, <2>4, <3>1, SendKeepsConns
    <2> QED
      BY <2>1, <2>3, <2>4
  <1>6. CASE ClearPointer \/ Register \/ FirstScene \/ Activate
    BY <1>3, <1>6 DEF Calm, ClearPointer, Register, FirstScene, Activate, Goes,
       ControlRest, ClearActive, CheckFree, ActivateFirst, CheckKnown, WriteActive
  <1>7. CASE ClearTokens \/ InstallTokens \/ DeclareInputs \/ SeedScene
    BY <1>3, <1>7 DEF Calm, ClearTokens, InstallTokens, DeclareInputs, SeedScene,
       Goes, Answers, registryVars
  <1>8. CASE CreateScene \/ AnnounceScene
    BY <1>3, <1>8 DEF Calm, CreateScene, AnnounceScene, Goes, Answers, Insert, Announce
  <1>9. CASE JudgeLayout
    BY <1>3, <1>9 DEF Calm, JudgeLayout, Goes, ControlRest, Reject, registryVars
  <1> QED
    BY <1>4, <1>5, <1>6, <1>7, <1>8, <1>9 DEF ControlStep

LEMMA ConnsInductive == ServerInv /\ ConnsOK /\ [Next]_vars => ConnsOK'
  <1> SUFFICES ASSUME ServerInv, ConnsOK, [Next]_vars PROVE ConnsOK'
    OBVIOUS
  <1>1. DOMAIN conn = Conns /\ \A d \in Conns : ConnOK(conn[d])
    BY DEF ConnsOK
  <1>2. ASSUME UNCHANGED <<made, phase, rejected>>, DOMAIN conn' = Conns,
               \A d \in Conns : Touched(conn[d], conn'[d])
        PROVE  ConnsOK'
    <2>1. ASSUME NEW d \in Conns PROVE ConnOK(conn[d])'
      <3>1. PICK k, new : k = conn[d] /\ new = conn'[d] /\ ConnOK(k)
                          /\ Touched(k, new)
        BY <1>1, <1>2
      <3>2. ConnOK(new)'
        BY <1>2, <3>1, ConnTouched
      <3> QED
        BY <3>1, <3>2
    <2> QED
      BY <1>2, <2>1 DEF ConnsOK
  <1>3. CASE HarnessStep \/ VisitorComes \/ VisitorReads
    <2>1. UNCHANGED <<made, phase, rejected>>
      BY <1>3, HarnessKeepsServer DEF registryVars
    <2> QED
      BY <1>1, <1>2, <1>3, <2>1, HarnessTouches
  <1>4. ASSUME NEW c \in Conns, HandlerStep(c) \/ PeerGone(c) \/ SubscribeTimeout(c)
        PROVE  ConnsOK'
    <2>1. UNCHANGED <<made, phase, rejected>>
      BY <1>4, HandlersKeepServer DEF registryVars, ServerInv
    <2>2. CASE HandleText(c) \/ FinishInput(c) \/ HandleEvent(c) \/ HandleDelta(c)
      BY <2>1, <2>2, LoopKeepsConns
    <2>3. CASE \/ RecvSubscribe(c) \/ SubscribeTimeout(c) \/ Authenticate(c)
               \/ ResolveId(c) \/ FindScene(c) \/ CheckRejection(c)
               \/ Attach(c) \/ ReadSeq(c) \/ SendSnapshot(c) \/ Resubscribe(c)
               \/ PeerGone(c)
      <3>1. PICK q : Set(c, q)
        <4>1. CASE RecvSubscribe(c) \/ SubscribeTimeout(c) \/ PeerGone(c)
          BY <4>1 DEF RecvSubscribe, SubscribeTimeout, PeerGone
        <4>2. CASE Authenticate(c) \/ ResolveId(c) \/ FindScene(c)
          BY <4>2 DEF Authenticate, ResolveId, FindScene
        <4>3. CASE CheckRejection(c) \/ Attach(c) \/ ReadSeq(c)
          BY <4>3 DEF CheckRejection, Attach, ReadSeq
        <4>4. CASE SendSnapshot(c) \/ Resubscribe(c)
          BY <4>4 DEF SendSnapshot, Resubscribe
        <4> QED
          BY <2>3, <4>1, <4>2, <4>3, <4>4
      <3>2. ConnOK(q)'
        BY <1>1, <2>1, <2>3, <3>1, HandshakeKeepsConn
      <3>3. DOMAIN conn' = Conns /\ \A d \in Conns : conn'[d] = IF d = c THEN q ELSE conn[d]
        BY <1>1, <3>1 DEF Set
      <3>4. ASSUME NEW d \in Conns PROVE ConnOK(conn[d])'
        <4>1. PICK k : k = conn[d] /\ ConnOK(k)
          BY <1>1
        <4>2. ConnOK(k)'
          BY <2>1, <4>1, ConnTouched DEF Touched
        <4> QED
          BY <3>2, <3>3, <4>1, <4>2
      <3> QED
        BY <3>3, <3>4 DEF ConnsOK
    <2> QED
      BY <1>4, <2>2, <2>3 DEF HandlerStep
  <1>5. CASE Silence
    <2>1. PICK c \in ws : SubscribeTimeout(c)
      BY <1>5 DEF Silence
    <2>2. CASE c \in Conns
      BY <1>4, <2>1, <2>2
    <2>3. CASE c \notin Conns
      <3>1. /\ UNCHANGED <<made, phase, rejected>> /\ DOMAIN conn' = Conns
            /\ \A d \in Conns : conn'[d] = conn[d]
        BY <1>1, <2>1, <2>3 DEF SubscribeTimeout, Set, Rest, registryVars
      <3> QED
        BY <1>1, <1>2, <3>1 DEF Touched
    <2> QED
      BY <2>2, <2>3
  <1>6. CASE UNCHANGED vars
    BY <1>1, <1>2, <1>6 DEF vars, serverVars, registryVars, Touched
  <1> QED
    BY <1>3, <1>4, <1>5, <1>6, ControlKeepsConns DEF Next, Server

-----------------------------------------------------------------------------
(* Writes under way                                                        *)

Unseeded == {"first", "judge", "declare", "seed"}

(***************************************************************************)
(* What a task w does to the scenes once they are seeded: it goes on with  *)
(* its write, or takes a number for a swap.                                *)
(***************************************************************************)
TaskMoves(w) ==
    \/ UNCHANGED <<store, write>>
    \/ \E o \in 1 .. made : \E pairs :
          StoreLeaves(w, o, pairs) /\ write[w].scene = 0
    \/ AdvanceSeq(w)
    \/ /\ UNCHANGED store
       /\ write[w].seq # 0 /\ write' = [write EXCEPT ![w] = NoWrite]
    \/ /\ UNCHANGED write
       /\ \E o \in 1 .. made :
             store' = [store EXCEPT ![o].seq = store[o].seq + 1]

LEMMA NumberTaken ==
  ASSUME StoreOK, NEW o \in 1 .. made,
         store' = [store EXCEPT ![o].seq = store[o].seq + 1]
  PROVE  /\ store'[o].seq = store[o].seq + 1
         /\ \A i \in 1 .. made :
               /\ store'[i].leaves = store[i].leaves
               /\ store'[i].seed = store[i].seed
               /\ i # o => store'[i] = store[i]
  <1>1. Sequence(store) /\ Len(store) = made /\ DOMAIN store[o] = SceneFields
    BY DEF StoreOK
  <1>2. PICK new : new = [store[o] EXCEPT !.seq = store[o].seq + 1]
    OBVIOUS
  <1>3. store' = [store EXCEPT ![o] = new]
    BY <1>2
  <1>4. /\ store'[o] = new
        /\ \A i \in 1 .. made : i # o => store'[i] = store[i]
    BY <1>1, <1>3, Replaced
  <1>5. /\ new.seq = store[o].seq + 1
        /\ new.leaves = store[o].leaves /\ new.seed = store[o].seed
    BY <1>1, <1>2 DEF SceneFields
  <1> QED
    BY <1>4, <1>5

LEMMA LeavesStored ==
  ASSUME StoreOK, NEW o \in 1 .. made, NEW w, NEW pairs, StoreLeaves(w, o, pairs)
  PROVE  /\ store'[o].leaves = Written(store[o].leaves, pairs)
         /\ \A i \in 1 .. made :
               /\ store'[i].seq = store[i].seq
               /\ store'[i].seed = store[i].seed
               /\ i # o => store'[i] = store[i]
  <1>1. Sequence(store) /\ Len(store) = made /\ DOMAIN store[o] = SceneFields
    BY DEF StoreOK
  <1>2. PICK new : new = [store[o] EXCEPT !.leaves = Written(@, pairs)]
    OBVIOUS
  <1>3. store' = [store EXCEPT ![o] = new]
    BY <1>2 DEF StoreLeaves
  <1>4. /\ store'[o] = new
        /\ \A i \in 1 .. made : i # o => store'[i] = store[i]
    BY <1>1, <1>3, Replaced
  <1>5. /\ new.seq = store[o].seq /\ new.seed = store[o].seed
        /\ new.leaves = Written(store[o].leaves, pairs)
    BY <1>1, <1>2 DEF SceneFields
  <1> QED
    BY <1>4, <1>5

LEMMA TaskKeeps ==
  ASSUME ServerInv, WritesOK, SeedsOK, NEW w \in Writers, TaskMoves(w),
         UNCHANGED made, phase' \in Unseeded => phase \in Unseeded
  PROVE  /\ SeedsOK' /\ DOMAIN write' = Writers
         /\ \A v \in Writers : WriteOK(write[v])'
  <1>1. /\ StoreOK /\ made \in Nat /\ DOMAIN write = Writers
        /\ \A v \in Writers : WriteOK(write[v])
        /\ \A o \in 1 .. made : store[o].seq \in Nat \ {0}
    BY DEF ServerInv, RegistryTypeOK, WritesOK, SeedsOK
  \* what is enough: numbers only grow, and a scene is left by a writer or
  \* changed by one only when the other disjunct holds
  <1>2. ASSUME \A o \in 1 .. made :
                  /\ store'[o].seq \in Nat /\ store[o].seq <= store'[o].seq
                  /\ store'[o].seed = store[o].seed
                  /\ \/ store'[o].leaves = store[o].leaves
                     \/ WriteBegun(o)'
                  /\ WriteBegun(o) => WriteBegun(o)'
        PROVE  SeedsOK'
    BY <1>1, <1>2 DEF SeedsOK, Unseeded
  <1>3. ASSUME NEW v \in Writers, write'[v] = write[v],
               \A o \in 1 .. made :
                  store'[o].seq \in Nat /\ store[o].seq <= store'[o].seq
        PROVE  WriteOK(write[v])'
    <2>1. PICK x : x = write[v] /\ x = write'[v] /\ WriteOK(x)
      BY <1>1, <1>3
    <2>2. ASSUME x.seq # 0 PROVE store'[x.scene].seq > 1
      <3>1. x.scene \in 1 .. made /\ store[x.scene].seq > 1
        BY <1>1, <2>1, <2>2 DEF WriteOK
      <3> QED
        BY <1>1, <1>3, <3>1
    <2>3. WriteOK(x)'
      BY <2>1, <2>2 DEF WriteOK
    <2> QED
      BY <2>1, <2>3
  <1>4. CASE UNCHANGED <<store, write>>
    <2>1. SeedsOK'
      BY <1>1, <1>2, <1>4 DEF WriteBegun
    <2> QED
      BY <1>1, <1>3, <1>4, <2>1
  <1>5. ASSUME NEW o \in 1 .. made, NEW pairs, StoreLeaves(w, o, pairs),
               write[w].scene = 0
        PROVE  /\ SeedsOK' /\ DOMAIN write' = Writers
               /\ \A v \in Writers : WriteOK(write[v])'
    <2>1. \A i \in 1 .. made :
             /\ store'[i].seq = store[i].seq /\ store'[i].seed = store[i].seed
             /\ i # o => store'[i] = store[i]
      BY <1>1, <1>5, LeavesStored
    <2>2. PICK x : x = [scene |-> o, pairs |-> pairs, seq |-> 0]
                   /\ write' = [write EXCEPT ![w] = x]
      BY <1>5 DEF StoreLeaves
    <2>3. /\ DOMAIN write' = Writers /\ write'[w] = x
          /\ \A v \in Writers : v # w => write'[v] = write[v]
      BY <1>1, <2>2
    <2>4. WriteOK(x)'
      BY <1>1, <2>2 DEF WriteOK
    <2>5. ASSUME NEW i \in 1 .. made, WriteBegun(i) PROVE WriteBegun(i)'
      <3>1. CASE store[i].seq > 1
        BY <2>1, <3>1 DEF WriteBegun
      <3>2. CASE \E v \in Writers : write[v].scene = i
        <4>1. PICK v \in Writers : write[v].scene = i
          BY <3>2
        <4>2. v # w
          BY <1>1, <1>5, <4>1
        <4> QED
          BY <2>3, <4>1, <4>2 DEF WriteBegun
      <3> QED
        BY <2>5, <3>1, <3>2 DEF WriteBegun
    <2>6. WriteBegun(o)'
      BY <2>2, <2>3 DEF WriteBegun
    <2>7. SeedsOK'
      BY <1>1, <1>2, <2>1, <2>5, <2>6
    <2> QED
      BY <1>1, <1>3, <2>1, <2>3, <2>4, <2>7
  \* a number of scene o is taken, the scenes of the writes stay
  <1>6. ASSUME NEW o \in 1 .. made,
               store' = [store EXCEPT ![o].seq = store[o].seq + 1],
               \A v \in Writers : write'[v].scene = write[v].scene
        PROVE  /\ SeedsOK' /\ store'[o].seq > 1
               /\ \A i \in 1 .. made :
                     store'[i].seq \in Nat /\ store[i].seq <= store'[i].seq
    <2>1. /\ store'[o].seq = store[o].seq + 1
          /\ \A i \in 1 .. made :
                /\ store'[i].leaves = store[i].leaves
                /\ store'[i].seed = store[i].seed
                /\ i # o => store'[i] = store[i]
      BY <1>1, <1>6, NumberTaken
    <2>2. /\ store'[o].seq > 1
          /\ \A i \in 1 .. made :
                store'[i].seq \in Nat /\ store[i].seq <= store'[i].seq
      BY <1>1, <2>1
    <2>3. ASSUME NEW i \in 1 .. made, WriteBegun(i) PROVE WriteBegun(i)'
      BY <1>1, <1>6, <2>2, <2>3 DEF WriteBegun
    <2> QED
      BY <1>2, <2>1, <2>2, <2>3
  <1>7. CASE AdvanceSeq(w)
    <2>1. PICK o : o = write[w].scene
      OBVIOUS
    <2>2. o \in 1 .. made /\ write[w].seq = 0
      BY <1>1, <1>7, <2>1 DEF AdvanceSeq, WriteOK
    <2>3. /\ store' = [store EXCEPT ![o].seq = store[o].seq + 1]
          /\ write' = [write EXCEPT ![w].seq = store[o].seq + 1]
      BY <1>7, <2>1 DEF AdvanceSeq
    <2>4. PICK k, x : k = write[w] /\ x = [k EXCEPT !.seq = store[o].seq + 1]
      OBVIOUS
    <2>5. /\ DOMAIN write' = Writers /\ write'[w] = x
          /\ \A v \in Writers : v # w => write'[v] = write[v]
      BY <1>1, <2>3, <2>4
    <2>6. /\ DOMAIN x = {"scene", "pairs", "seq"}
          /\ x.scene = o /\ x.pairs = k.pairs
      BY <1>1, <2>1, <2>4 DEF WriteOK
    <2>7. \A v \in Writers : write'[v].scene = write[v].scene
      BY <2>1, <2>5, <2>6
    <2>8. /\ SeedsOK' /\ store'[o].seq > 1
          /\ \A i \in 1 .. made :
                store'[i].seq \in Nat /\ store[i].seq <= store'[i].seq
      BY <1>6, <2>2, <2>3, <2>7
    <2>9. WriteOK(x)'
      BY <1>1, <2>2, <2>6, <2>8 DEF WriteOK
    <2> QED
      BY <1>3, <2>5, <2>8, <2>9
  <1>8. CASE /\ UNCHANGED store
             /\ write[w].seq # 0 /\ write' = [write EXCEPT ![w] = NoWrite]
    <2>1. /\ DOMAIN write' = Writers /\ write'[w] = NoWrite
          /\ \A v \in Writers : v # w => write'[v] = write[v]
      BY <1>1, <1>8
    <2>2. WriteOK(NoWrite)'
      BY <1>1 DEF WriteOK, NoWrite
    <2>3. ASSUME NEW i \in 1 .. made, WriteBegun(i) PROVE WriteBegun(i)'
      <3>1. CASE store[i].seq > 1
        BY <1>8, <3>1 DEF WriteBegun
      <3>2. CASE \E v \in Writers : write[v].scene = i
        <4>1. PICK v \in Writers : write[v].scene = i
          BY <3>2
        <4>2. CASE v = w
          <5>1. store[i].seq > 1
            BY <1>1, <1>8, <4>1, <4>2 DEF WriteOK
          <5> QED
            BY <1>8, <5>1 DEF WriteBegun
        <4>3. CASE v # w
          BY <2>1, <4>1, <4>3 DEF WriteBegun
        <4> QED
          BY <4>2, <4>3
      <3> QED
        BY <2>3, <3>1, <3>2 DEF WriteBegun
    <2>4. SeedsOK'
      BY <1>1, <1>2, <1>8, <2>3
    <2> QED
      BY <1>1, <1>3, <1>8, <2>1, <2>2, <2>4
  <1>9. ASSUME UNCHANGED write, NEW o \in 1 .. made,
               store' = [store EXCEPT ![o].seq = store[o].seq + 1]
        PROVE  /\ SeedsOK' /\ DOMAIN write' = Writers
               /\ \A v \in Writers : WriteOK(write[v])'
    <2>1. /\ SeedsOK'
          /\ \A i \in 1 .. made :
                store'[i].seq \in Nat /\ store[i].seq <= store'[i].seq
      BY <1>6, <1>9
    <2> QED
      BY <1>1, <1>3, <1>9, <2>1
  <1> QED
    BY <1>4, <1>5, <1>7, <1>8, <1>9 DEF TaskMoves

LEMMA HandlerMoves ==
  ASSUME ServerInv, ConnsOK, WritesOK, NEW c \in Conns,
         HandlerStep(c) \/ PeerGone(c) \/ SubscribeTimeout(c)
  PROVE  /\ TaskMoves(c)
         /\ write'[Control] = write[Control]
         /\ \A d \in Conns : write'[d].scene # 0 => conn'[d].pc = "writing"
  <1>1. /\ DOMAIN conn = Conns /\ ConnOK(conn[c])
        /\ DOMAIN write = Writers /\ WriteOK(write[c])
        /\ \A d \in Conns : write[d].scene # 0 => conn[d].pc = "writing"
        /\ c # Control /\ c \in Writers /\ Control \in Writers
        /\ \A d \in Conns : d \in Writers
    BY ControlAssumption DEF ConnsOK, WritesOK, Writers
  <1>2. ASSUME NEW q, Set(c, q)
        PROVE  conn'[c] = q /\ \A d \in Conns : d # c => conn'[d] = conn[d]
    BY <1>1, <1>2 DEF Set
  <1>3. ASSUME NEW q, Set(c, q), UNCHANGED <<store, write>>, conn[c].pc # "writing"
        PROVE  /\ TaskMoves(c) /\ write'[Control] = write[Control]
               /\ \A d \in Conns : write'[d].scene # 0 => conn'[d].pc = "writing"
    <2>1. \A d \in Conns : write'[d].scene # 0 => conn'[d].pc = "writing"
      BY <1>1, <1>2, <1>3
    <2> QED
      BY <1>3, <2>1 DEF TaskMoves
  <1>4. CASE RecvSubscribe(c) \/ SubscribeTimeout(c) \/ PeerGone(c)
    <2>1. \E q : Set(c, q)
      BY <1>4 DEF RecvSubscribe, SubscribeTimeout, PeerGone
    <2>2. conn[c].pc # "writing" /\ UNCHANGED <<store, write>>
      BY <1>4 DEF RecvSubscribe, SubscribeTimeout, PeerGone, Rest
    <2> QED
      BY <1>3, <2>1, <2>2
  <1>5. CASE Authenticate(c) \/ ResolveId(c) \/ FindScene(c) \/ CheckRejection(c)
    <2>1. \E q : Set(c, q)
      BY <1>5 DEF Authenticate, ResolveId, FindScene, CheckRejection
    <2>2. conn[c].pc # "writing" /\ UNCHANGED <<store, write>>
      BY <1>5 DEF Authenticate, ResolveId, FindScene, CheckRejection, Rest
    <2> QED
      BY <1>3, <2>1, <2>2
  <1>6. CASE Attach(c) \/ ReadSeq(c) \/ SendSnapshot(c) \/ Resubscribe(c)
    <2>1. \E q : Set(c, q)
      BY <1>6 DEF Attach, ReadSeq, SendSnapshot, Resubscribe
    <2>2. conn[c].pc # "writing" /\ UNCHANGED <<store, write>>
      BY <1>6 DEF Attach, ReadSeq, SendSnapshot, Resubscribe, Rest
    <2> QED
      BY <1>3, <2>1, <2>2
  <1>7. CASE HandleDelta(c)
    <2>1. \E q : Set(c, q)
      BY <1>7 DEF HandleDelta
    <2>2. conn[c].pc # "writing" /\ UNCHANGED <<store, write>>
      BY <1>7 DEF HandleDelta, Rest
    <2> QED
      BY <1>3, <2>1, <2>2
  <1>8. CASE HandleText(c)
    <2>1. conn[c].pc = "loop"
      BY <1>8 DEF HandleText
    <2>2. CASE Stores(c)
      <3>1. PICK pairs, q : /\ StoreLeaves(c, conn[c].scene, pairs)
                            /\ Set(c, q) /\ q = [conn[c] EXCEPT !.in = Tail(@), !.pc = "writing"]
        BY <2>2 DEF Stores
      <3>2. conn[c].scene \in 1 .. made
        BY <1>1, <2>1 DEF ConnOK, Serving
      <3>3. write[c].scene = 0
        BY <1>1, <2>1
      <3>4. TaskMoves(c)
        BY <3>1, <3>2, <3>3 DEF TaskMoves
      <3>5. /\ conn'[c].pc = "writing"
            /\ \A d \in Conns : d # c => conn'[d] = conn[d]
        <4>1. PICK k, x : k = conn[c] /\ q = [k EXCEPT !.in = x, !.pc = "writing"]
          BY <3>1
        <4>2. q.pc = "writing"
          BY <1>1, <4>1 DEF ConnOK, ConnFields
        <4> QED
          BY <1>2, <3>1, <4>2
      <3>6. \A v \in Writers : v # c => write'[v] = write[v]
        BY <1>1, <3>1 DEF StoreLeaves
      <3> QED
        BY <1>1, <3>4, <3>5, <3>6
    <2> QED
      BY <1>3, <1>8, <2>1, <2>2, TextCases
  <1>9. CASE FinishInput(c)
    <2>1. conn[c].pc = "writing"
      BY <1>9 DEF FinishInput
    <2>2. CASE AdvanceSeq(c) /\ UNCHANGED conn
      <3>1. PICK k, n : k = write[c] /\ write' = [write EXCEPT ![c] = [k EXCEPT !.seq = n]]
        BY <2>2 DEF AdvanceSeq
      <3>2. \A v \in Writers : v # c => write'[v] = write[v]
        BY <1>1, <3>1
      <3> QED
        BY <1>1, <2>1, <2>2, <3>2 DEF TaskMoves
    <2>3. CASE SendDelta(c, [conn EXCEPT ![c].pc = "loop"]) /\ UNCHANGED store
      <3>1. PICK cs : cs = [conn EXCEPT ![c].pc = "loop"]
        OBVIOUS
      <3>2. write[c].seq # 0 /\ write' = [write EXCEPT ![c] = NoWrite]
        BY <2>3 DEF SendDelta
      <3>a. PICK o : o = write[c].scene
        OBVIOUS
      <3>b. SendDelta(c, cs)
        BY <2>3, <3>1
      <3>3. PICK m : \A d \in Conns : conn'[d] = Reached(cs[d], o, m)
        BY <3>a, <3>b, SendCases
      <3>4. write'[c].scene = 0
        BY <1>1, <3>2 DEF NoWrite
      <3>5. ASSUME NEW d \in Conns, d # c
            PROVE  write'[d] = write[d]
                   /\ (write[d].scene # 0 => conn'[d].pc = "writing")
        <4>1. PICK k : k = conn[d] /\ k = cs[d] /\ write'[d] = write[d]
          BY <1>1, <3>1, <3>2, <3>5
        <4>2. conn'[d] = Reached(k, o, m)
          BY <3>3, <4>1
        <4>3. write[d].scene # 0 => k.pc = "writing"
          BY <1>1, <4>1
        <4>4. DOMAIN k = ConnFields
          BY <4>1 DEF ConnsOK, ConnOK
        <4> QED
          BY <4>1, <4>2, <4>3, <4>4 DEF Reached, ConnFields
      <3>6. TaskMoves(c) /\ write'[Control] = write[Control]
        BY <1>1, <2>3, <3>2 DEF TaskMoves
      <3> QED
        BY <3>4, <3>5, <3>6
    <2> QED
      BY <1>9, <2>2, <2>3 DEF FinishInput
  <1>10. CASE HandleEvent(c)
    <2>1. conn[c].pc = "loop" /\ UNCHANGED write
      BY <1>10 DEF HandleEvent
    <2>2. \E q : Set(c, q)
      BY <1>1, <1>10, EventCases
    <2>3. conn[c].scene \in 1 .. made
      BY <1>1, <2>1 DEF ConnOK, Serving
    <2>4. \/ UNCHANGED store
          \/ store' = [store EXCEPT ![conn[c].scene].seq = store[conn[c].scene].seq + 1]
      BY <1>1, <1>10, EventCases
    <2>5. TaskMoves(c)
      BY <2>1, <2>3, <2>4 DEF TaskMoves
    <2>6. \A d \in Conns : write'[d].scene # 0 => conn'[d].pc = "writing"
      BY <1>1, <1>2, <2>1, <2>2
    <2> QED
      BY <2>1, <2>5, <2>6
  <1> QED
    BY <1>4, <1>5, <1>6, <1>7, <1>8, <1>9, <1>10 DEF HandlerStep

LEMMA ControlMoves ==
  ASSUME ServerInv, ConnsOK, WritesOK, HandleState \/ HandleEmit \/ FinishEmit
  PROVE  /\ TaskMoves(Control)
         /\ write'[Control].scene # 0 => phase' = "writing"
         /\ \A d \in Conns : write'[d].scene # 0 => conn'[d].pc = "writing"
  <1>1. /\ DOMAIN conn = Conns /\ Control \in Writers
        /\ DOMAIN write = Writers /\ WriteOK(write[Control])
        /\ write[Control].scene # 0 => phase = "writing"
        /\ \A d \in Conns : write[d].scene # 0 => conn[d].pc = "writing"
        /\ \A d \in Conns : d # Control /\ d \in Writers
    BY ControlAssumption DEF ConnsOK, WritesOK, Writers
  <1>2. CASE HandleState
    BY <1>1, <1>2 DEF HandleState, TaskMoves
  <1>3. CASE HandleEmit
    <2>0. phase = "idle" /\ UNCHANGED conn
      BY <1>3 DEF HandleEmit
    <2>1. CASE UNCHANGED <<phase, store, write>>
      BY <1>1, <2>0, <2>1 DEF TaskMoves
    <2>2. CASE /\ phase' = "writing" /\ ActiveScene # 0
               /\ StoreLeaves(Control, ActiveScene, request.pairs)
      <3>1. PICK o, pairs : o = ActiveScene /\ pairs = request.pairs
        OBVIOUS
      <3>2. o \in 1 .. made
        BY <2>2, <3>1 DEF ActiveScene, ServerInv, RegistryTypeOK
      <3>3. \A d \in Conns : write'[d] = write[d]
        BY <1>1, <2>2, <3>1 DEF StoreLeaves
      <3>4. write[Control].scene = 0
        BY <1>1, <2>0
      <3>5. TaskMoves(Control)
        BY <2>2, <3>1, <3>2, <3>4 DEF TaskMoves
      <3> QED
        BY <1>1, <2>0, <2>2, <3>3, <3>5
    <2> QED
      BY <1>3, <2>1, <2>2 DEF HandleEmit
  <1>4. CASE FinishEmit
    <2>1. CASE AdvanceSeq(Control) /\ UNCHANGED <<phase, conn>>
      <3>1. PICK k, n : k = write[Control]
                        /\ write' = [write EXCEPT ![Control] = [k EXCEPT !.seq = n]]
        BY <2>1 DEF AdvanceSeq
      <3>2. \A d \in Conns : write'[d] = write[d]
        BY <1>1, <3>1
      <3>3. phase = "writing"
        BY <1>4 DEF FinishEmit
      <3> QED
        BY <1>1, <2>1, <3>2, <3>3 DEF TaskMoves
    <2>2. CASE SendDelta(Control, conn) /\ UNCHANGED store
      <3>1. write[Control].seq # 0 /\ write' = [write EXCEPT ![Control] = NoWrite]
        BY <2>2 DEF SendDelta
      <3>2. PICK cs : cs = conn
        OBVIOUS
      <3>a. PICK o : o = write[Control].scene
        OBVIOUS
      <3>b. SendDelta(Control, cs)
        BY <2>2, <3>2
      <3>3. PICK m : \A d \in Conns : conn'[d] = Reached(cs[d], o, m)
        BY <3>a, <3>b, SendCases
      <3>4. write'[Control].scene = 0
        BY <1>1, <3>1 DEF NoWrite
      <3>5. ASSUME NEW d \in Conns
            PROVE  write'[d].scene # 0 => conn'[d].pc = "writing"
        <4>1. PICK k : k = conn[d] /\ write'[d] = write[d]
          BY <1>1, <3>1
        <4>2. conn'[d] = Reached(k, o, m)
          BY <3>2, <3>3, <4>1
        <4>3. write[d].scene # 0 => k.pc = "writing"
          BY <1>1, <4>1
        <4>4. DOMAIN k = ConnFields
          BY <4>1 DEF ConnsOK, ConnOK
        <4> QED
          BY <4>1, <4>2, <4>3, <4>4 DEF Reached, ConnFields
      <3> QED
        BY <2>2, <3>1, <3>4, <3>5 DEF TaskMoves
    <2> QED
      BY <1>4, <2>1, <2>2 DEF FinishEmit
  <1> QED
    BY <1>2, <1>3, <1>4

(***************************************************************************)
(* Setup makes, seeds and announces scenes, and begins no write.           *)
(***************************************************************************)
LEMMA SetupKeepsSeeds ==
  ASSUME ServerInv, ConnsOK, SeedsOK, ControlStep, UNCHANGED write,
         ~ (HandleState \/ HandleEmit \/ FinishEmit)
  PROVE  /\ SeedsOK' /\ made' \in {made, made + 1}
         /\ \A o \in 1 .. made : store'[o].seq = store[o].seq
  <1>1. Len(store) = made /\ made \in Nat /\ Sequence(store)
    BY DEF ServerInv, StoreOK, RegistryTypeOK
  <1>2. ASSUME UNCHANGED <<store, made>>, phase' \in Unseeded => phase \in Unseeded
        PROVE  /\ SeedsOK' /\ made' \in {made, made + 1}
               /\ \A o \in 1 .. made : store'[o].seq = store[o].seq
    BY <1>2 DEF SeedsOK, WriteBegun, Unseeded
  <1> USE DEF Goes, Answers, ControlRest
  <1>3. CASE StartClear \/ ClearPointer \/ Register \/ Activate \/ FirstScene
    <2>1. UNCHANGED <<store, made>>
      BY <1>3 DEF StartClear, ClearPointer, Register, Activate, FirstScene,
                  ClearTable, ClearActive, CheckFree, CheckKnown, WriteActive,
                  ActivateFirst
    <2>2. CASE FirstScene
      <3>1. phase = "first" /\ phase' = "judge"
        BY <2>2 DEF FirstScene
      <3> QED
        BY <1>2, <2>1, <2>2, <3>1 DEF FirstScene, Unseeded
    <2> QED
      BY <1>2, <1>3, <2>1, <2>2 DEF StartClear, ClearPointer, Register, Activate,
                                    Unseeded
  <1>4. CASE ClearTokens \/ InstallTokens
    BY <1>2, <1>4 DEF ClearTokens, InstallTokens, registryVars, Unseeded
  <1>5. CASE JudgeLayout
    BY <1>2, <1>5 DEF JudgeLayout, Reject, registryVars, Unseeded
  <1>6. CASE CreateScene
    <2>1. PICK x : /\ x = [id |-> SceneId, version |-> Bundle.hash, seq |-> 1,
                           leaves |-> NoFields, specs |-> NoFields,
                           inline |-> Inline(Bundle), seed |-> NoFields,
                           ready |-> FALSE]
                   /\ store' = Append(store, x)
      BY <1>6 DEF CreateScene
    <2>2. /\ \A o \in 1 .. made : store'[o] = store[o]
          /\ store'[made + 1] = x
      BY <1>1, <2>1, AppendOutcome
    <2>3. made' = made + 1
      BY <1>6 DEF CreateScene, Insert
    <2>4. /\ x.seq \in Nat \ {0} /\ SameFields(x.leaves, x.seed)
          /\ DOMAIN x.seed = {}
      BY <2>1 DEF SameFields, NoFields
    <2>5. ASSUME NEW o \in 1 .. made'
          PROVE  /\ store'[o].seq \in Nat \ {0}
                 /\ \/ SameFields(store'[o].leaves, store'[o].seed)
                    \/ WriteBegun(o)'
                 /\ o = made' => DOMAIN store'[o].seed = {}
      <3>1. CASE o = made + 1
        BY <2>2, <2>4, <3>1
      <3>2. CASE o # made + 1
        <4>1. o \in 1 .. made /\ o # made'
          BY <1>1, <2>3, <3>2
        <4>2. store'[o] = store[o]
          BY <2>2, <4>1
        <4>3. WriteBegun(o) => WriteBegun(o)'
          BY <4>2 DEF WriteBegun
        <4> QED
          BY <4>1, <4>2, <4>3 DEF SeedsOK
      <3> QED
        BY <3>1, <3>2
    <2> QED
      BY <2>2, <2>3, <2>5 DEF SeedsOK
  <1>7. ASSUME UNCHANGED made, made # 0, NEW new,
               store' = [store EXCEPT ![made] = new],
               new.seq = store[made].seq,
               SameFields(new.leaves, new.seed) \/ WriteBegun(made),
               phase' \in Unseeded => DOMAIN new.seed = {}
        PROVE  /\ SeedsOK' /\ made' \in {made, made + 1}
               /\ \A o \in 1 .. made : store'[o].seq = store[o].seq
    <2>1. made \in 1 .. Len(store) /\ made \in 1 .. made
      BY <1>1, <1>7
    <2>2. /\ store'[made] = new
          /\ \A i \in 1 .. Len(store) : i # made => store'[i] = store[i]
      <3>1. PICK s, m : s = store /\ m = made /\ m \in 1 .. Len(s) /\ Sequence(s)
        BY <1>1, <2>1
      <3>2. /\ [s EXCEPT ![m] = new][m] = new
            /\ \A i \in 1 .. Len(s) : i # m => [s EXCEPT ![m] = new][i] = s[i]
        BY <3>1, Replaced
      <3>3. store' = [s EXCEPT ![m] = new]
        BY <1>7, <3>1
      <3> QED
        BY <3>1, <3>2, <3>3
    <2>3. \A o \in 1 .. made : store'[o].seq = store[o].seq
      BY <1>1, <1>7, <2>2
    <2>4. \A o \in 1 .. made : WriteBegun(o) => WriteBegun(o)'
      BY <2>3 DEF WriteBegun
    <2>5. ASSUME NEW o \in 1 .. made
          PROVE  /\ store'[o].seq \in Nat \ {0}
                 /\ \/ SameFields(store'[o].leaves, store'[o].seed)
                    \/ WriteBegun(o)'
                 /\ o = made /\ phase' \in Unseeded => DOMAIN store'[o].seed = {}
      <3>1. store'[o].seq \in Nat \ {0}
        BY <2>3 DEF SeedsOK
      <3>2. CASE o = made
        BY <1>7, <2>2, <2>4, <3>1, <3>2
      <3>3. CASE o # made
        BY <1>1, <2>2, <2>4, <3>1, <3>3 DEF SeedsOK
      <3> QED
        BY <3>2, <3>3
    <2> QED
      BY <1>7, <2>3, <2>5 DEF SeedsOK, Unseeded
  <1>8. ASSUME phase \in ScenePhases
        PROVE  /\ made # 0 /\ made \in DOMAIN store /\ DOMAIN store[made] = SceneFields
               /\ SameFields(store[made].leaves, store[made].seed) \/ WriteBegun(made)
               /\ phase \in Unseeded => DOMAIN store[made].seed = {}
    <2>1. made # 0
      BY <1>8 DEF ServerInv, ControlInv
    <2>2. made \in 1 .. made /\ made \in DOMAIN store
      BY <1>1, <2>1 DEF Sequence
    <2> QED
      BY <2>1, <2>2 DEF ServerInv, StoreOK, SeedsOK, Unseeded
  <1> USE DEF SceneFields, SetupPhases, ScenePhases, Unseeded
  <1>9. CASE DeclareInputs
    <2>1. phase \in ScenePhases /\ phase \in Unseeded /\ UNCHANGED made
      BY <1>9 DEF DeclareInputs, registryVars
    <2>2. PICK specs : store' = [store EXCEPT ![made].specs = specs]
      BY <1>9 DEF DeclareInputs
    <2>3. PICK new : new = [store[made] EXCEPT !.specs = specs]
      OBVIOUS
    <2>4. /\ new.seq = store[made].seq /\ new.leaves = store[made].leaves
          /\ new.seed = store[made].seed
      BY <1>8, <2>1, <2>3
    <2>5. store' = [store EXCEPT ![made] = new]
      BY <2>2, <2>3
    <2> QED
      BY <1>7, <1>8, <2>1, <2>4, <2>5
  <1>10. CASE AnnounceScene
    <2>1. phase \in ScenePhases /\ phase' \notin Unseeded /\ UNCHANGED made
      BY <1>10 DEF AnnounceScene, Announce
    <2>2. PICK new : new = [store[made] EXCEPT !.ready = TRUE]
      OBVIOUS
    <2>3. /\ new.seq = store[made].seq /\ new.leaves = store[made].leaves
          /\ new.seed = store[made].seed
      BY <1>8, <2>1, <2>2
    <2>4. store' = [store EXCEPT ![made] = new]
      BY <1>10, <2>2 DEF AnnounceScene
    <2> QED
      BY <1>7, <1>8, <2>1, <2>3, <2>4
  <1>11. CASE SeedScene
    <2>1. /\ phase \in ScenePhases /\ phase \in Unseeded /\ phase' \notin Unseeded
          /\ UNCHANGED made
      BY <1>11 DEF SeedScene, registryVars
    <2>2. PICK seed : seed = Seed
      OBVIOUS
    <2>3. PICK new : new = [store[made] EXCEPT !.leaves = Over(seed, @), !.seed = seed]
      OBVIOUS
    <2>4. /\ new.seq = store[made].seq /\ new.seed = seed
          /\ new.leaves = Over(seed, store[made].leaves)
      BY <1>8, <2>1, <2>3
    <2>5. SameFields(new.leaves, new.seed) \/ WriteBegun(made)
      <3>1. CASE SameFields(store[made].leaves, store[made].seed)
        <4>1. DOMAIN store[made].leaves = {}
          BY <1>8, <2>1, <3>1 DEF SameFields
        <4> QED
          BY <2>4, <4>1 DEF SameFields, Over
      <3> QED
        BY <1>8, <2>1, <3>1
    <2>6. store' = [store EXCEPT ![made] = new]
      BY <1>8, <1>11, <2>1, <2>2, <2>3 DEF SeedScene
    <2> QED
      BY <1>7, <1>8, <2>1, <2>4, <2>5, <2>6
  <1> QED
    BY <1>3, <1>4, <1>5, <1>6, <1>9, <1>10, <1>11 DEF ControlStep

LEMMA WritesInductive ==
  ServerInv /\ ConnsOK /\ WritesOK /\ SeedsOK /\ [Next]_vars => WritesOK' /\ SeedsOK'
  <1> SUFFICES ASSUME ServerInv, ConnsOK, WritesOK, SeedsOK, [Next]_vars
               PROVE  WritesOK' /\ SeedsOK'
    OBVIOUS
  <1>1. /\ made \in Nat /\ DOMAIN conn = Conns /\ DOMAIN write = Writers
        /\ \A v \in Writers : WriteOK(write[v])
        /\ write[Control].scene # 0 => phase = "writing"
        /\ \A c \in Conns : write[c].scene # 0 => conn[c].pc = "writing"
        /\ \A c \in Conns : DOMAIN conn[c] = ConnFields
        /\ Control \in Writers /\ \A c \in Conns : c \in Writers
    BY DEF ServerInv, RegistryTypeOK, ConnsOK, ConnOK, WritesOK, Writers
  \* the numbers and the writes stay as they are
  <1>2. ASSUME UNCHANGED write, made' \in {made, made + 1},
               \A o \in 1 .. made : store'[o].seq = store[o].seq,
               phase = "writing" => phase' = "writing",
               \A c \in Conns : conn[c].pc = "writing" => conn'[c].pc = "writing"
        PROVE  WritesOK'
    <2>1. ASSUME NEW v \in Writers PROVE WriteOK(write[v])'
      <3>1. PICK x : x = write[v] /\ x = write'[v] /\ WriteOK(x)
        BY <1>1, <1>2
      <3>2. x.scene \in 0 .. made' /\ DOMAIN x = {"scene", "pairs", "seq"}
        BY <1>1, <1>2, <3>1 DEF WriteOK
      <3>3. x.seq # 0 => x.scene # 0 /\ store'[x.scene].seq > 1
        BY <1>1, <1>2, <3>1 DEF WriteOK
      <3> QED
        BY <3>1, <3>2, <3>3 DEF WriteOK
    <2> QED
      BY <1>1, <1>2, <2>1 DEF WritesOK
  <1>3. ASSUME UNCHANGED <<store, write, made, phase>>,
               \A c \in Conns : Touched(conn[c], conn'[c])
        PROVE  WritesOK' /\ SeedsOK'
    <2>1. ASSUME NEW c \in Conns, conn[c].pc = "writing" PROVE conn'[c].pc = "writing"
      <3>1. PICK k, new : k = conn[c] /\ new = conn'[c] /\ Touched(k, new)
                          /\ DOMAIN k = ConnFields /\ k.pc = "writing"
        BY <1>1, <1>3, <2>1
      <3>2. new.pc = "writing"
        BY <3>1 DEF Touched, ConnFields
      <3> QED
        BY <3>1, <3>2
    <2>2. SeedsOK'
      BY <1>3 DEF SeedsOK, WriteBegun
    <2> QED
      BY <1>1, <1>2, <1>3, <2>1, <2>2
  <1>4. CASE HarnessStep \/ VisitorComes \/ VisitorReads
    <2>1. UNCHANGED <<store, write, made, phase>>
      BY <1>4, HarnessKeepsServer DEF registryVars
    <2> QED
      BY <1>1, <1>3, <1>4, <2>1, HarnessTouches
  <1>5. ASSUME NEW c \in Conns, HandlerStep(c) \/ PeerGone(c) \/ SubscribeTimeout(c)
        PROVE  WritesOK' /\ SeedsOK'
    <2>1. UNCHANGED <<made, phase>>
      BY <1>5, HandlersKeepServer DEF registryVars, ServerInv
    <2>2. /\ TaskMoves(c) /\ write'[Control] = write[Control]
          /\ \A d \in Conns : write'[d].scene # 0 => conn'[d].pc = "writing"
      BY <1>5, HandlerMoves
    <2>3. /\ SeedsOK' /\ DOMAIN write' = Writers
          /\ \A v \in Writers : WriteOK(write[v])'
      BY <1>1, <2>1, <2>2, TaskKeeps
    <2> QED
      BY <1>1, <2>1, <2>2, <2>3 DEF WritesOK
  <1>6. CASE ControlStep
    <2>1. CASE HandleState \/ HandleEmit \/ FinishEmit
      <3>1. /\ UNCHANGED made
            /\ phase' \in Unseeded => phase \in Unseeded
        <4>1. CASE HandleState
          BY <4>1 DEF HandleState, registryVars
        <4>2. CASE HandleEmit
          BY <4>2 DEF HandleEmit, registryVars, Unseeded
        <4>3. CASE FinishEmit
          BY <4>3 DEF FinishEmit, registryVars, Unseeded, Answers, Goes
        <4> QED
          BY <2>1, <4>1, <4>2, <4>3
      <3>2. /\ TaskMoves(Control)
            /\ write'[Control].scene # 0 => phase' = "writing"
            /\ \A d \in Conns : write'[d].scene # 0 => conn'[d].pc = "writing"
        BY <2>1, ControlMoves
      <3>3. /\ SeedsOK' /\ DOMAIN write' = Writers
            /\ \A v \in Writers : WriteOK(write[v])'
        BY <1>1, <3>1, <3>2, TaskKeeps
      <3> QED
        BY <3>2, <3>3 DEF WritesOK
    <2>2. CASE ~ (HandleState \/ HandleEmit \/ FinishEmit)
      <3>1. UNCHANGED write /\ phase # "writing"
            /\ \A c \in Conns : conn'[c].pc = conn[c].pc
        <4> USE DEF Goes, Answers, ControlRest
        <4>1. CASE StartClear
          <5>1. /\ UNCHANGED write /\ phase = "idle"
                /\ conn' = [c \in Conns |->
                       [conn[c] EXCEPT !.calm = @ /\ conn[c].first # <<>>]]
            BY <4>1 DEF StartClear
          <5>2. ASSUME NEW c \in Conns PROVE conn'[c].pc = conn[c].pc
            <6>1. PICK k, x : k = conn[c] /\ conn'[c] = [k EXCEPT !.calm = x]
              BY <5>1
            <6> QED
              BY <1>1, <6>1 DEF ConnFields
          <5> QED
            BY <5>1, <5>2
        <4>2. CASE ClearPointer \/ ClearTokens \/ InstallTokens \/ Register
          BY <4>2 DEF ClearPointer, ClearTokens, InstallTokens, Register
        <4>3. CASE CreateScene \/ FirstScene \/ JudgeLayout \/ DeclareInputs
          BY <4>3 DEF CreateScene, FirstScene, JudgeLayout, DeclareInputs
        <4>4. CASE SeedScene \/ Activate \/ AnnounceScene
          BY <4>4 DEF SeedScene, Activate, AnnounceScene
        <4> QED
          BY <1>6, <2>2, <4>1, <4>2, <4>3, <4>4 DEF ControlStep
      <3>2. /\ SeedsOK' /\ made' \in {made, made + 1}
            /\ \A o \in 1 .. made : store'[o].seq = store[o].seq
        BY <1>6, <2>2, <3>1, SetupKeepsSeeds
      <3> QED
        BY <1>2, <3>1, <3>2
    <2> QED
      BY <2>1, <2>2
  <1>7. CASE Silence
    <2>1. PICK c \in ws : SubscribeTimeout(c)
      BY <1>7 DEF Silence
    <2>2. CASE c \in Conns
      BY <1>5, <2>1, <2>2
    <2>3. CASE c \notin Conns
      <3>1. /\ UNCHANGED <<store, write, made, phase>>
            /\ \A d \in Conns : conn'[d] = conn[d]
        BY <1>1, <2>1, <2>3 DEF SubscribeTimeout, Set, Rest, registryVars
      <3> QED
        BY <1>3, <3>1 DEF Touched
    <2> QED
      BY <2>2, <2>3
  <1>8. CASE UNCHANGED vars
    BY <1>3, <1>8 DEF vars, serverVars, registryVars, Touched
  <1> QED
    BY <1>4, <1>5, <1>6, <1>7, <1>8 DEF Next, Server

-----------------------------------------------------------------------------
(* The first frame                                                         *)

\* a subscriber's first frame comes from its own handshake
LEMMA FirstComesFrom ==
  ASSUME ServerInv, ConnsOK, Next, NEW c \in Conns,
         conn[c].first = <<>>, conn'[c].first # <<>>
  PROVE  \/ Authenticate(c) \/ ResolveId(c) \/ FindScene(c)
         \/ CheckRejection(c) \/ SendSnapshot(c)
  <1>1. DOMAIN conn = Conns /\ ConnOK(conn[c]) /\ DOMAIN conn[c] = ConnFields
    BY DEF ConnsOK, ConnOK
  <1>2. PICK k : k = conn[c] /\ DOMAIN k = ConnFields /\ k.first = <<>>
    BY <1>1
  <1>3. ASSUME Touched(conn[c], conn'[c]) PROVE FALSE
    <2>1. PICK new : new = conn'[c] /\ Touched(k, new) /\ new.first # <<>>
      BY <1>2, <1>3
    <2> QED
      BY <1>2, <2>1 DEF Touched, ConnFields, Accepted, NoConn
  <1>4. ASSUME NEW w, NEW cs, SendDelta(w, cs), cs[c].first = <<>>
        PROVE  FALSE
    <2>1. PICK o : o = write[w].scene
      OBVIOUS
    <2>2. PICK m : conn'[c] = Reached(cs[c], o, m)
      BY <1>4, <2>1, SendCases
    <2>3. PICK old : old = cs[c]
      OBVIOUS
    <2>4. conn'[c].first = old.first
      BY <2>2, <2>3 DEF Reached
    <2> QED
      BY <1>4, <2>3, <2>4
  <1>5. CASE HarnessStep \/ VisitorComes \/ VisitorReads
    BY <1>1, <1>3, <1>5, HarnessTouches
  <1>6. CASE ControlStep
    <2>1. CASE HandleEmit \/ FinishEmit
      <3>1. UNCHANGED conn \/ SendDelta(Control, conn)
        BY <2>1 DEF HandleEmit, FinishEmit
      <3>2. PICK cs : cs = conn
        OBVIOUS
      <3>3. SendDelta(Control, conn) => SendDelta(Control, cs)
        BY <3>2
      <3> QED
        BY <1>1, <1>3, <1>4, <3>1, <3>2, <3>3 DEF Touched
    <2>2. CASE StartClear
      BY <1>1, <1>2, <2>2 DEF StartClear, ConnFields
    <2>3. CASE UNCHANGED conn
      BY <1>3, <2>3 DEF Touched
    <2> QED
      BY <1>6, <2>1, <2>2, <2>3 DEF ControlStep, ClearPointer, ClearTokens,
         InstallTokens, Register, CreateScene, FirstScene, JudgeLayout,
         DeclareInputs, SeedScene, Activate, AnnounceScene, HandleState, ControlRest
  <1>7. ASSUME NEW d, NEW q, Set(d, q), d = c => q.first = <<>> PROVE FALSE
    <2>1. CASE d = c
      BY <1>1, <1>7, <2>1 DEF Set
    <2>2. CASE d # c
      BY <1>1, <1>7, <2>2 DEF Set
    <2> QED
      BY <2>1, <2>2
  <1>8. ASSUME NEW x PROVE Closing(c, <<>>).first = <<>>
                           /\ [Closing(c, <<>>) EXCEPT !.in = x].first = <<>>
    BY <1>1 DEF Closing, ConnFields
  <1>9. CASE Silence
    <2>1. PICK d \in ws : SubscribeTimeout(d)
      BY <1>9 DEF Silence
    <2>2. PICK q : Set(d, q) /\ q = Closing(d, <<>>)
      BY <2>1 DEF SubscribeTimeout
    <2> QED
      BY <1>7, <1>8, <2>2
  <1>10. ASSUME NEW d \in Conns, Server(d), d # c PROVE FALSE
    <2>1. CASE HandleText(d)
      <3>1. \E q : Set(d, q)
        BY <2>1, TextCases DEF Stores
      <3> QED
        BY <1>7, <1>10, <3>1
    <2>2. ASSUME NEW q, Set(d, q) PROVE FALSE
      BY <1>7, <1>10, <2>2
    <2>3. CASE HandleEvent(d)
      <3>1. ConnOK(conn[d])
        BY DEF ConnsOK
      <3> QED
        BY <2>2, <2>3, <3>1, EventCases
    <2>4. CASE RecvSubscribe(d) \/ Authenticate(d) \/ PeerGone(d)
      BY <2>2, <2>4 DEF RecvSubscribe, Authenticate, PeerGone
    <2>5. CASE ResolveId(d) \/ FindScene(d) \/ CheckRejection(d)
      BY <2>2, <2>5 DEF ResolveId, FindScene, CheckRejection
    <2>6. CASE Attach(d) \/ ReadSeq(d) \/ SendSnapshot(d)
      BY <2>2, <2>6 DEF Attach, ReadSeq, SendSnapshot
    <2>7. CASE Resubscribe(d) \/ HandleDelta(d)
      BY <2>2, <2>7 DEF Resubscribe, HandleDelta
    <2>8. CASE FinishInput(d)
      <3>1. PICK cs : cs = [conn EXCEPT ![d].pc = "loop"]
        OBVIOUS
      <3>2. UNCHANGED conn \/ SendDelta(d, cs)
        BY <2>8, <3>1 DEF FinishInput
      <3>3. cs[c] = conn[c]
        BY <1>1, <1>10, <3>1
      <3> QED
        BY <1>1, <1>3, <1>4, <3>2, <3>3 DEF Touched
    <2> QED
      BY <1>10, <2>1, <2>3, <2>4, <2>5, <2>6, <2>7, <2>8 DEF Server, HandlerStep
  <1>11. CASE \/ HandleText(c) \/ FinishInput(c) \/ HandleEvent(c)
              \/ Resubscribe(c) \/ HandleDelta(c)
    BY <1>1, <1>11 DEF HandleText, FinishInput, HandleEvent, Resubscribe,
                       HandleDelta, ConnOK, Serving
  <1>a. CASE Attach(c) \/ ReadSeq(c)
    <2>1. CASE Attach(c)
      <3>1. PICK n : n = Len(events)
        OBVIOUS
      <3>2. PICK q : q = [conn[c] EXCEPT !.pc = "number", !.feed = TRUE, !.heard = n]
        OBVIOUS
      <3>3. Set(c, q)
        BY <2>1, <3>1, <3>2 DEF Attach
      <3>4. q.first = <<>>
        BY <1>2, <3>2 DEF ConnFields
      <3> QED
        BY <1>7, <3>3, <3>4
    <2>2. CASE ReadSeq(c)
      <3>1. PICK n : n = store[conn[c].scene].seq
        OBVIOUS
      <3>2. PICK q : q = [conn[c] EXCEPT !.pc = "leaves", !.seq = n]
        OBVIOUS
      <3>3. Set(c, q)
        BY <2>2, <3>1, <3>2 DEF ReadSeq
      <3>4. q.first = <<>>
        BY <1>2, <3>2 DEF ConnFields
      <3> QED
        BY <1>7, <3>3, <3>4
    <2> QED
      BY <1>a, <2>1, <2>2
  <1>12. CASE RecvSubscribe(c) \/ PeerGone(c)
    <2>1. CASE PeerGone(c)
      BY <1>7, <2>1 DEF PeerGone, NoConn
    <2>2. CASE RecvSubscribe(c)
      <3>1. PICK q : Set(c, q) /\
               \/ \E want, calm : q = [Received(c) EXCEPT !.pc = "auth",
                                          !.want = want, !.calm = calm]
               \/ \E x : q = [Closing(c, <<>>) EXCEPT !.in = x]
        <4>1. CASE DecodeClient(Head(conn[c].in)) = "subscribe"
          BY <2>2, <4>1 DEF RecvSubscribe
        <4>2. CASE DecodeClient(Head(conn[c].in)) # "subscribe"
          BY <2>2, <4>2 DEF RecvSubscribe
        <4> QED
          BY <4>1, <4>2
      <3>2. q.first = <<>>
        BY <1>2, <1>8, <3>1 DEF Received, ConnFields
      <3> QED
        BY <1>7, <3>1, <3>2
    <2> QED
      BY <1>12, <2>1, <2>2
  <1> QED
    BY <1>5, <1>6, <1>9, <1>10, <1>11, <1>12, <1>a DEF Next, Server, HandlerStep

LEMMA FirstFrame ==
  ASSUME ServerInv, ConnsOK, SeedsOK, [Next]_vars, NEW c \in Conns, GetsFirst(c)
  PROVE  FirstFits(c)'
  <1>1. /\ DOMAIN conn = Conns /\ ConnOK(conn[c]) /\ DOMAIN conn[c] = ConnFields
        /\ conn[c].first = <<>> /\ conn'[c].first # <<>> /\ conn[c].calm
    BY DEF ConnsOK, ConnOK, GetsFirst
  <1>2. Next
    BY <1>1 DEF vars, serverVars
  <1>3. phase \in Calm
    BY <1>1 DEF ConnOK
  <1>4. \A o \in 1 .. made :
           /\ Judged(o) /\ DOMAIN store[o].seed \subseteq DOMAIN store[o].leaves
           /\ SameFields(store[o].leaves, store[o].seed) \/ WriteBegun(o)
    BY <1>3 DEF ServerInv, ScenesOK, Pending, SeedsOK, Calm
  <1>5. ASSUME NEW q, Set(c, q) PROVE conn'[c] = q
    BY <1>1, <1>5 DEF Set
  <1>6. ASSUME NEW code, Set(c, Failing(c, code)), UNCHANGED store,
               \/ conn[c].scene = 0
               \/ conn[c].scene \in 1 .. made /\ conn[c].scene \in rejected
        PROVE  FirstFits(c)'
    <2>0. PICK q, frame :
             q = Failing(c, code) /\ frame = ErrorFrame(c, code, {})
      OBVIOUS
    <2>1. q.first = <<Text(frame)>> /\ q.scene = conn[c].scene
      <3>1. PICK texts : texts = <<Text(frame)>>
        OBVIOUS
      <3>2. q = Closing(c, texts)
        BY <2>0, <3>1 DEF Failing
      <3> QED
        BY <1>1, <3>1, <3>2 DEF Closing, ConnFields
    <2>2. conn'[c] = q
      BY <1>5, <1>6, <2>0
    <2>3. ~ HasType(frame, "snapshot")
      BY <2>0, FrameType DEF ErrorFrame
    <2>4. conn'[c].first[1].frame = frame /\ conn'[c].scene = conn[c].scene
      BY <2>1, <2>2 DEF Text
    <2>5. conn[c].scene # 0 => Malformed(store[conn[c].scene].inline)
      BY <1>4, <1>6 DEF Judged
    <2> QED
      BY <1>6, <2>3, <2>4, <2>5 DEF FirstFits
  <1>7. ASSUME NEW q, Set(c, q), q.first = conn[c].first PROVE FALSE
    BY <1>1, <1>5, <1>7
  <1>8. CASE Authenticate(c) \/ ResolveId(c) \/ FindScene(c)
    <2>1. conn[c].scene = 0
      BY <1>1, <1>8 DEF Authenticate, ResolveId, FindScene, ConnOK, Unresolved
    <2>2. UNCHANGED store
      BY <1>8 DEF Authenticate, ResolveId, FindScene, Rest
    <2>3. PICK q : /\ Set(c, q)
                   /\ q.first = conn[c].first \/ \E code : q = Failing(c, code)
      <3>1. CASE Authenticate(c)
        <4>1. PICK token : token = StringAt(Subscription(c), "token")
          OBVIOUS
        <4>2. CASE token \in DOMAIN tokens
          <5>1. PICK q : q = [conn[c] EXCEPT !.pc = "resolve", !.role = tokens[token]]
            OBVIOUS
          <5>2. Set(c, q)
            BY <3>1, <4>1, <4>2, <5>1 DEF Authenticate
          <5> QED
            BY <1>1, <5>1, <5>2 DEF ConnFields
        <4>3. CASE token \notin DOMAIN tokens
          BY <3>1, <4>1, <4>3 DEF Authenticate
        <4> QED
          BY <4>2, <4>3
      <3>2. CASE ResolveId(c)
        <4>1. PICK id : id = IF HasString(Subscription(c), "scene")
                             THEN StringAt(Subscription(c), "scene") ELSE active
          OBVIOUS
        <4>2. CASE id = NoId
          BY <3>2, <4>1, <4>2 DEF ResolveId
        <4>3. CASE id # NoId
          <5>1. PICK q : q = [conn[c] EXCEPT !.pc = "find", !.want = {id}]
            OBVIOUS
          <5>2. Set(c, q)
            BY <3>2, <4>1, <4>3, <5>1 DEF ResolveId
          <5> QED
            BY <1>1, <5>1, <5>2 DEF ConnFields
        <4> QED
          BY <4>2, <4>3
      <3>3. CASE FindScene(c)
        <4>1. PICK id : id = CHOOSE x \in conn[c].want : TRUE
          OBVIOUS
        <4>2. PICK o : o = IF id \in Ids THEN scenes[id] ELSE 0
          OBVIOUS
        <4>3. Set(c, IF o = 0 THEN Failing(c, "SCENE_NOT_FOUND")
                     ELSE [conn[c] EXCEPT !.pc = "judge", !.want = {}, !.scene = o])
          BY <3>3, <4>1, <4>2 DEF FindScene
        <4>4. CASE o = 0
          BY <4>3, <4>4
        <4>5. CASE o # 0
          <5>1. PICK q : q = [conn[c] EXCEPT !.pc = "judge", !.want = {}, !.scene = o]
            OBVIOUS
          <5>2. Set(c, q)
            BY <4>3, <4>5, <5>1
          <5>3. q.first = conn[c].first
            BY <1>1, <5>1 DEF ConnFields
          <5> QED
            BY <5>2, <5>3
        <4> QED
          BY <4>4, <4>5
      <3> QED
        BY <1>8, <3>1, <3>2, <3>3
    <2> QED
      BY <1>6, <1>7, <2>1, <2>2, <2>3
  <1>9. CASE CheckRejection(c)
    <2>1. conn[c].scene \in 1 .. made /\ UNCHANGED store
      BY <1>1, <1>9 DEF CheckRejection, ConnOK, Rest
    <2>2. CASE conn[c].scene \in rejected
      BY <1>6, <1>9, <2>1, <2>2 DEF CheckRejection
    <2>3. CASE conn[c].scene \notin rejected
      <3>1. PICK q : Set(c, q) /\ q = [conn[c] EXCEPT !.pc = "initial"]
        BY <1>9, <2>3 DEF CheckRejection
      <3> QED
        BY <1>1, <1>7, <3>1 DEF ConnFields
    <2> QED
      BY <2>2, <2>3
  <1>10. CASE SendSnapshot(c)
    <2>1. /\ conn[c].scene \in 1 .. made /\ conn[c].scene \notin rejected
          /\ UNCHANGED <<store, write>>
      BY <1>1, <1>10 DEF SendSnapshot, ConnOK, Serving, Rest
    <2>2. PICK o, scene, n : o = conn[c].scene /\ scene = store[o] /\ n = conn[c].seq
      OBVIOUS
    <2>3. PICK frame : frame = SnapshotFrame(n, scene)
      OBVIOUS
    <2>4. frame.f["state"].f = scene.leaves /\ ~ HasType(frame, "error")
      BY <2>3, FrameType DEF SnapshotFrame, Obj
    <2>5. PICK q : /\ Set(c, q)
                   /\ q.first = <<Text(frame)>> /\ q.scene = o
      <3>1. PICK q : q = [conn[c] EXCEPT !.pc = IF conn[c].feed THEN "loop" ELSE "receive",
                             !.seq = 0, !.out = Append(@, Text(frame)),
                             !.first = IF @ = <<>> THEN <<Text(frame)>> ELSE @]
        OBVIOUS
      <3>2. Set(c, q)
        BY <1>10, <2>2, <2>3, <3>1 DEF SendSnapshot
      <3>3. q.first = <<Text(frame)>> /\ q.scene = o
        BY <1>1, <2>2, <3>1 DEF ConnFields
      <3> QED
        BY <3>2, <3>3
    <2>6. conn'[c].first[1].frame = frame /\ conn'[c].scene = o
      BY <1>5, <2>5 DEF Text
    <2>7. /\ ~ Malformed(scene.inline)
          /\ DOMAIN scene.seed \subseteq DOMAIN scene.leaves
          /\ SameFields(scene.leaves, scene.seed) \/ WriteBegun(o)
      BY <1>4, <2>1, <2>2 DEF Judged
    <2>8. store'[o] = scene /\ WriteBegun(o)' = WriteBegun(o)
      BY <2>1, <2>2 DEF WriteBegun
    <2> QED
      BY <2>4, <2>6, <2>7, <2>8 DEF FirstFits
  <1> QED
    BY <1>1, <1>2, <1>8, <1>9, <1>10, FirstComesFrom

(***************************************************************************)
(* Whoever subscribes between two requests of the control plane, player or *)
(* visitor, and however slowly its handshake goes on meanwhile: rejected   *)
(* bundles are refused, no other is, and the first snapshot holds every    *)
(* leaf of the seed; if it shows anything else, a write has begun, be it   *)
(* between the two locks under which the snapshot is read.                 *)
(***************************************************************************)
THEOREM FirstFrames == Spec => FirstFrameFits
  <1>1. /\ HarnessInv /\ ServerInv /\ ConnsOK /\ WritesOK /\ SeedsOK /\ [Next]_vars
        => [\A c \in Conns : GetsFirst(c) => FirstFits(c)']_vars
    BY FirstFrame
  <1> QED
    BY <1>1, HarnessInitially, HarnessInductive, ServerInitially,
       ServerInductive, ConnsInitially, ConnsInductive, WritesInductive, PTL
       DEF Spec, FirstFrameFits

-----------------------------------------------------------------------------
(* Leaves, and what a write makes of them                                  *)

IsFunction(f) == f = [k \in DOMAIN f |-> f[k]]

\* the paths that are written, each with the last of its values
Latest(pairs) ==
    [p \in {pairs[i][1] : i \in DOMAIN pairs} |->
        pairs[Max({i \in DOMAIN pairs : pairs[i][1] = p})][2]]

LEMMA WrittenOver ==
  ASSUME NEW leaves, NEW pairs
  PROVE  Written(leaves, pairs) = Over(Latest(pairs), leaves)
  BY DEF Written, Over, Latest

LEMMA OverFunctions ==
  ASSUME NEW a, NEW v, NEW l
  PROVE  /\ IsFunction(Over(a, l))
         /\ IsFunction(l) => Over(NoFields, l) = l
         /\ Over(a, Over(a, l)) = Over(a, l)
         /\ Over(Over(a, v), l) = Over(a, Over(v, l))
         /\ Over(a, Over(v, Over(a, l))) = Over(a, Over(v, l))
  <1>1. /\ IsFunction(Over(a, l))
        /\ IsFunction(l) => Over(NoFields, l) = l
    BY DEF IsFunction, Over, NoFields
  <1>2. Over(a, Over(a, l)) = Over(a, l)
    BY DEF Over
  <1>3. Over(Over(a, v), l) = Over(a, Over(v, l))
    BY DEF Over
  <1>4. Over(a, Over(v, Over(a, l))) = Over(a, Over(v, l))
    BY DEF Over
  <1> QED
    BY <1>1, <1>2, <1>3, <1>4

-----------------------------------------------------------------------------
(* What the player knows of its scene                                      *)

Updated(frame, state) ==
    CASE HasType(frame, "snapshot") -> frame.f["state"].f
      [] HasType(frame, "delta") ->
            LET patches == frame.f["patches"].e IN
            Written(state, [i \in DOMAIN patches |->
                <<PatchPath(patches[i]), PatchValue(patches[i])>>])
      [] OTHER -> state

\* the messages, all of them frames, make the state `to' of the state `from'
Yields(from, messages, to) ==
    \E g : /\ DOMAIN g = 0 .. Len(messages)
           /\ g[0] = from /\ g[Len(messages)] = to
           /\ \A i \in 1 .. Len(messages) :
                 /\ messages[i].msg = "text"
                 /\ g[i] = Updated(messages[i].frame, g[i - 1])

\* first what is on the socket, then the deltas the handler has not taken yet
Leads(from, out, deltas, to) ==
    \E state : Yields(from, out, state) /\ Yields(state, deltas, to)

LEMMA YieldsNothing ==
  ASSUME NEW a, NEW b
  PROVE  Yields(a, <<>>, b) <=> a = b
  <1>1. Len(<<>>) = 0 /\ 0 .. 0 = {0}
    OBVIOUS
  <1>2. ASSUME a = b PROVE Yields(a, <<>>, b)
    <2>1. PICK g : g = [i \in 0 .. 0 |-> a]
      OBVIOUS
    <2>2. DOMAIN g = 0 .. 0 /\ g[0] = a
      BY <2>1
    <2> QED
      BY <1>1, <1>2, <2>2 DEF Yields
  <1> QED
    BY <1>1, <1>2 DEF Yields

LEMMA YieldsAppend ==
  ASSUME NEW s, Sequence(s), NEW a, NEW b, Yields(a, s, b),
         NEW m, m.msg = "text"
  PROVE  Yields(a, Append(s, m), Updated(m.frame, b))
  <1>1. PICK n, t, x : n = Len(s) /\ t = Append(s, m) /\ x = Updated(m.frame, b)
    OBVIOUS
  <1>2. /\ n \in Nat /\ Len(t) = n + 1 /\ t[n + 1] = m
        /\ \A i \in 1 .. n : t[i] = s[i]
    <2>1. PICK A : A = Range(s) \cup {m}
      OBVIOUS
    <2>2. s \in Seq(A) /\ m \in A
      BY <2>1 DEF Sequence
    <2> QED
      BY <1>1, <2>2
  <1>3. PICK g : /\ DOMAIN g = 0 .. n /\ g[0] = a /\ g[n] = b
                 /\ \A i \in 1 .. n : /\ s[i].msg = "text"
                                      /\ g[i] = Updated(s[i].frame, g[i - 1])
    BY <1>1 DEF Yields
  <1>4. PICK h : h = [i \in 0 .. n + 1 |-> IF i = n + 1 THEN x ELSE g[i]]
    OBVIOUS
  <1>5. DOMAIN h = 0 .. n + 1 /\ h[0] = a /\ h[n + 1] = x
    BY <1>2, <1>3, <1>4
  <1>6. \A i \in 0 .. n : h[i] = g[i]
    BY <1>2, <1>4
  <1>7. ASSUME NEW i \in 1 .. n + 1
        PROVE  t[i].msg = "text" /\ h[i] = Updated(t[i].frame, h[i - 1])
    <2>1. CASE i = n + 1
      <3>1. h[i - 1] = b
        BY <1>2, <1>3, <1>6, <2>1
      <3> QED
        BY <1>1, <1>2, <1>5, <2>1, <3>1
    <2>2. CASE i # n + 1
      <3>1. i \in 1 .. n /\ i - 1 \in 0 .. n /\ i \in 0 .. n
        BY <1>2, <2>2
      <3>2. t[i] = s[i] /\ h[i] = g[i] /\ h[i - 1] = g[i - 1]
        BY <1>2, <1>6, <3>1
      <3> QED
        BY <1>3, <3>1, <3>2
    <2> QED
      BY <2>1, <2>2
  <1>8. Yields(a, t, x)
    BY <1>2, <1>5, <1>7 DEF Yields
  <1> QED
    BY <1>1, <1>8

LEMMA YieldsTail ==
  ASSUME NEW s, Sequence(s), s # <<>>, NEW a, NEW b, Yields(a, s, b)
  PROVE  Head(s).msg = "text" /\ Yields(Updated(Head(s).frame, a), Tail(s), b)
  <1>1. PICK n, t, m, x :
           n = Len(s) - 1 /\ t = Tail(s) /\ m = Head(s) /\ x = Updated(m.frame, a)
    OBVIOUS
  <1>2. /\ n \in Nat /\ Len(s) = n + 1 /\ Len(t) = n /\ m = s[1]
        /\ \A i \in 1 .. n : t[i] = s[i + 1]
    BY <1>1, TailOfSequence
  <1>3. PICK g : /\ DOMAIN g = 0 .. n + 1 /\ g[0] = a /\ g[n + 1] = b
                 /\ \A i \in 1 .. n + 1 : /\ s[i].msg = "text"
                                          /\ g[i] = Updated(s[i].frame, g[i - 1])
    BY <1>2 DEF Yields
  <1>4. m.msg = "text" /\ g[1] = x
    <2>1. 1 \in 1 .. n + 1 /\ 1 - 1 = 0
      BY <1>2
    <2>2. s[1].msg = "text" /\ g[1] = Updated(s[1].frame, g[0])
      BY <1>3, <2>1
    <2> QED
      BY <1>1, <1>2, <1>3, <2>2
  <1>5. PICK h : h = [i \in 0 .. n |-> g[i + 1]]
    OBVIOUS
  <1>6. DOMAIN h = 0 .. n /\ h[0] = x /\ h[n] = b
    BY <1>2, <1>3, <1>4, <1>5
  <1>7. ASSUME NEW i \in 1 .. n
        PROVE  t[i].msg = "text" /\ h[i] = Updated(t[i].frame, h[i - 1])
    <2>1. PICK j : j = i + 1
      OBVIOUS
    <2>2. j \in 1 .. n + 1 /\ j - 1 = i /\ i \in 0 .. n /\ i - 1 \in 0 .. n
          /\ (i - 1) + 1 = i
      BY <1>2, <2>1
    <2>3. h[i] = g[j] /\ h[i - 1] = g[j - 1] /\ t[i] = s[j]
      BY <1>2, <1>5, <2>1, <2>2
    <2>4. s[j].msg = "text" /\ g[j] = Updated(s[j].frame, g[j - 1])
      BY <1>3, <2>2
    <2> QED
      BY <2>3, <2>4
  <1>8. Yields(x, t, b)
    BY <1>2, <1>6, <1>7 DEF Yields
  <1> QED
    BY <1>1, <1>4, <1>8

LEMMA NeutralFrame ==
  ASSUME NEW frame, ~ HasType(frame, "snapshot"), ~ HasType(frame, "delta"),
         NEW state
  PROVE  Updated(frame, state) = state
  BY DEF Updated

LEMMA SnapshotUpdates ==
  ASSUME NEW seq, NEW scene, NEW state
  PROVE  Updated(SnapshotFrame(seq, scene), state) = scene.leaves
  <1>1. PICK frame : frame = SnapshotFrame(seq, scene)
    OBVIOUS
  <1>2. HasType(frame, "snapshot") /\ ~ HasType(frame, "delta")
    BY <1>1, FrameType DEF SnapshotFrame
  <1>3. frame.f["state"].f = scene.leaves
    BY <1>1, FrameType DEF SnapshotFrame, Obj
  <1> QED
    BY <1>1, <1>2, <1>3 DEF Updated

LEMMA DeltaUpdates ==
  ASSUME NEW pairs, Paired(pairs), NEW seq, NEW state
  PROVE  Updated(DeltaFrame(seq, PatchesOf(pairs)), state) = Written(state, pairs)
  <1>1. PICK frame, patches :
           patches = PatchesOf(pairs) /\ frame = DeltaFrame(seq, patches)
    OBVIOUS
  <1>2. HasType(frame, "delta") /\ ~ HasType(frame, "snapshot")
    BY <1>1, FrameType DEF DeltaFrame
  <1>3. frame.f["patches"].e = patches
    BY <1>1, FrameType DEF DeltaFrame, Arr
  <1>4. DOMAIN patches = DOMAIN pairs
    BY <1>1 DEF PatchesOf
  <1>5. ASSUME NEW i \in DOMAIN pairs
        PROVE  PatchPath(patches[i]) = pairs[i][1] /\ PatchValue(patches[i]) = pairs[i][2]
    <2>1. patches[i] = Obj([path |-> Str(pairs[i][1]), value |-> pairs[i][2]])
      BY <1>1 DEF PatchesOf
    <2> QED
      BY <2>1 DEF PatchPath, PatchValue, StringAt, Obj, Str
  <1>6. [i \in DOMAIN patches |-> <<PatchPath(patches[i]), PatchValue(patches[i])>>]
        = [i \in DOMAIN pairs |-> <<pairs[i][1], pairs[i][2]>>]
    BY <1>4, <1>5
  <1>7. Updated(frame, state)
        = Written(state, [i \in DOMAIN patches |->
                             <<PatchPath(patches[i]), PatchValue(patches[i])>>])
    BY <1>2, <1>3 DEF Updated
  <1>8. Updated(frame, state) = Written(state, pairs)
    BY <1>6, <1>7 DEF Paired
  <1> QED
    BY <1>1, <1>8

LEMMA LeadsNowhere ==
  ASSUME NEW a, NEW b, Leads(a, <<>>, <<>>, b)
  PROVE  a = b
  BY YieldsNothing DEF Leads

LEMMA LeadsFirst ==
  ASSUME NEW a, NEW seq, NEW scene, NEW deltas, NEW b,
         Yields(scene.leaves, deltas, b)
  PROVE  Leads(a, Append(<<>>, Text(SnapshotFrame(seq, scene))), deltas, b)
  <1>1. PICK m : m = Text(SnapshotFrame(seq, scene))
    OBVIOUS
  <1>2. Sequence(<<>>) /\ m.msg = "text" /\ m.frame = SnapshotFrame(seq, scene)
    BY <1>1 DEF Sequence, Range, Text
  <1>3. Yields(a, Append(<<>>, m), Updated(m.frame, a))
    BY <1>2, YieldsNothing, YieldsAppend
  <1>4. Yields(a, Append(<<>>, m), scene.leaves)
    BY <1>2, <1>3, SnapshotUpdates
  <1> QED
    BY <1>1, <1>4 DEF Leads

LEMMA LeadsRead ==
  ASSUME NEW a, NEW out, NEW deltas, NEW b, Leads(a, out, deltas, b),
         Sequence(out), out # <<>>
  PROVE  /\ Head(out).msg = "text"
         /\ Leads(Updated(Head(out).frame, a), Tail(out), deltas, b)
  BY YieldsTail DEF Leads

LEMMA LeadsReplied ==
  ASSUME NEW a, NEW out, NEW deltas, NEW b, Leads(a, out, deltas, b),
         Sequence(out), NEW frame,
         ~ HasType(frame, "snapshot"), ~ HasType(frame, "delta")
  PROVE  Leads(a, Append(out, Text(frame)), deltas, b)
  <1>1. PICK state : Yields(a, out, state) /\ Yields(state, deltas, b)
    BY DEF Leads
  <1>2. PICK m : m = Text(frame)
    OBVIOUS
  <1>3. m.msg = "text" /\ m.frame = frame
    BY <1>2 DEF Text
  <1>4. Yields(a, Append(out, m), state)
    BY <1>1, <1>3, YieldsAppend, NeutralFrame
  <1> QED
    BY <1>1, <1>2, <1>4 DEF Leads

LEMMA LeadsMoved ==
  ASSUME NEW a, NEW out, NEW deltas, NEW b, Leads(a, out, deltas, b),
         Sequence(out), Sequence(deltas), deltas # <<>>
  PROVE  Leads(a, Append(out, Head(deltas)), Tail(deltas), b)
  <1>1. PICK state : Yields(a, out, state) /\ Yields(state, deltas, b)
    BY DEF Leads
  <1>2. PICK m : m = Head(deltas)
    OBVIOUS
  <1>3. m.msg = "text" /\ Yields(Updated(m.frame, state), Tail(deltas), b)
    BY <1>1, <1>2, YieldsTail
  <1>4. Yields(a, Append(out, m), Updated(m.frame, state))
    BY <1>1, <1>3, YieldsAppend
  <1> QED
    BY <1>2, <1>3, <1>4 DEF Leads

\* a delta more
LEMMA YieldsWritten ==
  ASSUME NEW a, NEW deltas, NEW b, Yields(a, deltas, b), Sequence(deltas),
         NEW pairs, Paired(pairs), NEW seq
  PROVE  Yields(a, Append(deltas, Text(DeltaFrame(seq, PatchesOf(pairs)))),
                Over(Latest(pairs), b))
  <1>1. PICK m : m = Text(DeltaFrame(seq, PatchesOf(pairs)))
    OBVIOUS
  <1>2. m.msg = "text" /\ Updated(m.frame, b) = Over(Latest(pairs), b)
    <2>1. m.msg = "text" /\ m.frame = DeltaFrame(seq, PatchesOf(pairs))
      BY <1>1 DEF Text
    <2> QED
      BY <2>1, DeltaUpdates, WrittenOver
  <1>3. Yields(a, Append(deltas, m), Over(Latest(pairs), b))
    BY <1>2, YieldsAppend
  <1> QED
    BY <1>1, <1>3

LEMMA LeadsWritten ==
  ASSUME NEW a, NEW out, NEW deltas, NEW b, Leads(a, out, deltas, b),
         Sequence(deltas), NEW pairs, Paired(pairs), NEW seq
  PROVE  Leads(a, out, Append(deltas, Text(DeltaFrame(seq, PatchesOf(pairs)))),
               Over(Latest(pairs), b))
  BY YieldsWritten DEF Leads

-----------------------------------------------------------------------------
(* The player and its connection                                           *)

Live == {"step", "asking", "emitting", "reading"}

(***************************************************************************)
(* The player has at most one connection, none of the visitor's, and only  *)
(* between setup and the end of the scenario.                              *)
(***************************************************************************)
PlayerInv ==
    /\ \A c \in ws : c \in Conns /\ c # Visitor
    /\ \A c, d \in ws : c = d
    /\ ws # {} => pc \in Live \cup {"failed", "resetting"}
    /\ pc = "emitting" => Paired(request.pairs)

LEMMA PlayerMoves ==
  ASSUME PlayerStep
  PROVE  /\ UNCHANGED ws /\ pc \in Live /\ pc' \in Live \cup {"failed"}
         /\ pc' = "emitting" => Paired(request'.pairs)
  <1> USE DEF Live, HarnessRest, playerVars
  <1>1. ASSUME NEW ok, Passes(ok) PROVE pc' \in {"step", "failed"}
    BY <1>1 DEF Passes
  <1>2. ASSUME NEW kinds, Playing(kinds) PROVE pc = "step"
    BY <1>2 DEF Playing
  <1>3. Reading => pc \in {"step", "reading"}
    BY <1>2 DEF Reading
  <1>4. CASE ClientSends
    BY <1>1, <1>2, <1>4 DEF ClientSends
  <1>5. CASE ReadFrame
    <2> DEFINE message == Head(conn[W].out)
    <2>1. CASE message.msg = "text"
      BY <1>1, <1>3, <1>5, <2>1 DEF ReadFrame
    <2>2. CASE message.msg # "text"
      BY <1>3, <1>5, <2>2 DEF ReadFrame
    <2> QED
      BY <2>1, <2>2
  <1>6. CASE ReadTimesOut
    BY <1>1, <1>3, <1>6 DEF ReadTimesOut
  <1>7. CASE ExpectRuntimeState
    BY <1>1, <1>2, <1>7 DEF ExpectRuntimeState
  <1>8. CASE ExpectServerState
    BY <1>1, <1>2, <1>8 DEF ExpectServerState
  <1>9. CASE ExpectNoFrameFor
    <2>1. CASE conn[W].out # <<>>
      BY <1>1, <1>2, <1>9, <2>1 DEF ExpectNoFrameFor
    <2>2. CASE conn[W].out = <<>>
      BY <1>1, <1>2, <1>9, <2>2 DEF ExpectNoFrameFor
    <2> QED
      BY <2>1, <2>2
  <1>10. CASE ExpectClose
    <2>1. CASE conn[W].out # <<>>
      BY <1>1, <1>2, <1>10, <2>1 DEF ExpectClose
    <2>2. CASE conn[W].out = <<>>
      BY <1>1, <1>2, <1>10, <2>2 DEF ExpectClose
    <2> QED
      BY <2>1, <2>2
  <1>11. CASE JudgeStep
    BY <1>1, <1>11 DEF JudgeStep
  <1>12. CASE ServerEmits
    <2>1. CASE pc = "emitting" /\ pc' # "emitting"
      BY <1>2, <1>12, <2>1 DEF ServerEmits
    <2>2. CASE ~ (pc = "emitting" /\ pc' # "emitting")
      <3>1. pc = "step" /\ pc' = "emitting" /\ UNCHANGED ws
        BY <1>2, <1>12, <2>2 DEF ServerEmits
      <3>2. PICK patches : request'.pairs = [i \in DOMAIN patches |->
               <<PatchPath(patches[i]), Apply(PatchValue(patches[i]))>>]
        BY <1>12, <3>1 DEF ServerEmits, Post
      <3>3. Paired(request'.pairs)
        BY <3>2 DEF Paired
      <3> QED
        BY <3>1, <3>3
    <2> QED
      BY <2>1, <2>2
  <1> QED
    BY <1>4, <1>5, <1>6, <1>7, <1>8, <1>9, <1>10, <1>11, <1>12 DEF PlayerStep

\* there is a connection for every scenario
LEMMA SessionForEach ==
  ASSUME HarnessInv, pc \in Busy
  PROVE  Sessions[at] \in Conns /\ Sessions[at] # Visitor
  <1>1. at <= Len(suite) /\ at = Len(outcomes) + 1
    BY DEF HarnessInv
  <1>2. Len(outcomes) \in Nat /\ Len(suite) \in Nat
    BY DEF HarnessInv, Sequence
  <1>3. suite # <<>>
    BY <1>1, <1>2
  <1>4. Len(suite) <= Len(Sessions)
    BY <1>3, ChosenIsSequence DEF HarnessInv
  <1>5. Sessions \in Seq(Range(Sessions)) /\ Len(Sessions) \in Nat
    BY InteropAssumption
  <1>6. at \in 1 .. Len(Sessions)
    BY <1>1, <1>2, <1>4, <1>5
  <1>7. Sessions[at] \in Range(Sessions)
    BY <1>5, <1>6
  <1> QED
    BY <1>7, InteropAssumption

LEMMA PlayerInitially == Init => PlayerInv
  BY DEF Init, PlayerInv

LEMMA PlayerInductive == HarnessInv /\ PlayerInv /\ [Next]_vars => PlayerInv'
  <1> SUFFICES ASSUME HarnessInv, PlayerInv, [Next]_vars PROVE PlayerInv'
    OBVIOUS
  <1> USE DEF Live
  <1>1. ASSUME UNCHANGED <<ws, pc, request>> PROVE PlayerInv'
    BY <1>1 DEF PlayerInv
  <1>2. CASE PlayerStep
    BY <1>2, PlayerMoves DEF PlayerInv
  <1>3. CASE RunConformance \/ SkipScenario \/ StartScenario \/ ExitCode
    <2>1. UNCHANGED ws /\ pc \in {"begin", "next"} /\ pc' # "emitting"
      BY <1>3 DEF RunConformance, SkipScenario, StartScenario, ExitCode, playerVars
    <2> QED
      BY <2>1 DEF PlayerInv
  <1>4. CASE OpenWs
    <2>1. pc = "setup"
      BY <1>4 DEF OpenWs
    <2>2. ws = {}
      BY <2>1 DEF PlayerInv
    <2>3. Sessions[at] \in Conns /\ Sessions[at] # Visitor
      BY <2>1, SessionForEach DEF Busy
    <2>4. pc' \in {"step", "failed"} /\ ws' \in {{}, {Sessions[at]}}
      BY <1>4, <2>2 DEF OpenWs
    <2> QED
      BY <2>3, <2>4 DEF PlayerInv
  <1>5. CASE ResetAfterPass
    BY <1>5 DEF ResetAfterPass, PlayerInv, playerVars
  <1>6. CASE ResetAfterFail \/ FinishScenario
    BY <1>6 DEF ResetAfterFail, FinishScenario, PlayerInv
  <1>7. CASE VisitorComes \/ VisitorReads
    BY <1>1, <1>7 DEF VisitorComes, VisitorReads, playerVars, Rest
  <1>8. ASSUME UNCHANGED Alone, UNCHANGED request PROVE PlayerInv'
    BY <1>1, <1>8 DEF Alone, playerVars
  <1>9. CASE ControlStep /\ UNCHANGED Alone
    <2>1. UNCHANGED request
      BY <1>9 DEF ControlStep, StartClear, ClearPointer, ClearTokens,
         InstallTokens, Register, CreateScene, FirstScene, JudgeLayout,
         DeclareInputs, SeedScene, Activate, AnnounceScene, HandleState,
         HandleEmit, FinishEmit, Answers, Goes, ControlRest
    <2> QED
      BY <1>8, <1>9, <2>1
  <1>10. CASE Silence /\ UNCHANGED Alone
    BY <1>8, <1>10 DEF Silence, SubscribeTimeout, Rest
  <1>11. CASE \E c \in Conns : Server(c) /\ UNCHANGED Alone
    <2>1. PICK c \in Conns : Server(c) /\ UNCHANGED Alone
      BY <1>11
    <2>2. UNCHANGED request
      BY <2>1 DEF Server, HandlerStep, RecvSubscribe, Authenticate, ResolveId,
         FindScene, CheckRejection, Attach, ReadSeq, SendSnapshot, Resubscribe,
         HandleText, FinishInput, HandleEvent, HandleDelta, PeerGone, Rest
    <2> QED
      BY <1>8, <2>1, <2>2
  <1>12. CASE UNCHANGED vars
    BY <1>1, <1>12 DEF vars, playerVars, serverVars
  <1> QED
    BY <1>2, <1>3, <1>4, <1>5, <1>6, <1>7, <1>9, <1>10, <1>11, <1>12
       DEF Next, HarnessStep

-----------------------------------------------------------------------------
(* A write under way has been stored, and nothing has been stored since    *)

Shown(w) ==
    /\ Paired(write[w].pairs)
    /\ LET leaves == store[write[w].scene].leaves IN
       Over(Latest(write[w].pairs), leaves) = leaves

LeavesInv ==
    /\ \A o \in 1 .. made : IsFunction(store[o].leaves)
    /\ \A w \in Writers : write[w].scene # 0 => Shown(w)

(***************************************************************************)
(* What a task that is not setting up a scene does: it stores leaves, ends *)
(* a write, or changes neither leaves nor what is being written.           *)
(***************************************************************************)
Storing(w, o, pairs) ==
    /\ o \in 1 .. made /\ Paired(pairs)
    /\ write[w].scene = 0 /\ StoreLeaves(w, o, pairs)

Ending(w) ==
    /\ write[w].seq # 0
    /\ write' = [write EXCEPT ![w] = NoWrite]
    /\ UNCHANGED store

Resting ==
    /\ \A o \in 1 .. made : store'[o].leaves = store[o].leaves
    /\ DOMAIN write' = Writers
    /\ \A v \in Writers : /\ write'[v].scene = write[v].scene
                          /\ write'[v].pairs = write[v].pairs

LEMMA LeavesInitially == Init => LeavesInv
  BY DEF Init, ServerInit, RegistryInit, LeavesInv, NoWrite

LEMMA NumberRests ==
  ASSUME ServerInv, WritesOK, NEW w \in Writers, AdvanceSeq(w)
  PROVE  Resting
  <1>1. /\ StoreOK /\ DOMAIN write = Writers /\ WriteOK(write[w]) /\ made \in Nat
    BY DEF ServerInv, RegistryTypeOK, WritesOK
  <1>2. PICK k : k = write[w] /\ WriteOK(k)
    BY <1>1
  <1>3. PICK o, n : o = k.scene /\ n = store[o].seq + 1
    OBVIOUS
  <1>4. o \in 1 .. made
    BY <1>1, <1>2, <1>3 DEF AdvanceSeq, WriteOK
  <1>5. /\ store' = [store EXCEPT ![o].seq = store[o].seq + 1]
        /\ write' = [write EXCEPT ![w].seq = n]
    BY <1>2, <1>3 DEF AdvanceSeq
  <1>6. \A i \in 1 .. made : store'[i].leaves = store[i].leaves
    BY <1>1, <1>4, <1>5, NumberTaken
  <1>7. PICK x : x = [k EXCEPT !.seq = n]
    OBVIOUS
  <1>8. x.scene = k.scene /\ x.pairs = k.pairs
    BY <1>2, <1>7 DEF WriteOK
  <1>9. /\ DOMAIN write' = Writers /\ write'[w] = x
        /\ \A v \in Writers : v # w => write'[v] = write[v]
    BY <1>1, <1>2, <1>5, <1>7
  <1> QED
    BY <1>2, <1>6, <1>8, <1>9 DEF Resting

LEMMA HandlerStores ==
  ASSUME ServerInv, ConnsOK, WritesOK, NEW c \in Conns,
         HandlerStep(c) \/ PeerGone(c) \/ SubscribeTimeout(c)
  PROVE  \/ Resting
         \/ Ending(c) /\ FinishInput(c)
         \/ \E o, pairs : Storing(c, o, pairs)
  <1>1. /\ ConnOK(conn[c]) /\ DOMAIN write = Writers /\ c \in Writers
        /\ write[c].scene # 0 => conn[c].pc = "writing"
        /\ StoreOK
    BY DEF ConnsOK, WritesOK, Writers, ServerInv
  <1>2. CASE UNCHANGED <<store, write>>
    BY <1>1, <1>2 DEF Resting
  <1>3. CASE HandleText(c)
    <2>1. CASE Stores(c)
      <3>1. PICK pairs : Paired(pairs) /\ StoreLeaves(c, conn[c].scene, pairs)
        BY <2>1 DEF Stores
      <3>2. conn[c].pc = "loop"
        BY <1>3 DEF HandleText
      <3>3. conn[c].scene \in 1 .. made /\ write[c].scene = 0
        BY <1>1, <3>2 DEF ConnOK, Serving
      <3> QED
        BY <3>1, <3>3 DEF Storing
    <2> QED
      BY <1>2, <1>3, <2>1, TextCases
  <1>4. CASE FinishInput(c)
    <2>1. CASE AdvanceSeq(c)
      BY <1>1, <2>1, NumberRests
    <2>2. CASE ~ AdvanceSeq(c)
      BY <1>4, <2>2 DEF FinishInput, SendDelta, Ending
    <2> QED
      BY <2>1, <2>2
  <1>5. CASE HandleEvent(c)
    <2>1. UNCHANGED write /\ conn[c].pc = "loop"
      BY <1>5 DEF HandleEvent
    <2>2. conn[c].scene \in 1 .. made
      BY <1>1, <2>1 DEF ConnOK, Serving
    <2>3. \/ UNCHANGED store
          \/ store' = [store EXCEPT ![conn[c].scene].seq = store[conn[c].scene].seq + 1]
      BY <1>1, <1>5, EventCases
    <2>4. \A o \in 1 .. made : store'[o].leaves = store[o].leaves
      BY <1>1, <2>2, <2>3, NumberTaken
    <2> QED
      BY <1>1, <2>1, <2>4 DEF Resting
  <1>6. CASE RecvSubscribe(c) \/ SubscribeTimeout(c) \/ PeerGone(c) \/ HandleDelta(c)
    BY <1>2, <1>6 DEF RecvSubscribe, SubscribeTimeout, PeerGone, HandleDelta, Rest
  <1>7. CASE Authenticate(c) \/ ResolveId(c) \/ FindScene(c) \/ CheckRejection(c)
    BY <1>2, <1>7 DEF Authenticate, ResolveId, FindScene, CheckRejection, Rest
  <1>8. CASE Attach(c) \/ ReadSeq(c) \/ SendSnapshot(c) \/ Resubscribe(c)
    BY <1>2, <1>8 DEF Attach, ReadSeq, SendSnapshot, Resubscribe, Rest
  <1> QED
    BY <1>3, <1>4, <1>5, <1>6, <1>7, <1>8 DEF HandlerStep

LEMMA ControlStores ==
  ASSUME ServerInv, PlayerInv, WritesOK, HandleState \/ HandleEmit \/ FinishEmit
  PROVE  \/ Resting
         \/ Ending(Control) /\ FinishEmit
         \/ \E o, pairs : Storing(Control, o, pairs)
  <1>1. /\ DOMAIN write = Writers /\ Control \in Writers
        /\ write[Control].scene # 0 => phase = "writing"
    BY DEF WritesOK, Writers
  <1>2. CASE UNCHANGED <<store, write>>
    BY <1>1, <1>2 DEF Resting
  <1>3. CASE HandleState
    BY <1>2, <1>3 DEF HandleState
  <1>4. CASE HandleEmit
    <2>1. CASE ActiveScene # 0 /\ StoreLeaves(Control, ActiveScene, request.pairs)
      <3>1. PICK o, pairs : o = ActiveScene /\ pairs = request.pairs
        OBVIOUS
      <3>2. o \in 1 .. made
        BY <2>1, <3>1 DEF ActiveScene, ServerInv, RegistryTypeOK
      <3>3. pc = "emitting"
        BY <1>4 DEF HandleEmit, ServerInv, ControlInv, Talking, OpOf, NoRequest
      <3>4. Paired(pairs) /\ write[Control].scene = 0
        BY <1>1, <1>4, <3>1, <3>3 DEF PlayerInv, HandleEmit
      <3> QED
        BY <2>1, <3>1, <3>2, <3>4 DEF Storing
    <2> QED
      BY <1>2, <1>4, <2>1 DEF HandleEmit
  <1>5. CASE FinishEmit
    <2>1. CASE AdvanceSeq(Control)
      BY <1>1, <2>1, NumberRests
    <2>2. CASE ~ AdvanceSeq(Control)
      BY <1>5, <2>2 DEF FinishEmit, SendDelta, Ending
    <2> QED
      BY <2>1, <2>2
  <1> QED
    BY <1>3, <1>4, <1>5

\* what it means that no two writes of a scene are under way
LEMMA StoredAlone ==
  ASSUME ServerInv, WritesOK, WritersApart', NEW w \in Writers, NEW o, NEW pairs,
         Storing(w, o, pairs)
  PROVE  /\ DOMAIN write' = Writers
         /\ write'[w].scene = o /\ write'[w].pairs = pairs
         /\ \A v \in Writers : v # w => write'[v] = write[v] /\ write[v].scene # o
         /\ \A v \in Writers : write[v].scene # o
         /\ store'[o].leaves = Over(Latest(pairs), store[o].leaves)
         /\ \A i \in 1 .. made : i # o => store'[i] = store[i]
  <1>1. /\ StoreOK /\ DOMAIN write = Writers /\ made \in Nat
        /\ o \in 1 .. made /\ write[w].scene = 0 /\ StoreLeaves(w, o, pairs)
    BY DEF ServerInv, RegistryTypeOK, WritesOK, Storing
  <1>2. /\ DOMAIN write' = Writers
        /\ write'[w] = [scene |-> o, pairs |-> pairs, seq |-> 0]
        /\ \A v \in Writers : v # w => write'[v] = write[v]
    BY <1>1 DEF StoreLeaves
  <1>3. write'[w].scene = o /\ write'[w].pairs = pairs /\ o # 0
    BY <1>1, <1>2
  <1>4. \A v \in Writers : v # w => write[v].scene # o
    BY <1>2, <1>3 DEF WritersApart
  <1>5. store'[o].leaves = Over(Latest(pairs), store[o].leaves)
    BY <1>1, LeavesStored, WrittenOver
  <1>6. \A i \in 1 .. made : i # o => store'[i] = store[i]
    BY <1>1, LeavesStored
  <1> QED
    BY <1>1, <1>2, <1>3, <1>4, <1>5, <1>6

LEMMA EndedOnly ==
  ASSUME WritesOK, NEW w \in Writers, Ending(w)
  PROVE  /\ DOMAIN write' = Writers /\ write'[w].scene = 0
         /\ write[w].scene # 0
         /\ \A v \in Writers : v # w => write'[v] = write[v]
  <1>1. DOMAIN write = Writers /\ WriteOK(write[w])
    BY DEF WritesOK
  <1>2. write[w].scene # 0
    BY <1>1 DEF Ending, WriteOK
  <1> QED
    BY <1>1, <1>2 DEF Ending, NoWrite

LEMMA TaskKeepsLeaves ==
  ASSUME ServerInv, WritesOK, LeavesInv, WritersApart', UNCHANGED made,
         NEW w \in Writers,
         Resting \/ Ending(w) \/ \E o, pairs : Storing(w, o, pairs)
  PROVE  LeavesInv'
  <1>1. /\ \A v \in Writers : WriteOK(write[v])
        /\ made \in Nat
        /\ \A o \in 1 .. made : IsFunction(store[o].leaves)
        /\ \A v \in Writers : write[v].scene # 0 => Shown(v)
    BY DEF ServerInv, RegistryTypeOK, WritesOK, LeavesInv
  <1>2. \A v \in Writers : write[v].scene # 0 => write[v].scene \in 1 .. made
    BY <1>1 DEF WriteOK
  <1>3. CASE Resting
    BY <1>1, <1>2, <1>3 DEF Resting, LeavesInv, Shown
  <1>4. CASE Ending(w)
    <2>1. \A v \in Writers : write'[v].scene # 0 => Shown(v)'
      BY <1>1, <1>4, EndedOnly DEF Ending, Shown
    <2> QED
      BY <1>1, <1>4, <2>1 DEF LeavesInv, Ending
  <1>5. ASSUME NEW o, NEW pairs, Storing(w, o, pairs) PROVE LeavesInv'
    <2>1. /\ DOMAIN write' = Writers
          /\ write'[w].scene = o /\ write'[w].pairs = pairs
          /\ \A v \in Writers : v # w => write'[v] = write[v] /\ write[v].scene # o
          /\ store'[o].leaves = Over(Latest(pairs), store[o].leaves)
          /\ \A i \in 1 .. made : i # o => store'[i] = store[i]
      BY <1>5, StoredAlone
    <2>2. PICK a, old, new : a = Latest(pairs) /\ old = store[o].leaves
                             /\ new = store'[o].leaves
      OBVIOUS
    <2>3. new = Over(a, old)
      BY <2>1, <2>2
    <2>4. IsFunction(new) /\ Over(a, new) = new
      BY <2>3, OverFunctions
    <2>5. Paired(pairs)
      BY <1>5 DEF Storing
    <2>6. Shown(w)'
      BY <2>1, <2>2, <2>4, <2>5 DEF Shown
    <2>7. ASSUME NEW v \in Writers, v # w, write'[v].scene # 0 PROVE Shown(v)'
      <3>1. /\ write'[v] = write[v] /\ write[v].scene \in 1 .. made
            /\ write[v].scene # o
        BY <1>2, <2>1, <2>7
      <3>2. store'[write'[v].scene] = store[write[v].scene]
        BY <2>1, <3>1
      <3> QED
        BY <1>1, <2>7, <3>1, <3>2 DEF Shown
    <2>8. \A i \in 1 .. made' : IsFunction(store'[i].leaves)
      BY <1>1, <2>1, <2>2, <2>4
    <2> QED
      BY <2>6, <2>7, <2>8 DEF LeavesInv
  <1> QED
    BY <1>3, <1>4, <1>5

(***************************************************************************)
(* Setup seeds a scene that nobody writes.                                 *)
(***************************************************************************)
LEMMA SetupKeepsLeaves ==
  ASSUME ServerInv, WritesOK, LeavesInv, WritersApart, ControlStep,
         UNCHANGED write, ~ (HandleState \/ HandleEmit \/ FinishEmit)
  PROVE  LeavesInv'
  <1>1. /\ Len(store) = made /\ made \in Nat /\ Sequence(store)
        /\ \A v \in Writers : WriteOK(write[v])
        /\ \A o \in 1 .. made : IsFunction(store[o].leaves)
        /\ \A v \in Writers : write[v].scene # 0 => Shown(v)
    BY DEF ServerInv, StoreOK, RegistryTypeOK, WritesOK, LeavesInv
  <1>2. \A v \in Writers : write[v].scene # 0 => write[v].scene \in 1 .. made
    BY <1>1 DEF WriteOK
  <1>3. ASSUME \A v \in Writers : write[v].scene # 0 =>
                  store'[write[v].scene].leaves = store[write[v].scene].leaves,
               \A o \in 1 .. made' : IsFunction(store'[o].leaves)
        PROVE  LeavesInv'
    BY <1>1, <1>3 DEF LeavesInv, Shown
  <1>4. CASE UNCHANGED <<store, made>>
    BY <1>1, <1>3, <1>4
  \* the scene that is made is replaced
  <1>5. ASSUME UNCHANGED made, made # 0, NEW new,
               store' = [store EXCEPT ![made] = new],
               \/ new.leaves = store[made].leaves
               \/ /\ IsFunction(new.leaves)
                  /\ \A v \in Writers : write[v].scene # made
        PROVE  LeavesInv'
    <2>1. PICK s, m : s = store /\ m = made /\ m \in 1 .. Len(s) /\ Sequence(s)
      BY <1>1, <1>5
    <2>2. /\ [s EXCEPT ![m] = new][m] = new
          /\ \A i \in 1 .. Len(s) : i # m => [s EXCEPT ![m] = new][i] = s[i]
      BY <2>1, Replaced
    <2>3. /\ store'[made] = new
          /\ \A i \in 1 .. made : i # made => store'[i] = store[i]
      BY <1>1, <1>5, <2>1, <2>2
    <2>4. \A o \in 1 .. made : IsFunction(store'[o].leaves)
      BY <1>1, <1>5, <2>3
    <2>5. ASSUME NEW v \in Writers, write[v].scene # 0
          PROVE  store'[write[v].scene].leaves = store[write[v].scene].leaves
      BY <1>2, <1>5, <2>3, <2>5
    <2> QED
      BY <1>3, <1>5, <2>4, <2>5
  <1>6. phase \in ScenePhases => made # 0 /\ DOMAIN store[made] = SceneFields
    <2>1. ASSUME phase \in ScenePhases PROVE made # 0 /\ made \in 1 .. made
      BY <1>1, <2>1 DEF ServerInv, ControlInv
    <2> QED
      BY <2>1 DEF ServerInv, StoreOK
  <1> USE DEF Goes, Answers, ControlRest
  <1>7. CASE StartClear \/ ClearPointer \/ Register \/ Activate \/ FirstScene
    BY <1>4, <1>7 DEF StartClear, ClearPointer, Register, Activate, FirstScene,
       ClearTable, ClearActive, CheckFree, CheckKnown, WriteActive, ActivateFirst
  <1>8. CASE ClearTokens \/ InstallTokens \/ JudgeLayout
    BY <1>4, <1>8 DEF ClearTokens, InstallTokens, JudgeLayout, Reject, registryVars
  <1>9. CASE CreateScene
    <2>1. PICK x : x.leaves = NoFields /\ store' = Append(store, x)
      BY <1>9 DEF CreateScene
    <2>2. /\ \A o \in 1 .. made : store'[o] = store[o]
          /\ store'[made + 1] = x
      BY <1>1, <2>1, AppendOutcome
    <2>3. made' = made + 1
      BY <1>9 DEF CreateScene, Insert
    <2>4. IsFunction(x.leaves)
      BY <2>1 DEF IsFunction, NoFields
    <2>5. ASSUME NEW o \in 1 .. made' PROVE IsFunction(store'[o].leaves)
      <3>1. o = made + 1 \/ o \in 1 .. made
        BY <1>1, <2>3
      <3> QED
        BY <1>1, <2>2, <2>4, <3>1
    <2> QED
      BY <1>2, <1>3, <2>2, <2>5
  <1> USE DEF SetupPhases, ScenePhases
  <1>10. CASE DeclareInputs
    <2>1. phase \in ScenePhases /\ UNCHANGED made
      BY <1>10 DEF DeclareInputs, registryVars
    <2>2. PICK specs : store' = [store EXCEPT ![made].specs = specs]
      BY <1>10 DEF DeclareInputs
    <2>3. PICK new : new = [store[made] EXCEPT !.specs = specs]
      OBVIOUS
    <2>4. new.leaves = store[made].leaves /\ store' = [store EXCEPT ![made] = new]
      BY <1>6, <2>1, <2>2, <2>3 DEF SceneFields
    <2> QED
      BY <1>5, <1>6, <2>1, <2>4
  <1>11. CASE AnnounceScene
    <2>1. phase \in ScenePhases /\ UNCHANGED made
      BY <1>11 DEF AnnounceScene, Announce
    <2>2. PICK new : new = [store[made] EXCEPT !.ready = TRUE]
      OBVIOUS
    <2>3. new.leaves = store[made].leaves /\ store' = [store EXCEPT ![made] = new]
      BY <1>6, <1>11, <2>1, <2>2 DEF SceneFields, AnnounceScene
    <2> QED
      BY <1>5, <1>6, <2>1, <2>3
  <1>12. CASE SeedScene
    <2>1. phase = "seed" /\ phase \in ScenePhases /\ UNCHANGED made
      BY <1>12 DEF SeedScene, registryVars
    <2>2. PICK seed : seed = Seed
      OBVIOUS
    <2>3. PICK new : new = [store[made] EXCEPT !.leaves = Over(seed, @), !.seed = seed]
      OBVIOUS
    <2>4. new.leaves = Over(seed, store[made].leaves)
      BY <1>6, <2>1, <2>3 DEF SceneFields
    <2>5. store' = [store EXCEPT ![made] = new]
      BY <1>6, <1>12, <2>1, <2>2, <2>3 DEF SeedScene, SceneFields
    <2>6. IsFunction(new.leaves)
      BY <2>4, OverFunctions
    <2>7. \A v \in Writers : write[v].scene # made
      BY <2>1 DEF WritersApart
    <2> QED
      BY <1>5, <1>6, <2>1, <2>5, <2>6, <2>7
  <1> QED
    BY <1>7, <1>8, <1>9, <1>10, <1>11, <1>12 DEF ControlStep

\* setup begins no write
LEMMA SetupKeepsWrites ==
  ASSUME ControlStep, ~ (HandleState \/ HandleEmit \/ FinishEmit)
  PROVE  UNCHANGED write
  BY DEF ControlStep, StartClear, ClearPointer, ClearTokens, InstallTokens, Register,
     CreateScene, FirstScene, JudgeLayout, DeclareInputs, SeedScene, Activate,
     AnnounceScene, Goes, Answers, ControlRest

LEMMA LeavesInductive ==
  /\ ServerInv /\ ConnsOK /\ WritesOK /\ PlayerInv /\ LeavesInv
  /\ WritersApart /\ WritersApart'
  /\ [Next]_vars
  => LeavesInv'
  <1> SUFFICES ASSUME ServerInv, ConnsOK, WritesOK, PlayerInv, LeavesInv,
                      WritersApart, WritersApart', [Next]_vars
               PROVE  LeavesInv'
    OBVIOUS
  <1>1. CASE UNCHANGED <<store, write, made>>
    BY <1>1 DEF LeavesInv, Shown
  <1>2. CASE HarnessStep \/ VisitorComes \/ VisitorReads
    BY <1>1, <1>2, HarnessKeepsServer DEF registryVars
  <1>3. ASSUME NEW c \in Conns, HandlerStep(c) \/ PeerGone(c) \/ SubscribeTimeout(c)
        PROVE  LeavesInv'
    <2>1. UNCHANGED made /\ c \in Writers
      BY <1>3, HandlersKeepServer DEF registryVars, ServerInv, Writers
    <2> QED
      BY <1>3, <2>1, HandlerStores, TaskKeepsLeaves
  <1>4. CASE ControlStep
    <2>1. CASE HandleState \/ HandleEmit \/ FinishEmit
      <3>1. UNCHANGED made /\ Control \in Writers
        BY <2>1 DEF HandleState, HandleEmit, FinishEmit, registryVars, Writers
      <3> QED
        BY <2>1, <3>1, ControlStores, TaskKeepsLeaves
    <2>2. CASE ~ (HandleState \/ HandleEmit \/ FinishEmit)
      BY <1>4, <2>2, SetupKeepsWrites, SetupKeepsLeaves
    <2> QED
      BY <2>1, <2>2
  <1>5. CASE Silence
    <2>1. PICK c \in ws : SubscribeTimeout(c)
      BY <1>5 DEF Silence
    <2> QED
      BY <1>3, <2>1 DEF PlayerInv
  <1>6. CASE UNCHANGED vars
    BY <1>1, <1>6 DEF vars, serverVars, registryVars
  <1> QED
    BY <1>2, <1>3, <1>4, <1>5, <1>6 DEF Next, Server

-----------------------------------------------------------------------------
(* The shadow follows the server                                           *)

(***************************************************************************)
(* A state the deltas sent so far lead to is the scene's, or will be once  *)
(* the write under way has been sent.                                      *)
(***************************************************************************)
Catches(o, state) ==
    LET leaves == store[o].leaves IN
    /\ \A w \in Writers :
          write[w].scene = o => Over(Latest(write[w].pairs), state) = leaves
    /\ (\A w \in Writers : write[w].scene # o) => state = leaves

\* what is on its way leads from the player's shadow to such a state
Follows(k) ==
    \E state : Leads(shadow, k.out, k.deltas, state) /\ Catches(k.scene, state)

\* before the snapshot: whatever it will show, the deltas do
Listens(k) ==
    /\ k.out = <<>>
    /\ \E over :
          /\ \A s : IsFunction(s) => Yields(s, k.deltas, Over(over, s))
          /\ Catches(k.scene, Over(over, store[k.scene].leaves))

Joining == {"number", "leaves"}

(***************************************************************************)
(* The player's connection: no scene has been activated since it was       *)
(* attached, so that no swap moves it.                                     *)
(***************************************************************************)
View(k) ==
    /\ k.feed /\ k.heard = Len(events) /\ k.pc # "receive"
    /\ IF k.pc \in Joining THEN Listens(k) ELSE Follows(k)

ShadowInv ==
    \A c \in ws : pc \in Live /\ conn[c].pc \in Serving => View(conn[c])

LEMMA SameView ==
  ASSUME NEW k, View(k), NEW new,
         new.out = k.out, new.deltas = k.deltas, new.scene = k.scene,
         new.feed = k.feed, new.heard = k.heard, new.pc # "receive",
         new.pc \in Joining <=> k.pc \in Joining
  PROVE  View(new)
  BY DEF View, Listens, Follows

LEMMA RestingView ==
  ASSUME WritesOK, Resting, UNCHANGED <<shadow, events>>,
         NEW k, k.scene \in 1 .. made, View(k)
  PROVE  View(k)'
  <1>1. PICK o : o = k.scene /\ o \in 1 .. made
    OBVIOUS
  <1>2. store'[o].leaves = store[o].leaves
    BY <1>1 DEF Resting
  <1>3. \A state : Catches(o, state) => Catches(o, state)'
    BY <1>2 DEF Resting, Catches
  <1> QED
    BY <1>1, <1>2, <1>3 DEF View, Listens, Follows

LEMMA StoringView ==
  ASSUME ServerInv, WritesOK, WritersApart', UNCHANGED <<shadow, events>>,
         NEW w \in Writers, NEW o, NEW pairs, Storing(w, o, pairs),
         NEW k, k.scene \in 1 .. made, View(k)
  PROVE  View(k)'
  <1>1. /\ write'[w].scene = o /\ write'[w].pairs = pairs
        /\ \A v \in Writers : v # w => write'[v] = write[v] /\ write[v].scene # o
        /\ \A v \in Writers : write[v].scene # o
        /\ store'[o].leaves = Over(Latest(pairs), store[o].leaves)
        /\ \A i \in 1 .. made : i # o => store'[i] = store[i]
    BY StoredAlone
  <1>2. PICK i : i = k.scene /\ i \in 1 .. made
    OBVIOUS
  <1>3. CASE i # o
    <2>1. store'[i] = store[i]
      BY <1>1, <1>2, <1>3
    <2>2. ASSUME NEW state, Catches(i, state) PROVE Catches(i, state)'
      <3>1. write[w].scene # i
        BY <1>2 DEF Storing
      <3>2. (\A v \in Writers : write'[v].scene # i)
            => \A v \in Writers : write[v].scene # i
        BY <1>1, <3>1
      <3>3. \A v \in Writers : write'[v].scene = i => write'[v] = write[v]
        BY <1>1, <1>3
      <3> QED
        BY <2>1, <2>2, <3>2, <3>3 DEF Catches
    <2> QED
      BY <1>2, <2>1, <2>2 DEF View, Listens, Follows
  <1>4. CASE i = o
    <2>1. PICK a, old, new : a = Latest(pairs) /\ old = store[o].leaves
                             /\ new = store'[o].leaves /\ new = Over(a, old)
      BY <1>1
    <2>2. \A state : Catches(o, state) => state = old
      BY <1>1, <2>1 DEF Catches
    <2>3. ASSUME NEW state, Over(a, state) = new PROVE Catches(o, state)'
      BY <1>1, <2>1, <2>3 DEF Catches
    <2>4. CASE k.pc \in Joining
      <3>1. PICK over : /\ \A s : IsFunction(s) => Yields(s, k.deltas, Over(over, s))
                        /\ Catches(o, Over(over, old))
        BY <1>2, <1>4, <2>1, <2>4 DEF View, Listens
      <3>2. Over(over, old) = old
        BY <2>2, <3>1
      <3>3. Over(a, Over(over, new)) = new
        BY <2>1, <3>2, OverFunctions
      <3>4. Catches(o, Over(over, new))'
        BY <2>3, <3>3
      <3>5. Catches(k.scene, Over(over, store[k.scene].leaves))'
        BY <1>2, <1>4, <2>1, <3>4
      <3>6. Listens(k)'
        BY <2>4, <3>1, <3>5 DEF View, Listens
      <3> QED
        BY <2>4, <3>6 DEF View
    <2>5. CASE k.pc \notin Joining
      <3>1. PICK state : Leads(shadow, k.out, k.deltas, state) /\ Catches(o, state)
        BY <1>2, <1>4, <2>5 DEF View, Follows
      <3>2. Over(a, state) = new
        BY <2>1, <2>2, <3>1
      <3>3. Catches(o, state)'
        BY <2>3, <3>2
      <3> QED
        BY <1>2, <1>4, <2>5, <3>1, <3>3 DEF View, Follows
    <2> QED
      BY <2>4, <2>5
  <1> QED
    BY <1>3, <1>4

LEMMA EndingView ==
  ASSUME WritesOK, LeavesInv, WritersApart, UNCHANGED <<shadow, events>>,
         NEW w \in Writers, Ending(w), NEW o, o = write[w].scene, NEW m,
         m = Text(DeltaFrame(write[w].seq, PatchesOf(write[w].pairs))),
         NEW k, DOMAIN k = ConnFields, Sequence(k.deltas), k.scene # 0, View(k)
  PROVE  View(Reached(k, o, m))'
  <1>1. PICK pairs, seq : pairs = write[w].pairs /\ seq = write[w].seq
    OBVIOUS
  <1>2. /\ write'[w].scene = 0 /\ o # 0 /\ UNCHANGED store
        /\ \A v \in Writers : v # w => write'[v] = write[v]
    BY <1>1, EndedOnly DEF Ending
  <1>3. Paired(pairs) /\ m = Text(DeltaFrame(seq, PatchesOf(pairs)))
    BY <1>1, <1>2 DEF LeavesInv, Shown
  <1>4. \A v \in Writers : v # w => write[v].scene # o
    BY <1>1, <1>2 DEF WritersApart
  <1>5. PICK a : a = Latest(pairs)
    OBVIOUS
  <1>6. ASSUME NEW state, Catches(o, state) PROVE Catches(o, Over(a, state))'
    <2>1. Over(a, state) = store[o].leaves
      BY <1>1, <1>5, <1>6 DEF Catches
    <2>2. \A v \in Writers : write'[v].scene # o
      BY <1>2, <1>4
    <2> QED
      BY <1>2, <2>1, <2>2 DEF Catches
  <1>7. PICK new : new = Reached(k, o, m)
    OBVIOUS
  <1>8. CASE k.scene = o
    <2>1. new = [k EXCEPT !.deltas = Append(@, m)]
      BY <1>7, <1>8 DEF Reached, View
    <2>2. /\ new.deltas = Append(k.deltas, m) /\ new.out = k.out /\ new.pc = k.pc
          /\ new.scene = o /\ new.feed = k.feed /\ new.heard = k.heard
      BY <1>8, <2>1 DEF ConnFields
    <2>3. CASE k.pc \in Joining
      <3>1. PICK over : /\ \A s : IsFunction(s) => Yields(s, k.deltas, Over(over, s))
                        /\ Catches(o, Over(over, store[o].leaves))
        BY <1>8, <2>3 DEF View, Listens
      <3>2. PICK x : x = Over(a, over)
        OBVIOUS
      <3>3. \A s : Over(x, s) = Over(a, Over(over, s))
        BY <3>2, OverFunctions
      <3>4. ASSUME NEW s, IsFunction(s) PROVE Yields(s, new.deltas, Over(x, s))
        BY <1>3, <1>5, <2>2, <3>1, <3>3, <3>4, YieldsWritten
      <3>5. Catches(o, Over(x, store[o].leaves))'
        <4>1. PICK state : state = Over(over, store[o].leaves)
          OBVIOUS
        <4>2. Catches(o, Over(a, state))'
          BY <1>6, <3>1, <4>1
        <4>3. Over(x, store'[o].leaves) = Over(a, state)
          BY <1>2, <3>3, <4>1
        <4> QED
          BY <4>2, <4>3
      <3>6. Listens(new)'
        BY <2>2, <2>3, <3>4, <3>5 DEF View, Listens
      <3> QED
        BY <1>1, <1>7, <2>2, <2>3, <3>6 DEF View
    <2>4. CASE k.pc \notin Joining
      <3>1. PICK state : Leads(shadow, k.out, k.deltas, state) /\ Catches(o, state)
        BY <1>8, <2>4 DEF View, Follows
      <3>2. Leads(shadow, new.out, new.deltas, Over(a, state))
        BY <1>3, <1>5, <2>2, <3>1, LeadsWritten
      <3>3. Catches(o, Over(a, state))'
        BY <1>6, <3>1
      <3>4. Follows(new)'
        BY <2>2, <3>2, <3>3 DEF Follows
      <3> QED
        BY <1>1, <1>7, <2>2, <2>4, <3>4 DEF View
    <2> QED
      BY <2>3, <2>4
  <1>9. CASE k.scene # o
    <2>1. new = k
      BY <1>7, <1>9 DEF Reached
    <2>2. PICK i : i = k.scene
      OBVIOUS
    <2>3. ASSUME NEW state, Catches(i, state) PROVE Catches(i, state)'
      <3>1. i # 0 /\ i # o
        BY <1>9, <2>2
      <3>2. (\A v \in Writers : write'[v].scene # i)
            => \A v \in Writers : write[v].scene # i
        BY <1>1, <1>2, <3>1
      <3>3. \A v \in Writers : write'[v].scene = i => write'[v] = write[v]
        BY <1>2, <3>1
      <3> QED
        BY <1>2, <2>3, <3>2, <3>3 DEF Catches
    <2>4. View(k)'
      BY <1>2, <2>2, <2>3 DEF View, Listens, Follows
    <2> QED
      BY <1>1, <1>7, <2>1, <2>4
  <1> QED
    BY <1>8, <1>9


LEMMA StillView ==
  ASSUME UNCHANGED <<shadow, events, store, write>>, NEW k, View(k)
  PROVE  View(k)'
  <1>1. \A o, state : Catches(o, state) => Catches(o, state)'
    BY DEF Catches
  <1> QED
    BY <1>1 DEF View, Listens, Follows

LEMMA PlayerFollows ==
  ASSUME PlayerInv, ConnsOK, ShadowInv, PlayerStep
  PROVE  ShadowInv'
  <1> SUFFICES ASSUME NEW c \in ws', pc' \in Live, conn'[c].pc \in Serving
               PROVE  View(conn[c])'
    BY DEF ShadowInv
  <1>1. /\ c \in ws /\ c \in Conns /\ pc \in Live /\ pc' # "failed"
        /\ DOMAIN conn = Conns /\ ConnOK(conn[c]) /\ W = c
    <2>1. c \in ws /\ pc \in Live
      BY PlayerMoves
    <2>2. W \in ws
      BY <2>1 DEF W
    <2> QED
      BY <2>1, <2>2 DEF PlayerInv, ConnsOK, Live
  <1>2. PICK k : k = conn[c] /\ DOMAIN k = ConnFields
    BY <1>1 DEF ConnOK
  <1>3. UNCHANGED <<store, write, events>>
    BY HarnessKeepsServer DEF HarnessStep, registryVars
  <1>4. ASSUME UNCHANGED shadow, NEW new, new = conn'[c], new.out = k.out,
               new.pc = k.pc, new.deltas = k.deltas, new.scene = k.scene,
               new.feed = k.feed, new.heard = k.heard
        PROVE  View(conn[c])'
    <2>1. View(k)
      BY <1>1, <1>2, <1>4 DEF ShadowInv
    <2>2. View(new)
      BY <1>4, <2>1, SameView DEF View
    <2>3. View(new)'
      BY <1>3, <1>4, <2>2, StillView
    <2> QED
      BY <1>4, <2>3
  <1>5. ASSUME UNCHANGED <<conn, shadow>> PROVE View(conn[c])'
    BY <1>2, <1>4, <1>5
  <1>6. ASSUME conn' = [conn EXCEPT ![W].out = Tail(@)], k.out # <<>>
        PROVE  /\ Head(k.out).msg = "text"
               /\ shadow' = Updated(Head(k.out).frame, shadow) => View(conn[c])'
    <2>1. PICK new : new = [k EXCEPT !.out = Tail(@)]
      OBVIOUS
    <2>2. conn'[c] = new
      BY <1>1, <1>2, <1>6, <2>1
    <2>3. /\ new.pc = k.pc /\ new.out = Tail(k.out)
          /\ new.deltas = k.deltas /\ new.scene = k.scene
          /\ new.feed = k.feed /\ new.heard = k.heard
      BY <1>2, <2>1 DEF ConnFields
    <2>4. View(k) /\ k.pc \in Serving /\ Sequence(k.out)
      BY <1>1, <1>2, <2>2, <2>3 DEF ConnOK, ShadowInv
    <2>5. k.pc \notin Joining
      BY <1>6, <2>4 DEF View, Listens
    <2>6. PICK state : Leads(shadow, k.out, k.deltas, state)
                       /\ Catches(k.scene, state)
      BY <2>4, <2>5 DEF View, Follows
    <2>7. /\ Head(k.out).msg = "text"
          /\ Leads(Updated(Head(k.out).frame, shadow), Tail(k.out), k.deltas, state)
      BY <1>6, <2>4, <2>6, LeadsRead
    <2>8. Catches(k.scene, state)'
      BY <1>3, <2>6 DEF Catches
    <2>9. ASSUME shadow' = Updated(Head(k.out).frame, shadow) PROVE View(conn[c])'
      <3>1. Follows(new)'
        BY <2>3, <2>7, <2>8, <2>9 DEF Follows
      <3>2. View(new)'
        BY <1>3, <2>3, <2>4, <2>5, <3>1 DEF View
      <3> QED
        BY <2>2, <3>2
    <2> QED
      BY <2>7, <2>9
  <1>7. CASE ClientSends
    <2>1. PICK x : conn'[c] = k \/ conn'[c] = [k EXCEPT !.in = x]
      BY <1>1, <1>2, <1>7 DEF ClientSends
    <2>2. PICK new : new = conn'[c]
      OBVIOUS
    <2>3. /\ new.pc = k.pc /\ new.out = k.out
          /\ new.deltas = k.deltas /\ new.scene = k.scene
          /\ new.feed = k.feed /\ new.heard = k.heard
      BY <1>2, <2>1, <2>2 DEF ConnFields
    <2>4. UNCHANGED shadow
      BY <1>7 DEF ClientSends
    <2> QED
      BY <1>4, <2>2, <2>3, <2>4
  <1>8. CASE ReadFrame
    <2>1. conn' = [conn EXCEPT ![W].out = Tail(@)] /\ k.out # <<>>
      BY <1>1, <1>2, <1>8 DEF ReadFrame
    <2>2. Head(k.out).msg = "text"
      BY <1>6, <2>1
    <2>3. shadow' = UpdateShadow(Head(k.out).frame)
      BY <1>1, <1>2, <1>8, <2>2 DEF ReadFrame
    <2>4. shadow' = Updated(Head(k.out).frame, shadow)
      BY <2>3 DEF UpdateShadow, Updated
    <2> QED
      BY <1>6, <2>1, <2>4
  <1>9. CASE ExpectNoFrameFor
    <2>1. CASE k.out # <<>>
      <3>1. PICK message : message = Head(k.out)
        OBVIOUS
      <3>2. conn' = [conn EXCEPT ![W].out = Tail(@)]
        BY <1>1, <1>2, <1>9, <2>1, <3>1 DEF ExpectNoFrameFor
      <3>3. message.msg = "close"
        BY <1>1, <1>2, <1>9, <2>1, <3>1 DEF ExpectNoFrameFor, Passes
      <3> QED
        BY <1>6, <2>1, <3>1, <3>2, <3>3
    <2>2. CASE k.out = <<>>
      BY <1>1, <1>2, <1>5, <1>9, <2>2 DEF ExpectNoFrameFor
    <2> QED
      BY <2>1, <2>2
  <1>10. CASE ExpectClose
    <2>1. CASE k.out # <<>>
      <3>1. PICK message : message = Head(k.out)
        OBVIOUS
      <3>2. conn' = [conn EXCEPT ![W].out = Tail(@)]
        BY <1>1, <1>2, <1>10, <2>1, <3>1 DEF ExpectClose
      <3>3. message.msg = "close"
        BY <1>1, <1>2, <1>10, <2>1, <3>1 DEF ExpectClose, Passes
      <3> QED
        BY <1>6, <2>1, <3>1, <3>2, <3>3
    <2>2. CASE k.out = <<>>
      BY <1>1, <1>2, <1>5, <1>10, <2>2 DEF ExpectClose
    <2> QED
      BY <2>1, <2>2
  <1>11. CASE ReadTimesOut \/ ExpectRuntimeState \/ JudgeStep
    BY <1>5, <1>11 DEF ReadTimesOut, ExpectRuntimeState, JudgeStep, serverVars
  <1>12. CASE ExpectServerState \/ ServerEmits
    BY <1>5, <1>12 DEF ExpectServerState, ServerEmits, Post, playerVars
  <1> QED
    BY <1>7, <1>8, <1>9, <1>10, <1>11, <1>12 DEF PlayerStep

LEMMA HarnessFollows ==
  ASSUME HarnessInv, PlayerInv, ConnsOK, ShadowInv,
         HarnessStep \/ VisitorComes \/ VisitorReads
  PROVE  ShadowInv'
  <1> SUFFICES ASSUME NEW c \in ws', pc' \in Live, conn'[c].pc \in Serving
               PROVE  View(conn[c])'
    BY DEF ShadowInv
  <1> USE DEF Live
  <1>1. CASE PlayerStep
    BY <1>1, PlayerFollows DEF ShadowInv
  <1>2. CASE VisitorComes \/ VisitorReads
    <2>1. c \in ws /\ pc \in Live /\ UNCHANGED shadow
      BY <1>2 DEF VisitorComes, VisitorReads, playerVars
    <2>2. c \in Conns /\ c # Visitor
      BY <2>1 DEF PlayerInv
    <2>3. PICK k : k = conn[c] /\ k = conn'[c]
      BY <1>2, <2>2 DEF VisitorComes, VisitorReads, ConnsOK
    <2>4. View(k)
      BY <2>1, <2>3 DEF ShadowInv
    <2>5. UNCHANGED <<store, write, events>>
      BY <1>2, HarnessKeepsServer DEF registryVars
    <2>6. View(k)'
      BY <2>1, <2>4, <2>5, StillView
    <2> QED
      BY <2>3, <2>6
  <1>3. CASE OpenWs
    <2>1. ws = {}
      BY <1>3 DEF OpenWs, PlayerInv
    <2>2. /\ c = Sessions[at]
          /\ conn' = [conn EXCEPT ![Sessions[at]] = Accepted(<<>>)]
      BY <1>3, <2>1 DEF OpenWs
    <2>3. c \in Conns
      BY <1>3, <2>2, SessionForEach DEF OpenWs, Busy
    <2>4. conn'[c] = Accepted(<<>>)
      BY <2>2, <2>3 DEF ConnsOK
    <2> QED
      BY <2>4 DEF Accepted, NoConn, Serving
  <1>4. CASE RunConformance \/ SkipScenario \/ StartScenario \/ ExitCode
             \/ ResetAfterPass \/ ResetAfterFail \/ FinishScenario
    BY <1>4 DEF RunConformance, SkipScenario, StartScenario, ExitCode,
       ResetAfterPass, ResetAfterFail, FinishScenario
  <1> QED
    BY <1>1, <1>2, <1>3, <1>4 DEF HarnessStep

\* a task that does not end a write changes no view
LEMMA ServedView ==
  ASSUME ServerInv, ConnsOK, WritesOK, WritersApart', UNCHANGED shadow,
         NEW d \in Conns, HandlerStep(d) \/ PeerGone(d) \/ SubscribeTimeout(d),
         ~ Ending(d), NEW k, k.scene \in 1 .. made, View(k)
  PROVE  View(k)'
  <1>1. UNCHANGED events
    BY HandlersKeepServer DEF ServerInv, registryVars
  <1>2. Resting \/ \E o, pairs : Storing(d, o, pairs)
    BY HandlerStores
  <1>3. d \in Writers
    BY DEF Writers
  <1>4. CASE Resting
    BY <1>1, <1>4, RestingView
  <1>5. ASSUME NEW o, NEW pairs, Storing(d, o, pairs) PROVE View(k)'
    BY <1>1, <1>3, <1>5, StoringView
  <1> QED
    BY <1>2, <1>4, <1>5

\* an input that has been stored and numbered is sent to the receivers
LEMMA InputFollows ==
  ASSUME ServerInv, ConnsOK, WritesOK, LeavesInv, WritersApart, UNCHANGED shadow,
         NEW c \in Conns, conn[c].pc \in Serving => View(conn[c]),
         conn'[c].pc \in Serving,
         NEW d \in Conns, FinishInput(d), ~ AdvanceSeq(d)
  PROVE  View(conn[c])'
  <1>1. /\ DOMAIN conn = Conns /\ d \in Writers /\ UNCHANGED events
        /\ conn[d].pc = "writing"
    BY DEF ConnsOK, Writers, FinishInput, registryVars
  <1>2. PICK cs : cs = [conn EXCEPT ![d].pc = "loop"]
    OBVIOUS
  <1>3. SendDelta(d, cs) /\ UNCHANGED store
    BY <1>2 DEF FinishInput
  <1>4. PICK o : o = write[d].scene
    OBVIOUS
  <1>5. PICK m : /\ m = Text(DeltaFrame(write[d].seq, PatchesOf(write[d].pairs)))
                 /\ \A e \in Conns : conn'[e] = Reached(cs[e], o, m)
    BY <1>3, <1>4, SendCases
  <1>6. Ending(d)
    BY <1>3 DEF SendDelta, Ending
  <1>7. PICK k : k = conn[c] /\ ConnOK(k) /\ DOMAIN k = ConnFields
    BY DEF ConnsOK, ConnOK
  <1>8. PICK new : new = cs[c]
    OBVIOUS
  <1>9. /\ DOMAIN new = ConnFields /\ new.out = k.out /\ new.deltas = k.deltas
        /\ new.scene = k.scene /\ new.feed = k.feed /\ new.heard = k.heard
        /\ IF c = d THEN new.pc = "loop" /\ k.pc = "writing" ELSE new.pc = k.pc
    <2>1. CASE c = d
      <3>1. new = [k EXCEPT !.pc = "loop"]
        BY <1>1, <1>2, <1>7, <1>8, <2>1
      <3> QED
        BY <1>1, <1>7, <2>1, <3>1 DEF ConnFields
    <2>2. CASE c # d
      BY <1>1, <1>2, <1>7, <1>8, <2>2
    <2> QED
      BY <2>1, <2>2
  <1>10. conn'[c] = Reached(new, o, m)
    BY <1>5, <1>8
  <1>11. k.pc \in Serving
    <2>1. CASE new.feed
      BY <1>7, <1>9, <2>1 DEF ConnOK
    <2>2. CASE ~ new.feed
      BY <1>9, <1>10, <2>2 DEF Reached, Serving
    <2> QED
      BY <2>1, <2>2
  <1>12. Sequence(k.deltas) /\ k.scene \in 1 .. made /\ View(k)
    BY <1>7, <1>11 DEF ConnOK
  <1>13. View(new)
    <2>1. new.pc # "receive" /\ (new.pc \in Joining <=> k.pc \in Joining)
      BY <1>9, <1>12 DEF View, Joining
    <2> QED
      BY <1>9, <1>12, <2>1, SameView
  <1>14. new.scene # 0
    BY <1>9, <1>12
  <1>15. View(Reached(new, o, m))'
    BY <1>1, <1>4, <1>5, <1>6, <1>9, <1>12, <1>13, <1>14, EndingView
  <1> QED
    BY <1>10, <1>15

\* who is not concerned but by a delta
LEMMA OthersFollow ==
  ASSUME ServerInv, ConnsOK, WritesOK, LeavesInv, WritersApart, WritersApart',
         UNCHANGED shadow,
         NEW c \in Conns, conn[c].pc \in Serving => View(conn[c]),
         conn'[c].pc \in Serving,
         NEW d \in Conns, HandlerStep(d) \/ PeerGone(d) \/ SubscribeTimeout(d),
         d # c
  PROVE  View(conn[c])'
  <1>1. /\ DOMAIN conn = Conns /\ ConnOK(conn[c])
        /\ d \in Writers
    BY DEF ConnsOK, Writers
  <1>2. CASE FinishInput(d) /\ ~ AdvanceSeq(d)
    BY <1>2, InputFollows
  <1>3. CASE ~ (FinishInput(d) /\ ~ AdvanceSeq(d))
    <2>1. ~ Ending(d)
      <3>1. AdvanceSeq(d) => write[d].seq = 0
        BY DEF AdvanceSeq
      <3>2. FinishInput(d) => ~ Ending(d)
        BY <1>3, <3>1 DEF Ending
      <3>3. Ending(d) => write'[d] # write[d]
        <4>1. Ending(d) => write[d].seq # 0
          BY DEF Ending
        <4>2. Ending(d) => write'[d] = NoWrite
          BY <1>1 DEF Ending, WritesOK
        <4> QED
          BY <4>1, <4>2 DEF NoWrite
      <3>4. ~ FinishInput(d) => UNCHANGED write \/ HandleText(d)
        BY DEF HandlerStep, PeerGone, SubscribeTimeout, RecvSubscribe,
           Authenticate, ResolveId, FindScene, CheckRejection, Attach, ReadSeq,
           SendSnapshot, HandleEvent, Resubscribe, HandleDelta, Rest
      <3>5. HandleText(d) => ~ Ending(d)
        <4>1. HandleText(d) => conn[d].pc = "loop"
          BY DEF HandleText
        <4>2. HandleText(d) => write[d].scene = 0
          BY <4>1 DEF WritesOK
        <4>3. Ending(d) => write[d].scene # 0
          BY <1>1, EndedOnly
        <4> QED
          BY <4>2, <4>3
      <3> QED
        BY <3>2, <3>3, <3>4, <3>5
    <2>2. conn'[c] = conn[c]
      <3>1. ASSUME NEW q, Set(d, q) PROVE conn'[c] = conn[c]
        BY <1>1, <3>1 DEF Set
      <3>2. CASE FinishInput(d)
        <4>1. write[d].seq = 0
          BY <1>3, <3>2 DEF AdvanceSeq
        <4>2. \A cs : ~ SendDelta(d, cs)
          BY <4>1 DEF SendDelta
        <4> QED
          BY <3>2, <4>2 DEF FinishInput
      <3>3. CASE HandleText(d)
        BY <3>1, <3>3, TextCases DEF Stores, Set
      <3>4. CASE HandleEvent(d)
        BY <1>1, <3>1, <3>4, EventCases DEF ConnsOK
      <3>5. CASE RecvSubscribe(d) \/ Authenticate(d) \/ ResolveId(d) \/ FindScene(d)
        BY <3>1, <3>5 DEF RecvSubscribe, Authenticate, ResolveId, FindScene
      <3>6. CASE CheckRejection(d) \/ Attach(d) \/ ReadSeq(d) \/ SendSnapshot(d)
        BY <3>1, <3>6 DEF CheckRejection, Attach, ReadSeq, SendSnapshot
      <3>7. CASE Resubscribe(d) \/ HandleDelta(d) \/ PeerGone(d) \/ SubscribeTimeout(d)
        BY <3>1, <3>7 DEF Resubscribe, HandleDelta, PeerGone, SubscribeTimeout
      <3> QED
        BY <3>2, <3>3, <3>4, <3>5, <3>6, <3>7 DEF HandlerStep
    <2>3. PICK k : k = conn[c] /\ k.pc \in Serving /\ k = conn'[c]
      BY <2>2
    <2>4. k.scene \in 1 .. made /\ View(k)
      BY <1>1, <2>3 DEF ConnOK
    <2>5. View(k)'
      BY <2>1, <2>4, ServedView
    <2> QED
      BY <2>3, <2>5
  <1> QED
    BY <1>2, <1>3

(***************************************************************************)
(* A handler joins its own connection to a scene, ...                      *)
(***************************************************************************)
LEMMA JoiningFollows ==
  ASSUME ServerInv, ConnsOK, WritesOK, LeavesInv, UNCHANGED shadow,
         NEW c \in Conns, conn[c].pc \in Serving => View(conn[c]),
         Attach(c) \/ ReadSeq(c) \/ SendSnapshot(c)
  PROVE  View(conn[c])'
  <1>1. PICK k : /\ DOMAIN conn = Conns /\ k = conn[c] /\ ConnOK(k)
                 /\ DOMAIN k = ConnFields
    BY DEF ConnsOK, ConnOK
  <1>2. UNCHANGED <<shadow, events, store, write>>
    BY DEF Attach, ReadSeq, SendSnapshot, Rest, registryVars
  <1>3. k.scene \in 1 .. made
    <2>1. k.pc \in {"initial", "number", "leaves"}
      BY <1>1 DEF Attach, ReadSeq, SendSnapshot
    <2> QED
      BY <1>1, <2>1 DEF ConnOK, Serving
  <1>4. PICK o, leaves : o = k.scene /\ leaves = store[o].leaves
    OBVIOUS
  <1>5. ASSUME NEW q, Set(c, q), View(q) PROVE View(conn[c])'
    <2>1. conn'[c] = q
      BY <1>1, <1>5 DEF Set
    <2>2. View(q)'
      BY <1>2, <1>5, StillView
    <2> QED
      BY <2>1, <2>2
  <1>6. CASE Attach(c)
    <2>1. PICK q : q = [k EXCEPT !.pc = "number", !.feed = TRUE,
                              !.heard = Len(events)]
      OBVIOUS
    <2>2. Set(c, q) /\ k.pc = "initial"
      BY <1>1, <1>6, <2>1 DEF Attach
    <2>3. /\ q.pc = "number" /\ q.feed /\ q.heard = Len(events)
          /\ q.out = k.out /\ q.deltas = k.deltas /\ q.scene = o
      BY <1>1, <1>4, <2>1 DEF ConnFields
    <2>4. q.out = <<>> /\ q.deltas = <<>>
      BY <1>1, <2>2, <2>3 DEF ConnOK, Handshake
    <2>5. IsFunction(leaves)
      BY <1>3, <1>4 DEF LeavesInv
    <2>6. ASSUME NEW s, IsFunction(s) PROVE Yields(s, q.deltas, Over(NoFields, s))
      BY <2>4, <2>6, OverFunctions, YieldsNothing
    <2>7. Catches(o, leaves)
      <3>1. \A w \in Writers : write[w].scene = o => Shown(w)
        BY <1>3, <1>4 DEF LeavesInv
      <3>2. \A w \in Writers :
               write[w].scene = o => Over(Latest(write[w].pairs), leaves) = leaves
        BY <1>4, <3>1 DEF Shown
      <3> QED
        BY <1>4, <3>2 DEF Catches
    <2>8. Catches(o, Over(NoFields, leaves))
      BY <2>5, <2>7, OverFunctions
    <2>9. Listens(q)
      BY <1>4, <2>3, <2>4, <2>6, <2>8 DEF Listens
    <2>10. View(q)
      BY <2>3, <2>9 DEF View, Joining
    <2> QED
      BY <1>5, <2>2, <2>10
  <1>7. CASE ReadSeq(c)
    <2>1. PICK n : n = store[o].seq
      OBVIOUS
    <2>2. PICK q : q = [k EXCEPT !.pc = "leaves", !.seq = n]
      OBVIOUS
    <2>3. Set(c, q) /\ k.pc = "number"
      BY <1>1, <1>4, <1>7, <2>1, <2>2 DEF ReadSeq
    <2>4. /\ q.pc = "leaves" /\ q.feed = k.feed /\ q.heard = k.heard
          /\ q.out = k.out /\ q.deltas = k.deltas /\ q.scene = k.scene
      BY <1>1, <2>2 DEF ConnFields
    <2>5. View(k)
      BY <1>1, <2>3 DEF Serving
    <2>6. View(q)
      BY <2>3, <2>4, <2>5, SameView DEF Joining
    <2> QED
      BY <1>5, <2>3, <2>6
  <1>8. CASE SendSnapshot(c)
    <2>1. PICK scene, frame : scene = store[o] /\ frame = SnapshotFrame(k.seq, scene)
      OBVIOUS
    <2>2. View(k) /\ k.pc = "leaves"
      BY <1>1, <1>8 DEF SendSnapshot, Serving
    <2>3. /\ k.feed /\ k.heard = Len(events) /\ k.out = <<>>
          /\ Listens(k)
      BY <2>2 DEF View, Joining, Listens
    <2>4. PICK first : first = IF k.first = <<>> THEN <<Text(frame)>> ELSE k.first
      OBVIOUS
    <2>5. PICK q : q = [k EXCEPT !.pc = "loop", !.seq = 0,
                             !.out = Append(@, Text(frame)), !.first = first]
      OBVIOUS
    <2>6. Set(c, q)
      BY <1>1, <1>4, <1>8, <2>1, <2>3, <2>4, <2>5 DEF SendSnapshot
    <2>7. /\ q.pc = "loop" /\ q.feed /\ q.heard = Len(events)
          /\ q.out = Append(<<>>, Text(frame)) /\ q.deltas = k.deltas
          /\ q.scene = o
      BY <1>1, <1>4, <2>3, <2>5 DEF ConnFields
    <2>8. PICK over : /\ \A s : IsFunction(s) => Yields(s, k.deltas, Over(over, s))
                      /\ Catches(o, Over(over, leaves))
      BY <1>4, <2>3 DEF Listens
    <2>9. PICK state : state = Over(over, leaves)
      OBVIOUS
    <2>10. IsFunction(leaves)
      BY <1>3, <1>4 DEF LeavesInv
    <2>11. Yields(scene.leaves, q.deltas, state)
      BY <1>4, <2>1, <2>7, <2>8, <2>9, <2>10
    <2>12. Leads(shadow, q.out, q.deltas, state)
      BY <2>1, <2>7, <2>11, LeadsFirst
    <2>13. Follows(q)
      BY <2>7, <2>8, <2>9, <2>12 DEF Follows
    <2>14. View(q)
      BY <2>7, <2>13 DEF View, Joining
    <2> QED
      BY <1>5, <2>6, <2>14
  <1> QED
    BY <1>6, <1>7, <1>8

(***************************************************************************)
(* ... answers what it is sent, passes on a delta, ...                     *)
(***************************************************************************)
LEMMA LoopFollows ==
  ASSUME ServerInv, ConnsOK, WritesOK, WritersApart', UNCHANGED shadow,
         NEW c \in Conns, conn[c].pc \in Serving => View(conn[c]),
         conn'[c].pc \in Serving,
         HandleText(c) \/ HandleDelta(c) \/ HandleEvent(c) \/ Resubscribe(c)
  PROVE  View(conn[c])'
  <1>1. PICK k : /\ DOMAIN conn = Conns /\ k = conn[c] /\ ConnOK(k)
                 /\ DOMAIN k = ConnFields
    BY DEF ConnsOK, ConnOK
  <1>2. k.pc \in Serving
    BY <1>1 DEF HandleText, HandleDelta, HandleEvent, Resubscribe, Serving
  <1>3. /\ View(k) /\ k.scene \in 1 .. made /\ Sequence(k.out) /\ Sequence(k.deltas)
        /\ k.feed /\ k.heard = Len(events) /\ k.heard \in Nat /\ k.pc # "receive"
    BY <1>1, <1>2 DEF ConnOK, View
  <1>4. UNCHANGED events /\ c \in Writers
    BY HandlersKeepServer DEF HandlerStep, ServerInv, registryVars, Writers
  <1>5. ~ Resubscribe(c) /\ ~ HandleEvent(c)
    BY <1>1, <1>3 DEF Resubscribe, HandleEvent
  <1>6. k.pc = "loop"
    BY <1>1, <1>5 DEF HandleText, HandleDelta
  <1>7. PICK state : Leads(shadow, k.out, k.deltas, state) /\ Catches(k.scene, state)
    BY <1>3, <1>6 DEF View, Joining, Follows
  <1>8. ASSUME NEW q, Set(c, q), UNCHANGED <<store, write>>, q.pc = "loop",
               q.feed = k.feed, q.heard = k.heard, q.scene = k.scene,
               Leads(shadow, q.out, q.deltas, state)
        PROVE  View(conn[c])'
    <2>1. Follows(q)
      BY <1>7, <1>8 DEF Follows
    <2>2. View(q)
      BY <1>3, <1>8, <2>1 DEF View, Joining
    <2>3. View(q)'
      BY <1>4, <1>8, <2>2, StillView
    <2>4. conn'[c] = q
      BY <1>1, <1>8 DEF Set
    <2> QED
      BY <2>3, <2>4
  <1>9. CASE HandleDelta(c)
    <2>1. PICK q : q = [k EXCEPT !.deltas = Tail(@), !.out = Append(@, Head(k.deltas))]
      OBVIOUS
    <2>2. Set(c, q) /\ k.deltas # <<>> /\ UNCHANGED <<store, write>>
      BY <1>1, <1>9, <2>1 DEF HandleDelta, Rest
    <2>3. /\ q.out = Append(k.out, Head(k.deltas)) /\ q.deltas = Tail(k.deltas)
          /\ q.scene = k.scene /\ q.pc = k.pc /\ q.feed = k.feed
          /\ q.heard = k.heard
      BY <1>1, <2>1 DEF ConnFields
    <2>4. Leads(shadow, q.out, q.deltas, state)
      BY <1>3, <1>7, <2>2, <2>3, LeadsMoved
    <2> QED
      BY <1>6, <1>8, <2>2, <2>3, <2>4
  <1>10. CASE HandleText(c) /\ Stores(c)
    <2>1. PICK pairs : /\ Paired(pairs) /\ StoreLeaves(c, k.scene, pairs)
                       /\ Set(c, [k EXCEPT !.in = Tail(@), !.pc = "writing"])
      BY <1>1, <1>10 DEF Stores
    <2>2. PICK q : q = [k EXCEPT !.in = Tail(@), !.pc = "writing"]
      OBVIOUS
    <2>3. /\ q.out = k.out /\ q.deltas = k.deltas /\ q.scene = k.scene
          /\ q.pc = "writing" /\ q.feed = k.feed /\ q.heard = k.heard
      BY <1>1, <2>2 DEF ConnFields
    <2>4. View(q)
      BY <1>3, <1>6, <2>3, SameView DEF Joining
    <2>5. write[c].scene = 0
      BY <1>1, <1>6 DEF WritesOK
    <2>6. PICK o : o = k.scene
      OBVIOUS
    <2>7. Storing(c, o, pairs)
      BY <1>3, <2>1, <2>5, <2>6 DEF Storing
    <2>8. q.scene \in 1 .. made
      BY <1>3, <2>3
    <2>9. View(q)'
      BY <1>4, <2>4, <2>7, <2>8, StoringView
    <2>10. conn'[c] = q
      BY <1>1, <2>1, <2>2 DEF Set
    <2> QED
      BY <2>9, <2>10
  <1>11. CASE HandleText(c) /\ ~ Stores(c)
    <2>1. PICK q : /\ UNCHANGED <<store, write>> /\ Set(c, q)
                   /\ Replies(c, q) \/ Ended(c, q)
      BY <1>11, TextCases
    <2>2. CASE Replies(c, q)
      <3>1. PICK frame : /\ ~ HasType(frame, "snapshot") /\ ~ HasType(frame, "delta")
                         /\ q = [k EXCEPT !.in = Tail(@), !.out = Append(@, Text(frame))]
        BY <1>1, <2>2 DEF Replies
      <3>2. /\ q.out = Append(k.out, Text(frame)) /\ q.deltas = k.deltas
            /\ q.scene = k.scene /\ q.pc = k.pc /\ q.feed = k.feed
            /\ q.heard = k.heard
        BY <1>1, <3>1 DEF ConnFields
      <3>3. Leads(shadow, q.out, q.deltas, state)
        BY <1>3, <1>7, <3>1, <3>2, LeadsReplied
      <3> QED
        BY <1>6, <1>8, <2>1, <3>2, <3>3
    <2>3. CASE Ended(c, q)
      <3>1. q.pc = "closed"
        BY <1>1, <2>3 DEF Ended, Closing, ConnFields
      <3>2. conn'[c] = q
        BY <1>1, <2>1 DEF Set
      <3> QED
        BY <3>1, <3>2 DEF Serving
    <2> QED
      BY <2>1, <2>2, <2>3
  <1> QED
    BY <1>5, <1>9, <1>10, <1>11

\* ... and the handshake before that ends in no scene
LEMMA HandshakeFollows ==
  ASSUME ConnsOK, NEW d \in Conns,
         \/ RecvSubscribe(d) \/ Authenticate(d) \/ ResolveId(d) \/ FindScene(d)
         \/ CheckRejection(d) \/ SubscribeTimeout(d) \/ PeerGone(d)
  PROVE  conn'[d].pc \notin Serving
  <1>1. PICK k : DOMAIN conn = Conns /\ k = conn[d] /\ ConnOK(k)
                 /\ DOMAIN k = ConnFields
    BY DEF ConnsOK, ConnOK
  <1>2. ASSUME NEW q, Set(d, q), q.pc \notin Serving
        PROVE  conn'[d].pc \notin Serving
    BY <1>1, <1>2 DEF Set
  <1>3. ASSUME NEW frames, NEW x
        PROVE  /\ Closing(d, frames).pc \notin Serving
               /\ [Closing(d, frames) EXCEPT !.in = x].pc \notin Serving
    BY <1>1 DEF Closing, ConnFields, Serving
  <1>4. ASSUME NEW code PROVE Failing(d, code).pc \notin Serving
    BY <1>3 DEF Failing
  <1>5. CASE PeerGone(d)
    <2>1. NoConn.pc \notin Serving
      BY DEF NoConn, Serving
    <2> QED
      BY <1>2, <1>5, <2>1 DEF PeerGone
  <1>6. CASE SubscribeTimeout(d)
    BY <1>2, <1>3, <1>6 DEF SubscribeTimeout
  <1>7. CASE RecvSubscribe(d)
    <2>1. CASE DecodeClient(Head(k.in)) = "subscribe"
      <3>1. PICK q : q = [Received(d) EXCEPT !.pc = "auth", !.want = {Head(k.in)},
                                             !.calm = phase \in {"idle", "writing"}]
        OBVIOUS
      <3>2. Set(d, q)
        BY <1>1, <1>7, <2>1, <3>1 DEF RecvSubscribe
      <3>3. q.pc = "auth"
        BY <1>1, <3>1 DEF Received, ConnFields
      <3> QED
        BY <1>2, <3>2, <3>3 DEF Serving
    <2>2. CASE DecodeClient(Head(k.in)) # "subscribe"
      <3>1. PICK x : Set(d, [Closing(d, <<>>) EXCEPT !.in = x])
        BY <1>1, <1>7, <2>2 DEF RecvSubscribe
      <3> QED
        BY <1>2, <1>3, <3>1
    <2> QED
      BY <2>1, <2>2
  <1>8. CASE Authenticate(d)
    <2>1. PICK token : token = StringAt(Subscription(d), "token")
      OBVIOUS
    <2>2. CASE token \in DOMAIN tokens
      <3>1. PICK q : q = [k EXCEPT !.pc = "resolve", !.role = tokens[token]]
        OBVIOUS
      <3>2. Set(d, q)
        BY <1>1, <1>8, <2>1, <2>2, <3>1 DEF Authenticate
      <3>3. q.pc = "resolve"
        BY <1>1, <3>1 DEF ConnFields
      <3> QED
        BY <1>2, <3>2, <3>3 DEF Serving
    <2>3. CASE token \notin DOMAIN tokens
      BY <1>2, <1>4, <1>8, <2>1, <2>3 DEF Authenticate
    <2> QED
      BY <2>2, <2>3
  <1>9. CASE ResolveId(d)
    <2>1. PICK id : id = IF HasString(Subscription(d), "scene")
                         THEN StringAt(Subscription(d), "scene") ELSE active
      OBVIOUS
    <2>2. CASE id = NoId
      BY <1>2, <1>4, <1>9, <2>1, <2>2 DEF ResolveId
    <2>3. CASE id # NoId
      <3>1. PICK q : q = [k EXCEPT !.pc = "find", !.want = {id}]
        OBVIOUS
      <3>2. Set(d, q)
        BY <1>1, <1>9, <2>1, <2>3, <3>1 DEF ResolveId
      <3>3. q.pc = "find"
        BY <1>1, <3>1 DEF ConnFields
      <3> QED
        BY <1>2, <3>2, <3>3 DEF Serving
    <2> QED
      BY <2>2, <2>3
  <1>10. CASE FindScene(d)
    <2>1. PICK id : id = CHOOSE x \in conn[d].want : TRUE
      OBVIOUS
    <2>2. PICK o : o = IF id \in Ids THEN scenes[id] ELSE 0
      OBVIOUS
    <2>3. Set(d, IF o = 0 THEN Failing(d, "SCENE_NOT_FOUND")
                 ELSE [conn[d] EXCEPT !.pc = "judge", !.want = {}, !.scene = o])
      BY <1>10, <2>1, <2>2 DEF FindScene
    <2>4. CASE o = 0
      BY <1>2, <1>4, <2>3, <2>4
    <2>5. CASE o # 0
      <3>1. PICK q : q = [k EXCEPT !.pc = "judge", !.want = {}, !.scene = o]
        OBVIOUS
      <3>2. Set(d, q)
        BY <1>1, <2>3, <2>5, <3>1
      <3>3. q.pc = "judge"
        BY <1>1, <3>1 DEF ConnFields
      <3> QED
        BY <1>2, <3>2, <3>3 DEF Serving
    <2> QED
      BY <2>4, <2>5
  <1>11. CASE CheckRejection(d)
    <2>1. CASE k.scene \in rejected
      BY <1>1, <1>2, <1>4, <1>11, <2>1 DEF CheckRejection
    <2>2. CASE k.scene \notin rejected
      <3>1. PICK q : q = [k EXCEPT !.pc = "initial"]
        OBVIOUS
      <3>2. Set(d, q)
        BY <1>1, <1>11, <2>2, <3>1 DEF CheckRejection
      <3>3. q.pc = "initial"
        BY <1>1, <3>1 DEF ConnFields
      <3> QED
        BY <1>2, <3>2, <3>3 DEF Serving
    <2> QED
      BY <2>1, <2>2
  <1> QED
    BY <1>5, <1>6, <1>7, <1>8, <1>9, <1>10, <1>11

LEMMA HandlerFollows ==
  ASSUME ServerInv, ConnsOK, WritesOK, LeavesInv, WritersApart, WritersApart',
         UNCHANGED shadow,
         NEW c \in Conns, conn[c].pc \in Serving => View(conn[c]),
         conn'[c].pc \in Serving,
         NEW d \in Conns, HandlerStep(d) \/ PeerGone(d) \/ SubscribeTimeout(d)
  PROVE  View(conn[c])'
  <1>1. CASE d # c
    BY <1>1, OthersFollow
  <1>2. CASE d = c
    <2>1. CASE Attach(c) \/ ReadSeq(c) \/ SendSnapshot(c)
      BY <2>1, JoiningFollows
    <2>2. CASE HandleText(c) \/ HandleDelta(c) \/ HandleEvent(c) \/ Resubscribe(c)
      BY <2>2, LoopFollows
    <2>3. CASE FinishInput(c) /\ ~ AdvanceSeq(c)
      BY <2>3, InputFollows
    <2>4. CASE FinishInput(c) /\ AdvanceSeq(c)
      <3>1. write[c].seq = 0
        BY <2>4 DEF AdvanceSeq
      <3>2. UNCHANGED conn
        BY <2>4, <3>1 DEF FinishInput, SendDelta
      <3>3. ~ Ending(c)
        BY <3>1 DEF Ending
      <3>4. PICK k : k = conn[c] /\ k = conn'[c]
        BY <3>2
      <3>5. k.scene \in 1 .. made /\ View(k)
        BY <3>4 DEF ConnsOK, ConnOK
      <3>6. HandlerStep(c)
        BY <2>4 DEF HandlerStep
      <3>7. View(k)'
        BY <3>3, <3>5, <3>6, ServedView
      <3> QED
        BY <3>4, <3>7
    <2>5. CASE \/ RecvSubscribe(c) \/ Authenticate(c) \/ ResolveId(c)
               \/ FindScene(c) \/ CheckRejection(c) \/ SubscribeTimeout(c)
               \/ PeerGone(c)
      BY <2>5, HandshakeFollows
    <2> QED
      BY <1>2, <2>1, <2>2, <2>3, <2>4, <2>5 DEF HandlerStep
  <1> QED
    BY <1>1, <1>2

(***************************************************************************)
(* While the player plays, the control plane only writes or is asked.      *)
(***************************************************************************)
LEMMA ControlFollows ==
  ASSUME ServerInv, PlayerInv, ConnsOK, WritesOK, LeavesInv, ShadowInv,
         WritersApart, WritersApart', ControlStep, UNCHANGED Alone
  PROVE  ShadowInv'
  <1> SUFFICES ASSUME NEW c \in ws', pc' \in Live, conn'[c].pc \in Serving
               PROVE  View(conn[c])'
    BY DEF ShadowInv
  <1>1. /\ c \in ws /\ c \in Conns /\ pc \in Live /\ UNCHANGED shadow
        /\ DOMAIN conn = Conns /\ Control \in Writers
    BY DEF Alone, playerVars, PlayerInv, ConnsOK, Writers
  <1>2. request.op \notin {"setup", "reset"} /\ phase \in Calm
    BY <1>1 DEF ServerInv, ControlInv, Live, Talking, OpOf, NoRequest
  <1>3. HandleState \/ HandleEmit \/ FinishEmit
    <2>1. ~ StartClear
      BY <1>2 DEF StartClear
    <2>2. ~ (ClearPointer \/ ClearTokens \/ InstallTokens \/ Register)
      BY <1>2 DEF ClearPointer, ClearTokens, InstallTokens, Register, Goes,
         Answers, Calm
    <2>3. ~ (CreateScene \/ FirstScene \/ JudgeLayout \/ DeclareInputs)
      BY <1>2 DEF CreateScene, FirstScene, JudgeLayout, DeclareInputs, Goes, Calm
    <2>4. ~ (SeedScene \/ Activate \/ AnnounceScene)
      BY <1>2 DEF SeedScene, Activate, AnnounceScene, Goes, Answers, Calm
    <2> QED
      BY <2>1, <2>2, <2>3, <2>4 DEF ControlStep
  <1>4. UNCHANGED events
    BY <1>3 DEF HandleState, HandleEmit, FinishEmit, registryVars
  <1>5. PICK k : k = conn[c] /\ ConnOK(k) /\ DOMAIN k = ConnFields
    BY <1>1 DEF ConnsOK, ConnOK
  <1>6. CASE FinishEmit /\ ~ AdvanceSeq(Control)
    <2>1. SendDelta(Control, conn) /\ UNCHANGED store
      BY <1>6 DEF FinishEmit
    <2>2. PICK o : o = write[Control].scene
      OBVIOUS
    <2>3. PICK m :
             /\ m = Text(DeltaFrame(write[Control].seq,
                                    PatchesOf(write[Control].pairs)))
             /\ \A e \in Conns : conn'[e] = Reached(conn[e], o, m)
      BY <2>1, <2>2, SendCases
    <2>4. Ending(Control)
      BY <2>1 DEF SendDelta, Ending
    <2>5. conn'[c] = Reached(k, o, m)
      BY <1>1, <1>5, <2>3
    <2>6. k.pc \in Serving
      <3>1. CASE k.feed
        BY <1>5, <3>1 DEF ConnOK
      <3>2. CASE ~ k.feed
        BY <2>5, <3>2 DEF Reached
      <3> QED
        BY <3>1, <3>2
    <2>7. View(k) /\ Sequence(k.deltas) /\ k.scene # 0
      BY <1>1, <1>5, <2>6 DEF ShadowInv, ConnOK
    <2>8. View(Reached(k, o, m))'
      BY <1>1, <1>4, <1>5, <2>2, <2>3, <2>4, <2>7, EndingView
    <2> QED
      BY <2>5, <2>8
  <1>7. CASE ~ (FinishEmit /\ ~ AdvanceSeq(Control))
    <2>1. FinishEmit => write[Control].seq = 0
      BY <1>7 DEF AdvanceSeq
    <2>2. \A cs : FinishEmit => ~ SendDelta(Control, cs)
      BY <2>1 DEF SendDelta
    <2>3. UNCHANGED conn
      <3>1. CASE FinishEmit
        BY <2>2, <3>1 DEF FinishEmit
      <3>2. CASE HandleState \/ HandleEmit
        BY <3>2 DEF HandleState, HandleEmit
      <3> QED
        BY <1>3, <3>1, <3>2
    <2>4. View(k) /\ k.scene \in 1 .. made
      BY <1>1, <1>5, <2>3 DEF ShadowInv, ConnOK
    <2>5. Resting \/ \E o, pairs : Storing(Control, o, pairs)
      <3>1. ~ (Ending(Control) /\ FinishEmit)
        BY <2>1 DEF Ending
      <3> QED
        BY <1>3, <3>1, ControlStores
    <2>6. CASE Resting
      BY <1>1, <1>4, <1>5, <2>3, <2>4, <2>6, RestingView
    <2>7. ASSUME NEW o, NEW pairs, Storing(Control, o, pairs) PROVE View(conn[c])'
      <3>1. View(k)'
        BY <1>1, <1>4, <2>4, <2>7, StoringView
      <3> QED
        BY <1>5, <2>3, <3>1
    <2> QED
      BY <2>5, <2>6, <2>7
  <1> QED
    BY <1>6, <1>7

LEMMA ShadowInductive ==
  /\ HarnessInv /\ ServerInv /\ ConnsOK /\ WritesOK /\ PlayerInv /\ LeavesInv
  /\ ShadowInv
  /\ WritersApart /\ WritersApart'
  /\ [Next]_vars
  => ShadowInv'
  <1> SUFFICES ASSUME HarnessInv, ServerInv, ConnsOK, WritesOK, PlayerInv,
                      LeavesInv, ShadowInv, WritersApart, WritersApart',
                      [Next]_vars
               PROVE  ShadowInv'
    OBVIOUS
  <1>1. CASE UNCHANGED vars
    <2>1. UNCHANGED <<shadow, events, store, write, conn, ws, pc>>
      BY <1>1 DEF vars, serverVars, playerVars, registryVars
    <2> SUFFICES ASSUME NEW c \in ws', pc' \in Live, conn'[c].pc \in Serving
                 PROVE  View(conn[c])'
      BY DEF ShadowInv
    <2>2. PICK k : k = conn[c] /\ k = conn'[c]
      BY <2>1
    <2>3. View(k)
      BY <2>1, <2>2 DEF ShadowInv
    <2>4. View(k)'
      BY <2>1, <2>3, StillView
    <2> QED
      BY <2>2, <2>4
  <1>2. CASE HarnessStep \/ VisitorComes \/ VisitorReads
    BY <1>2, HarnessFollows
  <1>3. CASE ControlStep /\ UNCHANGED Alone
    BY <1>3, ControlFollows
  <1>4. ASSUME UNCHANGED Alone, NEW d \in Conns,
               SubscribeTimeout(d) \/ Server(d)
        PROVE  ShadowInv'
    <2> SUFFICES ASSUME NEW c \in ws', pc' \in Live, conn'[c].pc \in Serving
                 PROVE  View(conn[c])'
      BY DEF ShadowInv
    <2>1. c \in ws /\ c \in Conns /\ pc \in Live /\ UNCHANGED shadow
      BY <1>4 DEF Alone, playerVars, PlayerInv
    <2>2. conn[c].pc \in Serving => View(conn[c])
      BY <2>1 DEF ShadowInv
    <2> QED
      BY <1>4, <2>1, <2>2, HandlerFollows DEF Server
  <1>5. CASE Silence /\ UNCHANGED Alone
    <2>1. PICK d \in ws : SubscribeTimeout(d)
      BY <1>5 DEF Silence
    <2>2. d \in Conns
      BY DEF PlayerInv
    <2> QED
      BY <1>4, <1>5, <2>1, <2>2
  <1> QED
    BY <1>1, <1>2, <1>3, <1>4, <1>5 DEF Next

(***************************************************************************)
(* What expect-runtime-state looks at is what the server holds, for every  *)
(* suite and whatever the visitor does, as long as no two writes of a      *)
(* scene overlap: while the player plays, no setup is under way and no     *)
(* swap moves it, and once nothing is on its way to it and no write of its *)
(* scene has yet to be sent, its shadow state and the leaves of its scene  *)
(* are the same.  The hypothesis is WritersApart (tasks that store in one  *)
(* order and send in the other leave the receivers with the older value).  *)
(***************************************************************************)
THEOREM ShadowTrue == Spec /\ []WritersApart => []ShadowIsServer
  <1>1. ShadowInv => ShadowIsServer
    <2> SUFFICES ASSUME ShadowInv, NEW c \in ws,
                        pc \in {"step", "asking", "emitting"},
                        conn[c].pc = "loop", Waiting(c), conn[c].out = <<>>,
                        \A w \in Writers : write[w].scene # conn[c].scene
                 PROVE  shadow = store[conn[c].scene].leaves
      BY DEF ShadowIsServer
    <2>1. conn[c].deltas = <<>>
      BY DEF Waiting
    <2>2. Follows(conn[c])
      BY DEF ShadowInv, View, Live, Serving, Joining
    <2>3. PICK o, state : /\ o = conn[c].scene /\ Leads(shadow, <<>>, <<>>, state)
                          /\ Catches(o, state)
      BY <2>1, <2>2 DEF Follows
    <2>4. state = store[o].leaves
      BY <2>3 DEF Catches
    <2> QED
      BY <2>3, <2>4, LeadsNowhere
  <1>2. Init => ShadowInv
    BY DEF Init, ShadowInv
  <1> QED
    BY <1>1, <1>2, HarnessInitially, HarnessInductive, ServerInitially,
       ServerInductive, ConnsInitially, ConnsInductive, WritesInductive,
       PlayerInitially, PlayerInductive, LeavesInitially, LeavesInductive,
       ShadowInductive, PTL DEF Spec
=============================================================================
