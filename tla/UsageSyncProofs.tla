--------------------------- MODULE UsageSyncProofs ---------------------------
(***************************************************************************)
(* For any accounts, models, files, days, pages and goroutines: the usage  *)
(* tables hold only what a source of usage showed, never more than was     *)
(* used, nothing of an account that is gone, and, once a sync has run      *)
(* through alone, all of what was listed when it began.                    *)
(*                                                                         *)
(* First a theory of the sums of UsageStore, by induction over finite sets *)
(* (a set of finite sets has a smallest one); then the types; then what    *)
(* the tables hold of each source (Held); then what the sources show of    *)
(* the use (Counted); last, how far a sync has come (WholeSyncs).          *)
(***************************************************************************)
EXTENDS UsageSync, FiniteSetTheorems, WellFoundedInduction, TLAPS

-----------------------------------------------------------------------------
(* Sums.                                                                   *)

\* Every set of numbers has a least one ...
LEMMA NatLeast ==
    ASSUME NEW T \in SUBSET Nat, T # {}
    PROVE  \E m \in T : \A n \in T : m <= n
<1> DEFINE R == {ss \in Nat \X Nat : ss[1] < ss[2]}
<1>1. IsWellFoundedOn(R, Nat)
  BY NatLessThanWellFounded DEF OpToRel
<1>2. PICK m \in T : \A n \in T : ~(<<n, m>> \in R)
  BY <1>1, WFMin
<1>3. \A i, j \in Nat : i < j => <<i, j>> \in R
  OBVIOUS
<1> HIDE DEF R
<1>4. ASSUME NEW n \in T
      PROVE  m <= n
  <2>1. m \in Nat /\ n \in Nat /\ ~(n < m)
    BY <1>2, <1>3, <1>4
  <2> QED
    BY <2>1
<1> QED
  BY <1>4

\* ... so a set of finite sets has a smallest one.
LEMMA SmallestSet ==
    ASSUME NEW B, B # {}, \A T \in B : IsFiniteSet(T)
    PROVE  \E T \in B : \A V \in B : Cardinality(T) <= Cardinality(V)
<1> DEFINE sizes == {Cardinality(T) : T \in B}
<1>1. sizes \in SUBSET Nat /\ sizes # {}
  BY FS_CardinalityType
<1>2. PICK n \in sizes : \A m \in sizes : n <= m
  BY <1>1, NatLeast
<1> QED
  BY <1>2

\* What holds of no element, and of one more with every set, holds of the whole.
LEMMA SetInduction ==
    ASSUME NEW S, IsFiniteSet(S), NEW G, {} \in G,
           \A T \in SUBSET S : \A x \in S \ T : T \in G => T \union {x} \in G
    PROVE  S \in G
<1> SUFFICES ASSUME S \notin G
             PROVE  FALSE
  OBVIOUS
<1> DEFINE B == {T \in SUBSET S : T \notin G}
<1>1. B # {} /\ \A T \in B : IsFiniteSet(T)
  BY FS_Subset
<1> HIDE DEF B
<1>2. PICK T \in B : \A V \in B : Cardinality(T) <= Cardinality(V)
  BY <1>1, SmallestSet
<1>3. T \in SUBSET S /\ T \notin G /\ T # {} /\ IsFiniteSet(T)
  BY <1>1, <1>2 DEF B
<1>4. PICK x \in T : TRUE
  BY <1>3
<1>5. Cardinality(T \ {x}) = Cardinality(T) - 1 /\ Cardinality(T) \in Nat
  BY <1>3, <1>4, FS_RemoveElement, FS_CardinalityType
<1>6. T \ {x} \in G
  BY <1>2, <1>3, <1>5 DEF B
<1>7. T \ {x} \in SUBSET S /\ x \in S \ (T \ {x}) /\ (T \ {x}) \union {x} = T
  BY <1>3, <1>4
<1> QED
  BY <1>3, <1>6, <1>7

-----------------------------------------------------------------------------
First(s) == CHOOSE x \in s : TRUE
Adds(f, g, s) == IF s = {} THEN Zero ELSE Plus(f[First(s)], g[s \ {First(s)}])
Sums(S, f, g) == g = [s \in SUBSET S |-> Adds(f, g, s)]

\* A total is what any sums that obey the fold's equation give: they are
\* unique.
LEMMA TotalIsSum == ASSUME NEW S, NEW f PROVE Total(S, f) = (CHOOSE g : Sums(S, f, g))[S]
BY DEF Total, FoldFunctionOnSet, MapThenFoldSet, First, Adds, Sums

\* A fold takes an element that is there.
LEMMA FirstIn == ASSUME NEW s, s # {} PROVE First(s) \in s
BY DEF First

\* A function that is computed for a set from its value for one element less.
Folds(S, base, pick, step, g) ==
    g = [s \in SUBSET S |-> IF s = {} THEN base ELSE step[<<s, g[s \ {pick[s]}]>>]]

\* The recursive function behind a fold over a finite set exists, and has
\* the type of its steps.
LEMMA FoldsExist ==
    ASSUME NEW S, IsFiniteSet(S), NEW V, NEW base \in V,
           NEW pick, \A s \in SUBSET S : s # {} => pick[s] \in s,
           NEW step, \A s \in SUBSET S, v \in V : step[<<s, v>>] \in V
    PROVE  \E g : Folds(S, base, pick, step, g) /\ \A s \in SUBSET S : g[s] \in V
<1> DEFINE Value(g, s) == IF s = {} THEN base ELSE step[<<s, g[s \ {pick[s]}]>>]
           Small(n) == {s \in SUBSET S : Cardinality(s) <= n}
           G == {n \in Nat : \E g : /\ g = [s \in Small(n) |-> Value(g, s)]
                                    /\ \A s \in Small(n) : g[s] \in V}
<1>0. \A s \in SUBSET S : /\ IsFiniteSet(s) /\ Cardinality(s) \in Nat
                          /\ Cardinality(s) <= Cardinality(S)
                          /\ s # {} => Cardinality(s \ {pick[s]}) = Cardinality(s) - 1
  BY FS_Subset, FS_CardinalityType, FS_RemoveElement
<1>1. 0 \in G
  <2>1. ASSUME NEW s \in Small(0)
        PROVE  s = {}
    <3>1. s \in SUBSET S /\ Cardinality(s) <= 0
      OBVIOUS
    <3>2. IsFiniteSet(s) /\ Cardinality(s) \in Nat
      BY <1>0, <3>1
    <3>3. Cardinality(s) = 0
      BY <3>1, <3>2
    <3> QED
      BY <3>2, <3>3, FS_EmptySet
  <2> DEFINE g == [s \in Small(0) |-> base]
  <2>2. g = [s \in Small(0) |-> Value(g, s)] /\ \A s \in Small(0) : g[s] \in V
    BY <2>1
  <2> HIDE DEF g
  <2> QED
    BY <2>2
<1>2. ASSUME NEW n \in Nat, n \in G
      PROVE  n + 1 \in G
  <2>1. PICK g : g = [s \in Small(n) |-> Value(g, s)] /\ \A s \in Small(n) : g[s] \in V
    BY <1>2
  <2> DEFINE h == [s \in Small(n + 1) |-> Value(g, s)]
  <2>2. ASSUME NEW s \in Small(n)
        PROVE  s \in Small(n + 1) /\ h[s] = g[s]
    <3>0. s \in SUBSET S /\ Cardinality(s) <= n
      OBVIOUS
    <3>9. Cardinality(s) \in Nat
      BY <1>0, <3>0
    <3>1. s \in Small(n + 1)
      BY <3>0, <3>9
    <3>2. h[s] = Value(g, s)
      BY <3>1
    <3>3. g[s] = Value(g, s)
      BY <2>1, Zenon
    <3> QED
      BY <3>1, <3>2, <3>3
  <2>3. ASSUME NEW s \in Small(n + 1), s # {}
        PROVE  s \ {pick[s]} \in Small(n)
    <3>1. s \in SUBSET S /\ Cardinality(s) <= n + 1
      OBVIOUS
    <3>2. Cardinality(s) \in Nat /\ Cardinality(s \ {pick[s]}) = Cardinality(s) - 1
      BY <1>0, <2>3, <3>1
    <3> QED
      BY <3>1, <3>2
  <2>4. ASSUME NEW s \in Small(n + 1)
        PROVE  Value(g, s) \in V
    BY <2>1, <2>3
  <2> HIDE DEF Small
  <2>5. \A s \in Small(n + 1) : Value(g, s) = Value(h, s)
    BY <2>2, <2>3
  <2>6. h = [s \in Small(n + 1) |-> Value(h, s)]
    BY <2>5
  <2>7. \A s \in Small(n + 1) : h[s] \in V
    BY <2>4
  <2> HIDE DEF h, Value
  <2> QED
    BY <2>6, <2>7
<1> HIDE DEF G
<1>3. \A n \in Nat : n \in G
  <2> SUFFICES ASSUME Nat \ G # {}
               PROVE  FALSE
    OBVIOUS
  <2>1. PICK m \in Nat \ G : \A n \in Nat \ G : m <= n
    BY NatLeast
  <2>2. m # 0 /\ m - 1 \in Nat /\ m - 1 + 1 = m
    BY <1>1, <2>1
  <2>3. m - 1 \in G
    BY <2>1, <2>2
  <2> QED
    BY <1>2, <2>1, <2>2, <2>3
<1>4. Cardinality(S) \in G
  BY <1>3, FS_CardinalityType
<1>5. Small(Cardinality(S)) = SUBSET S
  BY <1>0
<1> QED
  BY <1>4, <1>5 DEF G, Folds

\* So sums over finite sets of counters exist.
LEMMA SumsExist ==
    ASSUME NEW S, IsFiniteSet(S), NEW f, \A x \in S : f[x] \in Counters
    PROVE  \E g : Sums(S, f, g)
<1> DEFINE pick == [s \in SUBSET S |-> First(s)]
           step == [q \in (SUBSET S) \X Counters |->
                       IF q[1] = {} THEN Zero ELSE Plus(f[First(q[1])], q[2])]
<1>1. Zero \in Counters /\ \A x, y \in Counters : Plus(x, y) \in Counters
  BY DEF Zero, Counters, Plus
<1>2. \A s \in SUBSET S : pick[s] = First(s) /\ (s # {} => First(s) \in s)
  BY FirstIn
<1>3. ASSUME NEW s \in SUBSET S, NEW v \in Counters
      PROVE  step[<<s, v>>] = (IF s = {} THEN Zero ELSE Plus(f[First(s)], v)) /\ step[<<s, v>>] \in Counters
  <2>1. <<s, v>> \in (SUBSET S) \X Counters
    BY <1>3
  <2>2. step[<<s, v>>] = IF s = {} THEN Zero ELSE Plus(f[First(s)], v)
    BY <2>1
  <2> QED
    BY <1>1, <1>2, <2>2
<1> HIDE DEF pick, step
<1>4. PICK g : Folds(S, Zero, pick, step, g) /\ \A s \in SUBSET S : g[s] \in Counters
  <2>1. Zero \in Counters
    BY <1>1
  <2>2. \A s \in SUBSET S : s # {} => pick[s] \in s
    BY <1>2
  <2>3. \A s \in SUBSET S, v \in Counters : step[<<s, v>>] \in Counters
    BY <1>3
  <2> QED
    BY <2>1, <2>2, <2>3, FoldsExist
<1>5. ASSUME NEW s \in SUBSET S
      PROVE  (IF s = {} THEN Zero ELSE step[<<s, g[s \ {pick[s]}]>>]) = Adds(f, g, s)
  <2> DEFINE t == s \ {First(s)}
  <2>1. t \in SUBSET S /\ g[t] \in Counters /\ pick[s] = First(s)
    BY <1>2, <1>4
  <2>2. step[<<s, g[t]>>] = IF s = {} THEN Zero ELSE Plus(f[First(s)], g[t])
    BY <1>3, <2>1
  <2> QED
    BY <2>1, <2>2 DEF Adds
<1>6. g = [s \in SUBSET S |-> Adds(f, g, s)]
  BY <1>4, <1>5, Zenon DEF Folds
<1> QED
  BY <1>6 DEF Sums

\* The order in which a sum is taken makes no difference.
LEMMA PlusCounters ==
    /\ Zero \in Counters
    /\ \A x \in Counters : Plus(x, Zero) = x /\ Plus(Zero, x) = x
    /\ \A x, y \in Counters : Plus(x, y) \in Counters /\ Plus(x, y) = Plus(y, x)
    /\ \A x, y, z \in Counters :
         /\ Plus(x, Plus(y, z)) = Plus(y, Plus(x, z))
         /\ Plus(Plus(x, y), z) = Plus(x, Plus(y, z))
         /\ Plus(Plus(x, y), z) = Plus(Plus(x, z), y)
BY DEF Counters, Zero, Plus

\* The order of a sum does not matter: it is any element's counters and the
\* sum of the rest.
LEMMA SumsAnyOrder ==
    ASSUME NEW S, IsFiniteSet(S), NEW f, \A x \in S : f[x] \in Counters, NEW g, Sums(S, f, g)
    PROVE  \A s \in SUBSET S :
               g[s] \in Counters /\ \A x \in s : g[s] = Plus(f[x], g[s \ {x}])
<1> DEFINE Fine(s) == g[s] \in Counters /\ \A x \in s : g[s] = Plus(f[x], g[s \ {x}])
           B == {s \in SUBSET S : ~Fine(s)}
<1> SUFFICES ASSUME B # {}
             PROVE  FALSE
  OBVIOUS
<1>0. \A s \in SUBSET S : IsFiniteSet(s)
  BY FS_Subset
<1>1. \A s \in B : IsFiniteSet(s)
  BY <1>0
<1> HIDE DEF B
<1>2. PICK s \in B : \A v \in B : Cardinality(s) <= Cardinality(v)
  BY <1>1, SmallestSet
<1>3. s \in SUBSET S /\ ~Fine(s)
  BY <1>2 DEF B
<1>4. ASSUME NEW v \in SUBSET s, NEW x \in s \ v
      PROVE  Fine(v)
  <2>1. Cardinality(v) < Cardinality(s)
    <3>1. IsFiniteSet(s) /\ IsFiniteSet(s \ {x}) /\ Cardinality(s) \in Nat
          /\ Cardinality(s \ {x}) = Cardinality(s) - 1
      BY <1>0, <1>3, <1>4, FS_RemoveElement, FS_CardinalityType
    <3>2. Cardinality(v) <= Cardinality(s \ {x}) /\ Cardinality(v) \in Nat
      BY <1>4, <3>1, FS_Subset, FS_CardinalityType
    <3> QED
      BY <3>1, <3>2
  <2>2. Cardinality(s) \in Nat /\ Cardinality(v) \in Nat
    BY <1>0, <1>3, <1>4, FS_CardinalityType
  <2>3. v \notin B
    BY <1>2, <2>1, <2>2
  <2> QED
    BY <1>3, <1>4, <2>3 DEF B
<1>5. \A v \in SUBSET S : g[v] = Adds(f, g, v)
  BY DEF Sums
<1>6. ASSUME s = {}
      PROVE  FALSE
  <2>1. g[s] = Zero
    BY <1>3, <1>5, <1>6 DEF Adds
  <2>2. Zero \in Counters
    BY DEF Zero, Counters
  <2> QED
    BY <1>3, <1>6, <2>1, <2>2
<1> DEFINE c == First(s)
<1>7. c \in s
  BY <1>6, FirstIn
<1>8. g[s] = Plus(f[c], g[s \ {c}])
  BY <1>3, <1>5, <1>6 DEF Adds
<1> HIDE DEF c
<1>9. Fine(s \ {c})
  BY <1>4, <1>7
<1>10. g[s] \in Counters
  BY <1>3, <1>7, <1>8, <1>9, PlusCounters
<1>11. ASSUME NEW x \in s
       PROVE  g[s] = Plus(f[x], g[s \ {x}])
  <2>1. CASE x = c
    BY <1>8, <2>1
  <2>2. CASE x # c
    <3>1. Fine(s \ {x})
      BY <1>4
    <3>2. (s \ {c}) \ {x} = (s \ {x}) \ {c}
      OBVIOUS
    <3>3. g[s \ {c}] = Plus(f[x], g[(s \ {c}) \ {x}]) /\ g[s \ {x}] = Plus(f[c], g[(s \ {x}) \ {c}])
      BY <1>7, <1>9, <2>2, <3>1
    <3>4. Fine((s \ {x}) \ {c})
      BY <1>4
    <3>5. f[x] \in Counters /\ f[c] \in Counters /\ g[(s \ {x}) \ {c}] \in Counters
      BY <1>3, <1>7, <3>4
    <3> DEFINE w == (s \ {x}) \ {c}
    <3>6. Plus(f[c], Plus(f[x], g[w])) = Plus(f[x], Plus(f[c], g[w]))
      BY <3>5, PlusCounters
    <3>7. g[s] = Plus(f[c], Plus(f[x], g[w])) /\ g[s \ {x}] = Plus(f[c], g[w])
      BY <1>8, <3>2, <3>3
    <3> QED
      BY <3>6, <3>7
  <2> QED
    BY <2>1, <2>2
<1> QED
  BY <1>3, <1>10, <1>11

\* A sum over a subset is the same whichever set it is computed within.
LEMMA SumsUnique ==
    ASSUME NEW S, IsFiniteSet(S), NEW f, NEW g, Sums(S, f, g),
           NEW V \in SUBSET S, NEW h, Sums(V, f, h)
    PROVE  g[V] = h[V]
<1> DEFINE G == {s \in SUBSET V : g[s] = h[s]}
           B == {s \in SUBSET V : g[s] # h[s]}
<1> SUFFICES ASSUME B # {}
             PROVE  FALSE
  OBVIOUS
<1>0. \A s \in SUBSET V : IsFiniteSet(s)
  BY FS_Subset
<1>1. PICK s \in B : \A v \in B : Cardinality(s) <= Cardinality(v)
  <2>1. \A s \in B : IsFiniteSet(s)
    BY <1>0
  <2> HIDE DEF B
  <2> QED
    BY <2>1, SmallestSet
<1>2. s \in SUBSET V /\ g[s] # h[s] /\ g[s] = Adds(f, g, s) /\ h[s] = Adds(f, h, s)
  <2>1. s \in SUBSET V /\ s \in SUBSET S /\ g[s] # h[s]
    BY <1>1
  <2> QED
    BY <2>1 DEF Sums
<1>3. s # {}
  BY <1>2 DEF Adds
<1> DEFINE t == s \ {First(s)}
<1>4. Cardinality(t) < Cardinality(s) /\ Cardinality(t) \in Nat /\ Cardinality(s) \in Nat
  <2>1. First(s) \in s /\ IsFiniteSet(s)
    BY <1>0, <1>2, <1>3, FirstIn
  <2>2. Cardinality(t) = Cardinality(s) - 1 /\ IsFiniteSet(t)
    BY <2>1, FS_RemoveElement
  <2>3. Cardinality(t) \in Nat /\ Cardinality(s) \in Nat
    BY <2>1, <2>2, FS_CardinalityType
  <2> QED
    BY <2>2, <2>3
<1>5. t \notin B
  BY <1>1, <1>4
<1>6. g[t] = h[t]
  BY <1>2, <1>5
<1> QED
  BY <1>2, <1>3, <1>6 DEF Adds

\* What Total computes, one element at a time.
LEMMA TotalStep ==
    ASSUME NEW S, IsFiniteSet(S), NEW f, \A x \in S : f[x] \in Counters
    PROVE  /\ Total({}, f) = Zero
           /\ Total(S, f) \in Counters
           /\ \A x \in S : Total(S, f) = Plus(f[x], Total(S \ {x}, f))
<1>1. ASSUME NEW V \in SUBSET S
      PROVE  \E g : Sums(V, f, g) /\ Total(V, f) = g[V]
  <2>1. \E g : Sums(V, f, g)
    BY FS_Subset, SumsExist
  <2>2. Sums(V, f, CHOOSE g : Sums(V, f, g))
    BY <2>1
  <2> QED
    BY <2>2, TotalIsSum
<1>2. PICK g : Sums(S, f, g)
  BY <1>1
<1>3. ASSUME NEW V \in SUBSET S
      PROVE  Total(V, f) = g[V]
  BY <1>1, <1>2, SumsUnique
<1>4. g[{}] = Zero
  <2>1. g[{}] = Adds(f, g, {})
    BY <1>2 DEF Sums
  <2> QED
    BY <2>1 DEF Adds
<1>5. g[S] \in Counters /\ \A x \in S : g[S] = Plus(f[x], g[S \ {x}])
  BY <1>2, SumsAnyOrder
<1> QED
  BY <1>3, <1>4, <1>5

\* What Total is: nothing for no elements, counters, and one element's
\* counters more for one element more.
LEMMA TotalMore ==
    ASSUME NEW S, IsFiniteSet(S), NEW f, \A x \in S : f[x] \in Counters
    PROVE  /\ Total({}, f) = Zero
           /\ \A T \in SUBSET S : Total(T, f) \in Counters
           /\ \A T \in SUBSET S : \A x \in S \ T :
                  Total(T \union {x}, f) = Plus(f[x], Total(T, f))
<1>1. Total({}, f) = Zero
  BY TotalStep
<1>2. ASSUME NEW T \in SUBSET S
      PROVE  Total(T, f) \in Counters
  <2>1. IsFiniteSet(T) /\ \A x \in T : f[x] \in Counters
    BY FS_Subset
  <2> QED
    BY <2>1, TotalStep
<1>3. ASSUME NEW T \in SUBSET S, NEW x \in S \ T
      PROVE  Total(T \union {x}, f) = Plus(f[x], Total(T, f))
  <2> DEFINE U == T \union {x}
  <2>1. IsFiniteSet(U) /\ (\A y \in U : f[y] \in Counters) /\ x \in U /\ U \ {x} = T
    <3>1. U \in SUBSET S
      OBVIOUS
    <3> QED
      BY <3>1, FS_Subset
  <2> HIDE DEF U
  <2>2. Total(U, f) = Plus(f[x], Total(U \ {x}, f))
    BY <2>1, TotalStep
  <2> QED
    BY <2>1, <2>2 DEF U
<1> QED
  BY <1>1, <1>2, <1>3

\* Sums of equal things are equal, and of smaller things no larger.
LEMMA TotalEqual ==
    ASSUME NEW S, IsFiniteSet(S), NEW f, NEW g,
           \A x \in S : f[x] \in Counters /\ g[x] = f[x]
    PROVE  Total(S, f) = Total(S, g)
<1> DEFINE G == {T \in SUBSET S : Total(T, f) = Total(T, g)}
<1>1. (\A x \in S : f[x] \in Counters) /\ \A x \in S : g[x] \in Counters
  OBVIOUS
<1>2. {} \in G
  BY <1>1, TotalMore
<1>3. ASSUME NEW T \in SUBSET S, NEW x \in S \ T, T \in G
      PROVE  T \union {x} \in G
  <2>1. Total(T \union {x}, f) = Plus(f[x], Total(T, f))
    BY <1>1, TotalMore
  <2>2. Total(T \union {x}, g) = Plus(g[x], Total(T, g))
    BY <1>1, TotalMore
  <2> QED
    BY <1>3, <2>1, <2>2
<1> HIDE DEF G
<1>4. S \in G
  BY <1>2, <1>3, SetInduction
<1> QED
  BY <1>4 DEF G

\* Counters are ordered, and addition respects the order.
LEMMA AtMostCounters ==
    \A x, y, z, w \in Counters :
        /\ AtMost(x, x) /\ AtMost(Zero, x) /\ AtMost(x, Plus(x, y))
        /\ AtMost(x, y) /\ AtMost(y, z) => AtMost(x, z)
        /\ AtMost(x, y) /\ AtMost(z, w) => AtMost(Plus(x, z), Plus(y, w))
BY DEF Counters, AtMost, Plus, Zero

\* A sum of smaller counters is no larger.
LEMMA TotalAtMost ==
    ASSUME NEW S, IsFiniteSet(S), NEW f, NEW g,
           \A x \in S : f[x] \in Counters /\ g[x] \in Counters /\ AtMost(f[x], g[x])
    PROVE  AtMost(Total(S, f), Total(S, g))
<1> DEFINE G == {T \in SUBSET S : AtMost(Total(T, f), Total(T, g))}
<1>1. (\A x \in S : f[x] \in Counters) /\ \A x \in S : g[x] \in Counters
  OBVIOUS
<1>2. {} \in G
  <2>1. Total({}, f) = Zero /\ Total({}, g) = Zero
    BY <1>1, TotalMore
  <2>2. AtMost(Zero, Zero)
    BY DEF AtMost, Zero
  <2> QED
    BY <2>1, <2>2
<1>3. ASSUME NEW T \in SUBSET S, NEW x \in S \ T, T \in G
      PROVE  T \union {x} \in G
  <2>1. Total(T \union {x}, f) = Plus(f[x], Total(T, f)) /\ Total(T, f) \in Counters
    BY <1>1, TotalMore
  <2>2. Total(T \union {x}, g) = Plus(g[x], Total(T, g)) /\ Total(T, g) \in Counters
    BY <1>1, TotalMore
  <2>3. AtMost(Total(T, f), Total(T, g)) /\ AtMost(f[x], g[x])
    BY <1>3
  <2>4. AtMost(Plus(f[x], Total(T, f)), Plus(g[x], Total(T, g)))
    BY <1>1, <2>1, <2>2, <2>3, AtMostCounters
  <2> QED
    BY <2>1, <2>2, <2>4
<1> HIDE DEF G
<1>4. S \in G
  BY <1>2, <1>3, SetInduction
<1> QED
  BY <1>4 DEF G

\* The sum of the sums is the sum of all.
LEMMA TotalPlus ==
    ASSUME NEW S, IsFiniteSet(S), NEW f, NEW g, NEW h,
           \A x \in S : f[x] \in Counters /\ g[x] \in Counters /\ h[x] = Plus(f[x], g[x])
    PROVE  Total(S, h) = Plus(Total(S, f), Total(S, g))
<1> DEFINE G == {T \in SUBSET S : Total(T, h) = Plus(Total(T, f), Total(T, g))}
<1>1. (\A x \in S : f[x] \in Counters) /\ (\A x \in S : g[x] \in Counters) /\ \A x \in S : h[x] \in Counters
  BY PlusCounters
<1>2. {} \in G
  <2>1. Total({}, f) = Zero /\ Total({}, g) = Zero /\ Total({}, h) = Zero
    BY <1>1, TotalMore
  <2>2. Plus(Zero, Zero) = Zero
    BY DEF Plus, Zero
  <2> QED
    BY <2>1, <2>2
<1>3. ASSUME NEW T \in SUBSET S, NEW x \in S \ T, T \in G
      PROVE  T \union {x} \in G
  <2> DEFINE F == Total(T, f)
             H == Total(T, g)
  <2>1. Total(T \union {x}, f) = Plus(f[x], F) /\ F \in Counters
    BY <1>1, TotalMore
  <2>2. Total(T \union {x}, g) = Plus(g[x], H) /\ H \in Counters
    BY <1>1, TotalMore
  <2>3. Total(T \union {x}, h) = Plus(Plus(f[x], g[x]), Plus(F, H))
    BY <1>1, <1>3, TotalMore
  <2> HIDE DEF F, H
  <2>4. Plus(Plus(f[x], g[x]), Plus(F, H)) = Plus(Plus(f[x], F), Plus(g[x], H))
    BY <1>1, <2>1, <2>2 DEF Plus, Counters
  <2> QED
    BY <2>1, <2>2, <2>3, <2>4
<1> HIDE DEF G
<1>4. S \in G
  BY <1>2, <1>3, SetInduction
<1> QED
  BY <1>4 DEF G

\* The sum over two sets that share no element is the sum of their sums.
LEMMA TotalUnion ==
    ASSUME NEW S, IsFiniteSet(S), NEW T, IsFiniteSet(T), S \intersect T = {},
           NEW f, \A x \in S \union T : f[x] \in Counters
    PROVE  Total(S \union T, f) = Plus(Total(S, f), Total(T, f))
<1> DEFINE G == {V \in SUBSET S : Total(V \union T, f) = Plus(Total(V, f), Total(T, f))}
<1>1. IsFiniteSet(S \union T)
  BY FS_Union
<1>2. Total(T, f) \in Counters /\ Total({}, f) = Zero
  BY <1>1, TotalMore
<1>3. {} \in G
  <2>1. {} \union T = T
    OBVIOUS
  <2>2. Plus(Zero, Total(T, f)) = Total(T, f)
    BY <1>2, PlusCounters
  <2> QED
    BY <1>2, <2>1, <2>2
<1>4. ASSUME NEW V \in SUBSET S, NEW x \in S \ V, V \in G
      PROVE  V \union {x} \in G
  <2>1. Total(V \union {x}, f) = Plus(f[x], Total(V, f)) /\ Total(V, f) \in Counters
    BY TotalMore
  <2>2. V \union T \in SUBSET (S \union T) /\ x \in (S \union T) \ (V \union T)
        /\ (V \union T) \union {x} = (V \union {x}) \union T
    OBVIOUS
  <2>3. Total((V \union {x}) \union T, f) = Plus(f[x], Total(V \union T, f))
    <3> DEFINE W == V \union T
    <3>1. W \in SUBSET (S \union T) /\ x \in (S \union T) \ W
      BY <2>2
    <3> HIDE DEF W
    <3>2. Total(W \union {x}, f) = Plus(f[x], Total(W, f))
      BY <1>1, <3>1, TotalMore
    <3> QED
      BY <2>2, <3>2 DEF W
  <2>4. Total(V \union T, f) = Plus(Total(V, f), Total(T, f))
    BY <1>4
  <2>5. f[x] \in Counters
    OBVIOUS
  <2> DEFINE A == Total(V, f)
             B == Total(T, f)
  <2>7. A \in Counters /\ B \in Counters
    BY <1>2, <2>1
  <2> HIDE DEF A, B
  <2>6. Plus(f[x], Plus(A, B)) = Plus(Plus(f[x], A), B)
    BY <2>5, <2>7 DEF Plus, Counters
  <2> QED
    BY <2>1, <2>3, <2>4, <2>6 DEF A, B
<1> HIDE DEF G
<1>5. S \in G
  BY <1>3, <1>4, SetInduction
<1> QED
  BY <1>5 DEF G

\* A sum over fewer elements is no larger.
LEMMA TotalSubset ==
    ASSUME NEW S, IsFiniteSet(S), NEW f, \A x \in S : f[x] \in Counters, NEW T \in SUBSET S
    PROVE  AtMost(Total(T, f), Total(S, f))
<1>1. IsFiniteSet(T) /\ IsFiniteSet(S \ T) /\ T \union (S \ T) = S /\ T \intersect (S \ T) = {}
  BY FS_Subset
<1>2. Total(S, f) = Plus(Total(T, f), Total(S \ T, f))
  <2>1. Total(T \union (S \ T), f) = Plus(Total(T, f), Total(S \ T, f))
    BY <1>1, TotalUnion
  <2> QED
    BY <1>1, <2>1
<1>3. Total(T, f) \in Counters /\ Total(S \ T, f) \in Counters
  BY TotalMore
<1> QED
  BY <1>2, <1>3, AtMostCounters

\* Nothing adds up to nothing.
LEMMA TotalZero ==
    ASSUME NEW S, IsFiniteSet(S), NEW f, \A x \in S : f[x] = Zero
    PROVE  Total(S, f) = Zero
<1> DEFINE G == {T \in SUBSET S : Total(T, f) = Zero}
<1>0. Zero \in Counters /\ Plus(Zero, Zero) = Zero
  BY DEF Zero, Counters, Plus
<1>1. \A x \in S : f[x] \in Counters
  BY <1>0
<1>2. {} \in G
  BY <1>1, TotalMore
<1>3. ASSUME NEW T \in SUBSET S, NEW x \in S \ T, T \in G
      PROVE  T \union {x} \in G
  BY <1>0, <1>1, <1>3, TotalMore
<1> HIDE DEF G
<1>4. S \in G
  BY <1>2, <1>3, SetInduction
<1> QED
  BY <1>4 DEF G

\* One term more, one sum more.
LEMMA TotalAdd ==
    ASSUME NEW S, IsFiniteSet(S), NEW f, \A x \in S : f[x] \in Counters,
           NEW c \in S, NEW n \in Counters, NEW g, g[c] = Plus(f[c], n), \A x \in S \ {c} : g[x] = f[x]
    PROVE  Total(S, g) = Plus(Total(S, f), n)
<1>0. n \in Counters /\ f[c] \in Counters
  OBVIOUS
<1>8. Plus(f[c], n) \in Counters
  BY <1>0, PlusCounters
<1>1. \A x \in S : g[x] \in Counters
  BY <1>8
<1>2. IsFiniteSet(S \ {c})
  BY FS_Subset
<1>3. Total(S \ {c}, f) = Total(S \ {c}, g)
  BY <1>2, TotalEqual
<1> DEFINE A == Total(S \ {c}, f)
<1>4. A \in Counters /\ f[c] \in Counters
  BY TotalMore
<1>5. Total(S, f) = Plus(f[c], A)
  BY TotalStep
<1>6. Total(S, g) = Plus(Plus(f[c], n), A)
  BY <1>1, <1>3, TotalStep
<1> HIDE DEF A
<1>7. Plus(Plus(f[c], n), A) = Plus(Plus(f[c], A), n)
  BY <1>0, <1>4 DEF Plus, Counters
<1> QED
  BY <1>5, <1>6, <1>7

\* Rows and columns of a table: its sum is taken in either order.
Table(S, T, h, rows, cols) ==
    /\ \A x \in S, y \in T : h[<<x, y>>] \in Counters
    /\ \A x \in S : rows[x] = Total(T, [y \in T |-> h[<<x, y>>]])
    /\ \A y \in T : cols[y] = Total(S, [x \in S |-> h[<<x, y>>]])

\* A table comes to the same by its rows and by its columns.
LEMMA TotalSwap ==
    ASSUME NEW S, IsFiniteSet(S), NEW T, IsFiniteSet(T), NEW h, NEW rows, NEW cols,
           Table(S, T, h, rows, cols)
    PROVE  Total(S, rows) = Total(T, cols)
<1> DEFINE Row(x) == [y \in T |-> h[<<x, y>>]]
           Col(y) == [x \in S |-> h[<<x, y>>]]
           f == [x \in S |-> Total(T, Row(x))]
           g(V) == [y \in T |-> Total(V, Col(y))]
           G == {V \in SUBSET S : Total(V, f) = Total(T, g(V))}
<1>0. \A x \in S, y \in T : h[<<x, y>>] \in Counters
  BY DEF Table
<1>1. ASSUME NEW x \in S
      PROVE  Total(T, Row(x)) \in Counters
  <2> DEFINE r == Row(x)
  <2>1. \A y \in T : r[y] \in Counters
    BY <1>0
  <2> HIDE DEF r
  <2>2. Total(T, r) \in Counters
    BY <2>1, TotalMore
  <2> QED
    BY <2>2 DEF r
<1>2. \A x \in S : f[x] = Total(T, Row(x)) /\ f[x] \in Counters
  BY <1>1
<1>3. ASSUME NEW y \in T
      PROVE  /\ Total({}, Col(y)) = Zero
             /\ \A V \in SUBSET S : Total(V, Col(y)) \in Counters
             /\ \A V \in SUBSET S : \A x \in S \ V :
                    Total(V \union {x}, Col(y)) = Plus(h[<<x, y>>], Total(V, Col(y)))
  <2>1. \A x \in S : Col(y)[x] = h[<<x, y>>] /\ Col(y)[x] \in Counters
    BY <1>0
  <2> DEFINE c == Col(y)
  <2>2. (\A x \in S : c[x] \in Counters) /\ \A x \in S : c[x] = h[<<x, y>>]
    BY <2>1
  <2> HIDE DEF c
  <2>3. /\ Total({}, c) = Zero
        /\ \A V \in SUBSET S : Total(V, c) \in Counters
        /\ \A V \in SUBSET S : \A x \in S \ V : Total(V \union {x}, c) = Plus(c[x], Total(V, c))
    BY <2>2, TotalMore
  <2>4. \A V \in SUBSET S : \A x \in S \ V :
            Total(V \union {x}, c) = Plus(h[<<x, y>>], Total(V, c))
    BY <2>2, <2>3
  <2> HIDE DEF Col
  <2> QED
    BY <2>3, <2>4 DEF c
<1>4. \A x \in S, y \in T : Row(x)[y] = h[<<x, y>>]
  OBVIOUS
<1> HIDE DEF Row, Col, f
<1>5. {} \in G
  <2>1. \A y \in T : g({})[y] = Zero
    BY <1>3
  <2> HIDE DEF g
  <2>2. Total(T, g({})) = Zero
    BY <2>1, TotalZero
  <2> QED
    BY <1>2, <2>2, TotalMore
<1>6. ASSUME NEW V \in SUBSET S, NEW x \in S \ V, V \in G
      PROVE  V \union {x} \in G
  <2>1. Total(V \union {x}, f) = Plus(Total(T, Row(x)), Total(T, g(V)))
    <3>1. Total(V \union {x}, f) = Plus(f[x], Total(V, f))
      BY <1>2, TotalMore
    <3>2. Total(V, f) = Total(T, g(V)) /\ f[x] = Total(T, Row(x))
      BY <1>2, <1>6
    <3> QED
      BY <3>1, <3>2
  <2>2. ASSUME NEW y \in T
        PROVE  /\ Row(x)[y] \in Counters /\ g(V)[y] \in Counters
               /\ g(V \union {x})[y] = Plus(Row(x)[y], g(V)[y])
    BY <1>0, <1>3, <1>4
  <2> HIDE DEF g
  <2>3. Total(T, g(V \union {x})) = Plus(Total(T, Row(x)), Total(T, g(V)))
    BY <2>2, TotalPlus
  <2>4. V \union {x} \in SUBSET S
    OBVIOUS
  <2> QED
    BY <2>1, <2>3, <2>4
<1> HIDE DEF G
<1>7. S \in G
  BY <1>5, <1>6, SetInduction
<1>8. (\A x \in S : f[x] \in Counters /\ rows[x] = f[x]) /\ \A y \in T : g(S)[y] \in Counters /\ cols[y] = g(S)[y]
  BY <1>2, <1>3 DEF Row, Col, g, f, Table
<1>9. Total(S, rows) = Total(S, f) /\ Total(T, cols) = Total(T, g(S))
  <2> HIDE DEF g
  <2> QED
    BY <1>8, TotalEqual
<1> QED
  BY <1>7, <1>9 DEF G

\* Things of several kinds: the sum of what each kind comes to is the sum of all.
ByKind(M, I, kind, f, all) ==
    /\ \A i \in I : kind[i] \in M
    /\ \A m \in M : all[m] = Total({i \in I : kind[i] = m}, f)

\* Elements summed kind by kind come to the sum of all.
LEMMA TotalByKind ==
    ASSUME NEW M, IsFiniteSet(M), NEW I, IsFiniteSet(I), NEW f, \A i \in I : f[i] \in Counters,
           NEW kind, NEW all, ByKind(M, I, kind, f, all)
    PROVE  Total(M, all) = Total(I, f)
<1> DEFINE Of(V, m) == {i \in V : kind[i] = m}
           g(V) == [m \in M |-> Total(Of(V, m), f)]
           G == {V \in SUBSET I : Total(M, g(V)) = Total(V, f)}
<1>1. \A V \in SUBSET I : \A m \in M : g(V)[m] = Total(Of(V, m), f) /\ g(V)[m] \in Counters
  <2>1. \A V \in SUBSET I : \A m : Of(V, m) \in SUBSET I
    OBVIOUS
  <2> HIDE DEF Of
  <2> QED
    BY <2>1, TotalMore
<1>2. {} \in G
  <2>1. \A m \in M : Of({}, m) = {}
    OBVIOUS
  <2> HIDE DEF Of
  <2>2. \A m \in M : g({})[m] = Zero
    BY <2>1, TotalMore
  <2> HIDE DEF g
  <2> QED
    BY <2>2, TotalZero, TotalMore
<1>3. ASSUME NEW V \in SUBSET I, NEW x \in I \ V, V \in G
      PROVE  V \union {x} \in G
  <2> DEFINE W == V \union {x}
             c == kind[x]
  <2>0. W \in SUBSET I /\ c \in M /\ f[x] \in Counters
    BY DEF ByKind
  <2>1. Of(W, c) = Of(V, c) \union {x} /\ Of(V, c) \in SUBSET I /\ x \notin Of(V, c)
    OBVIOUS
  <2>2. \A m \in M \ {c} : Of(W, m) = Of(V, m)
    OBVIOUS
  <2>3. Total(W, f) = Plus(f[x], Total(V, f)) /\ Total(V, f) \in Counters
    BY TotalMore
  <2> HIDE DEF W, c, Of
  <2>4. Total(Of(W, c), f) = Plus(f[x], Total(Of(V, c), f)) /\ Total(Of(V, c), f) \in Counters
    BY <2>1, TotalMore
  <2>5. Total(Of(W, c), f) = Plus(Total(Of(V, c), f), f[x])
    BY <2>0, <2>4, PlusCounters
  <2>6. g(W)[c] = Plus(g(V)[c], f[x]) /\ \A m \in M \ {c} : g(W)[m] = g(V)[m]
    BY <2>0, <2>2, <2>5
  <2>7. \A m \in M : g(V)[m] \in Counters
    BY <1>1
  <2> HIDE DEF g
  <2>8. Total(M, g(W)) = Plus(Total(M, g(V)), f[x])
    BY <2>0, <2>6, <2>7, TotalAdd
  <2>9. Total(M, g(V)) = Total(V, f)
    BY <1>3
  <2>10. Total(M, g(W)) = Total(W, f)
    BY <2>0, <2>3, <2>8, <2>9, PlusCounters
  <2> QED
    BY <2>0, <2>10 DEF W
<1> HIDE DEF G
<1>4. I \in G
  BY <1>2, <1>3, SetInduction
<1>5. \A m \in M : g(I)[m] \in Counters /\ all[m] = g(I)[m]
  BY <1>1 DEF g, Of, ByKind
<1>6. Total(M, g(I)) = Total(M, all)
  <2> HIDE DEF g
  <2> QED
    BY <1>5, TotalEqual
<1> QED
  BY <1>4, <1>6 DEF G

-----------------------------------------------------------------------------
(* An import goes through its files one after the other.                   *)

\* A set of numbers up to n has a largest one.
LEMMA LargestOf ==
    ASSUME NEW n \in Nat, NEW s \in SUBSET (1 .. n), s # {}
    PROVE  Max(s) \in s
<1> DEFINE below == {n - i : i \in s}
<1>1. below \in SUBSET Nat /\ below # {}
  <2>1. \A i \in s : n - i \in Nat
    OBVIOUS
  <2> QED
    BY <2>1
<1>2. PICK k \in below : \A m \in below : k <= m
  BY <1>1, NatLeast
<1>3. PICK i \in s : k = n - i
  BY <1>2
<1>4. ASSUME NEW j \in s
      PROVE  i >= j
  <2>1. n - j \in below
    OBVIOUS
  <2>2. n - i <= n - j
    BY <1>2, <1>3, <2>1
  <2> QED
    BY <2>2
<1> QED
  BY <1>4 DEF Max

\* What holds at the start, and after each file if it held before, holds at the end.
LEMMA ImportStays ==
    ASSUME NEW n \in Nat, NEW batch, DOMAIN batch = 1 .. n, NEW V, NEW start \in V,
           \A acc \in V, i \in 1 .. n : ImportSource(acc, batch[i]) \in V
    PROVE  FoldLeft(ImportSource, start, batch) \in V
<1> DEFINE D == 1 .. n
           Imports(g, s) == IF s = {} THEN start ELSE ImportSource(g[s \ {Max(s)}], batch[Max(s)])
           pick == [s \in SUBSET D |-> Max(s)]
           step == [q \in (SUBSET D) \X V |->
                       IF q[1] = {} THEN start ELSE ImportSource(q[2], batch[Max(q[1])])]
<1>1. FoldLeft(ImportSource, start, batch)
      = (CHOOSE g : g = [s \in SUBSET D |-> Imports(g, s)])[D]
  BY DEF FoldLeft, MapThenFoldSet
<1>2. \A s \in SUBSET D : pick[s] = Max(s) /\ (s # {} => Max(s) \in s)
  BY LargestOf
<1>3. ASSUME NEW s \in SUBSET D, NEW v \in V
      PROVE  /\ step[<<s, v>>] = (IF s = {} THEN start ELSE ImportSource(v, batch[Max(s)]))
             /\ step[<<s, v>>] \in V
  <2>1. <<s, v>> \in (SUBSET D) \X V
    BY <1>3
  <2>2. step[<<s, v>>] = IF s = {} THEN start ELSE ImportSource(v, batch[Max(s)])
    BY <2>1
  <2>3. s # {} => Max(s) \in 1 .. n
    BY <1>2
  <2> QED
    BY <2>2, <2>3
<1> HIDE DEF pick, step
<1>4. IsFiniteSet(D)
  BY FS_Interval
<1>5. PICK g : Folds(D, start, pick, step, g) /\ \A s \in SUBSET D : g[s] \in V
  <2>2. \A s \in SUBSET D : s # {} => pick[s] \in s
    BY <1>2
  <2>3. \A s \in SUBSET D, v \in V : step[<<s, v>>] \in V
    BY <1>3
  <2> HIDE DEF D
  <2> QED
    BY <1>4, <2>2, <2>3, FoldsExist
<1>6. ASSUME NEW s \in SUBSET D
      PROVE  (IF s = {} THEN start ELSE step[<<s, g[s \ {pick[s]}]>>]) = Imports(g, s)
  <2> DEFINE t == s \ {Max(s)}
  <2>1. t \in SUBSET D /\ g[t] \in V /\ pick[s] = Max(s)
    BY <1>2, <1>5
  <2>2. step[<<s, g[t]>>] = IF s = {} THEN start ELSE ImportSource(g[t], batch[Max(s)])
    BY <1>3, <2>1
  <2> QED
    BY <2>1, <2>2
<1>7. g = [s \in SUBSET D |-> Imports(g, s)]
  BY <1>5, <1>6, Zenon DEF Folds
<1> DEFINE all == CHOOSE u : u = [s \in SUBSET D |-> Imports(u, s)]
<1> HIDE DEF Imports
<1>8. all = [s \in SUBSET D |-> Imports(all, s)]
  BY <1>7
<1>9. ASSUME NEW s \in SUBSET D, all[s] \notin V
      PROVE  FALSE
  <2> DEFINE B == {t \in SUBSET D : all[t] \notin V}
  <2>1. B # {} /\ \A t \in B : IsFiniteSet(t)
    BY <1>4, <1>9, FS_Subset
  <2> HIDE DEF B
  <2>2. PICK t \in B : \A u \in B : Cardinality(t) <= Cardinality(u)
    BY <2>1, SmallestSet
  <2>3. t \in SUBSET D /\ all[t] \notin V /\ all[t] = Imports(all, t)
    BY <1>8, <2>2, Zenon DEF B
  <2>4. t # {}
    BY <2>3 DEF Imports
  <2> DEFINE m == Max(t)
             u == t \ {m}
  <2>5. m \in t /\ m \in 1 .. n
    BY <1>2, <2>3, <2>4
  <2>6. Cardinality(u) = Cardinality(t) - 1 /\ Cardinality(t) \in Nat
    BY <2>1, <2>5, FS_RemoveElement, FS_CardinalityType
  <2>7. u \in SUBSET D /\ u \notin B
    BY <2>2, <2>3, <2>6
  <2>8. all[u] \in V
    BY <2>7 DEF B
  <2>9. all[t] = ImportSource(all[u], batch[m])
    BY <2>3, <2>4 DEF Imports
  <2> QED
    BY <2>3, <2>5, <2>8, <2>9
<1> QED
  BY <1>1, <1>9

-----------------------------------------------------------------------------
(* What the operators of the tables yield.                                 *)

\* There are finitely many model names, the empty one among them.
LEMMA FiniteNames == IsFiniteSet(Names) /\ Unnamed \in Names /\ Model \subseteq Names
BY NamesAssumption, FS_AddElement DEF Names

\* A request is counters.
LEMMA RequestType == \A m : Request(m) \in Counters
BY DEF Request, Tokens, Counters

\* So is what is shown of a row.
LEMMA ShownType == \A x \in Counters \union {None} : Shown(x) \in Counters
BY PlusCounters DEF Shown

CostOf(a) == [i \in DOMAIN log[a] |-> Request(log[a][i][2])]

\* x is what some requests of the key come to.
Part(a, k, x) ==
    x = None \/ \E I \in SUBSET {i \in DOMAIN log[a] : log[a][i] = k} : x = Total(I, [i \in I |-> Request(k[2])])

\* A log has finitely many requests, each of a day and a model.
LEMMA LogFinite ==
    ASSUME log \in [Account -> Seq(Key)], NEW a \in Account
    PROVE  /\ DOMAIN log[a] = 1 .. Len(log[a]) /\ Len(log[a]) \in Nat
           /\ IsFiniteSet(DOMAIN log[a])
           /\ \A R \in SUBSET DOMAIN log[a] : IsFiniteSet(R)
           /\ \A i \in DOMAIN log[a] : log[a][i] \in Key /\ log[a][i][1] \in Day /\ log[a][i][2] \in Names
                /\ log[a][i] = <<log[a][i][1], log[a][i][2]>>
<1>1. log[a] \in Seq(Key)
  OBVIOUS
<1>2. DOMAIN log[a] = 1 .. Len(log[a]) /\ Len(log[a]) \in Nat
      /\ \A i \in DOMAIN log[a] : log[a][i] \in Key
  BY <1>1
<1>3. IsFiniteSet(1 .. Len(log[a]))
  BY <1>2, FS_Interval
<1>4. \A k \in Key : k[1] \in Day /\ k[2] \in Names /\ k = <<k[1], k[2]>>
  BY DEF Key
<1> QED
  BY <1>2, <1>3, <1>4, FS_Subset

\* The rows of a day, from requests of that day.
LEMMA ReadingsOfDay ==
    ASSUME log \in [Account -> Seq(Key)], NEW a \in Account, NEW R \in SUBSET DOMAIN log[a],
           NEW d \in Day, \A i \in R : log[a][i][1] = d
    PROVE  /\ Readings(a, R) \in [Names -> Counters \union {None}]
           /\ \A m \in Names : Part(a, <<d, m>>, Readings(a, R)[m])
           /\ Total(Names, [m \in Names |-> Shown(Readings(a, R)[m])]) = Total(R, CostOf(a))
<1> DEFINE Mine(m) == {i \in R : log[a][i][2] = m}
           Sum(m) == Total(Mine(m), [i \in Mine(m) |-> Request(m)])
           kind == [i \in R |-> log[a][i][2]]
<1>1. /\ IsFiniteSet(R) /\ IsFiniteSet(DOMAIN log[a])
      /\ \A i \in DOMAIN log[a] : log[a][i][2] \in Names /\ log[a][i] = <<log[a][i][1], log[a][i][2]>>
  BY LogFinite
<1>2. \A i \in DOMAIN log[a] : CostOf(a)[i] = Request(log[a][i][2]) /\ CostOf(a)[i] \in Counters
  BY RequestType DEF CostOf
<1>3. ASSUME NEW m \in Names
      PROVE  /\ Mine(m) \subseteq R /\ IsFiniteSet(Mine(m)) /\ Sum(m) \in Counters
             /\ Sum(m) = Total(Mine(m), CostOf(a))
             /\ Mine(m) \in SUBSET {i \in DOMAIN log[a] : log[a][i] = <<d, m>>}
  <2>1. Mine(m) \subseteq R /\ IsFiniteSet(Mine(m))
    BY <1>1, FS_Subset
  <2>2. \A i \in Mine(m) : [j \in Mine(m) |-> Request(m)][i] = Request(m) /\ Request(m) = CostOf(a)[i]
    BY <1>2
  <2>3. \A i \in Mine(m) : log[a][i] = <<d, m>>
    BY <1>1
  <2> DEFINE t == Mine(m)
             f == [j \in t |-> Request(m)]
             g == CostOf(a)
  <2>4. IsFiniteSet(t) /\ \A i \in t : f[i] \in Counters /\ g[i] = f[i]
    BY <2>1, <2>2, RequestType
  <2> HIDE DEF f, g, t
  <2>5. Total(t, f) \in Counters /\ Total(t, f) = Total(t, g)
    BY <2>4, TotalMore, TotalEqual
  <2> QED
    BY <2>1, <2>3, <2>5 DEF f, g, t
<1>4. \A m \in Names : Readings(a, R)[m] = IF Mine(m) = {} THEN None ELSE Sum(m)
  BY DEF Readings
<1>5. ASSUME NEW m \in Names
      PROVE  Shown(Readings(a, R)[m]) = Total({i \in R : kind[i] = m}, CostOf(a))
  <2>1. {i \in R : kind[i] = m} = Mine(m)
    OBVIOUS
  <2>2. CASE Mine(m) = {}
    <3>1. Total({}, CostOf(a)) = Zero
      BY <1>1, <1>2, TotalMore
    <3> QED
      BY <1>4, <2>1, <2>2, <3>1 DEF Shown
  <2>3. CASE Mine(m) # {}
    <3>1. Readings(a, R)[m] = Sum(m) /\ Sum(m) \in Counters /\ Sum(m) = Total(Mine(m), CostOf(a))
      BY <1>3, <1>4, <2>3
    <3> HIDE DEF Sum, Mine
    <3> QED
      BY <2>1, <3>1, NoneAssumption DEF Shown
  <2> QED
    BY <2>2, <2>3
<1>6. Readings(a, R) \in [Names -> Counters \union {None}]
  <2>1. \A m \in Names : (IF Mine(m) = {} THEN None ELSE Sum(m)) \in Counters \union {None}
    BY <1>3
  <2>2. Readings(a, R) = [m \in Names |-> IF Mine(m) = {} THEN None ELSE Sum(m)]
    BY DEF Readings
  <2> QED
    BY <2>1, <2>2
<1>7. ASSUME NEW m \in Names
      PROVE  Part(a, <<d, m>>, Readings(a, R)[m])
  BY <1>3, <1>4 DEF Part
<1>8. Total(Names, [m \in Names |-> Shown(Readings(a, R)[m])]) = Total(R, CostOf(a))
  <2>1. [m \in Names |-> Shown(Readings(a, R)[m])] = [m \in Names |-> Total({i \in R : kind[i] = m}, CostOf(a))]
    BY <1>5
  <2> DEFINE c == CostOf(a)
             all == [m \in Names |-> Total({i \in R : kind[i] = m}, c)]
  <2>2. \A i \in R : c[i] \in Counters
    BY <1>2
  <2>3. ByKind(Names, R, kind, c, all)
    BY <1>1 DEF ByKind
  <2> HIDE DEF kind, c, all
  <2>4. Total(Names, all) = Total(R, c)
    BY <1>1, <2>2, <2>3, FiniteNames, TotalByKind
  <2> QED
    BY <2>1, <2>4 DEF c, all
<1> QED
  BY <1>6, <1>7, <1>8

\* What a file's entries come to on a day.
DayOf(ent, d) == [s \in Source |-> Total(Model, [m \in Model |-> Shown(ent[s][<<d, m>>])])]

\* The totals of a rollout file are counters on every day.
LEMMA TotalsShown ==
    ASSUME NEW t \in Totals, NEW d \in Day
    PROVE  /\ \A m \in Model : Shown(t[<<d, m>>]) \in Counters
           /\ Total(Model, [m \in Model |-> Shown(t[<<d, m>>])]) \in Counters
<1> DEFINE f == [m \in Model |-> Shown(t[<<d, m>>])]
<1>1. \A m \in Model : Shown(t[<<d, m>>]) \in Counters
  BY ShownType DEF Totals
<1>2. (\A m \in Model : f[m] \in Counters) /\ IsFiniteSet(Model)
  BY <1>1, NamesAssumption
<1> HIDE DEF f
<1>3. Total(Model, f) \in Counters
  BY <1>2, TotalMore
<1> QED
  BY <1>1, <1>3 DEF f

\* A row built from entries is the sum of the files' entries.
LEMMA EntriesOfKey ==
    ASSUME NEW ent \in [Source -> Totals], NEW d \in Day, NEW m \in Model
    PROVE  /\ FromEntries(ent)[<<d, m>>] \in Counters \union {None}
           /\ Shown(FromEntries(ent)[<<d, m>>]) = Total(Source, [s \in Source |-> Shown(ent[s][<<d, m>>])])
<1> DEFINE k == <<d, m>>
           of == {s \in Source : ent[s][k] # None}
           f == [s \in of |-> ent[s][k]]
           g == [s \in Source |-> Shown(ent[s][k])]
<1>1. FromEntries(ent)[k] = IF of # {} THEN Total(of, f) ELSE None
  BY NamesAssumption DEF FromEntries, Key, Names
<1>2. \A s \in Source : ent[s][k] \in Counters \union {None}
  BY DEF Totals
<1>3. IsFiniteSet(Source) /\ of \in SUBSET Source /\ IsFiniteSet(of) /\ IsFiniteSet(Source \ of)
      /\ of \union (Source \ of) = Source /\ of \intersect (Source \ of) = {}
  BY NamesAssumption, FS_Subset
<1>4. \A s \in of : f[s] \in Counters /\ g[s] = f[s]
  BY <1>2 DEF Shown
<1>5. \A s \in Source \ of : g[s] = Zero
  BY DEF Shown
<1>6. \A s \in Source : g[s] \in Counters
  BY <1>2, ShownType
<1> HIDE DEF of, f, g
<1>7. Total(of, f) = Total(of, g) /\ Total(of, g) \in Counters
  BY <1>3, <1>4, <1>6, TotalEqual, TotalMore
<1>8. Total(Source \ of, g) = Zero
  BY <1>3, <1>5, TotalZero
<1>9. Total(Source, g) = Plus(Total(of, g), Total(Source \ of, g))
  <2> DEFINE rest == Source \ of
  <2>1. IsFiniteSet(rest) /\ of \intersect rest = {} /\ of \union rest = Source
        /\ \A s \in of \union rest : g[s] \in Counters
    BY <1>3, <1>6
  <2> HIDE DEF rest
  <2>2. Total(of \union rest, g) = Plus(Total(of, g), Total(rest, g))
    BY <1>3, <2>1, TotalUnion
  <2> QED
    BY <2>1, <2>2 DEF rest
<1>10. Total(Source, g) = Total(of, f)
  BY <1>7, <1>8, <1>9, PlusCounters
<1>11. CASE of = {}
  <2>1. Total(of, g) = Zero
    BY <1>6, <1>3, <1>11, TotalMore
  <2>2. FromEntries(ent)[k] = None
    BY <1>1, <1>11
  <2>3. Shown(None) = Zero
    BY DEF Shown
  <2> QED
    BY <1>7, <1>10, <2>1, <2>2, <2>3 DEF g
<1>12. CASE of # {}
  <2>1. FromEntries(ent)[k] = Total(of, f) /\ Total(of, f) \in Counters
    BY <1>1, <1>7, <1>12
  <2>2. Shown(Total(of, f)) = Total(of, f)
    BY <2>1, NoneAssumption DEF Shown
  <2> QED
    BY <1>10, <2>1, <2>2 DEF g
<1> QED
  BY <1>11, <1>12

\* The rows that entries make come to what the files come to, day by day.
LEMMA RowsFromEntries ==
    ASSUME NEW ent \in [Source -> Totals]
    PROVE  /\ FromEntries(ent) \in [Key -> Counters \union {None}]
           /\ \A d \in Day : Total(Names, [m \in Names |-> Shown(FromEntries(ent)[<<d, m>>])])
                               = Total(Source, DayOf(ent, d))
<1>1. \A d \in Day : FromEntries(ent)[<<d, Unnamed>>] = None
  BY NamesAssumption DEF FromEntries, Key, Names
<1>2. FromEntries(ent) \in [Key -> Counters \union {None}]
  <2>1. ASSUME NEW k \in Key
        PROVE  FromEntries(ent)[k] \in Counters \union {None}
    <3>1. k[1] \in Day /\ k = <<k[1], k[2]>> /\ (k[2] \in Model \/ k[2] = Unnamed)
      BY DEF Key, Names
    <3> QED
      BY <1>1, <3>1, EntriesOfKey
  <2>2. FromEntries(ent) = [k \in Key |-> FromEntries(ent)[k]]
    BY DEF FromEntries
  <2> QED
    BY <2>1, <2>2
<1>3. ASSUME NEW d \in Day
      PROVE  Total(Names, [m \in Names |-> Shown(FromEntries(ent)[<<d, m>>])]) = Total(Source, DayOf(ent, d))
  <2> DEFINE f == [m \in Names |-> Shown(FromEntries(ent)[<<d, m>>])]
             h == [q \in Model \X Source |-> Shown(ent[q[2]][<<d, q[1]>>])]
             cols == DayOf(ent, d)
  <2>1. /\ f[Unnamed] = Zero
        /\ \A m \in Model : f[m] = Total(Source, [s \in Source |-> Shown(ent[s][<<d, m>>])])
    BY <1>1, EntriesOfKey, FiniteNames DEF Shown
  <2>2. \A m \in Names : f[m] \in Counters
    <3>1. \A m \in Names : <<d, m>> \in Key
      BY DEF Key
    <3> QED
      BY <1>2, <3>1, ShownType
  <2>3. \A m \in Model, s \in Source : h[<<m, s>>] = Shown(ent[s][<<d, m>>]) /\ h[<<m, s>>] \in Counters
    BY ShownType DEF Totals
  <2>4. Table(Model, Source, h, f, cols)
    <3> HIDE DEF h, f
    <3>1. \A m \in Model : [s \in Source |-> Shown(ent[s][<<d, m>>])] = [s \in Source |-> h[<<m, s>>]]
      BY <2>3
    <3>2. \A s \in Source : [m \in Model |-> Shown(ent[s][<<d, m>>])] = [m \in Model |-> h[<<m, s>>]]
      BY <2>3
    <3>3. \A s \in Source : cols[s] = Total(Model, [m \in Model |-> h[<<m, s>>]])
      BY <3>2 DEF DayOf
    <3>4. \A m \in Model : f[m] = Total(Source, [s \in Source |-> h[<<m, s>>]])
      BY <2>1, <3>1
    <3> HIDE DEF cols
    <3> QED
      BY <2>3, <3>3, <3>4 DEF Table
  <2> HIDE DEF f, h, cols
  <2>5. Total(Model, f) = Total(Source, cols)
    BY <2>4, NamesAssumption, TotalSwap
  <2>6. Total(Names, f) = Plus(f[Unnamed], Total(Names \ {Unnamed}, f))
    BY <2>2, FiniteNames, TotalStep
  <2>7. Names \ {Unnamed} = Model /\ Total(Model, f) \in Counters
    BY <2>2, NamesAssumption, FiniteNames, TotalMore DEF Names
  <2>8. Total(Names, f) = Total(Model, f)
    BY <2>1, <2>6, <2>7, PlusCounters
  <2> QED
    BY <2>5, <2>8 DEF f, cols
<1> QED
  BY <1>2, <1>3

\* No entries make no rows.
LEMMA NothingFromNothing == NoEntries \in [Source -> Totals] /\ FromEntries(NoEntries) = NoRows
BY DEF NoEntries, Totals, FromEntries, NoRows, Key

-----------------------------------------------------------------------------
(* Imports.                                                                *)

\* The entries of each file are those of the version whose hash is stored.
Matches(a, h, e) ==
    \A s \in Source :
        IF h[s] = None THEN e[s] = [k \in Day \X Model |-> None]
        ELSE h[s] \in 1 .. Len(file[a][s]) /\ e[s] = file[a][s][h[s]]

Imported(a) ==
    {acc \in [hash : [Source -> (1 .. MaxVersion) \union {None}], entries : [Source -> Totals], changed : BOOLEAN] :
        /\ Matches(a, acc.hash, acc.entries)
        /\ ~acc.changed => acc.hash = hash[a] /\ acc.entries = entries[a]}

\* One file of a batch leaves what has been imported a set of versions of
\* the files.
LEMMA ImportOfFile ==
    ASSUME NEW a \in Account, file \in [Account -> [Source -> Seq(Totals)]],
           NEW acc \in Imported(a), NEW s \in Source, NEW v \in 1 .. MaxVersion, v <= Len(file[a][s])
    PROVE  ImportSource(acc, File(a, s, v)) \in Imported(a)
<1> DEFINE f == File(a, s, v)
<1>1. f.source = s /\ f.hash = v /\ f.entries = file[a][s][v]
  BY DEF File
<1> HIDE DEF f
<1>2. v \in 1 .. Len(file[a][s]) /\ file[a][s][v] \in Totals /\ v # None
  <2>1. file[a][s] \in Seq(Totals) /\ v \in Nat /\ v >= 1 /\ Len(file[a][s]) \in Nat
    BY BoundsAssumption
  <2> QED
    BY <2>1, NoneAssumption
<1>3. acc.hash \in [Source -> (1 .. MaxVersion) \union {None}] /\ acc.entries \in [Source -> Totals]
      /\ Matches(a, acc.hash, acc.entries)
  BY DEF Imported
<1>4. CASE acc.hash[s] = v
  <2>1. ImportSource(acc, f) = acc
    BY <1>1, <1>4 DEF ImportSource
  <2> QED
    BY <2>1 DEF f
<1>5. CASE acc.hash[s] # v
  <2> DEFINE h == [acc.hash EXCEPT ![s] = v]
             e == [acc.entries EXCEPT ![s] = file[a][s][v]]
  <2>1. ImportSource(acc, f) = [hash |-> h, entries |-> e, changed |-> TRUE]
    BY <1>1, <1>5 DEF ImportSource
  <2>2. h \in [Source -> (1 .. MaxVersion) \union {None}] /\ e \in [Source -> Totals]
    BY <1>2, <1>3
  <2>3. Matches(a, h, e)
    BY <1>2, <1>3 DEF Matches
  <2> HIDE DEF h, e
  <2> QED
    BY <2>1, <2>2, <2>3 DEF Imported, f
<1> QED
  BY <1>4, <1>5 DEF f

\* A set that is made a list has its elements.
LEMMA ListOfSet ==
    ASSUME NEW S, IsFiniteSet(S)
    PROVE  SetToSeq(S) \in [1 .. Cardinality(S) -> S] /\ Cardinality(S) \in Nat
<1>1. \E f \in [1 .. Cardinality(S) -> S] : IsInjective(f)
  BY FS_CardinalityType DEF ExistsBijection, Bijection, Injection
<1> QED
  BY <1>1, FS_CardinalityType DEF SetToSeq

\* A whole batch does, whatever its order.
LEMMA ImportOutcome ==
    ASSUME NEW a \in Account, file \in [Account -> [Source -> Seq(Totals)]],
           hash \in [Account -> [Source -> (1 .. MaxVersion) \union {None}]],
           entries \in [Account -> [Source -> Totals]],
           Matches(a, hash[a], entries[a]),
           NEW S \in SUBSET Source, NEW read \in [S -> 1 .. MaxVersion],
           \A s \in S : read[s] <= Len(file[a][s])
    PROVE  FoldLeft(ImportSource, [hash |-> hash[a], entries |-> entries[a], changed |-> FALSE],
                    SetToSeq({File(a, s, read[s]) : s \in S})) \in Imported(a)
<1> DEFINE files == {File(a, s, read[s]) : s \in S}
           batch == SetToSeq(files)
           start == [hash |-> hash[a], entries |-> entries[a], changed |-> FALSE]
           n == Cardinality(files)
<1>1. IsFiniteSet(files)
  <2> DEFINE f == [s \in S |-> File(a, s, read[s])]
  <2>1. f \in Surjection(S, files)
    BY DEF Surjection
  <2>2. IsFiniteSet(S)
    BY NamesAssumption, FS_Subset
  <2> HIDE DEF f, files
  <2> QED
    BY <2>1, <2>2, FS_Surjection
<1>2. batch \in [1 .. n -> files] /\ n \in Nat
  BY <1>1, ListOfSet
<1>3. start \in Imported(a)
  BY DEF Imported
<1>4. ASSUME NEW acc \in Imported(a), NEW i \in 1 .. n
      PROVE  ImportSource(acc, batch[i]) \in Imported(a)
  <2>1. batch[i] \in files
    BY <1>2
  <2>2. PICK s \in S : batch[i] = File(a, s, read[s])
    BY <2>1
  <2>3. s \in Source /\ read[s] \in 1 .. MaxVersion /\ read[s] <= Len(file[a][s])
    OBVIOUS
  <2> QED
    BY <2>2, <2>3, ImportOfFile
<1> DEFINE V == Imported(a)
<1> HIDE DEF batch, start, n, V
<1>5. DOMAIN batch = 1 .. n /\ start \in V /\ \A acc \in V, i \in 1 .. n : ImportSource(acc, batch[i]) \in V
  BY <1>2, <1>3, <1>4 DEF V
<1>6. FoldLeft(ImportSource, start, batch) \in V
  BY <1>2, <1>5, ImportStays
<1> QED
  BY <1>6 DEF batch, start, V

-----------------------------------------------------------------------------
(* Types.                                                                  *)

\* The files imported are as stored; a sync is of a TokenRhythm account, and
\* has a panel of that account's requests when it comes to write it.
Imports == \A a \in Account : Provider[a] = "codex" => Matches(a, hash[a], entries[a])

Syncing == \A p \in Process : sync[p].at # "idle" =>
    /\ Provider[sync[p].account] = "tokenrhythm"
    /\ sync[p].at = "write" =>
         /\ sync[p].panel \in Panel
         /\ \A m \in Names : Part(sync[p].account, <<sync[p].panel.day, m>>, sync[p].panel.readings[m])

\* A set of days has a first one.
LEMMA SmallestDay == \A s \in SUBSET Day : s # {} => Min(s) \in s
<1> SUFFICES ASSUME NEW s \in SUBSET Day, s # {}
             PROVE  Min(s) \in s
  OBVIOUS
<1>1. s \in SUBSET Nat
  BY LastDayAssumption DEF Day
<1>2. \E m \in s : \A n \in s : m <= n
  BY <1>1, NatLeast
<1>3. PICK m \in s : \A n \in s : m =< n
  BY <1>2
<1> QED
  BY <1>3 DEF Min

\* Sums of counters are counters,
LEMMA PlusType == \A x, y \in Counters : Plus(x, y) \in Counters
BY PlusCounters

\* their difference is, unless one went back,
LEMMA MinusType == \A x, y \in Counters : ~RolledBack(y, x) => Minus(x, y) \in Counters
BY DEF Counters, RolledBack, AtMost, Minus

\* and nothing is.
LEMMA ZeroType == Zero \in Counters
BY PlusCounters

\* The types hold at the start.
LEMMA TypesAtFirst == Init => TypeOK
<1> SUFFICES ASSUME Init PROVE TypeOK
  OBVIOUS
<1>1. 1 \in Day
  BY LastDayAssumption DEF Day
<1>2. TablesTypeOK
  BY StartsAssumption DEF Init, StoreInit, TablesTypeOK, NoRows, NoEntries, Totals
<1>3. UseTypeOK /\ MeterTypeOK /\ LogTypeOK
  BY <1>1, BoundsAssumption, ZeroType DEF Init, UseTypeOK, MeterTypeOK, LogTypeOK
<1>4. SyncTypeOK
  BY PageAssumption DEF Init, SyncTypeOK, IdleSync, Sync, Places
<1> QED
  BY <1>2, <1>3, <1>4 DEF TypeOK

\* What no step touches keeps its type: the tables,
LEMMA TablesFrame == TablesTypeOK /\ UNCHANGED tables => TablesTypeOK'
BY DEF TablesTypeOK, tables
\* what was used,
LEMMA UseFrame == UseTypeOK /\ UNCHANGED <<today, used, file>> => UseTypeOK'
BY DEF UseTypeOK
\* the meters,
LEMMA MeterFrame == MeterTypeOK /\ UNCHANGED meterVars => MeterTypeOK'
BY DEF MeterTypeOK, meterVars
\* the logs,
LEMMA LogFrame == LogTypeOK /\ UNCHANGED <<log, listed, aged>> => LogTypeOK'
BY DEF LogTypeOK
\* the syncs.
LEMMA SyncFrame == SyncTypeOK /\ UNCHANGED <<log, sync>> => SyncTypeOK'
BY DEF SyncTypeOK

\* Use is counted in counters.
LEMMA UsesType ==
    ASSUME UseTypeOK, NEW a \in Account, NEW c \in Counters, Uses(a, c), today' = today
    PROVE  today' \in Day /\ used' \in [Account -> [Day -> Counters]]
<1>1. Plus(used[a][today], c) \in Counters
  BY PlusType DEF UseTypeOK
<1> QED
  BY <1>1 DEF UseTypeOK, Uses

\* A sync that moves on keeps to its shape.
LEMMA SyncMoves ==
    ASSUME SyncTypeOK, NEW p \in Process, NEW s \in Sync, Set(p, s), UNCHANGED log,
           s.at # "idle" => s.account \in Account /\ s.seen \subseteq DOMAIN log[s.account]
    PROVE  SyncTypeOK'
<1>1. sync' \in [Process -> Sync] /\ sync'[p] = s /\ \A q \in Process \ {p} : sync'[q] = sync[q]
  BY DEF SyncTypeOK, Set
<1> QED
  BY <1>1 DEF SyncTypeOK

\* A sync that another one begins beside goes on where it is.
LEMMA PartialType ==
    \A s \in Sync : /\ Partial(s) \in Sync /\ Partial(s).at = s.at /\ Partial(s).account = s.account
                   /\ Partial(s).seen = s.seen /\ Partial(s).panel = s.panel /\ Partial(s).whole = FALSE
BY DEF Partial, Sync

\* The steps that write the tables keep their types.
LEMMA TypesOfTables ==
    ASSUME TypeOK, Imports, Syncing
    PROVE  /\ StoreReading => TablesTypeOK'
           /\ ImportCodexUsage => TablesTypeOK'
           /\ Delete => TablesTypeOK'
           /\ \A p \in Process : StoreDay(p) \/ StoreToday(p) => TablesTypeOK'
<1> USE DEF TypeOK
<1>1. ASSUME StoreReading
      PROVE  TablesTypeOK'
  <2>0. PICK a \in Metered : \E r \in taken[a] :
            RecordUsageSnapshot(a, [at |-> r.at, counters |-> r.counters], r.day)
    BY <1>1 DEF StoreReading
  <2>1. PICK r \in taken[a] : RecordUsageSnapshot(a, [at |-> r.at, counters |-> r.counters], r.day)
    BY <2>0
  <2> DEFINE b == [at |-> r.at, counters |-> r.counters]
             k == <<r.day, Unnamed>>
  <2>2. a \in Account /\ r \in [at : 1 .. clock, day : Day, counters : Counters] /\ clock \in Nat
    BY BoundsAssumption DEF Metered, TablesTypeOK, MeterTypeOK
  <2>3. b \in [at : Nat, counters : Counters] /\ k \in Key
    BY <2>2, FiniteNames DEF Key
  <2>4. daily' \in [Account -> [Key -> Counters \union {None}]]
    <3>1. CASE UNCHANGED daily
      BY <3>1 DEF TablesTypeOK
    <3>2. CASE /\ baseline[a] # None /\ ~RolledBack(baseline[a].counters, r.counters)
               /\ AddDailyDelta(a, r.day, Minus(r.counters, baseline[a].counters))
      <4> DEFINE n == Plus(Shown(daily[a][k]), Minus(r.counters, baseline[a].counters))
      <4>1. baseline[a].counters \in Counters /\ r.counters \in Counters
        BY <2>2, <3>2 DEF TablesTypeOK
      <4>2. Minus(r.counters, baseline[a].counters) \in Counters
        BY <3>2, <4>1, MinusType
      <4>3. Shown(daily[a][k]) \in Counters
        BY <2>2, <2>3, ShownType DEF TablesTypeOK
      <4>4. n \in Counters
        BY <4>2, <4>3, PlusType
      <4>5. daily' = [daily EXCEPT ![a][k] = n]
        BY <3>2 DEF AddDailyDelta
      <4> HIDE DEF n, k
      <4> QED
        BY <2>2, <2>3, <4>4, <4>5 DEF TablesTypeOK
    <3> QED
      BY <2>1, <3>1, <3>2 DEF RecordUsageSnapshot
  <2>5. baseline' = [baseline EXCEPT ![a] = b] /\ UNCHANGED <<connected, hash, entries>>
    BY <2>1 DEF RecordUsageSnapshot
  <2> QED
    BY <2>2, <2>3, <2>4, <2>5 DEF TablesTypeOK
<1>2. ASSUME ImportCodexUsage
      PROVE  TablesTypeOK'
  <2>0. PICK a \in Codex : \E read \in UNION {[S -> 1 .. MaxVersion] : S \in SUBSET Source} :
          /\ \A s \in DOMAIN read : read[s] <= Len(file[a][s])
          /\ ReplaceCodexUsageSources(a, SetToSeq({File(a, s, read[s]) : s \in DOMAIN read}))
    BY <1>2 DEF ImportCodexUsage
  <2>7. PICK S \in SUBSET Source : \E read \in [S -> 1 .. MaxVersion] :
          /\ \A s \in DOMAIN read : read[s] <= Len(file[a][s])
          /\ ReplaceCodexUsageSources(a, SetToSeq({File(a, s, read[s]) : s \in DOMAIN read}))
    BY <2>0
  <2>1. PICK read \in [S -> 1 .. MaxVersion] :
          /\ \A s \in S : read[s] <= Len(file[a][s])
          /\ ReplaceCodexUsageSources(a, SetToSeq({File(a, s, read[s]) : s \in S}))
    <3>1. PICK read \in [S -> 1 .. MaxVersion] :
            /\ \A s \in DOMAIN read : read[s] <= Len(file[a][s])
            /\ ReplaceCodexUsageSources(a, SetToSeq({File(a, s, read[s]) : s \in DOMAIN read}))
      BY <2>7
    <3>2. DOMAIN read = S
      OBVIOUS
    <3> QED
      BY <3>1, <3>2
  <2> DEFINE after == FoldLeft(ImportSource, [hash |-> hash[a], entries |-> entries[a], changed |-> FALSE],
                               SetToSeq({File(a, s, read[s]) : s \in S}))
  <2>2. a \in Account /\ Provider[a] = "codex"
    BY DEF Codex, TablesTypeOK
  <2>3. after \in Imported(a)
    BY <2>1, <2>2, ImportOutcome DEF TablesTypeOK, UseTypeOK, Imports
  <2>4. /\ hash' = [hash EXCEPT ![a] = after.hash] /\ entries' = [entries EXCEPT ![a] = after.entries]
        /\ daily' = IF after.changed THEN [daily EXCEPT ![a] = FromEntries(after.entries)] ELSE daily
        /\ UNCHANGED <<connected, baseline>>
    BY <2>1 DEF ReplaceCodexUsageSources
  <2> HIDE DEF after
  <2>5. after.hash \in [Source -> (1 .. MaxVersion) \union {None}] /\ after.entries \in [Source -> Totals]
    BY <2>3 DEF Imported
  <2>6. FromEntries(after.entries) \in [Key -> Counters \union {None}]
    BY <2>5, RowsFromEntries
  <2> QED
    BY <2>2, <2>4, <2>5, <2>6 DEF TablesTypeOK
<1>3. ASSUME Delete
      PROVE  TablesTypeOK'
  <2>1. PICK a \in connected : DeleteConnectedAccount(a)
    BY <1>3 DEF Delete
  <2> QED
    BY <2>1, NothingFromNothing DEF DeleteConnectedAccount, TablesTypeOK, NoRows
<1>4. ASSUME NEW a \in Account, NEW d \in Day, NEW n \in [Names -> Counters \union {None}],
             UpsertAbsoluteDailyUsage(a, d, n)
      PROVE  TablesTypeOK'
  <2>1. [k \in Key |-> IF k[1] = d THEN n[k[2]] ELSE daily[a][k]] \in [Key -> Counters \union {None}]
    BY DEF TablesTypeOK, Key
  <2> QED
    BY <1>4, <2>1 DEF UpsertAbsoluteDailyUsage, TablesTypeOK
<1>5. ASSUME NEW p \in Process, StoreDay(p)
      PROVE  TablesTypeOK'
  <2> DEFINE s == sync[p]
             d == Min(s.todo)
  <2>1. s.at = "days" /\ s.todo # {} /\ s.todo \in SUBSET Day /\ s.account \in Account
        /\ s.seen \in SUBSET DOMAIN log[s.account]
    BY <1>5 DEF StoreDay, SyncTypeOK, Sync
  <2>2. d \in Day
    BY <2>1, SmallestDay
  <2>3. Readings(s.account, OfDay(s.account, s.seen, d)) \in [Names -> Counters \union {None}]
    BY <2>1, <2>2, ReadingsOfDay DEF OfDay, LogTypeOK
  <2>4. UNCHANGED tables
        \/ UpsertAbsoluteDailyUsage(s.account, d, Readings(s.account, OfDay(s.account, s.seen, d)))
    BY <1>5 DEF StoreDay
  <2> HIDE DEF d
  <2> QED
    BY <1>4, <2>1, <2>2, <2>3, <2>4, TablesFrame
<1>6. ASSUME NEW p \in Process, StoreToday(p)
      PROVE  TablesTypeOK'
  <2> DEFINE s == sync[p]
  <2>1. s.at = "write" /\ s.account \in Account /\ s.panel \in Panel
    BY <1>6 DEF StoreToday, SyncTypeOK, Syncing
  <2>2. s.panel.day \in Day /\ s.panel.readings \in [Names -> Counters \union {None}]
    BY <2>1 DEF Panel
  <2>3. UNCHANGED tables \/ UpsertAbsoluteDailyUsage(s.account, s.panel.day, s.panel.readings)
    BY <1>6 DEF StoreToday
  <2> QED
    BY <1>4, <2>1, <2>2, <2>3, TablesFrame
<1> QED
  BY <1>1, <1>2, <1>3, <1>5, <1>6

\* The newest version of a file is totals.
LEMMA LatestType ==
    ASSUME UseTypeOK, NEW a \in Account, NEW s \in Source
    PROVE  Latest(a, s) \in Totals
<1>1. file[a][s] \in Seq(Totals)
  BY DEF UseTypeOK
<1>2. CASE file[a][s] = <<>>
  BY <1>2 DEF Latest, Totals
<1>3. CASE file[a][s] # <<>>
  <2>1. Len(file[a][s]) \in 1 .. Len(file[a][s])
    BY <1>1, <1>3
  <2> QED
    BY <1>1, <1>3, <2>1 DEF Latest, Last
<1> QED
  BY <1>2, <1>3

\* The steps of use keep the types.
LEMMA TypesOfUse ==
    ASSUME TypeOK
    PROVE  /\ NextDay => UseTypeOK'
           /\ UseMeter => UseTypeOK' /\ MeterTypeOK'
           /\ ResetMeter => MeterTypeOK'
           /\ TakeReading => MeterTypeOK'
           /\ GrowFile => UseTypeOK'
           /\ Call => UseTypeOK' /\ LogTypeOK' /\ SyncTypeOK'
           /\ List => LogTypeOK'
           /\ Age => LogTypeOK'
<1> USE DEF TypeOK
<1>1. ASSUME NextDay
      PROVE  UseTypeOK'
  BY <1>1, LastDayAssumption DEF NextDay, UseTypeOK, Day
<1>2. ASSUME UseMeter
      PROVE  UseTypeOK' /\ MeterTypeOK'
  <2>1. PICK a \in Metered, c \in {[tokens |-> 1, requests |-> 0], [tokens |-> 1, requests |-> 1]} :
          Uses(a, c) /\ meter' = [meter EXCEPT ![a] = Plus(@, c)] /\ UNCHANGED <<today, clock, taken, file>>
    BY <1>2 DEF UseMeter
  <2>2. a \in Account /\ c \in Counters
    BY DEF Metered, TablesTypeOK, Counters
  <2>3. Plus(meter[a], c) \in Counters
    BY <2>2, PlusType DEF MeterTypeOK
  <2> QED
    BY <2>1, <2>2, <2>3, UsesType DEF UseTypeOK, MeterTypeOK
<1>3. ASSUME ResetMeter
      PROVE  MeterTypeOK'
  <2>0. PICK a \in Account : \E c \in {Zero, [tokens |-> 0, requests |-> meter[a].requests]} :
          meter' = [meter EXCEPT ![a] = c] /\ UNCHANGED <<clock, taken>>
    BY <1>3 DEF ResetMeter
  <2>1. PICK c \in {Zero, [tokens |-> 0, requests |-> meter[a].requests]} :
          meter' = [meter EXCEPT ![a] = c] /\ UNCHANGED <<clock, taken>>
    BY <2>0
  <2>2. c \in Counters
    BY <2>1, ZeroType DEF Counters, MeterTypeOK
  <2> QED
    BY <2>1, <2>2 DEF MeterTypeOK
<1>4. ASSUME TakeReading
      PROVE  MeterTypeOK'
  <2>1. PICK a \in Metered, at \in {clock, clock + 1} \ {0} :
          /\ at <= MaxReadings /\ clock' = at /\ UNCHANGED meter
          /\ taken' = [taken EXCEPT ![a] = @ \union {[at |-> at, day |-> today, counters |-> meter[a]]}]
    BY <1>4 DEF TakeReading
  <2>2. a \in Account /\ clock \in 0 .. MaxReadings /\ clock' \in 0 .. MaxReadings /\ at \in 1 .. clock' /\ clock <= clock'
    BY <2>1, BoundsAssumption DEF Metered, TablesTypeOK, MeterTypeOK
  <2>3. [at |-> at, day |-> today, counters |-> meter[a]] \in [at : 1 .. clock', day : Day, counters : Counters]
    BY <2>2 DEF UseTypeOK, MeterTypeOK
  <2>4. \A b \in Account : taken[b] \subseteq [at : 1 .. clock', day : Day, counters : Counters]
    BY <2>2, BoundsAssumption DEF MeterTypeOK
  <2>5. \A b \in Account : taken'[b] \subseteq [at : 1 .. clock', day : Day, counters : Counters]
    BY <2>1, <2>3, <2>4
  <2> QED
    BY <2>1, <2>2, <2>5 DEF MeterTypeOK
<1>5. ASSUME GrowFile
      PROVE  UseTypeOK'
  <2> DEFINE c == [tokens |-> 2, requests |-> 1]
  <2>1. PICK a \in Codex, s \in Source, m \in Model :
          /\ file' = [file EXCEPT ![a][s] = Append(@, [Latest(a, s) EXCEPT ![<<today, m>>] = Plus(Shown(@), c)])]
          /\ Uses(a, c) /\ UNCHANGED today
    BY <1>5 DEF GrowFile
  <2>2. a \in Account /\ c \in Counters
    BY DEF Codex, TablesTypeOK, Counters
  <2>3. file[a][s] \in Seq(Totals)
    BY <2>2 DEF UseTypeOK
  <2>4. Latest(a, s) \in Totals
    BY <2>2, LatestType
  <2>5. Plus(Shown(Latest(a, s)[<<today, m>>]), c) \in Counters
    BY <2>2, <2>4, ShownType, PlusType DEF Totals, UseTypeOK
  <2>6. [Latest(a, s) EXCEPT ![<<today, m>>] = Plus(Shown(@), c)] \in Totals
    BY <2>4, <2>5 DEF Totals
  <2> DEFINE n == Append(file[a][s], [Latest(a, s) EXCEPT ![<<today, m>>] = Plus(Shown(@), c)])
  <2>8. n \in Seq(Totals) /\ file' = [file EXCEPT ![a][s] = n]
    BY <2>1, <2>3, <2>6
  <2> HIDE DEF n
  <2>7. file' \in [Account -> [Source -> Seq(Totals)]]
    BY <2>2, <2>8 DEF UseTypeOK
  <2> QED
    BY <2>1, <2>2, <2>7, UsesType DEF UseTypeOK
<1>6. ASSUME Call
      PROVE  UseTypeOK' /\ LogTypeOK' /\ SyncTypeOK'
  <2>1. PICK a \in Rhythm, m \in Names :
          /\ log' = [log EXCEPT ![a] = Append(@, <<today, m>>)]
          /\ Uses(a, Request(m)) /\ UNCHANGED <<today, listed, aged, sync, file>>
    BY <1>6 DEF Call
  <2>2. a \in Account /\ <<today, m>> \in Key /\ Request(m) \in Counters /\ log[a] \in Seq(Key)
    BY RequestType DEF Rhythm, TablesTypeOK, Key, UseTypeOK, LogTypeOK
  <2>3. Append(log[a], <<today, m>>) \in Seq(Key) /\ Len(Append(log[a], <<today, m>>)) = Len(log[a]) + 1
        /\ DOMAIN log[a] \subseteq DOMAIN Append(log[a], <<today, m>>)
    BY <2>2
  <2>4. LogTypeOK'
    BY <2>1, <2>2, <2>3 DEF LogTypeOK
  <2>5. \A b \in Account : DOMAIN log[b] \subseteq DOMAIN log'[b]
    BY <2>1, <2>3 DEF LogTypeOK
  <2>6. SyncTypeOK'
    BY <2>1, <2>5 DEF SyncTypeOK
  <2> QED
    BY <2>1, <2>2, <2>4, <2>6, UsesType DEF UseTypeOK
<1>7. ASSUME List
      PROVE  LogTypeOK'
  BY <1>7 DEF List, LogTypeOK
<1>8. ASSUME Age
      PROVE  LogTypeOK'
  BY <1>8 DEF Age, LogTypeOK
<1> QED
  BY <1>1, <1>2, <1>3, <1>4, <1>5, <1>6, <1>7, <1>8

\* A page shows requests that were made.
LEMMA PagesOf ==
    ASSUME LogTypeOK, NEW a \in Account, NEW k
    PROVE  PageNow(a, k) \subseteq DOMAIN log[a]
BY DEF LogTypeOK, PageNow, PageOf

\* What a sync is after a step of it.
Begun(a) == [IdleSync EXCEPT !.at = "page", !.account = a, !.page = 1]
Whole(s, f, m) == [s EXCEPT !.whole = TRUE, !.floor = f, !.made = m]
Failed(s) == [s EXCEPT !.at = "panel", !.page = 0, !.fetched = 0, !.seen = {}]
Paged(s, n, S) == [s EXCEPT !.page = @ + 1, !.fetched = n, !.seen = S]
ReadWhole(s, S, D) == [s EXCEPT !.at = "days", !.page = 0, !.fetched = 0, !.seen = S, !.todo = D]

\* What a sync is after each of its steps: begun,
LEMMA BegunSync ==
    \A a \in Account : LET t == Begun(a) IN
        t \in Sync /\ t.at = "page" /\ t.account = a /\ t.page = 1 /\ t.fetched = 0 /\ t.seen = {} /\ ~t.whole
<1>1. IdleSync \in Sync /\ IdleSync.seen = {} /\ IdleSync.fetched = 0 /\ ~IdleSync.whole
  BY PageAssumption DEF IdleSync, Sync, Places
<1>2. 1 \in 0 .. MaxPages
  BY PageAssumption
<1> QED
  BY <1>1, <1>2 DEF Sync, Places, Begun

\* begun with no other one running,
LEMMA WholeSync ==
    ASSUME NEW s \in Sync, NEW f \in Nat, NEW m \in Nat
    PROVE  LET t == Whole(s, f, m) IN
        /\ t \in Sync /\ t.at = s.at /\ t.account = s.account /\ t.page = s.page /\ t.fetched = s.fetched
        /\ t.seen = s.seen /\ t.whole /\ t.floor = f /\ t.made = m
BY DEF Sync, Whole

LEMMA BegunWhole ==
    ASSUME NEW a \in Account, NEW f \in Nat, NEW m \in Nat
    PROVE  LET t == Whole(Begun(a), f, m) IN t \in Sync /\ t.account = a /\ t.seen = {}
<1> DEFINE t == Begun(a)
<1>1. t \in Sync /\ t.account = a /\ t.seen = {}
  BY BegunSync
<1> HIDE DEF t
<1>2. Whole(t, f, m) \in Sync /\ Whole(t, f, m).account = a /\ Whole(t, f, m).seen = {}
  BY <1>1 DEF Sync, Whole
<1> QED
  BY <1>2 DEF t

\* after a page that failed,
LEMMA FailedSync ==
    \A s \in Sync : LET t == Failed(s) IN
        t \in Sync /\ t.at = "panel" /\ t.account = s.account /\ t.seen = {}
<1>1. 0 \in 0 .. MaxPages
  BY PageAssumption
<1> QED
  BY <1>1 DEF Sync, Places, Failed

\* after a page,
LEMMA PagedSync ==
    ASSUME NEW s \in Sync, s.page < MaxPages, NEW n \in Nat, NEW S \in SUBSET Nat
    PROVE  LET t == Paged(s, n, S) IN
           /\ t \in Sync /\ t.at = s.at /\ t.account = s.account /\ t.page = s.page + 1 /\ t.fetched = n
           /\ t.seen = S /\ t.whole = s.whole /\ t.floor = s.floor /\ t.made = s.made
<1>1. s.page \in 0 .. MaxPages
  BY DEF Sync
<1>2. s.page + 1 \in 0 .. MaxPages
  BY <1>1, PageAssumption
<1> QED
  BY <1>2 DEF Sync, Paged

\* and after the last page.
LEMMA ListedSync ==
    ASSUME NEW s \in Sync, NEW S \in SUBSET Nat, NEW D \in SUBSET Day
    PROVE  LET t == ReadWhole(s, S, D) IN
        /\ t \in Sync /\ t.at = "days" /\ t.account = s.account /\ t.seen = S /\ t.todo = D
        /\ t.whole = s.whole /\ t.floor = s.floor /\ t.made = s.made
<1>1. 0 \in 0 .. MaxPages
  BY PageAssumption
<1> QED
  BY <1>1 DEF Sync, Places, ReadWhole

\* The days of some requests.
DaysOf(a, requests) == {log[a][i][1] : i \in requests}

\* A page ends the list, or another one is to be read.
LEMMA FetchedPage ==
    ASSUME NEW p, FetchPage(p)
    PROVE  LET s == sync[p]
               items == PageNow(s.account, s.page)
               fetched == s.fetched + Cardinality(items)
               seen == s.seen \union items
           IN  /\ s.at = "page" /\ UNCHANGED <<tables, today, used, meterVars, log, listed, aged, file>>
               /\ \/ /\ Set(p, ReadWhole(s, seen, DaysOf(s.account, seen)))
                     /\ \/ items = {}
                        \/ fetched >= listed[s.account] - aged[s.account]
                        \/ Cardinality(items) < PageSize
                  \/ /\ Set(p, Paged(s, fetched, seen))
                     /\ s.page < MaxPages
<1> DEFINE s == sync[p]
           items == PageNow(s.account, s.page)
           fetched == s.fetched + Cardinality(items)
           seen == s.seen \union items
           t == ReadWhole(s, seen, DaysOf(s.account, seen))
           u == Paged(s, fetched, seen)
           last(total) == \/ items = {}
                          \/ total > 0 /\ fetched >= total
                          \/ total = 0 /\ Cardinality(items) < PageSize
<1>1. s.at = "page" /\ UNCHANGED <<tables, today, used, meterVars, log, listed, aged, file>>
  BY DEF FetchPage
<1>2. PICK total \in {0, listed[s.account] - aged[s.account]} :
        (last(total) \/ s.page < MaxPages) /\ Set(p, IF last(total) THEN t ELSE u)
  BY DEF FetchPage, ReadWhole, Paged, DaysOf
<1>3. CASE last(total)
  <2>1. Set(p, t)
    BY <1>2, <1>3 DEF Set
  <2>2. items = {} \/ fetched >= listed[s.account] - aged[s.account] \/ Cardinality(items) < PageSize
    BY <1>3
  <2> QED
    BY <1>1, <2>1, <2>2
<1>4. CASE ~last(total)
  <2>1. Set(p, u) /\ s.page < MaxPages
    BY <1>2, <1>4 DEF Set
  <2> QED
    BY <1>1, <2>1
<1> QED
  BY <1>3, <1>4

\* The steps of a sync keep the types.
LEMMA TypesOfSync ==
    ASSUME TypeOK, NEW p \in Process
    PROVE  /\ StartSync(p) => SyncTypeOK'
           /\ HistoryFails(p) => SyncTypeOK'
           /\ FetchPage(p) => SyncTypeOK'
           /\ StoreDay(p) => SyncTypeOK'
           /\ DaysDone(p) => SyncTypeOK'
           /\ FetchToday(p) => SyncTypeOK'
           /\ StoreToday(p) => SyncTypeOK'
<1> USE DEF TypeOK
<1> DEFINE s == sync[p]
<1>1. s \in Sync /\ (s.at # "idle" => s.account \in Account /\ s.seen \subseteq DOMAIN log[s.account])
  BY DEF SyncTypeOK
<1>2. IdleSync \in Sync /\ IdleSync.at = "idle"
  BY PageAssumption DEF IdleSync, Sync, Places
<1>3. ASSUME StartSync(p)
      PROVE  SyncTypeOK'
  <2>1. PICK a \in Rhythm :
          sync' = [q \in Process |->
             IF q # p THEN Partial(sync[q])
             ELSE IF Running # {} THEN Begun(a) ELSE Whole(Begun(a), listed[a], Len(log[a]))]
    BY <1>3 DEF StartSync, Begun, Whole
  <2> DEFINE t == Begun(a)
             w == Whole(t, listed[a], Len(log[a]))
  <2>2. a \in Account /\ listed[a] \in Nat /\ Len(log[a]) \in Nat
    BY DEF Rhythm, TablesTypeOK, LogTypeOK
  <2>7. t \in Sync /\ t.account = a /\ t.seen = {}
    BY <2>2, BegunSync
  <2>8. w \in Sync /\ w.account = a /\ w.seen = {}
    BY <2>2, <2>7, BegunWhole
  <2>3. /\ t \in Sync /\ t.account = a /\ t.seen = {}
        /\ w \in Sync /\ w.account = a /\ w.seen = {}
    BY <2>7, <2>8
  <2>4. sync' \in [Process -> Sync]
    BY <2>1, <2>3, PartialType DEF SyncTypeOK
  <2>5. ASSUME NEW q \in Process, sync'[q].at # "idle"
        PROVE  sync'[q].account \in Account /\ sync'[q].seen \subseteq DOMAIN log[sync'[q].account]
    <3>1. CASE q = p
      <4>1. sync'[q] = t \/ sync'[q] = w
        BY <2>1, <3>1
      <4> HIDE DEF t, w
      <4> QED
        BY <2>2, <2>3, <4>1
    <3>2. CASE q # p
      <4>1. sync'[q] = Partial(sync[q]) /\ sync[q] \in Sync
        BY <2>1, <3>2 DEF SyncTypeOK
      <4> QED
        BY <2>5, <4>1, PartialType DEF SyncTypeOK
    <3> QED
      BY <3>1, <3>2
  <2>6. UNCHANGED log
    BY <1>3 DEF StartSync
  <2> QED
    BY <2>4, <2>5, <2>6 DEF SyncTypeOK
<1>4. ASSUME HistoryFails(p)
      PROVE  SyncTypeOK'
  <2> DEFINE t == Failed(s)
  <2>1. s.at = "page" /\ Set(p, Partial(t)) /\ UNCHANGED log
    BY <1>4 DEF HistoryFails, Failed
  <2>2. t \in Sync /\ t.account = s.account /\ t.seen = {}
    BY <1>1, FailedSync
  <2> HIDE DEF t
  <2>3. Partial(t) \in Sync /\ Partial(t).account = s.account /\ Partial(t).seen = {}
    BY <2>2, PartialType
  <2> QED
    BY <1>1, <2>1, <2>3, SyncMoves
<1>5. ASSUME FetchPage(p)
      PROVE  SyncTypeOK'
  <2> DEFINE items == PageNow(s.account, s.page)
             n == s.fetched + Cardinality(items)
             seen == s.seen \union items
             t == ReadWhole(s, seen, DaysOf(s.account, seen))
             u == Paged(s, n, seen)
  <2>1. s.at = "page" /\ UNCHANGED log
    BY <1>5 DEF FetchPage
  <2>7. Set(p, t) \/ (s.page < MaxPages /\ Set(p, u))
    BY <1>5, FetchedPage
  <2>2. seen \in SUBSET DOMAIN log[s.account] /\ s.account \in Account
    BY <1>1, <2>1, PagesOf
  <2>3. /\ IsFiniteSet(items) /\ seen \in SUBSET Nat
        /\ DaysOf(s.account, seen) \in SUBSET Day
    <3>1. items \in SUBSET DOMAIN log[s.account]
      BY <2>2
    <3> HIDE DEF items
    <3>2. DOMAIN log[s.account] \in SUBSET Nat
      BY <2>2, LogFinite DEF LogTypeOK
    <3> QED
      BY <2>2, <3>1, <3>2, LogFinite DEF LogTypeOK, DaysOf
  <2>4. n \in Nat
    BY <1>1, <2>3, FS_CardinalityType DEF Sync
  <2> HIDE DEF items, n, seen
  <2>5. t \in Sync /\ t.account = s.account /\ t.seen = seen
    BY <1>1, <2>3, ListedSync
  <2>6. s.page < MaxPages => u \in Sync /\ u.account = s.account /\ u.seen = seen
    BY <1>1, <2>3, <2>4, PagedSync
  <2> HIDE DEF t, u
  <2> QED
    BY <2>1, <2>2, <2>5, <2>6, <2>7, SyncMoves
<1>6. ASSUME StoreDay(p)
      PROVE  SyncTypeOK'
  <2> DEFINE t == [s EXCEPT !.todo = @ \ {Min(s.todo)}]
             u == [s EXCEPT !.todo = {}]
  <2>1. s.at = "days" /\ UNCHANGED log /\ (Set(p, t) \/ Set(p, Partial(u)))
    BY <1>6 DEF StoreDay
  <2>2. t \in Sync /\ t.account = s.account /\ t.seen = s.seen /\ u \in Sync /\ u.account = s.account /\ u.seen = s.seen
    BY <1>1 DEF Sync
  <2> HIDE DEF t, u
  <2>3. Partial(u) \in Sync /\ Partial(u).account = s.account /\ Partial(u).seen = s.seen
    BY <2>2, PartialType
  <2> QED
    BY <1>1, <2>1, <2>2, <2>3, SyncMoves
<1>7. ASSUME DaysDone(p)
      PROVE  SyncTypeOK'
  <2> DEFINE t == [s EXCEPT !.at = "panel", !.seen = {}]
  <2>1. s.at = "days" /\ UNCHANGED log /\ Set(p, t)
    BY <1>7 DEF DaysDone
  <2>2. t \in Sync /\ t.account = s.account /\ t.seen = {}
    BY <1>1 DEF Sync, Places
  <2> HIDE DEF t
  <2> QED
    BY <1>1, <2>1, <2>2, SyncMoves
<1>8. ASSUME FetchToday(p)
      PROVE  SyncTypeOK'
  <2> DEFINE requests == OfDay(s.account, DOMAIN log[s.account], today)
             panel == [day |-> today, readings |-> Readings(s.account, requests)]
             t == [s EXCEPT !.at = "write", !.panel = panel]
  <2>1. s.at = "panel" /\ UNCHANGED log /\ (Set(p, IdleSync) \/ Set(p, t))
    BY <1>8 DEF FetchToday
  <2>2. Readings(s.account, requests) \in [Names -> Counters \union {None}]
    BY <1>1, <2>1, ReadingsOfDay DEF OfDay, LogTypeOK, UseTypeOK
  <2>3. panel \in Panel
    BY <2>2 DEF Panel, UseTypeOK
  <2> HIDE DEF panel
  <2>4. t \in Sync /\ t.account = s.account /\ t.seen = s.seen
    BY <1>1, <2>3 DEF Sync, Places
  <2> HIDE DEF t
  <2> QED
    BY <1>1, <1>2, <2>1, <2>4, SyncMoves
<1>9. ASSUME StoreToday(p)
      PROVE  SyncTypeOK'
  BY <1>2, <1>9, SyncMoves DEF StoreToday
<1> QED
  BY <1>3, <1>4, <1>5, <1>6, <1>7, <1>8, <1>9

\* Every step does.
LEMMA TypesStep == TypeOK /\ Imports /\ Syncing /\ [Next]_vars => TypeOK'
<1> SUFFICES ASSUME TypeOK, Imports, Syncing, [Next]_vars
             PROVE  TypeOK'
  OBVIOUS
<1> USE DEF TypeOK
<1>1. CASE NextDay
  BY <1>1, TypesOfUse, TablesFrame, MeterFrame, LogFrame, SyncFrame DEF NextDay
<1>2. CASE Delete
  BY <1>2, TypesOfTables, UseFrame, MeterFrame, LogFrame, SyncFrame DEF Delete
<1>3. CASE UseMeter
  BY <1>3, TypesOfUse, TablesFrame, LogFrame, SyncFrame DEF UseMeter
<1>4. CASE ResetMeter
  BY <1>4, TypesOfUse, TablesFrame, UseFrame, LogFrame, SyncFrame DEF ResetMeter
<1>5. CASE TakeReading
  BY <1>5, TypesOfUse, TablesFrame, UseFrame, LogFrame, SyncFrame DEF TakeReading
<1>6. CASE StoreReading
  BY <1>6, TypesOfTables, UseFrame, MeterFrame, LogFrame, SyncFrame DEF StoreReading
<1>7. CASE GrowFile
  BY <1>7, TypesOfUse, TablesFrame, MeterFrame, LogFrame, SyncFrame DEF GrowFile
<1>8. CASE ImportCodexUsage
  BY <1>8, TypesOfTables, UseFrame, MeterFrame, LogFrame, SyncFrame DEF ImportCodexUsage
<1>9. CASE Call
  BY <1>9, TypesOfUse, TablesFrame, MeterFrame DEF Call
<1>10. CASE List
  BY <1>10, TypesOfUse, TablesFrame, UseFrame, MeterFrame, SyncFrame DEF List
<1>14. CASE Age
  BY <1>14, TypesOfUse, TablesFrame, UseFrame, MeterFrame, SyncFrame DEF Age
<1>11. ASSUME NEW p \in Process,
              StartSync(p) \/ HistoryFails(p) \/ FetchPage(p) \/ DaysDone(p) \/ FetchToday(p)
       PROVE  TypeOK'
  <2>1. UNCHANGED tables /\ UNCHANGED <<today, used, file>> /\ UNCHANGED meterVars /\ UNCHANGED <<log, listed, aged>>
    BY <1>11 DEF StartSync, HistoryFails, FetchPage, DaysDone, FetchToday
  <2> QED
    BY <1>11, <2>1, TypesOfSync, TablesFrame, UseFrame, MeterFrame, LogFrame
<1>12. ASSUME NEW p \in Process, StoreDay(p) \/ StoreToday(p)
       PROVE  TypeOK'
  <2>1. UNCHANGED <<today, used, file>> /\ UNCHANGED meterVars /\ UNCHANGED <<log, listed, aged>>
    BY <1>12 DEF StoreDay, StoreToday
  <2> QED
    BY <1>12, <2>1, TypesOfSync, TypesOfTables, UseFrame, MeterFrame, LogFrame
<1>13. CASE UNCHANGED vars
  BY <1>13, TablesFrame, UseFrame, MeterFrame, LogFrame, SyncFrame DEF vars, meterVars
<1> QED
  BY <1>1, <1>2, <1>3, <1>4, <1>5, <1>6, <1>7, <1>8, <1>9, <1>10, <1>11, <1>12, <1>13, <1>14 DEF Next

-----------------------------------------------------------------------------
(* How the tables change.                                                  *)

beside == <<today, used, meterVars, log, listed, aged, file>>

TakesReading(a) ==
    /\ Provider[a] = "metered"
    /\ \E r \in taken[a] : RecordUsageSnapshot(a, [at |-> r.at, counters |-> r.counters], r.day)

TakesFiles(a) ==
    /\ Provider[a] = "codex" /\ a \in connected
    /\ \E after \in Imported(a) :
         /\ hash' = [hash EXCEPT ![a] = after.hash] /\ entries' = [entries EXCEPT ![a] = after.entries]
         /\ daily' = IF after.changed THEN [daily EXCEPT ![a] = FromEntries(after.entries)] ELSE daily
         /\ UNCHANGED <<connected, baseline>>

TakesDay(a) ==
    /\ Provider[a] = "tokenrhythm"
    /\ \E d \in Day, n \in [Names -> Counters \union {None}] :
         UpsertAbsoluteDailyUsage(a, d, n) /\ \A m \in Names : Part(a, <<d, m>>, n[m])

\* An import changes one account's rows to those of the versions it has
\* taken.
LEMMA ImportTakesFiles ==
    ASSUME TypeOK, Imports, ImportCodexUsage
    PROVE  \E a \in Account : TakesFiles(a)
<1> USE DEF TypeOK
<1>1. PICK a \in Codex : \E read \in UNION {[S -> 1 .. MaxVersion] : S \in SUBSET Source} :
        /\ \A s \in DOMAIN read : read[s] <= Len(file[a][s])
        /\ ReplaceCodexUsageSources(a, SetToSeq({File(a, s, read[s]) : s \in DOMAIN read}))
  BY DEF ImportCodexUsage
<1>2. PICK S \in SUBSET Source : \E read \in [S -> 1 .. MaxVersion] :
        /\ \A s \in DOMAIN read : read[s] <= Len(file[a][s])
        /\ ReplaceCodexUsageSources(a, SetToSeq({File(a, s, read[s]) : s \in DOMAIN read}))
  BY <1>1
<1>3. PICK read \in [S -> 1 .. MaxVersion] :
        /\ \A s \in S : read[s] <= Len(file[a][s])
        /\ ReplaceCodexUsageSources(a, SetToSeq({File(a, s, read[s]) : s \in S}))
  <2>1. PICK read \in [S -> 1 .. MaxVersion] :
          /\ \A s \in DOMAIN read : read[s] <= Len(file[a][s])
          /\ ReplaceCodexUsageSources(a, SetToSeq({File(a, s, read[s]) : s \in DOMAIN read}))
    BY <1>2
  <2>2. DOMAIN read = S
    OBVIOUS
  <2> QED
    BY <2>1, <2>2
<1> DEFINE after == FoldLeft(ImportSource, [hash |-> hash[a], entries |-> entries[a], changed |-> FALSE],
                             SetToSeq({File(a, s, read[s]) : s \in S}))
<1>4. a \in Account /\ a \in connected /\ Provider[a] = "codex"
  BY DEF Codex, TablesTypeOK
<1>5. after \in Imported(a)
  BY <1>3, <1>4, ImportOutcome DEF TablesTypeOK, UseTypeOK, Imports
<1>6. /\ hash' = [hash EXCEPT ![a] = after.hash] /\ entries' = [entries EXCEPT ![a] = after.entries]
      /\ daily' = IF after.changed THEN [daily EXCEPT ![a] = FromEntries(after.entries)] ELSE daily
      /\ UNCHANGED <<connected, baseline>>
  BY <1>3 DEF ReplaceCodexUsageSources
<1> HIDE DEF after
<1> QED
  BY <1>4, <1>5, <1>6 DEF TakesFiles

\* A sync changes one day of its account.
LEMMA SyncTakesDay ==
    ASSUME TypeOK, Syncing, NEW p \in Process, StoreDay(p) \/ StoreToday(p)
    PROVE  UNCHANGED tables \/ TakesDay(sync[p].account)
<1> USE DEF TypeOK
<1> DEFINE s == sync[p]
<1>1. CASE StoreDay(p)
  <2> DEFINE d == Min(s.todo)
             n == Readings(s.account, OfDay(s.account, s.seen, d))
  <2>1. s.at = "days" /\ s.todo # {} /\ s.todo \in SUBSET Day /\ s.account \in Account
        /\ s.seen \in SUBSET DOMAIN log[s.account] /\ Provider[s.account] = "tokenrhythm"
    BY <1>1 DEF StoreDay, SyncTypeOK, Sync, Syncing
  <2>2. d \in Day
    BY <2>1, SmallestDay
  <2>3. n \in [Names -> Counters \union {None}] /\ \A m \in Names : Part(s.account, <<d, m>>, n[m])
    BY <2>1, <2>2, ReadingsOfDay DEF OfDay, LogTypeOK
  <2>4. UNCHANGED tables \/ UpsertAbsoluteDailyUsage(s.account, d, n)
    BY <1>1 DEF StoreDay
  <2> HIDE DEF d, n
  <2> QED
    BY <2>1, <2>2, <2>3, <2>4 DEF TakesDay
<1>2. CASE StoreToday(p)
  <2>1. s.at = "write" /\ s.account \in Account /\ s.panel \in Panel /\ Provider[s.account] = "tokenrhythm"
        /\ \A m \in Names : Part(s.account, <<s.panel.day, m>>, s.panel.readings[m])
    BY <1>2 DEF StoreToday, SyncTypeOK, Syncing
  <2>2. s.panel.day \in Day /\ s.panel.readings \in [Names -> Counters \union {None}]
    BY <2>1 DEF Panel
  <2>3. UNCHANGED tables \/ UpsertAbsoluteDailyUsage(s.account, s.panel.day, s.panel.readings)
    BY <1>2 DEF StoreToday
  <2> QED
    BY <2>1, <2>2, <2>3 DEF TakesDay
<1> QED
  BY <1>1, <1>2

\* Every step leaves the tables alone, or changes them in one of four ways
\* and nothing that they are held against.
LEMMA TablesMove ==
    ASSUME TypeOK, Imports, Syncing, [Next]_vars
    PROVE  \/ UNCHANGED tables
           \/ /\ UNCHANGED beside
              /\ \E a \in Account : \/ TakesReading(a) \/ TakesFiles(a) \/ TakesDay(a)
                                    \/ a \in connected /\ DeleteConnectedAccount(a)
<1>1. CASE StoreReading
  <2>1. PICK a \in Metered :
          \E r \in taken[a] : RecordUsageSnapshot(a, [at |-> r.at, counters |-> r.counters], r.day)
    BY <1>1 DEF StoreReading
  <2>2. a \in Account /\ Provider[a] = "metered"
    BY DEF Metered, TypeOK, TablesTypeOK
  <2>3. UNCHANGED beside
    BY <1>1 DEF StoreReading, beside
  <2> QED
    BY <2>1, <2>2, <2>3 DEF TakesReading
<1>2. CASE ImportCodexUsage
  <2>1. UNCHANGED beside
    BY <1>2 DEF ImportCodexUsage, beside
  <2> QED
    BY <1>2, <2>1, ImportTakesFiles
<1>3. CASE Delete
  <2>1. UNCHANGED beside
    BY <1>3 DEF Delete, beside
  <2>2. PICK a \in connected : DeleteConnectedAccount(a)
    BY <1>3 DEF Delete
  <2> QED
    BY <2>1, <2>2 DEF TypeOK, TablesTypeOK
<1>4. ASSUME NEW p \in Process, StoreDay(p) \/ StoreToday(p)
      PROVE  UNCHANGED tables \/ (UNCHANGED beside /\ \E a \in Account : TakesDay(a))
  <2>1. UNCHANGED beside
    BY <1>4 DEF StoreDay, StoreToday, beside
  <2>2. sync[p].at # "idle"
    BY <1>4 DEF StoreDay, StoreToday
  <2>3. sync[p].account \in Account
    BY <2>2 DEF TypeOK, SyncTypeOK
  <2> QED
    BY <1>4, <2>1, <2>3, SyncTakesDay
<1>5. CASE NextDay \/ UseMeter \/ ResetMeter \/ TakeReading \/ GrowFile \/ Call \/ List \/ Age
  BY <1>5 DEF NextDay, UseMeter, ResetMeter, TakeReading, GrowFile, Call, List, Age
<1>6. ASSUME NEW p \in Process,
             StartSync(p) \/ HistoryFails(p) \/ FetchPage(p) \/ DaysDone(p) \/ FetchToday(p)
      PROVE  UNCHANGED tables
  BY <1>6 DEF StartSync, HistoryFails, FetchPage, DaysDone, FetchToday
<1>7. CASE UNCHANGED vars
  BY <1>7 DEF vars
<1> QED
  BY <1>1, <1>2, <1>3, <1>4, <1>5, <1>6, <1>7 DEF Next

\* Files and logs only grow.
LEMMA FilesGrow ==
    ASSUME TypeOK, [Next]_vars, NEW a \in Account, NEW s \in Source
    PROVE  Len(file[a][s]) <= Len(file'[a][s]) /\ \A v \in 1 .. Len(file[a][s]) : file'[a][s][v] = file[a][s][v]
<1>1. file[a][s] \in Seq(Totals) /\ file \in [Account -> [Source -> Seq(Totals)]]
  BY DEF TypeOK, UseTypeOK
<1>2. CASE UNCHANGED file
  BY <1>1, <1>2
<1>3. CASE GrowFile
  <2>1. PICK b \in Codex, t \in Source, m \in Model :
          file' = [file EXCEPT ![b][t] =
             Append(@, [Latest(b, t) EXCEPT ![<<today, m>>] = Plus(Shown(@), [tokens |-> 2, requests |-> 1])])]
    BY <1>3 DEF GrowFile
  <2>2. b \in Account
    BY DEF Codex, TypeOK, TablesTypeOK
  <2> DEFINE n == [Latest(b, t) EXCEPT ![<<today, m>>] = Plus(Shown(@), [tokens |-> 2, requests |-> 1])]
  <2>3. file' = [file EXCEPT ![b][t] = Append(@, n)]
    BY <2>1
  <2> HIDE DEF n
  <2>4. CASE a = b /\ s = t
    <3>1. file'[a][s] = Append(file[a][s], n)
      BY <1>1, <2>2, <2>3, <2>4
    <3> QED
      BY <1>1, <3>1
  <2>5. CASE ~(a = b /\ s = t)
    <3>1. file'[a][s] = file[a][s]
      BY <1>1, <2>2, <2>3, <2>5
    <3> QED
      BY <1>1, <3>1
  <2> QED
    BY <2>4, <2>5
<1>4. UNCHANGED file \/ GrowFile
  BY DEF Next, NextDay, UseMeter, ResetMeter, TakeReading, Call, List, Age, StoreReading, ImportCodexUsage, Delete,
         StartSync, HistoryFails, FetchPage, StoreDay, DaysDone, FetchToday, StoreToday, vars
<1> QED
  BY <1>2, <1>3, <1>4

\* Logs only grow.
LEMMA LogGrows ==
    ASSUME TypeOK, [Next]_vars, NEW a \in Account
    PROVE  /\ DOMAIN log[a] \subseteq DOMAIN log'[a]
           /\ \A i \in DOMAIN log[a] : log'[a][i] = log[a][i]
<1>1. log[a] \in Seq(Key) /\ log \in [Account -> Seq(Key)]
  BY DEF TypeOK, LogTypeOK
<1>2. CASE UNCHANGED log
  BY <1>2
<1>3. CASE Call
  <2>1. PICK b \in Rhythm, m \in Names : log' = [log EXCEPT ![b] = Append(@, <<today, m>>)]
    BY <1>3 DEF Call
  <2> QED
    BY <1>1, <2>1
<1>4. UNCHANGED log \/ Call
  BY DEF Next, NextDay, UseMeter, ResetMeter, TakeReading, GrowFile, List, Age, StoreReading, ImportCodexUsage, Delete,
         StartSync, HistoryFails, FetchPage, StoreDay, DaysDone, FetchToday, StoreToday, vars
<1> QED
  BY <1>2, <1>3, <1>4

\* Some requests of a log stay some requests of it.
LEMMA PartStays ==
    ASSUME TypeOK, [Next]_vars, NEW a \in Account, NEW k, NEW x, Part(a, k, x)
    PROVE  Part(a, k, x)'
<1>1. {i \in DOMAIN log[a] : log[a][i] = k} \subseteq {i \in DOMAIN log'[a] : log'[a][i] = k}
  BY LogGrows
<1>2. CASE x = None
  BY <1>2 DEF Part
<1>3. CASE x # None
  <2>1. PICK I \in SUBSET {i \in DOMAIN log[a] : log[a][i] = k} : x = Total(I, [i \in I |-> Request(k[2])])
    BY <1>3 DEF Part
  <2>2. I \in SUBSET {i \in DOMAIN log'[a] : log'[a][i] = k}
    BY <1>1
  <2> QED
    BY <2>1, <2>2 DEF Part
<1> QED
  BY <1>2, <1>3

-----------------------------------------------------------------------------
(* What the tables hold.                                                   *)

\* Nothing of an account that is gone.
Gone == \A a \in Account \ connected :
    /\ daily[a] = NoRows /\ baseline[a] = None
    /\ hash[a] = [s \in Source |-> None] /\ entries[a] = NoEntries

\* The rows of a Codex account are those its entries make.
FromFiles == \A a \in Account : Provider[a] = "codex" => daily[a] = FromEntries(entries[a])

\* The rows of a TokenRhythm account are of requests in its log.
FromLog == \A a \in Account : Provider[a] = "tokenrhythm" => \A k \in Key : Part(a, k, daily[a][k])

Held == TypeOK /\ Gone /\ Imports /\ Syncing /\ FromFiles /\ FromLog

\* What has been imported stays a version of its file.
LEMMA MatchesStays ==
    ASSUME TypeOK, [Next]_vars, NEW a \in Account, NEW h, NEW e, Matches(a, h, e)
    PROVE  Matches(a, h, e)'
<1>1. file \in [Account -> [Source -> Seq(Totals)]] /\ \A s \in Source : Len(file[a][s]) \in Nat
  BY DEF TypeOK, UseTypeOK
<1>2. ASSUME NEW s \in Source
      PROVE  IF h[s] = None THEN e[s] = [k \in Day \X Model |-> None]
             ELSE h[s] \in 1 .. Len(file'[a][s]) /\ e[s] = file'[a][s][h[s]]
  <2>1. CASE h[s] = None
    BY <2>1 DEF Matches
  <2>2. CASE h[s] # None
    <3>1. h[s] \in 1 .. Len(file[a][s]) /\ e[s] = file[a][s][h[s]]
      BY <2>2 DEF Matches
    <3>2. Len(file[a][s]) <= Len(file'[a][s]) /\ \A v \in 1 .. Len(file[a][s]) : file'[a][s][v] = file[a][s][v]
      BY FilesGrow
    <3>3. Len(file'[a][s]) \in Nat \/ ~(Len(file'[a][s]) \in Nat)
      OBVIOUS
    <3>4. h[s] \in 1 .. Len(file'[a][s])
      BY <1>1, <3>1, <3>2
    <3> QED
      BY <2>2, <3>1, <3>2, <3>4
  <2> QED
    BY <2>1, <2>2
<1> QED
  BY <1>2 DEF Matches

\* Every step keeps the entries those of versions of the files,
LEMMA ImportsStep ==
    ASSUME Held, [Next]_vars
    PROVE  Imports'
<1> USE DEF Held
<1> SUFFICES ASSUME NEW a \in Account, Provider[a] = "codex"
             PROVE  Matches(a, hash[a], entries[a])'
  BY DEF Imports
<1>1. Matches(a, hash[a], entries[a])
  BY DEF Imports
<1> DEFINE h == hash[a]
           e == entries[a]
<1>2. ASSUME hash'[a] = h, entries'[a] = e
      PROVE  Matches(a, hash[a], entries[a])'
  <2> HIDE DEF h, e
  <2>1. ASSUME NEW x, NEW y, Matches(a, x, y)
        PROVE  \A s \in Source : IF x[s] = None THEN y[s] = [k \in Day \X Model |-> None]
                  ELSE x[s] \in 1 .. Len(file'[a][s]) /\ y[s] = file'[a][s][x[s]]
    <3>1. Matches(a, x, y)'
      BY <2>1, MatchesStays
    <3> QED
      BY <3>1 DEF Matches
  <2> QED
    <3>1. Matches(a, h, e)
      BY <1>1 DEF h, e
    <3>2. \A s \in Source : IF h[s] = None THEN e[s] = [k \in Day \X Model |-> None]
            ELSE h[s] \in 1 .. Len(file'[a][s]) /\ e[s] = file'[a][s][h[s]]
      BY <2>1, <3>1
    <3> QED
      BY <1>2, <3>2 DEF Matches
<1>3. CASE UNCHANGED tables
  BY <1>2, <1>3 DEF tables
<1>4. ASSUME UNCHANGED beside, NEW b \in Account, TakesReading(b) \/ TakesDay(b)
      PROVE  Matches(a, hash[a], entries[a])'
  BY <1>2, <1>4 DEF TakesReading, TakesDay, RecordUsageSnapshot, UpsertAbsoluteDailyUsage
<1>5. ASSUME UNCHANGED beside, NEW b \in Account, TakesFiles(b)
      PROVE  Matches(a, hash[a], entries[a])'
  <2>1. PICK after \in Imported(b) :
          hash' = [hash EXCEPT ![b] = after.hash] /\ entries' = [entries EXCEPT ![b] = after.entries]
    BY <1>5 DEF TakesFiles
  <2>2. CASE a = b
    <3>1. hash'[a] = after.hash /\ entries'[a] = after.entries /\ Matches(a, after.hash, after.entries)
      BY <2>1, <2>2 DEF Imported, TypeOK, TablesTypeOK
    <3> QED
      BY <1>5, <3>1 DEF Matches, beside
  <2>3. CASE a # b
    BY <1>2, <2>1, <2>3 DEF TypeOK, TablesTypeOK
  <2> QED
    BY <2>2, <2>3
<1>6. ASSUME UNCHANGED beside, NEW b \in Account, DeleteConnectedAccount(b)
      PROVE  Matches(a, hash[a], entries[a])'
  <2>1. CASE a = b
    <3>1. hash'[a] = [s \in Source |-> None] /\ entries'[a] = NoEntries
      BY <1>6, <2>1 DEF DeleteConnectedAccount, TypeOK, TablesTypeOK
    <3> QED
      BY <3>1 DEF Matches, NoEntries
  <2>2. CASE a # b
    BY <1>2, <1>6, <2>2 DEF DeleteConnectedAccount, TypeOK, TablesTypeOK
  <2> QED
    BY <2>1, <2>2
<1> QED
  BY <1>3, <1>4, <1>5, <1>6, TablesMove

\* the Codex rows those of the entries,
LEMMA FromFilesStep ==
    ASSUME Held, [Next]_vars
    PROVE  FromFiles'
<1> USE DEF Held
<1> SUFFICES ASSUME NEW a \in Account, Provider[a] = "codex"
             PROVE  daily'[a] = FromEntries(entries'[a])
  BY DEF FromFiles, FromEntries
<1>1. daily[a] = FromEntries(entries[a])
  BY DEF FromFiles
<1>2. CASE daily'[a] = daily[a] /\ entries'[a] = entries[a]
  BY <1>1, <1>2
<1>3. CASE UNCHANGED tables
  BY <1>2, <1>3 DEF tables
<1>4. ASSUME NEW b \in Account, TakesReading(b) \/ TakesDay(b)
      PROVE  daily'[a] = daily[a] /\ entries'[a] = entries[a]
  <2>1. a # b
    BY <1>4 DEF TakesReading, TakesDay
  <2>2. TypeOK /\ daily \in [Account -> [Key -> Counters \union {None}]]
    BY DEF TypeOK, TablesTypeOK
  <2>3. CASE TakesReading(b)
    BY <2>1, <2>2, <2>3 DEF TakesReading, RecordUsageSnapshot, AddDailyDelta
  <2>4. CASE TakesDay(b)
    BY <2>1, <2>2, <2>4 DEF TakesDay, UpsertAbsoluteDailyUsage
  <2> QED
    BY <1>4, <2>3, <2>4
<1>5. ASSUME NEW b \in Account, TakesFiles(b)
      PROVE  daily'[a] = FromEntries(entries'[a])
  <2>1. PICK after \in Imported(b) :
          /\ entries' = [entries EXCEPT ![b] = after.entries]
          /\ daily' = IF after.changed THEN [daily EXCEPT ![b] = FromEntries(after.entries)] ELSE daily
    BY <1>5 DEF TakesFiles
  <2>2. daily \in [Account -> [Key -> Counters \union {None}]] /\ entries \in [Account -> [Source -> Totals]]
    BY DEF TypeOK, TablesTypeOK
  <2>3. ~after.changed => after.entries = entries[b]
    BY DEF Imported
  <2> QED
    BY <1>1, <2>1, <2>2, <2>3
<1>6. ASSUME NEW b \in Account, DeleteConnectedAccount(b)
      PROVE  daily'[a] = FromEntries(entries'[a])
  <2>1. daily \in [Account -> [Key -> Counters \union {None}]] /\ entries \in [Account -> [Source -> Totals]]
    BY DEF TypeOK, TablesTypeOK
  <2> QED
    BY <1>1, <1>6, <2>1, NothingFromNothing DEF DeleteConnectedAccount
<1> QED
  BY <1>2, <1>3, <1>4, <1>5, <1>6, TablesMove

\* the TokenRhythm rows totals of requests that were made,
LEMMA FromLogStep ==
    ASSUME Held, [Next]_vars
    PROVE  FromLog'
<1> USE DEF Held
<1> SUFFICES ASSUME NEW a \in Account, Provider[a] = "tokenrhythm", NEW k \in Key
             PROVE  Part(a, k, daily[a][k])'
  BY DEF FromLog, Key
<1>1. Part(a, k, daily[a][k]) /\ daily \in [Account -> [Key -> Counters \union {None}]]
  BY DEF FromLog, TypeOK, TablesTypeOK
<1>2. ASSUME NEW x, Part(a, k, x), daily'[a][k] = x
      PROVE  Part(a, k, daily[a][k])'
  <2>1. Part(a, k, x)'
    BY <1>2, PartStays
  <2> QED
    BY <1>2, <2>1 DEF Part
<1>3. CASE UNCHANGED tables
  BY <1>1, <1>2, <1>3 DEF tables
<1>4. ASSUME NEW b \in Account, TakesReading(b) \/ TakesFiles(b)
      PROVE  Part(a, k, daily[a][k])'
  <2>1. a # b
    BY <1>4 DEF TakesReading, TakesFiles
  <2>2. daily'[a] = daily[a]
    <3>1. CASE TakesReading(b)
      BY <1>1, <2>1, <3>1 DEF TakesReading, RecordUsageSnapshot, AddDailyDelta
    <3>2. CASE TakesFiles(b)
      BY <1>1, <2>1, <3>2 DEF TakesFiles
    <3> QED
      BY <1>4, <3>1, <3>2
  <2> QED
    BY <1>1, <1>2, <2>2
<1>5. ASSUME NEW b \in Account, TakesDay(b)
      PROVE  Part(a, k, daily[a][k])'
  <2>1. PICK d \in Day, n \in [Names -> Counters \union {None}] :
          UpsertAbsoluteDailyUsage(b, d, n) /\ \A m \in Names : Part(b, <<d, m>>, n[m])
    BY <1>5 DEF TakesDay
  <2>2. daily' = [daily EXCEPT ![b] = [j \in Key |-> IF j[1] = d THEN n[j[2]] ELSE @[j]]]
    BY <2>1 DEF UpsertAbsoluteDailyUsage
  <2>3. k[2] \in Names /\ k = <<k[1], k[2]>>
    BY DEF Key
  <2>4. CASE a = b /\ k[1] = d
    <3>1. daily'[a][k] = n[k[2]]
      BY <1>1, <2>2, <2>4
    <3>2. Part(a, k, n[k[2]])
      BY <2>1, <2>3, <2>4
    <3> QED
      BY <1>2, <3>1, <3>2
  <2>5. CASE ~(a = b /\ k[1] = d)
    <3>1. daily'[a][k] = daily[a][k]
      BY <1>1, <2>2, <2>5
    <3> QED
      BY <1>1, <1>2, <3>1
  <2> QED
    BY <2>4, <2>5
<1>6. ASSUME NEW b \in Account, DeleteConnectedAccount(b)
      PROVE  Part(a, k, daily[a][k])'
  <2>1. daily'[a][k] = daily[a][k] \/ daily'[a][k] = None
    BY <1>1, <1>6 DEF DeleteConnectedAccount, NoRows
  <2>2. Part(a, k, None)
    BY DEF Part
  <2> QED
    BY <1>1, <1>2, <2>1, <2>2
<1> QED
  BY <1>3, <1>4, <1>5, <1>6, TablesMove

\* and a deleted account without usage.
LEMMA GoneStep ==
    ASSUME Held, [Next]_vars
    PROVE  Gone'
<1> USE DEF Held
<1> SUFFICES ASSUME NEW a \in Account, a \notin connected'
             PROVE  /\ daily'[a] = NoRows /\ baseline'[a] = None
                    /\ hash'[a] = [s \in Source |-> None] /\ entries'[a] = NoEntries
  BY DEF Gone, NoRows, NoEntries, Key
<1>1. TablesTypeOK
  BY DEF TypeOK
<1>2. ASSUME a \notin connected, daily'[a] = daily[a], baseline'[a] = baseline[a], hash'[a] = hash[a],
             entries'[a] = entries[a]
      PROVE  /\ daily'[a] = NoRows /\ baseline'[a] = None
             /\ hash'[a] = [s \in Source |-> None] /\ entries'[a] = NoEntries
  BY <1>2 DEF Gone
<1>3. CASE UNCHANGED tables
  BY <1>2, <1>3 DEF tables
<1>4. ASSUME NEW b \in Account, TakesReading(b)
      PROVE  a \notin connected /\ daily'[a] = daily[a] /\ baseline'[a] = baseline[a] /\ hash'[a] = hash[a]
             /\ entries'[a] = entries[a]
  BY <1>1, <1>4 DEF TakesReading, RecordUsageSnapshot, AddDailyDelta, TablesTypeOK
<1>5. ASSUME NEW b \in Account, TakesDay(b)
      PROVE  a \notin connected /\ daily'[a] = daily[a] /\ baseline'[a] = baseline[a] /\ hash'[a] = hash[a]
             /\ entries'[a] = entries[a]
  BY <1>1, <1>5 DEF TakesDay, UpsertAbsoluteDailyUsage, TablesTypeOK
<1>6. ASSUME NEW b \in Account, TakesFiles(b)
      PROVE  a \notin connected /\ daily'[a] = daily[a] /\ baseline'[a] = baseline[a] /\ hash'[a] = hash[a]
             /\ entries'[a] = entries[a]
  BY <1>1, <1>6 DEF TakesFiles, TablesTypeOK
<1>7. ASSUME NEW b \in Account, DeleteConnectedAccount(b)
      PROVE  /\ daily'[a] = NoRows /\ baseline'[a] = None
             /\ hash'[a] = [s \in Source |-> None] /\ entries'[a] = NoEntries
  <2>1. CASE a = b
    BY <1>1, <1>7, <2>1 DEF DeleteConnectedAccount, TablesTypeOK
  <2>2. CASE a # b
    BY <1>1, <1>2, <1>7, <2>2 DEF DeleteConnectedAccount, TablesTypeOK
  <2> QED
    BY <2>1, <2>2
<1> QED
  BY <1>2, <1>3, <1>4, <1>5, <1>6, <1>7, TablesMove

OneSyncing(s) == s.at # "idle" =>
    /\ Provider[s.account] = "tokenrhythm"
    /\ s.at = "write" =>
         /\ s.panel \in Panel
         /\ \A m \in Names : Part(s.account, <<s.panel.day, m>>, s.panel.readings[m])

\* A sync stays one of a TokenRhythm account.
LEMMA OneSyncingStays ==
    ASSUME TypeOK, [Next]_vars, NEW s, OneSyncing(s), s.at # "idle" => s.account \in Account
    PROVE  OneSyncing(s)'
BY PartStays DEF OneSyncing

\* What a step makes of the syncs: every other one goes on, or is no
\* longer whole.
LEMMA SyncMove ==
    ASSUME TypeOK, [Next]_vars
    PROVE  \/ UNCHANGED sync
           \/ \E p \in Process :
                /\ StartSync(p) \/ HistoryFails(p) \/ FetchPage(p) \/ StoreDay(p)
                   \/ DaysDone(p) \/ FetchToday(p) \/ StoreToday(p)
                /\ \A q \in Process \ {p} : sync'[q] = sync[q] \/ sync'[q] = Partial(sync[q])
<1> DEFINE Moves(p) == StartSync(p) \/ HistoryFails(p) \/ FetchPage(p) \/ StoreDay(p)
                       \/ DaysDone(p) \/ FetchToday(p) \/ StoreToday(p)
<1>1. ASSUME NEW p \in Process, Moves(p)
      PROVE  \A q \in Process \ {p} : sync'[q] = sync[q] \/ sync'[q] = Partial(sync[q])
  <2>1. sync \in [Process -> Sync]
    BY DEF TypeOK, SyncTypeOK
  <2>2. CASE StartSync(p)
    BY <2>2 DEF StartSync
  <2>3. ASSUME NEW s, Set(p, s)
        PROVE  \A q \in Process \ {p} : sync'[q] = sync[q]
    BY <2>1, <2>3 DEF Set
  <2>4. CASE HistoryFails(p) \/ FetchPage(p) \/ StoreDay(p) \/ DaysDone(p) \/ FetchToday(p) \/ StoreToday(p)
    BY <2>3, <2>4 DEF HistoryFails, FetchPage, StoreDay, DaysDone, FetchToday, StoreToday
  <2> QED
    BY <1>1, <2>2, <2>4
<1>2. (\E p \in Process : Moves(p)) \/ UNCHANGED sync
  BY DEF Next, NextDay, UseMeter, ResetMeter, TakeReading, GrowFile, Call, List, Age, StoreReading, ImportCodexUsage,
         Delete, vars
<1> QED
  BY <1>1, <1>2

\* Every step keeps the syncs those of TokenRhythm accounts.
LEMMA SyncingStep ==
    ASSUME Held, [Next]_vars
    PROVE  Syncing'
<1> USE DEF Held
<1>1. TypeOK /\ SyncTypeOK /\ SyncTypeOK'
  BY TypesStep DEF TypeOK
<1>2. \A q \in Process : OneSyncing(sync[q]) /\ (sync[q].at # "idle" => sync[q].account \in Account) /\ sync[q] \in Sync
  BY <1>1 DEF Syncing, OneSyncing, SyncTypeOK
<1> SUFFICES ASSUME NEW q \in Process
             PROVE  OneSyncing(sync[q])'
  BY DEF Syncing, OneSyncing
<1>3. ASSUME NEW s, OneSyncing(s), s.at # "idle" => s.account \in Account, sync'[q] = s
      PROVE  OneSyncing(sync[q])'
  <2>1. OneSyncing(s)'
    BY <1>3, OneSyncingStays
  <2> QED
    BY <1>3, <2>1 DEF OneSyncing, Part
<1>4. ASSUME NEW s \in Sync, sync'[q] = s, s.at # "idle" => s.account = sync[q].account, s.at # "write",
             sync[q].at # "idle"
      PROVE  OneSyncing(sync[q])'
  <2>1. OneSyncing(s)
    BY <1>2, <1>4 DEF OneSyncing
  <2> QED
    BY <1>2, <1>3, <1>4, <2>1
<1>5. CASE sync'[q] = sync[q]
  BY <1>2, <1>3, <1>5
<1>6. CASE sync'[q] = Partial(sync[q])
  <2>1. OneSyncing(Partial(sync[q])) /\ Partial(sync[q]).at = sync[q].at /\ Partial(sync[q]).account = sync[q].account
    BY <1>2, PartialType DEF OneSyncing
  <2> QED
    BY <1>2, <1>3, <1>6, <2>1
<1> DEFINE s == sync[q]
<1>7. ASSUME StartSync(q)
      PROVE  OneSyncing(sync[q])'
  <2>1. PICK a \in Rhythm : sync'[q] = Begun(a) \/ sync'[q] = Whole(Begun(a), listed[a], Len(log[a]))
    BY <1>7 DEF StartSync, Begun, Whole
  <2>2. a \in Account /\ Provider[a] = "tokenrhythm" /\ listed[a] \in Nat /\ Len(log[a]) \in Nat
    BY DEF Rhythm, TypeOK, TablesTypeOK, LogTypeOK
  <2>3. sync'[q].account = a /\ sync'[q].at = "page"
    <3>1. Begun(a) \in Sync /\ Begun(a).at = "page" /\ Begun(a).account = a
      BY <2>2, BegunSync
    <3> DEFINE w == Whole(Begun(a), listed[a], Len(log[a]))
    <3>2. w.at = Begun(a).at /\ w.account = Begun(a).account
      BY <3>1 DEF Whole, Sync
    <3> QED
      BY <2>1, <3>1, <3>2
  <2> QED
    BY <2>2, <2>3 DEF OneSyncing
<1>8. ASSUME NEW t, Set(q, t)
      PROVE  sync'[q] = t
  BY <1>1, <1>8 DEF Set, SyncTypeOK
<1>9. ASSUME HistoryFails(q)
      PROVE  OneSyncing(sync[q])'
  <2>1. Set(q, Partial(Failed(s))) /\ s.at = "page"
    BY <1>9 DEF HistoryFails, Failed
  <2>2. Partial(Failed(s)) \in Sync /\ Partial(Failed(s)).at = "panel" /\ Partial(Failed(s)).account = s.account
    BY <1>2, FailedSync, PartialType
  <2> QED
    BY <1>4, <1>8, <2>1, <2>2
<1>10. ASSUME FetchPage(q)
       PROVE  OneSyncing(sync[q])'
  <2>1. sync'[q].account = s.account /\ sync'[q].at \in {"page", "days"} /\ s.at = "page" /\ sync'[q] \in Sync
    <3>1. s.at = "page"
      BY <1>10 DEF FetchPage
    <3>2. sync'[q] \in Sync
      BY <1>1 DEF SyncTypeOK
    <3>3. \E x, y, z : sync'[q] = ReadWhole(s, x, y) \/ sync'[q] = Paged(s, x, y)
      BY <1>8, <1>10, FetchedPage
    <3>4. \A x, y : /\ ReadWhole(s, x, y).account = s.account /\ ReadWhole(s, x, y).at = "days"
                    /\ Paged(s, x, y).account = s.account /\ Paged(s, x, y).at = s.at
      BY <1>2 DEF ReadWhole, Paged, Sync
    <3> QED
      BY <3>1, <3>2, <3>3, <3>4
  <2> QED
    BY <1>4, <2>1
<1>11. ASSUME StoreDay(q) \/ DaysDone(q)
       PROVE  OneSyncing(sync[q])'
  <2>1. s.at = "days" /\ sync'[q] \in Sync
    BY <1>1, <1>11 DEF StoreDay, DaysDone, SyncTypeOK
  <2>2. \/ \E D : sync'[q] = [s EXCEPT !.todo = D] \/ sync'[q] = Partial([s EXCEPT !.todo = {}])
        \/ sync'[q] = [s EXCEPT !.at = "panel", !.seen = {}]
    BY <1>8, <1>11 DEF StoreDay, DaysDone
  <2>3. sync'[q].account = s.account /\ sync'[q].at # "write"
    BY <1>2, <2>1, <2>2 DEF Sync, Partial
  <2> QED
    BY <1>4, <2>1, <2>3
<1>12. ASSUME FetchToday(q)
       PROVE  OneSyncing(sync[q])'
  <2> DEFINE requests == OfDay(s.account, DOMAIN log[s.account], today)
             panel == [day |-> today, readings |-> Readings(s.account, requests)]
             t == [s EXCEPT !.at = "write", !.panel = panel]
  <2>1. s.at = "panel" /\ (Set(q, IdleSync) \/ Set(q, t))
    BY <1>12 DEF FetchToday
  <2>2. /\ Readings(s.account, requests) \in [Names -> Counters \union {None}]
        /\ \A m \in Names : Part(s.account, <<today, m>>, Readings(s.account, requests)[m])
    BY <1>1, <1>2, <2>1, ReadingsOfDay DEF OfDay, TypeOK, LogTypeOK, UseTypeOK
  <2>3. panel \in Panel /\ panel.day = today /\ \A m \in Names : Part(s.account, <<panel.day, m>>, panel.readings[m])
    BY <2>2 DEF Panel, TypeOK, UseTypeOK
  <2> HIDE DEF panel
  <2>4. t.account = s.account /\ t.at = "write" /\ t.panel = panel
    BY <1>2 DEF Sync
  <2> HIDE DEF t
  <2>5. OneSyncing(t) /\ t.account \in Account
    BY <1>2, <2>1, <2>3, <2>4 DEF OneSyncing
  <2>6. OneSyncing(IdleSync) /\ IdleSync.at = "idle"
    BY DEF OneSyncing, IdleSync
  <2> QED
    BY <1>3, <1>8, <2>1, <2>5, <2>6
<1>13. ASSUME StoreToday(q)
       PROVE  OneSyncing(sync[q])'
  <2>1. sync'[q] = IdleSync
    BY <1>8, <1>13 DEF StoreToday
  <2> QED
    BY <2>1 DEF OneSyncing, IdleSync
<1> QED
  BY <1>5, <1>6, <1>7, <1>9, <1>10, <1>11, <1>12, <1>13, SyncMove

\* What the tables hold, they hold at the start,
LEMMA HeldAtFirst == Init => Held
<1> SUFFICES ASSUME Init PROVE Held
  OBVIOUS
<1>1. /\ daily = [a \in Account |-> NoRows] /\ baseline = [a \in Account |-> None]
      /\ hash = [a \in Account |-> [s \in Source |-> None]] /\ entries = [a \in Account |-> NoEntries]
      /\ sync = [p \in Process |-> IdleSync]
  BY DEF Init, StoreInit
<1>2. TypeOK
  BY TypesAtFirst
<1>3. Gone
  BY <1>1 DEF Gone
<1>4. Imports
  BY <1>1 DEF Imports, Matches, NoEntries
<1>5. Syncing
  BY <1>1 DEF Syncing, IdleSync
<1>6. FromFiles
  BY <1>1, NothingFromNothing DEF FromFiles
<1>7. FromLog
  BY <1>1 DEF FromLog, Part, NoRows
<1> QED
  BY <1>2, <1>3, <1>4, <1>5, <1>6, <1>7 DEF Held

\* after every step,
LEMMA HeldStep == Held /\ [Next]_vars => Held'
<1> SUFFICES ASSUME Held, [Next]_vars PROVE Held'
  OBVIOUS
<1>1. TypeOK'
  BY TypesStep DEF Held
<1> QED
  BY <1>1, GoneStep, ImportsStep, SyncingStep, FromFilesStep, FromLogStep DEF Held

\* and so always.
LEMMA AlwaysHeld == Spec => []Held
BY HeldAtFirst, HeldStep, PTL DEF Spec

\* The tables hold rows of the accounts, days and models there are, and a
\* sync has a place, pages and days it may have, whatever the code's
\* processes do and in any order.
THEOREM UsageTypeOK == Spec => []TypeOK
<1>1. Held => TypeOK
  BY DEF Held
<1> QED
  BY <1>1, AlwaysHeld, PTL

\* DeleteConnectedAccount leaves no usage of the account behind, and no
\* sync, import or reading that was under way brings any back.
THEOREM UsageDeletedLeavesNoUsage == Spec => []DeletedLeavesNoUsage
<1>1. Held => DeletedLeavesNoUsage
  BY DEF Held, Gone, DeletedLeavesNoUsage
<1> QED
  BY <1>1, AlwaysHeld, PTL

\* It makes the Codex rows the totals of the imported files.
LEMMA SourcesCount == Held => UsageFromSources
<1> SUFFICES ASSUME Held, NEW a \in Codex, NEW d \in Day
             PROVE  LET files == {s \in Source : hash[a][s] # None} IN
                    Stored(a, d) =
                      Total(files, [s \in files |->
                          Total(Model, [m \in Model |-> Shown(file[a][s][hash[a][s]][<<d, m>>])])])
  BY DEF UsageFromSources
<1> DEFINE files == {s \in Source : hash[a][s] # None}
           others == Source \ files
           all == DayOf(entries[a], d)
           f == [s \in files |-> Total(Model, [m \in Model |-> Shown(file[a][s][hash[a][s]][<<d, m>>])])]
<1>1. a \in Account /\ Provider[a] = "codex" /\ entries[a] \in [Source -> Totals]
  BY DEF Codex, Held, TypeOK, TablesTypeOK
<1>2. daily[a] = FromEntries(entries[a]) /\ Matches(a, hash[a], entries[a])
  BY <1>1 DEF Held, FromFiles, Imports
<1>3. Stored(a, d) = Total(Source, all)
  BY <1>1, <1>2, RowsFromEntries DEF Stored
<1>4. \A s \in Source : all[s] = Total(Model, [m \in Model |-> Shown(entries[a][s][<<d, m>>])]) /\ all[s] \in Counters
  BY <1>1, TotalsShown DEF DayOf
<1>5. \A s \in files : entries[a][s] = file[a][s][hash[a][s]]
  BY <1>2 DEF Matches
<1>6. \A s \in files : f[s] = all[s]
  BY <1>4, <1>5
<1>7. \A s \in others : all[s] = Zero
  <2> SUFFICES ASSUME NEW s \in others PROVE all[s] = Zero
    OBVIOUS
  <2>1. entries[a][s] = [k \in Day \X Model |-> None]
    BY <1>2 DEF Matches
  <2>2. \A m \in Model : Shown(entries[a][s][<<d, m>>]) = Zero
    BY <2>1 DEF Shown
  <2> DEFINE g == [m \in Model |-> Shown(entries[a][s][<<d, m>>])]
  <2>3. \A m \in Model : g[m] = Zero
    BY <2>2
  <2> HIDE DEF g
  <2>4. Total(Model, g) = Zero
    BY <2>3, NamesAssumption, TotalZero
  <2> QED
    BY <1>4, <2>4 DEF g
<1>8. IsFiniteSet(files) /\ IsFiniteSet(others) /\ files \union others = Source /\ files \intersect others = {}
  BY NamesAssumption, FS_Subset
<1> HIDE DEF files, others, all, f
<1>9. \A s \in files \union others : all[s] \in Counters
  BY <1>4, <1>8
<1>10. Total(Source, all) = Plus(Total(files, all), Total(others, all))
  <2>1. Total(files \union others, all) = Plus(Total(files, all), Total(others, all))
    BY <1>8, <1>9, TotalUnion
  <2> QED
    BY <1>8, <2>1
<1>11. Total(others, all) = Zero
  BY <1>7, <1>8, TotalZero
<1>12. Total(files, f) = Total(files, all) /\ Total(files, all) \in Counters
  <2>1. \A s \in files : f[s] \in Counters /\ all[s] \in Counters
    BY <1>6, <1>9
  <2> QED
    BY <1>6, <1>8, <2>1, TotalEqual, TotalMore
<1>13. Stored(a, d) = Total(files, f)
  BY <1>3, <1>10, <1>11, <1>12, PlusCounters
<1> QED
  BY <1>13 DEF f, files

\* The rows of a Codex account are the totals of exactly the imported
\* versions of its files, after any imports in any order
\* (ReplaceCodexUsageSources).
THEOREM UsageFromItsSources == Spec => []UsageFromSources
BY AlwaysHeld, SourcesCount, PTL

-----------------------------------------------------------------------------
(* TokenRhythm: the log is what was used.                                  *)

ModelsOf(l, e) == {i \in DOMAIN l : l[i][1] = e}
CostsOf(l) == [i \in DOMAIN l |-> Request(l[i][2])]
UseOfLog(l, u) == \A e \in Day : u[e] = Total(ModelsOf(l, e), CostsOf(l))

\* A call keeps the use of a TokenRhythm account the requests of its log.
LEMMA CallCounts ==
    ASSUME NEW l \in Seq(Key), NEW u \in [Day -> Counters], UseOfLog(l, u), NEW d \in Day, NEW m \in Names,
           NEW v, v = [u EXCEPT ![d] = Plus(@, Request(m))]
    PROVE  UseOfLog(Append(l, <<d, m>>), v)
<1> DEFINE k == Append(l, <<d, m>>)
           n == Len(l) + 1
           cost == CostsOf(l)
           more == CostsOf(k)
<1>1. /\ DOMAIN l = 1 .. Len(l) /\ Len(l) \in Nat /\ DOMAIN k = 1 .. n /\ n \in DOMAIN k /\ n \notin DOMAIN l
      /\ DOMAIN k = DOMAIN l \union {n}
      /\ k[n] = <<d, m>> /\ \A i \in DOMAIN l : k[i] = l[i]
  <2>1. <<d, m>> \in Key
    BY DEF Key
  <2> QED
    BY <2>1
<1>2. IsFiniteSet(DOMAIN l) /\ IsFiniteSet(DOMAIN k)
  BY <1>1, FS_Interval
<1> HIDE DEF k, n
<1>3. /\ \A i \in DOMAIN k : more[i] \in Counters
      /\ \A i \in DOMAIN l : cost[i] \in Counters /\ more[i] = cost[i]
      /\ more[n] = Request(m)
  BY <1>1, RequestType DEF CostsOf
<1> HIDE DEF cost, more
<1> SUFFICES ASSUME NEW e \in Day
             PROVE  v[e] = Total(ModelsOf(k, e), more)
  BY DEF UseOfLog, more, k
<1> DEFINE I == ModelsOf(l, e)
           J == ModelsOf(k, e)
<1>4. I \in SUBSET DOMAIN l /\ I \in SUBSET DOMAIN k /\ J \in SUBSET DOMAIN k /\ n \in DOMAIN k \ I
      /\ J = IF e = d THEN I \union {n} ELSE I
  BY <1>1 DEF ModelsOf
<1>5. u[e] = Total(I, cost)
  BY DEF UseOfLog, cost
<1> HIDE DEF I, J
<1>6. IsFiniteSet(I)
  BY <1>2, <1>4, FS_Subset
<1>7. Total(I, cost) = Total(I, more) /\ Total(I, cost) \in Counters
  BY <1>3, <1>4, <1>6, TotalEqual, TotalMore
<1>8. CASE e = d
  <2>1. Total(I \union {n}, more) = Plus(more[n], Total(I, more))
    BY <1>2, <1>3, <1>4, TotalMore
  <2>2. v[e] = Plus(u[e], Request(m))
    BY <1>8
  <2>3. Plus(u[e], Request(m)) = Plus(Request(m), u[e])
    BY RequestType, PlusCounters
  <2> QED
    BY <1>3, <1>4, <1>5, <1>7, <1>8, <2>1, <2>2, <2>3 DEF J
<1>9. CASE e # d
  BY <1>4, <1>5, <1>7, <1>9 DEF J
<1> QED
  BY <1>8, <1>9

\* The rows of a day are of requests of that day, and no request is in two.
LEMMA PartsOfUse ==
    ASSUME log \in [Account -> Seq(Key)], NEW a \in Account, NEW d \in Day,
           \A m \in Names : Part(a, <<d, m>>, daily[a][<<d, m>>])
    PROVE  AtMost(Stored(a, d), Total(ModelsOf(log[a], d), CostsOf(log[a]))) /\ Stored(a, d) \in Counters
<1> DEFINE l == log[a]
           I == ModelsOf(l, d)
           cost == CostsOf(l)
           kind == [i \in I |-> l[i][2]]
           all == [m \in Names |-> Total({i \in I : kind[i] = m}, cost)]
           rows == [m \in Names |-> Shown(daily[a][<<d, m>>])]
<1>1. /\ IsFiniteSet(I) /\ \A i \in DOMAIN l : l[i][2] \in Names /\ l[i] = <<l[i][1], l[i][2]>>
      /\ I \in SUBSET DOMAIN l /\ \A m \in Names : IsFiniteSet({i \in I : kind[i] = m})
  BY LogFinite, FS_Subset DEF ModelsOf
<1>2. \A i \in DOMAIN l : cost[i] = Request(l[i][2]) /\ cost[i] \in Counters
  BY RequestType DEF CostsOf
<1>3. ByKind(Names, I, kind, cost, all)
  BY <1>1 DEF ByKind
<1>4. ASSUME NEW m \in Names
      PROVE  rows[m] \in Counters /\ all[m] \in Counters /\ AtMost(rows[m], all[m])
  <2> DEFINE K == {i \in I : kind[i] = m}
             x == daily[a][<<d, m>>]
  <2>1. \A i \in K : cost[i] \in Counters /\ cost[i] = Request(m)
    BY <1>1, <1>2
  <2>2. {i \in DOMAIN l : l[i] = <<d, m>>} \in SUBSET K
    BY <1>1 DEF ModelsOf
  <2>3. IsFiniteSet(K) /\ all[m] = Total(K, cost)
    BY <1>1
  <2> HIDE DEF K, cost, x
  <2>4. Total(K, cost) \in Counters
    BY <2>1, <2>3, TotalMore
  <2>5. CASE x = None
    <3>1. Shown(x) = Zero
      BY <2>5 DEF Shown
    <3> QED
      BY <2>3, <2>4, <3>1, AtMostCounters, PlusCounters DEF x
  <2>6. CASE x # None
    <3>1. Part(a, <<d, m>>, x)
      BY DEF x
    <3>2. PICK T \in SUBSET {i \in DOMAIN l : l[i] = <<d, m>>} : x = Total(T, [i \in T |-> Request(m)])
      BY <2>6, <3>1 DEF Part
    <3> DEFINE f == [i \in T |-> Request(m)]
    <3>3. T \in SUBSET K /\ IsFiniteSet(T)
      BY <2>2, <2>3, FS_Subset
    <3>4. \A i \in T : f[i] \in Counters /\ cost[i] = f[i]
      BY <2>1, <3>3
    <3> HIDE DEF f
    <3>5. Total(T, f) = Total(T, cost) /\ Total(T, cost) \in Counters
      BY <2>1, <2>3, <3>3, <3>4, TotalEqual, TotalMore
    <3>6. AtMost(Total(T, cost), Total(K, cost))
      BY <2>1, <2>3, <3>3, TotalSubset
    <3>7. Shown(x) = x /\ x = Total(T, cost)
      <4>1. x = Total(T, cost)
        BY <3>2, <3>5 DEF f
      <4> QED
        BY <3>5, <4>1, NoneAssumption DEF Shown
    <3> QED
      BY <2>3, <2>4, <3>5, <3>6, <3>7 DEF x
  <2> QED
    BY <2>5, <2>6
<1> HIDE DEF I, cost, kind, all, rows
<1>5. AtMost(Total(Names, rows), Total(Names, all)) /\ Total(Names, rows) \in Counters
  BY <1>4, FiniteNames, TotalAtMost, TotalMore
<1>6. Total(Names, all) = Total(I, cost)
  <2>1. \A i \in I : cost[i] \in Counters
    BY <1>1, <1>2
  <2> QED
    BY <1>1, <1>3, <2>1, FiniteNames, TotalByKind
<1> QED
  BY <1>5, <1>6 DEF Stored, rows, I, cost

-----------------------------------------------------------------------------
(* Codex: the newest versions of the files are what was used.              *)

Newest(f) == IF f = <<>> THEN [k \in Day \X Model |-> None] ELSE Last(f)
Growing(f) == \A v, w \in 1 .. Len(f) : v <= w => \A k \in Day \X Model : AtMost(Shown(f[v][k]), Shown(f[w][k]))
UseOfFiles(F, u) ==
    /\ \A s \in Source : Growing(F[s])
    /\ \A d \in Day : u[d] = Total(Source, DayOf([s \in Source |-> Newest(F[s])], d))

\* The newest version of a file is totals, and the last of its versions.
LEMMA NewestType ==
    ASSUME NEW f \in Seq(Totals)
    PROVE  /\ Newest(f) \in Totals
           /\ f # <<>> => Newest(f) = f[Len(f)] /\ Len(f) \in 1 .. Len(f)
<1>1. CASE f = <<>>
  BY <1>1 DEF Newest, Totals
<1>2. CASE f # <<>>
  <2>1. Len(f) \in 1 .. Len(f)
    BY <1>2
  <2> QED
    BY <1>2, <2>1 DEF Newest, Last
<1> QED
  BY <1>1, <1>2

\* An entry is counters or none.
LEMMA EntryTypes ==
    \A x \in Totals : \A k \in Day \X Model : x[k] \in Counters \union {None} /\ Shown(x[k]) \in Counters
BY ShownType DEF Totals

Grown(f, t, m, c) == [Newest(f) EXCEPT ![<<t, m>>] = Plus(Shown(@), c)]

\* A file that grows has a version no smaller than any before.
LEMMA GrowthGrows ==
    ASSUME NEW f \in Seq(Totals), Growing(f), NEW t \in Day, NEW m \in Model, NEW c \in Counters,
           NEW new, new = Grown(f, t, m, c)
    PROVE  /\ Growing(Append(f, new)) /\ new \in Totals /\ Newest(Append(f, new)) = new
           /\ Shown(new[<<t, m>>]) = Plus(Shown(Newest(f)[<<t, m>>]), c)
           /\ \A k \in Day \X Model : k # <<t, m>> => new[k] = Newest(f)[k]
<1> DEFINE old == Newest(f)
           g == Append(f, new)
           n == Len(f) + 1
<1>1. old \in Totals /\ \A k \in Day \X Model : Shown(old[k]) \in Counters
  BY NewestType, EntryTypes
<1>2. Plus(Shown(old[<<t, m>>]), c) \in Counters
  BY <1>1, PlusCounters
<1>3. /\ new \in Totals /\ new[<<t, m>>] = Plus(Shown(old[<<t, m>>]), c)
      /\ \A k \in Day \X Model : k # <<t, m>> => new[k] = old[k]
  <2>1. <<t, m>> \in Day \X Model
    OBVIOUS
  <2>2. new = [old EXCEPT ![<<t, m>>] = Plus(Shown(old[<<t, m>>]), c)]
    BY DEF Grown
  <2> HIDE DEF old
  <2> QED
    BY <1>1, <1>2, <2>1, <2>2 DEF Totals
<1>4. Shown(new[<<t, m>>]) = new[<<t, m>>]
  BY <1>2, <1>3, NoneAssumption DEF Shown
<1>5. /\ g \in Seq(Totals) /\ Len(g) = n /\ Len(f) \in Nat /\ g # <<>> /\ g[n] = new /\ \A v \in 1 .. Len(f) : g[v] = f[v]
  BY <1>3
<1>6. Newest(g) = new
  BY <1>5 DEF Newest, Last
<1>7. \A k \in Day \X Model : AtMost(Shown(old[k]), Shown(new[k])) /\ Shown(new[k]) \in Counters
  <2> SUFFICES ASSUME NEW k \in Day \X Model
               PROVE  AtMost(Shown(old[k]), Shown(new[k])) /\ Shown(new[k]) \in Counters
    OBVIOUS
  <2>1. CASE k = <<t, m>>
    BY <1>1, <1>2, <1>3, <1>4, <2>1, AtMostCounters
  <2>2. CASE k # <<t, m>>
    BY <1>1, <1>3, <2>2, AtMostCounters
  <2> QED
    BY <2>1, <2>2
<1>8. Growing(g)
  <2> SUFFICES ASSUME NEW v \in 1 .. n, NEW w \in 1 .. n, v <= w, NEW k \in Day \X Model
               PROVE  AtMost(Shown(g[v][k]), Shown(g[w][k]))
    BY <1>5 DEF Growing
  <2>1. CASE w # n
    <3>1. v \in 1 .. Len(f) /\ w \in 1 .. Len(f)
      BY <1>5, <2>1
    <3> QED
      BY <1>5, <3>1 DEF Growing
  <2>2. CASE v = n
    <3>1. w = n /\ g[v] = new
      BY <1>5, <2>2
    <3> QED
      BY <1>5, <1>7, <2>2, <3>1, AtMostCounters
  <2>3. CASE v # n /\ w = n
    <3>1. v \in 1 .. Len(f) /\ f # <<>>
      BY <1>5, <2>3
    <3>2. Len(f) \in 1 .. Len(f) /\ old = f[Len(f)] /\ v <= Len(f)
      BY <3>1, NewestType
    <3>3. AtMost(Shown(f[v][k]), Shown(old[k])) /\ Shown(f[v][k]) \in Counters
      BY <3>1, <3>2, EntryTypes DEF Growing
    <3>4. g[v] = f[v] /\ g[w] = new
      BY <1>5, <2>3, <3>1
    <3> HIDE DEF old, g
    <3> QED
      BY <1>1, <1>7, <3>3, <3>4, AtMostCounters
  <2> QED
    BY <2>1, <2>2, <2>3
<1> QED
  BY <1>3, <1>4, <1>6, <1>8

\* Use of a model on a day, and the version of a file that it makes.
GrowsTo(F, u, s, t, m, c, G, v) ==
    /\ G[s] = Append(F[s], Grown(F[s], t, m, c)) /\ \A q \in Source \ {s} : G[q] = F[q]
    /\ v[t] = Plus(u[t], c) /\ \A d \in Day \ {t} : v[d] = u[d]

\* A file that grows keeps the use of a Codex account the newest versions
\* of its files.
LEMMA GrowthCounts ==
    ASSUME NEW F \in [Source -> Seq(Totals)], NEW u \in [Day -> Counters], UseOfFiles(F, u),
           NEW s \in Source, NEW t \in Day, NEW m \in Model, NEW c \in Counters,
           NEW G, NEW v, GrowsTo(F, u, s, t, m, c, G, v)
    PROVE  UseOfFiles(G, v)
<1> DEFINE new == Grown(F[s], t, m, c)
<1>0. /\ G[s] = Append(F[s], new) /\ \A q \in Source \ {s} : G[q] = F[q]
      /\ v[t] = Plus(u[t], c) /\ \A d \in Day \ {t} : v[d] = u[d]
  BY DEF GrowsTo
<1> DEFINE old == [q \in Source |-> Newest(F[q])]
           now == [q \in Source |-> Newest(G[q])]
<1>1. F[s] \in Seq(Totals) /\ Growing(F[s]) /\ G[s] = Append(F[s], new) /\ \A q \in Source \ {s} : G[q] = F[q]
  BY <1>0 DEF UseOfFiles
<1>2. /\ Growing(G[s]) /\ new \in Totals /\ Newest(G[s]) = new
      /\ Shown(new[<<t, m>>]) = Plus(Shown(Newest(F[s])[<<t, m>>]), c)
      /\ \A k \in Day \X Model : k # <<t, m>> => new[k] = Newest(F[s])[k]
  BY <1>1, GrowthGrows
<1>3. \A q \in Source : Growing(G[q])
  BY <1>1, <1>2 DEF UseOfFiles
<1>4. old \in [Source -> Totals] /\ now \in [Source -> Totals] /\ now[s] = new /\ old[s] = Newest(F[s])
      /\ \A q \in Source \ {s} : now[q] = old[q]
  BY <1>1, <1>2, NewestType
<1> HIDE DEF old, now
<1>5. ASSUME NEW d \in Day
      PROVE  v[d] = Total(Source, DayOf(now, d))
  <2> DEFINE f == DayOf(old, d)
             g == DayOf(now, d)
             x == [n \in Model |-> Shown(old[s][<<d, n>>])]
             y == [n \in Model |-> Shown(now[s][<<d, n>>])]
  <2>1. u[d] = Total(Source, f)
    BY DEF UseOfFiles, old
  <2>2. \A q \in Source : f[q] \in Counters /\ g[q] \in Counters
    BY <1>4, TotalsShown DEF DayOf
  <2>3. \A q \in Source \ {s} : g[q] = f[q]
    BY <1>4 DEF DayOf
  <2>4. f[s] = Total(Model, x) /\ g[s] = Total(Model, y)
    BY DEF DayOf
  <2>5. \A n \in Model : x[n] \in Counters
    BY <1>4, TotalsShown
  <2>6. CASE d = t
    <3>1. y[m] = Plus(x[m], c) /\ \A n \in Model \ {m} : y[n] = x[n]
      BY <1>2, <1>4, <2>6
    <3> HIDE DEF x, y, f, g
    <3>2. Total(Model, y) = Plus(Total(Model, x), c)
      BY <2>5, <3>1, NamesAssumption, TotalAdd
    <3>4. g[s] = Plus(f[s], c)
      BY <2>4, <3>2
    <3>3. Total(Source, g) = Plus(Total(Source, f), c)
      BY <2>2, <2>3, <3>4, NamesAssumption, TotalAdd
    <3> QED
      BY <1>0, <2>1, <2>6, <3>3 DEF g
  <2>7. CASE d # t
    <3>1. \A n \in Model : y[n] = x[n]
      BY <1>2, <1>4, <2>7
    <3> HIDE DEF x, y, f, g
    <3>2. Total(Model, y) = Total(Model, x)
      BY <2>5, <3>1, NamesAssumption, TotalEqual
    <3>3. \A q \in Source : f[q] \in Counters /\ g[q] = f[q]
      BY <2>2, <2>3, <2>4, <3>2
    <3>4. Total(Source, f) = Total(Source, g)
      BY <3>3, NamesAssumption, TotalEqual
    <3> QED
      BY <1>0, <2>1, <2>7, <3>4 DEF g
  <2> QED
    BY <2>6, <2>7
<1> QED
  BY <1>3, <1>5 DEF UseOfFiles, now

\* The files imported come to no more than the newest ones.
LEMMA ImportsOfUse ==
    ASSUME TypeOK, NEW a \in Account, daily[a] = FromEntries(entries[a]), Matches(a, hash[a], entries[a]),
           UseOfFiles(file[a], used[a]), NEW d \in Day
    PROVE  AtMost(Stored(a, d), used[a][d]) /\ Stored(a, d) \in Counters
<1> DEFINE F == file[a]
           new == [s \in Source |-> Newest(F[s])]
           f == DayOf(entries[a], d)
           g == DayOf(new, d)
<1>1. entries[a] \in [Source -> Totals] /\ new \in [Source -> Totals] /\ \A s \in Source : F[s] \in Seq(Totals)
  BY NewestType DEF TypeOK, TablesTypeOK, UseTypeOK
<1>2. Stored(a, d) = Total(Source, f)
  BY <1>1, RowsFromEntries DEF Stored
<1>3. used[a][d] = Total(Source, g)
  BY DEF UseOfFiles
<1>4. ASSUME NEW s \in Source, NEW k \in Day \X Model
      PROVE  AtMost(Shown(entries[a][s][k]), Shown(new[s][k]))
             /\ Shown(entries[a][s][k]) \in Counters /\ Shown(new[s][k]) \in Counters
  <2>1. Shown(entries[a][s][k]) \in Counters /\ Shown(new[s][k]) \in Counters
    BY <1>1, EntryTypes
  <2>2. CASE hash[a][s] = None
    <3>1. Shown(entries[a][s][k]) = Zero
      BY <2>2 DEF Matches, Shown
    <3> QED
      BY <2>1, <3>1, AtMostCounters
  <2>3. CASE hash[a][s] # None
    <3>1. hash[a][s] \in 1 .. Len(F[s]) /\ entries[a][s] = F[s][hash[a][s]]
      BY <2>3 DEF Matches
    <3>2. F[s] # <<>> /\ Len(F[s]) \in Nat
      BY <1>1, <3>1
    <3>3. new[s] = F[s][Len(F[s])] /\ Len(F[s]) \in 1 .. Len(F[s])
      BY <1>1, <3>2, NewestType
    <3>4. Growing(F[s]) /\ hash[a][s] <= Len(F[s])
      BY <3>1 DEF UseOfFiles
    <3> QED
      BY <2>1, <3>1, <3>3, <3>4 DEF Growing
  <2> QED
    BY <2>2, <2>3
<1>5. ASSUME NEW s \in Source
      PROVE  f[s] \in Counters /\ g[s] \in Counters /\ AtMost(f[s], g[s])
  <2> DEFINE x == [n \in Model |-> Shown(entries[a][s][<<d, n>>])]
             y == [n \in Model |-> Shown(new[s][<<d, n>>])]
  <2>1. \A n \in Model : x[n] \in Counters /\ y[n] \in Counters /\ AtMost(x[n], y[n])
    BY <1>4
  <2>2. f[s] = Total(Model, x) /\ g[s] = Total(Model, y)
    BY DEF DayOf
  <2> HIDE DEF x, y, f, g
  <2> QED
    BY <2>1, <2>2, NamesAssumption, TotalAtMost, TotalMore
<1> HIDE DEF f, g
<1>6. AtMost(Total(Source, f), Total(Source, g)) /\ Total(Source, f) \in Counters
  BY <1>5, NamesAssumption, TotalAtMost, TotalMore
<1> QED
  BY <1>2, <1>3, <1>6

-----------------------------------------------------------------------------
(* Sums over days.                                                         *)

\* Sums over days are counters, and grow with the days.
LEMMA DayTotals ==
    ASSUME NEW f, \A d \in Day : f[d] \in Counters
    PROVE  /\ IsFiniteSet(Day) /\ Day = 1 .. LastDay /\ Total(Day, f) \in Counters
           /\ \A d \in Day : 1 .. d \in SUBSET Day /\ IsFiniteSet(1 .. d) /\ Total(1 .. d, f) \in Counters
                             /\ AtMost(Total(1 .. d, f), Total(Day, f))
           /\ \A d, e \in Day : d <= e => AtMost(Total(1 .. d, f), Total(1 .. e, f))
<1>1. Day = 1 .. LastDay /\ LastDay \in Nat /\ IsFiniteSet(Day)
  BY LastDayAssumption, FS_Interval DEF Day
<1>2. \A d \in Day : 1 .. d \in SUBSET Day /\ IsFiniteSet(1 .. d) /\ \A e \in Day : d <= e => 1 .. d \in SUBSET (1 .. e)
  BY <1>1, FS_Subset
<1>3. Total(Day, f) \in Counters /\ \A d \in Day : Total(1 .. d, f) \in Counters
  BY <1>1, <1>2, TotalMore
<1>4. \A d \in Day : AtMost(Total(1 .. d, f), Total(Day, f))
  BY <1>1, <1>2, TotalSubset
<1>5. ASSUME NEW d \in Day, NEW e \in Day, d <= e
      PROVE  AtMost(Total(1 .. d, f), Total(1 .. e, f))
  <2> DEFINE S == 1 .. e
             T == 1 .. d
  <2>1. IsFiniteSet(S) /\ T \in SUBSET S /\ \A x \in S : f[x] \in Counters
    BY <1>2, <1>5
  <2> HIDE DEF S, T
  <2>2. AtMost(Total(T, f), Total(S, f))
    BY <2>1, TotalSubset
  <2> QED
    BY <2>2 DEF S, T
<1> QED
  BY <1>1, <1>2, <1>3, <1>4, <1>5

\* More on one day is more up to that day and every later one.
LEMMA DayMore ==
    ASSUME NEW f, \A d \in Day : f[d] \in Counters, NEW t \in Day, NEW c \in Counters,
           NEW g, g[t] = Plus(f[t], c), \A d \in Day \ {t} : g[d] = f[d]
    PROVE  /\ \A d \in Day : g[d] \in Counters
           /\ Total(Day, g) = Plus(Total(Day, f), c)
           /\ \A d \in Day : Total(1 .. d, g) = IF t <= d THEN Plus(Total(1 .. d, f), c) ELSE Total(1 .. d, f)
<1>1. Day = 1 .. LastDay /\ LastDay \in Nat /\ IsFiniteSet(Day) /\ \A d \in Day : 1 .. d \in SUBSET Day /\ IsFiniteSet(1 .. d)
  BY DayTotals, LastDayAssumption
<1>2. \A d \in Day : g[d] \in Counters
  <2>1. g[t] \in Counters
    BY PlusCounters
  <2> QED
    BY <2>1
<1>3. Total(Day, g) = Plus(Total(Day, f), c)
  BY <1>1, TotalAdd
<1>4. ASSUME NEW d \in Day
      PROVE  Total(1 .. d, g) = IF t <= d THEN Plus(Total(1 .. d, f), c) ELSE Total(1 .. d, f)
  <2> DEFINE S == 1 .. d
  <2>1. S \in SUBSET Day /\ IsFiniteSet(S) /\ (t \in S <=> t <= d)
    BY <1>1
  <2> HIDE DEF S
  <2>2. CASE t \in S
    <3>1. Total(S, g) = Plus(Total(S, f), c)
      BY <2>1, <2>2, TotalAdd
    <3> QED
      BY <2>1, <2>2, <3>1 DEF S
  <2>3. CASE t \notin S
    <3>1. \A x \in S : f[x] \in Counters /\ g[x] = f[x]
      BY <2>1, <2>3
    <3>2. Total(S, f) = Total(S, g)
      BY <2>1, <3>1, TotalEqual
    <3> QED
      BY <2>1, <2>3, <3>2 DEF S
  <2> QED
    BY <2>2, <2>3
<1> QED
  BY <1>2, <1>3, <1>4

\* Nothing after a day: the sum up to it is the whole.
LEMMA DayWhole ==
    ASSUME NEW f, \A d \in Day : f[d] \in Counters, NEW t \in Day, \A d \in Day : d > t => f[d] = Zero
    PROVE  Total(Day, f) = Total(1 .. t, f)
<1> DEFINE S == 1 .. t
           R == Day \ S
<1>1. Day = 1 .. LastDay /\ LastDay \in Nat /\ IsFiniteSet(Day) /\ S \in SUBSET Day /\ IsFiniteSet(S)
  BY DayTotals, LastDayAssumption
<1>2. IsFiniteSet(R) /\ S \union R = Day /\ S \intersect R = {} /\ \A d \in R : f[d] = Zero
  <2>1. \A d \in R : d > t
    BY <1>1
  <2> QED
    BY <1>1, <2>1, FS_Subset
<1> HIDE DEF S, R
<1>3. Total(S \union R, f) = Plus(Total(S, f), Total(R, f))
  <2>1. \A d \in S \union R : f[d] \in Counters
    BY <1>2
  <2>2. IsFiniteSet(S) /\ IsFiniteSet(R) /\ S \intersect R = {}
    BY <1>1, <1>2
  <2> QED
    BY <2>1, <2>2, TotalUnion
<1>4. Total(R, f) = Zero /\ Total(S, f) \in Counters
  BY <1>1, <1>2, TotalZero, TotalMore
<1> QED
  BY <1>2, <1>3, <1>4, PlusCounters DEF S

-----------------------------------------------------------------------------
(* Meters.                                                                 *)

\* What had been used when each reading was taken: U[r].  Between two
\* readings, and since any reading, a meter grew by no more than was used.
Measures(M, T, u, U) ==
    /\ U \in [T -> Counters]
    /\ \A r \in T : /\ AtMost(U[r], Total(1 .. r.day, u))
                    /\ AtMost(U[r], Total(Day, u)) /\ AtMost(Plus(M, U[r]), Plus(r.counters, Total(Day, u)))
    /\ \A r, q \in T : r.at < q.at => AtMost(U[r], U[q]) /\ AtMost(Plus(q.counters, U[r]), Plus(r.counters, U[q]))

Taken(T) == T \in SUBSET [at : Nat, day : Day, counters : Counters]

Row(D) == [d \in Day |-> Shown(D[<<d, Unnamed>>])]

\* The rows come to no more than had been used when the reading was taken
\* that is the baseline now.
Behind(D, b, T, u, U) ==
    /\ \A d \in Day, m \in Model : D[<<d, m>>] = None
    /\ \A d \in Day : AtMost(Total(1 .. d, Row(D)), Total(1 .. d, u))
    /\ IF b = None THEN D = NoRows
       ELSE \E r \in T : b.at = r.at /\ b.counters = r.counters /\ AtMost(Total(Day, Row(D)), U[r])

\* More on the right keeps an inequality,
LEMMA AtMostMore == \A y, z, c \in Counters : AtMost(y, z) => AtMost(y, Plus(z, c))
BY DEF Counters, Plus, AtMost

\* so does the same more on both sides,
LEMMA MoreUse ==
    ASSUME NEW m \in Counters, NEW x \in Counters, NEW y \in Counters, NEW z \in Counters, NEW c \in Counters,
           AtMost(Plus(m, x), Plus(y, z))
    PROVE  AtMost(Plus(Plus(m, c), x), Plus(y, Plus(z, c)))
BY DEF Counters, Plus, AtMost

\* and less on the left.
LEMMA LessMeter ==
    ASSUME NEW m \in Counters, NEW x \in Counters, NEW y \in Counters, NEW z \in Counters, NEW c \in Counters,
           AtMost(Plus(m, x), Plus(y, z)), AtMost(c, m)
    PROVE  AtMost(Plus(c, x), Plus(y, z))
BY DEF Counters, Plus, AtMost

\* A reading that is stored adds no more than was used since the last one.
LEMMA CountersGrowth ==
    \A old, new, used1, used2, sum \in Counters :
        /\ AtMost(old, new) /\ AtMost(Plus(new, used1), Plus(old, used2)) /\ AtMost(sum, used1)
        => AtMost(Plus(sum, Minus(new, old)), used2) /\ Minus(new, old) \in Counters
BY DEF Counters, Plus, AtMost, Minus

MoreOn(u, t, c, v) == v[t] = Plus(u[t], c) /\ \A d \in Day \ {t} : v[d] = u[d]

\* Use moves the meter along.
LEMMA MeterUsed ==
    ASSUME NEW M \in Counters, NEW T, Taken(T), NEW u \in [Day -> Counters], NEW U, Measures(M, T, u, U),
           NEW t \in Day, NEW c \in Counters, NEW v, MoreOn(u, t, c, v)
    PROVE  Measures(Plus(M, c), T, v, U)
<1>1. v[t] = Plus(u[t], c) /\ \A d \in Day \ {t} : v[d] = u[d]
  BY DEF MoreOn
<1>2. /\ Total(Day, v) = Plus(Total(Day, u), c) /\ Total(Day, u) \in Counters
      /\ \A d \in Day : Total(1 .. d, u) \in Counters
           /\ Total(1 .. d, v) = IF t <= d THEN Plus(Total(1 .. d, u), c) ELSE Total(1 .. d, u)
  <2>1. \A d \in Day : u[d] \in Counters
    OBVIOUS
  <2>2. /\ Total(Day, v) = Plus(Total(Day, u), c)
        /\ \A d \in Day : Total(1 .. d, v) = IF t <= d THEN Plus(Total(1 .. d, u), c) ELSE Total(1 .. d, u)
    BY <1>1, <2>1, DayMore
  <2> QED
    BY <2>1, <2>2, DayTotals
<1>3. ASSUME NEW r \in T
      PROVE  /\ AtMost(U[r], Total(1 .. r.day, v))
             /\ AtMost(U[r], Total(Day, v)) /\ AtMost(Plus(Plus(M, c), U[r]), Plus(r.counters, Total(Day, v)))
  <2>1. r.day \in Day /\ r.counters \in Counters /\ U[r] \in Counters
    BY DEF Taken, Measures
  <2>2. /\ AtMost(U[r], Total(1 .. r.day, u)) /\ AtMost(U[r], Total(Day, u))
        /\ AtMost(Plus(M, U[r]), Plus(r.counters, Total(Day, u)))
    BY DEF Measures
  <2>3. Total(1 .. r.day, u) \in Counters
        /\ (Total(1 .. r.day, v) = Plus(Total(1 .. r.day, u), c) \/ Total(1 .. r.day, v) = Total(1 .. r.day, u))
    BY <1>2, <2>1
  <2>4. AtMost(U[r], Total(1 .. r.day, v))
    BY <2>1, <2>2, <2>3, AtMostMore
  <2>5. AtMost(U[r], Total(Day, v)) /\ AtMost(Plus(Plus(M, c), U[r]), Plus(r.counters, Total(Day, v)))
    BY <1>2, <2>1, <2>2, AtMostMore, MoreUse
  <2> QED
    BY <2>4, <2>5
<1> QED
  BY <1>3 DEF Measures

\* A meter that went back is still no more than was used.
LEMMA MeterFell ==
    ASSUME NEW M \in Counters, NEW T, Taken(T), NEW u \in [Day -> Counters], NEW U, Measures(M, T, u, U),
           NEW N \in Counters, AtMost(N, M)
    PROVE  Measures(N, T, u, U)
<1>1. Total(Day, u) \in Counters
  BY DayTotals
<1>2. ASSUME NEW r \in T
      PROVE  AtMost(Plus(N, U[r]), Plus(r.counters, Total(Day, u)))
  <2>1. r.counters \in Counters /\ U[r] \in Counters
    BY DEF Taken, Measures
  <2>2. AtMost(Plus(M, U[r]), Plus(r.counters, Total(Day, u)))
    BY DEF Measures
  <2> QED
    BY <1>1, <2>1, <2>2, LessMeter
<1> QED
  BY <1>2 DEF Measures

\* One reading more.
With(T, u, U, q) == [r \in T \union {q} |-> IF r = q THEN Total(Day, u) ELSE U[r]]

\* A reading can be given the use it is a reading of.
LEMMA MeterRead ==
    ASSUME NEW M \in Counters, NEW T, Taken(T), NEW u \in [Day -> Counters], NEW U, Measures(M, T, u, U),
           NEW t \in Day, \A d \in Day : d > t => u[d] = Zero,
           NEW n \in Nat, \A r \in T : r.at <= n,
           NEW q, q = [at |-> n, day |-> t, counters |-> M], q \notin T
    PROVE  Measures(M, T \union {q}, u, With(T, u, U, q))
<1> DEFINE V == With(T, u, U, q)
           all == Total(Day, u)
<1>1. all \in Counters /\ Total(1 .. t, u) = all
  BY DayTotals, DayWhole
<1>2. V[q] = all /\ \A r \in T : V[r] = U[r] /\ r # q /\ U[r] \in Counters
  BY DEF Measures, With
<1>3. V \in [T \union {q} -> Counters]
  BY <1>1, <1>2 DEF With
<1>4. \A r \in T : r.at \in Nat /\ r.day \in Day /\ r.counters \in Counters
  BY DEF Taken
<1>5. q.at = n /\ q.day = t /\ q.counters = M
  OBVIOUS
<1> HIDE DEF V, all
<1>6. ASSUME NEW r \in T \union {q}
      PROVE  /\ AtMost(V[r], Total(1 .. r.day, u))
             /\ AtMost(V[r], all) /\ AtMost(Plus(M, V[r]), Plus(r.counters, all))
  <2>1. CASE r = q
    <3>1. \A x \in Counters : AtMost(x, x)
      BY AtMostCounters
    <3>2. Plus(M, all) \in Counters
      BY <1>1, PlusCounters
    <3>3. V[r] = all /\ Total(1 .. r.day, u) = all /\ r.counters = M
      BY <1>1, <1>2, <1>5, <2>1
    <3> QED
      BY <1>1, <3>1, <3>2, <3>3
  <2>2. CASE r \in T
    BY <1>2, <2>2 DEF Measures, all
  <2> QED
    BY <2>1, <2>2
<1>7. ASSUME NEW r \in T \union {q}, NEW p \in T \union {q}, r.at < p.at
      PROVE  AtMost(V[r], V[p]) /\ AtMost(Plus(p.counters, V[r]), Plus(r.counters, V[p]))
  <2>1. r # q
    BY <1>4, <1>5, <1>7
  <2>2. CASE p = q
    BY <1>2, <1>5, <2>1, <2>2 DEF Measures, all
  <2>3. CASE p \in T
    BY <1>2, <1>7, <2>1, <2>3 DEF Measures
  <2> QED
    BY <2>2, <2>3
<1> QED
  BY <1>3, <1>6, <1>7 DEF Measures, V, all

\* Storing one of the readings.
Stores(r, D, b, E, new) ==
    /\ new # None /\ new.at = r.at /\ new.counters = r.counters
    /\ \/ b = None /\ E = D
       \/ /\ b # None /\ r.at > b.at
          /\ IF RolledBack(b.counters, r.counters) \/ r.counters = b.counters THEN E = D
             ELSE E = [D EXCEPT ![<<r.day, Unnamed>>] = Plus(Shown(@), Minus(r.counters, b.counters))]

\* A reading that is stored adds no more than was used since the baseline.
LEMMA ReadingStored ==
    ASSUME NEW M, NEW T, Taken(T), NEW u \in [Day -> Counters], NEW U, Measures(M, T, u, U),
           NEW D \in [Key -> Counters \union {None}], NEW b, Behind(D, b, T, u, U),
           NEW r \in T, NEW new, NEW E \in [Key -> Counters \union {None}], Stores(r, D, b, E, new)
    PROVE  Behind(E, new, T, u, U)
<1>0. /\ new # None /\ new.at = r.at /\ new.counters = r.counters
      /\ \/ b = None /\ E = D
         \/ /\ b # None /\ r.at > b.at
            /\ IF RolledBack(b.counters, r.counters) \/ r.counters = b.counters THEN E = D
               ELSE E = [D EXCEPT ![<<r.day, Unnamed>>] = Plus(Shown(@), Minus(r.counters, b.counters))]
  BY DEF Stores
<1>1. r.at \in Nat /\ r.day \in Day /\ r.counters \in Counters /\ U[r] \in Counters
      /\ AtMost(U[r], Total(1 .. r.day, u))
  BY DEF Taken, Measures
<1>2. /\ \A d \in Day : Row(D)[d] \in Counters
      /\ Total(Day, Row(D)) \in Counters /\ \A d \in Day : u[d] \in Counters
      /\ \A d \in Day : Total(1 .. d, Row(D)) \in Counters
  <2>1. \A d \in Day : Row(D)[d] \in Counters
    <3>1. \A d \in Day : <<d, Unnamed>> \in Key
      BY FiniteNames DEF Key
    <3> QED
      BY <3>1, ShownType DEF Row
  <2> QED
    BY <2>1, DayTotals
<1>3. CASE b = None
  <2>1. E = D /\ D = NoRows
    BY <1>0, <1>3 DEF Behind
  <2>2. \A d \in Day : Row(D)[d] = Zero
    <3>1. \A d \in Day : <<d, Unnamed>> \in Key
      BY FiniteNames DEF Key
    <3> QED
      BY <2>1, <3>1 DEF NoRows, Row, Shown
  <2>3. Total(Day, Row(D)) = Zero
    BY <1>2, <2>2, DayTotals, TotalZero
  <2>4. AtMost(Total(Day, Row(D)), U[r])
    BY <1>1, <2>3, AtMostCounters
  <2> QED
    BY <1>0, <2>1, <2>4 DEF Behind
<1>4. CASE b # None
  <2>1. PICK q \in T : b.at = q.at /\ b.counters = q.counters /\ AtMost(Total(Day, Row(D)), U[q])
    BY <1>4 DEF Behind
  <2>2. q.counters \in Counters /\ U[q] \in Counters /\ q.at < r.at /\ q.at \in Nat
    BY <1>0, <1>1, <1>4, <2>1 DEF Taken, Measures
  <2>3. AtMost(U[q], U[r]) /\ AtMost(Plus(r.counters, U[q]), Plus(q.counters, U[r]))
    BY <2>2 DEF Measures
  <2>4. AtMost(Total(Day, Row(D)), U[r])
    BY <1>1, <1>2, <2>1, <2>2, <2>3, AtMostCounters
  <2>5. CASE E = D
    BY <1>0, <2>4, <2>5 DEF Behind
  <2>6. CASE E # D
    <3> DEFINE delta == Minus(r.counters, b.counters)
    <3>1. E = [D EXCEPT ![<<r.day, Unnamed>>] = Plus(Shown(@), delta)] /\ AtMost(b.counters, r.counters)
      BY <1>0, <1>4, <2>6 DEF RolledBack
    <3>2. AtMost(Plus(Total(Day, Row(D)), delta), U[r]) /\ delta \in Counters
      BY <1>1, <1>2, <2>1, <2>2, <2>3, <3>1, CountersGrowth
    <3> HIDE DEF delta
    <3>3. \A d \in Day, m \in Names : <<d, m>> \in Key
      BY DEF Key
    <3>4. /\ \A d \in Day, m \in Model : E[<<d, m>>] = D[<<d, m>>]
          /\ E[<<r.day, Unnamed>>] = Plus(Shown(D[<<r.day, Unnamed>>]), delta)
          /\ \A d \in Day \ {r.day} : E[<<d, Unnamed>>] = D[<<d, Unnamed>>]
      BY <1>1, <3>1, <3>3, FiniteNames, NamesAssumption
    <3>5. Shown(E[<<r.day, Unnamed>>]) = E[<<r.day, Unnamed>>]
      <4>1. Row(D)[r.day] \in Counters /\ Row(D)[r.day] = Shown(D[<<r.day, Unnamed>>])
        BY <1>1, <1>2 DEF Row
      <4>2. E[<<r.day, Unnamed>>] \in Counters
        BY <3>2, <3>4, <4>1, PlusCounters
      <4> QED
        BY <4>2, NoneAssumption DEF Shown
    <3>6. Row(E)[r.day] = Plus(Row(D)[r.day], delta) /\ \A d \in Day \ {r.day} : Row(E)[d] = Row(D)[d]
      BY <1>1, <3>4, <3>5 DEF Row
    <3> DEFINE f == Row(D)
               g == Row(E)
    <3> HIDE DEF f, g
    <3>7. /\ \A d \in Day : f[d] \in Counters
          /\ g[r.day] = Plus(f[r.day], delta) /\ \A d \in Day \ {r.day} : g[d] = f[d]
      BY <1>2, <3>6 DEF f, g
    <3>8. /\ \A d \in Day : g[d] \in Counters
          /\ Total(Day, g) = Plus(Total(Day, f), delta)
          /\ \A d \in Day : Total(1 .. d, g) = IF r.day <= d THEN Plus(Total(1 .. d, f), delta) ELSE Total(1 .. d, f)
      BY <1>1, <3>2, <3>7, DayMore
    <3>9. AtMost(Total(Day, g), U[r])
      BY <3>2, <3>8 DEF f
    <3>10. ASSUME NEW d \in Day
           PROVE  AtMost(Total(1 .. d, g), Total(1 .. d, u))
      <4>1. CASE r.day <= d
        <5>1. AtMost(Total(1 .. d, g), Total(Day, g)) /\ Total(1 .. d, g) \in Counters /\ Total(Day, g) \in Counters
          BY <3>8, DayTotals
        <5>2. /\ Total(1 .. r.day, u) \in Counters /\ Total(1 .. d, u) \in Counters
              /\ AtMost(Total(1 .. r.day, u), Total(1 .. d, u))
          BY <1>1, <1>2, <4>1, DayTotals
        <5>3. AtMost(Total(1 .. d, g), U[r])
          BY <1>1, <3>9, <5>1, AtMostCounters
        <5>4. AtMost(U[r], Total(1 .. d, u))
          BY <1>1, <5>2, AtMostCounters
        <5> QED
          BY <1>1, <5>1, <5>2, <5>3, <5>4, AtMostCounters
      <4>2. CASE ~(r.day <= d)
        BY <3>8, <4>2 DEF Behind, f
      <4> QED
        BY <4>1, <4>2
    <3> QED
      BY <1>0, <3>4, <3>9, <3>10 DEF Behind, g
  <2> QED
    BY <2>5, <2>6
<1> QED
  BY <1>3, <1>4

\* No rows are no more than anything.
LEMMA NothingBehind ==
    ASSUME NEW T, NEW u, \A d \in Day : u[d] \in Counters, NEW U
    PROVE  Behind(NoRows, None, T, u, U)
<1>1. \A d \in Day, m \in Names : <<d, m>> \in Key
  BY DEF Key
<1>2. \A d \in Day, m \in Names : NoRows[<<d, m>>] = None
  BY <1>1 DEF NoRows
<1>3. \A d \in Day : Row(NoRows)[d] = Zero
  BY <1>2, FiniteNames DEF Row, Shown
<1>4. ASSUME NEW d \in Day
      PROVE  AtMost(Total(1 .. d, Row(NoRows)), Total(1 .. d, u))
  <2>1. 1 .. d \in SUBSET Day /\ IsFiniteSet(1 .. d) /\ Total(1 .. d, u) \in Counters
    BY DayTotals
  <2> DEFINE S == 1 .. d
             f == Row(NoRows)
  <2>2. IsFiniteSet(S) /\ \A x \in S : f[x] = Zero
    BY <1>3, <2>1
  <2> HIDE DEF S, f
  <2>3. Total(S, f) = Zero
    BY <2>2, TotalZero
  <2> QED
    BY <2>1, <2>3, AtMostCounters DEF S, f
<1> QED
  BY <1>2, <1>4, FiniteNames DEF Behind

\* More use keeps the rows behind it,
LEMMA BehindMore ==
    ASSUME NEW D \in [Key -> Counters \union {None}], NEW b, NEW T, NEW u, \A d \in Day : u[d] \in Counters,
           NEW U, Behind(D, b, T, u, U), NEW t \in Day, NEW c \in Counters, NEW v, MoreOn(u, t, c, v)
    PROVE  Behind(D, b, T, v, U)
<1>1. \A d \in Day : Row(D)[d] \in Counters
  <2>1. \A d \in Day : <<d, Unnamed>> \in Key
    BY FiniteNames DEF Key
  <2> QED
    BY <2>1, ShownType DEF Row
<1>2. ASSUME NEW d \in Day
      PROVE  AtMost(Total(1 .. d, Row(D)), Total(1 .. d, v))
  <2>1. v[t] = Plus(u[t], c) /\ \A e \in Day \ {t} : v[e] = u[e]
    BY DEF MoreOn
  <2>2. Total(1 .. d, v) = IF t <= d THEN Plus(Total(1 .. d, u), c) ELSE Total(1 .. d, u)
    BY <2>1, DayMore
  <2>3. Total(1 .. d, u) \in Counters /\ Total(1 .. d, Row(D)) \in Counters
    BY <1>1, DayTotals
  <2>4. AtMost(Total(1 .. d, Row(D)), Total(1 .. d, u))
    BY DEF Behind
  <2> QED
    BY <2>2, <2>3, <2>4, AtMostMore
<1> QED
  BY <1>2 DEF Behind

\* and so does another reading.
LEMMA BehindWith ==
    ASSUME NEW D, NEW b, NEW T, NEW u, NEW U, Behind(D, b, T, u, U), NEW q, q \notin T
    PROVE  Behind(D, b, T \union {q}, u, With(T, u, U, q))
<1>1. \A r \in T : r \in T \union {q} /\ With(T, u, U, q)[r] = U[r]
  BY DEF With
<1> QED
  BY <1>1 DEF Behind

-----------------------------------------------------------------------------
(* The truth, account by account, and what the tables come to of it.       *)

RhythmUse == \A a \in Account : Provider[a] = "tokenrhythm" => UseOfLog(log[a], used[a])

CodexUse == \A a \in Account : Provider[a] = "codex" => UseOfFiles(file[a], used[a])

NoneLater(a) == \A d \in Day : d > today => used[a][d] = Zero

MeterUse == \A a \in Account : Provider[a] = "metered" =>
    /\ NoneLater(a)
    /\ \E U \in [taken[a] -> Counters] :
         /\ Measures(meter[a], taken[a], used[a], U)
         /\ Behind(daily[a], baseline[a], taken[a], used[a], U)

Counted == Held /\ RhythmUse /\ CodexUse /\ MeterUse

Still(a) == used'[a] = used[a] /\ log'[a] = log[a] /\ file'[a] = file[a]

\* Use is one account's, on the day.
LEMMA UsesOf ==
    ASSUME TypeOK, NEW b \in Account, NEW c \in Counters, Uses(b, c)
    PROVE  /\ \A a \in Account \ {b} : used'[a] = used[a]
           /\ used'[b] = [used[b] EXCEPT ![today] = Plus(@, c)]
           /\ used'[b][today] = Plus(used[b][today], c) /\ \A d \in Day \ {today} : used'[b][d] = used[b][d]
BY DEF TypeOK, UseTypeOK, Uses

\* Who uses what, in a step.
LEMMA UseMove ==
    ASSUME TypeOK, [Next]_vars, NEW a \in Account
    PROVE  \/ Still(a)
           \/ /\ Provider[a] = "tokenrhythm"
              /\ \E m \in Names : log'[a] = Append(log[a], <<today, m>>) /\ Uses(a, Request(m))
           \/ /\ Provider[a] = "codex"
              /\ \E s \in Source, m \in Model :
                   LET c == [tokens |-> 2, requests |-> 1] IN
                   file'[a] = [file[a] EXCEPT ![s] = Append(@, Grown(file[a][s], today, m, c))] /\ Uses(a, c)
           \/ Provider[a] = "metered"
<1>1. /\ log \in [Account -> Seq(Key)] /\ used \in [Account -> [Day -> Counters]]
      /\ file \in [Account -> [Source -> Seq(Totals)]]
  BY DEF TypeOK, LogTypeOK, UseTypeOK
<1>2. CASE UseMeter
  <2>1. PICK b \in Metered, c \in {[tokens |-> 1, requests |-> 0], [tokens |-> 1, requests |-> 1]} : Uses(b, c)
    BY <1>2 DEF UseMeter
  <2>2. b \in Account /\ Provider[b] = "metered" /\ c \in Counters
    BY DEF Metered, TypeOK, TablesTypeOK, Counters
  <2>3. UNCHANGED <<log, file>>
    BY <1>2 DEF UseMeter
  <2> QED
    BY <2>1, <2>2, <2>3, UsesOf DEF Still
<1>3. CASE GrowFile
  <2> DEFINE c == [tokens |-> 2, requests |-> 1]
  <2>1. PICK b \in Codex, s \in Source, m \in Model :
          /\ file' = [file EXCEPT ![b][s] = Append(@, [Latest(b, s) EXCEPT ![<<today, m>>] = Plus(Shown(@), c)])]
          /\ Uses(b, c) /\ UNCHANGED log
    BY <1>3 DEF GrowFile
  <2>2. b \in Account /\ Provider[b] = "codex" /\ c \in Counters
    BY DEF Codex, TypeOK, TablesTypeOK, Counters
  <2>3. Grown(file[b][s], today, m, c) = [Latest(b, s) EXCEPT ![<<today, m>>] = Plus(Shown(@), c)]
    BY DEF Grown, Latest, Newest
  <2> DEFINE new == Grown(file[b][s], today, m, c)
  <2>4. file' = [file EXCEPT ![b][s] = Append(@, new)]
    BY <2>1, <2>3
  <2> HIDE DEF new
  <2>5. file'[b] = [file[b] EXCEPT ![s] = Append(@, new)] /\ \A q \in Account \ {b} : file'[q] = file[q]
    BY <1>1, <2>2, <2>4
  <2>6. CASE a = b
    BY <2>1, <2>2, <2>5, <2>6 DEF new
  <2>7. CASE a # b
    <3>1. used'[a] = used[a]
      BY <2>1, <2>2, <2>7, UsesOf
    <3> QED
      BY <2>1, <2>5, <2>7, <3>1 DEF Still
  <2> QED
    BY <2>6, <2>7
<1>4. CASE Call
  <2>1. PICK b \in Rhythm, m \in Names :
          log' = [log EXCEPT ![b] = Append(@, <<today, m>>)] /\ Uses(b, Request(m)) /\ UNCHANGED file
    BY <1>4 DEF Call
  <2>2. b \in Account /\ Provider[b] = "tokenrhythm" /\ Request(m) \in Counters
    BY RequestType DEF Rhythm, TypeOK, TablesTypeOK
  <2>3. log'[b] = Append(log[b], <<today, m>>) /\ \A q \in Account \ {b} : log'[q] = log[q]
    BY <1>1, <2>1, <2>2
  <2>4. CASE a = b
    BY <2>1, <2>2, <2>3, <2>4
  <2>5. CASE a # b
    <3>1. used'[a] = used[a]
      BY <2>1, <2>2, <2>5, UsesOf
    <3> QED
      BY <2>1, <2>3, <2>5, <3>1 DEF Still
  <2> QED
    BY <2>4, <2>5
<1>5. UNCHANGED <<used, log, file>> \/ UseMeter \/ GrowFile \/ Call
  BY DEF Next, NextDay, ResetMeter, TakeReading, List, Age, StoreReading, ImportCodexUsage, Delete,
         StartSync, HistoryFails, FetchPage, StoreDay, DaysDone, FetchToday, StoreToday, vars
<1> QED
  BY <1>2, <1>3, <1>4, <1>5 DEF Still

\* Every step keeps the use of a TokenRhythm account the requests of its
\* log,
LEMMA RhythmUseStep ==
    ASSUME Counted, [Next]_vars
    PROVE  RhythmUse'
<1> SUFFICES ASSUME NEW a \in Account, Provider[a] = "tokenrhythm"
             PROVE  UseOfLog(log'[a], used'[a])
  BY DEF RhythmUse
<1>1. TypeOK /\ UseOfLog(log[a], used[a]) /\ log[a] \in Seq(Key) /\ used[a] \in [Day -> Counters] /\ today \in Day
  BY DEF Counted, Held, RhythmUse, TypeOK, LogTypeOK, UseTypeOK
<1>2. CASE Still(a)
  BY <1>1, <1>2 DEF Still
<1>3. CASE \E m \in Names : log'[a] = Append(log[a], <<today, m>>) /\ Uses(a, Request(m))
  <2>1. PICK m \in Names : log'[a] = Append(log[a], <<today, m>>) /\ Uses(a, Request(m))
    BY <1>3
  <2>2. used'[a] = [used[a] EXCEPT ![today] = Plus(@, Request(m))]
    BY <1>1, <2>1, RequestType, UsesOf
  <2>3. UseOfLog(Append(log[a], <<today, m>>), used'[a])
    BY <1>1, <2>2, CallCounts
  <2> QED
    BY <2>1, <2>3
<1> QED
  BY <1>1, <1>2, <1>3, UseMove

\* and the use of a Codex account the newest versions of its files.
LEMMA CodexUseStep ==
    ASSUME Counted, [Next]_vars
    PROVE  CodexUse'
<1> SUFFICES ASSUME NEW a \in Account, Provider[a] = "codex"
             PROVE  UseOfFiles(file'[a], used'[a])
  BY DEF CodexUse
<1>1. /\ TypeOK /\ UseOfFiles(file[a], used[a]) /\ file[a] \in [Source -> Seq(Totals)]
      /\ used[a] \in [Day -> Counters] /\ today \in Day
  BY DEF Counted, Held, CodexUse, TypeOK, UseTypeOK
<1>2. CASE Still(a)
  BY <1>1, <1>2 DEF Still
<1> DEFINE c == [tokens |-> 2, requests |-> 1]
<1>3. CASE \E s \in Source, m \in Model :
             file'[a] = [file[a] EXCEPT ![s] = Append(@, Grown(file[a][s], today, m, c))] /\ Uses(a, c)
  <2>0. c \in Counters
    BY DEF Counters
  <2> HIDE DEF c
  <2>1. PICK s \in Source, m \in Model :
             file'[a] = [file[a] EXCEPT ![s] = Append(@, Grown(file[a][s], today, m, c))] /\ Uses(a, c)
    BY <1>3
  <2>2. used'[a][today] = Plus(used[a][today], c) /\ \A d \in Day \ {today} : used'[a][d] = used[a][d]
    BY <1>1, <2>0, <2>1, UsesOf
  <2>3. GrowsTo(file[a], used[a], s, today, m, c, file'[a], used'[a])
    BY <1>1, <2>1, <2>2 DEF GrowsTo
  <2> QED
    BY <1>1, <2>0, <2>3, GrowthCounts
<1> QED
  BY <1>1, <1>2, <1>3, UseMove

\* A step either leaves a meter, its readings and its use as they are, or
\* is one of the meter's, and writes nothing.
LEMMA MeterMove ==
    ASSUME TypeOK, [Next]_vars, NEW a \in Account, Provider[a] = "metered"
    PROVE  \/ used'[a] = used[a] /\ meter'[a] = meter[a] /\ taken'[a] = taken[a] /\ today' = today
           \/ /\ UNCHANGED tables
              /\ \/ today' = today + 1 /\ used'[a] = used[a] /\ meter'[a] = meter[a] /\ taken'[a] = taken[a]
                 \/ /\ today' = today /\ taken'[a] = taken[a]
                    /\ \E c \in Counters : Uses(a, c) /\ meter'[a] = Plus(meter[a], c)
                 \/ /\ today' = today /\ used'[a] = used[a] /\ taken'[a] = taken[a]
                    /\ meter'[a] \in Counters /\ AtMost(meter'[a], meter[a])
                 \/ /\ today' = today /\ used'[a] = used[a] /\ meter'[a] = meter[a]
                    /\ \E at \in Nat : clock <= at
                         /\ taken'[a] = taken[a] \union {[at |-> at, day |-> today, counters |-> meter[a]]}
<1>1. used \in [Account -> [Day -> Counters]] /\ meter \in [Account -> Counters] /\ clock \in Nat
  BY BoundsAssumption DEF TypeOK, UseTypeOK, MeterTypeOK
<1>2. CASE NextDay
  BY <1>2 DEF NextDay, meterVars
<1>3. CASE UseMeter
  <2>1. PICK b \in Metered, c \in {[tokens |-> 1, requests |-> 0], [tokens |-> 1, requests |-> 1]} :
          Uses(b, c) /\ meter' = [meter EXCEPT ![b] = Plus(@, c)] /\ UNCHANGED <<tables, today, taken>>
    BY <1>3 DEF UseMeter
  <2>2. b \in Account /\ c \in Counters
    BY DEF Metered, TypeOK, TablesTypeOK, Counters
  <2>3. CASE a = b
    BY <1>1, <2>1, <2>2, <2>3
  <2>4. CASE a # b
    BY <1>1, <2>1, <2>2, <2>4, UsesOf
  <2> QED
    BY <2>3, <2>4
<1>4. CASE ResetMeter
  <2>0. PICK b \in Account : \E c \in {Zero, [tokens |-> 0, requests |-> meter[b].requests]} :
          meter' = [meter EXCEPT ![b] = c]
    BY <1>4 DEF ResetMeter
  <2>1. PICK c \in {Zero, [tokens |-> 0, requests |-> meter[b].requests]} : meter' = [meter EXCEPT ![b] = c]
    BY <2>0
  <2>2. c \in Counters /\ AtMost(c, meter[b])
    <3>1. meter[b] \in Counters
      BY <1>1
    <3> QED
      BY <3>1 DEF Counters, AtMost, Zero
  <2>3. UNCHANGED <<tables, today, used, taken>>
    BY <1>4 DEF ResetMeter
  <2> QED
    BY <1>1, <2>1, <2>2, <2>3
<1>5. CASE TakeReading
  <2>1. PICK b \in Metered, at \in {clock, clock + 1} \ {0} :
          taken' = [taken EXCEPT ![b] = @ \union {[at |-> at, day |-> today, counters |-> meter[b]]}]
    BY <1>5 DEF TakeReading
  <2>2. UNCHANGED <<tables, today, used, meter>>
    BY <1>5 DEF TakeReading
  <2>3. at \in Nat /\ clock <= at
    BY <1>1
  <2>4. CASE a = b /\ b \in DOMAIN taken
    <3>1. taken'[a] = taken[a] \union {[at |-> at, day |-> today, counters |-> meter[a]]}
      BY <2>1, <2>4
    <3> QED
      BY <2>2, <2>3, <3>1
  <2>5. CASE ~(a = b /\ b \in DOMAIN taken)
    BY <2>1, <2>2, <2>5
  <2> QED
    BY <2>4, <2>5
<1>6. CASE GrowFile \/ Call
  <2>1. UNCHANGED <<meter, taken, today>>
    BY <1>6 DEF GrowFile, Call, meterVars
  <2>2. used'[a] = used[a]
    <3>1. \E b \in Account, c \in Counters : Provider[b] # "metered" /\ Uses(b, c)
      <4>1. CASE GrowFile
        <5>1. PICK b \in Codex : Uses(b, [tokens |-> 2, requests |-> 1])
          BY <4>1 DEF GrowFile
        <5>2. b \in Account /\ Provider[b] # "metered" /\ [tokens |-> 2, requests |-> 1] \in Counters
          BY DEF Codex, TypeOK, TablesTypeOK, Counters
        <5> QED
          BY <5>1, <5>2
      <4>2. CASE Call
        <5>1. PICK b \in Rhythm, m \in Names : Uses(b, Request(m))
          BY <4>2 DEF Call
        <5>2. b \in Account /\ Provider[b] # "metered" /\ Request(m) \in Counters
          BY RequestType DEF Rhythm, TypeOK, TablesTypeOK
        <5> QED
          BY <5>1, <5>2
      <4> QED
        BY <1>6, <4>1, <4>2
    <3> QED
      BY <3>1, UsesOf
  <2> QED
    BY <2>1, <2>2
<1>7. UNCHANGED <<used, meter, taken, today>> \/ NextDay \/ UseMeter \/ ResetMeter \/ TakeReading \/ GrowFile \/ Call
  BY DEF Next, List, Age, StoreReading, ImportCodexUsage, Delete,
         StartSync, HistoryFails, FetchPage, StoreDay, DaysDone, FetchToday, StoreToday, vars, meterVars
<1> QED
  BY <1>2, <1>3, <1>4, <1>5, <1>6, <1>7

\* A meter, its readings, its use and what its rows come to.
Reckoned(M, T, u, D, b) == \E U \in [T -> Counters] : Measures(M, T, u, U) /\ Behind(D, b, T, u, U)

\* A meter is reckoned with after use,
LEMMA ReckonedUse ==
    ASSUME NEW M \in Counters, NEW T, Taken(T), NEW u \in [Day -> Counters], NEW D \in [Key -> Counters \union {None}],
           NEW b, Reckoned(M, T, u, D, b), NEW t \in Day, NEW c \in Counters, NEW v, MoreOn(u, t, c, v)
    PROVE  Reckoned(Plus(M, c), T, v, D, b)
<1>1. PICK U \in [T -> Counters] : Measures(M, T, u, U) /\ Behind(D, b, T, u, U)
  BY DEF Reckoned
<1>2. Measures(Plus(M, c), T, v, U)
  BY <1>1, MeterUsed
<1>3. \A d \in Day : u[d] \in Counters
  OBVIOUS
<1>4. Behind(D, b, T, v, U)
  BY <1>1, <1>3, BehindMore
<1> QED
  BY <1>2, <1>4 DEF Reckoned

\* after it started again,
LEMMA ReckonedReset ==
    ASSUME NEW M \in Counters, NEW T, Taken(T), NEW u \in [Day -> Counters], NEW D, NEW b, Reckoned(M, T, u, D, b),
           NEW N \in Counters, AtMost(N, M)
    PROVE  Reckoned(N, T, u, D, b)
BY MeterFell DEF Reckoned

\* after a reading,
LEMMA ReckonedReading ==
    ASSUME NEW M \in Counters, NEW T, Taken(T), NEW u \in [Day -> Counters], NEW D, NEW b, Reckoned(M, T, u, D, b),
           NEW t \in Day, \A d \in Day : d > t => u[d] = Zero,
           NEW n \in Nat, \A r \in T : r.at <= n
    PROVE  Reckoned(M, T \union {[at |-> n, day |-> t, counters |-> M]}, u, D, b)
<1> DEFINE q == [at |-> n, day |-> t, counters |-> M]
<1>1. PICK U \in [T -> Counters] : Measures(M, T, u, U) /\ Behind(D, b, T, u, U)
  BY DEF Reckoned
<1>2. CASE q \in T
  <2>1. T \union {q} = T
    BY <1>2
  <2> HIDE DEF q
  <2> QED
    BY <2>1 DEF q
<1>3. CASE q \notin T
  <2>1. Measures(M, T \union {q}, u, With(T, u, U, q))
    BY <1>1, <1>3, MeterRead
  <2>2. Behind(D, b, T \union {q}, u, With(T, u, U, q))
    <3> HIDE DEF q
    <3> QED
      BY <1>1, <1>3, BehindWith
  <2>3. With(T, u, U, q) \in [T \union {q} -> Counters]
    BY <2>1 DEF Measures
  <2> HIDE DEF q
  <2> QED
    BY <2>1, <2>2, <2>3 DEF Reckoned, q
<1> QED
  BY <1>2, <1>3

\* after a reading is stored,
LEMMA ReckonedStored ==
    ASSUME NEW M, NEW T, Taken(T), NEW u \in [Day -> Counters], NEW D \in [Key -> Counters \union {None}], NEW b,
           Reckoned(M, T, u, D, b),
           NEW r \in T, NEW new, NEW E \in [Key -> Counters \union {None}], Stores(r, D, b, E, new)
    PROVE  Reckoned(M, T, u, E, new)
<1>1. PICK U \in [T -> Counters] : Measures(M, T, u, U) /\ Behind(D, b, T, u, U)
  BY DEF Reckoned
<1>2. Behind(E, new, T, u, U)
  BY <1>1, ReadingStored
<1> QED
  BY <1>1, <1>2 DEF Reckoned

\* and after the account is deleted.
LEMMA ReckonedNothing ==
    ASSUME NEW M, NEW T, NEW u \in [Day -> Counters], NEW D, NEW b, Reckoned(M, T, u, D, b)
    PROVE  Reckoned(M, T, u, NoRows, None)
<1>1. PICK U \in [T -> Counters] : Measures(M, T, u, U)
  BY DEF Reckoned
<1>2. \A d \in Day : u[d] \in Counters
  OBVIOUS
<1>3. Behind(NoRows, None, T, u, U)
  BY <1>2, NothingBehind
<1> QED
  BY <1>1, <1>3 DEF Reckoned

\* Every step keeps the meters reckoned with.
LEMMA MeterUseStep ==
    ASSUME Counted, [Next]_vars
    PROVE  MeterUse'
<1> SUFFICES ASSUME NEW a \in Account, Provider[a] = "metered"
             PROVE  /\ \A d \in Day : d > today' => used'[a][d] = Zero
                    /\ Reckoned(meter'[a], taken'[a], used'[a], daily'[a], baseline'[a])
  BY DEF MeterUse, NoneLater, Reckoned
<1> DEFINE M == meter[a]
           T == taken[a]
           u == used[a]
           D == daily[a]
           b == baseline[a]
<1>1. TypeOK /\ TypeOK' /\ Imports /\ Syncing
  BY TypesStep DEF Counted, Held
<1>2. /\ M \in Counters /\ u \in [Day -> Counters] /\ D \in [Key -> Counters \union {None}] /\ Taken(T)
      /\ today \in Day /\ clock \in Nat /\ (\A r \in T : r.at <= clock)
      /\ daily'[a] \in [Key -> Counters \union {None}]
  <2>1. T \subseteq [at : 1 .. clock, day : Day, counters : Counters] /\ clock \in Nat
    BY <1>1, BoundsAssumption DEF TypeOK, MeterTypeOK
  <2>2. Taken(T) /\ \A r \in T : r.at <= clock
    <3> HIDE DEF T
    <3> QED
      BY <2>1 DEF Taken
  <2> QED
    BY <1>1, <2>1, <2>2 DEF TypeOK, TablesTypeOK, UseTypeOK, MeterTypeOK
<1>3. Reckoned(M, T, u, D, b) /\ \A d \in Day : d > today => u[d] = Zero
  BY DEF Counted, MeterUse, NoneLater, Reckoned
<1>4. CASE used'[a] = u /\ meter'[a] = M /\ taken'[a] = T /\ today' = today
  <2>1. Reckoned(M, T, u, daily'[a], baseline'[a])
    <3>1. CASE daily'[a] = D /\ baseline'[a] = b
      BY <1>3, <3>1
    <3>2. CASE UNCHANGED tables
      BY <3>1, <3>2 DEF tables
    <3>3. ASSUME NEW c \in Account, TakesFiles(c) \/ TakesDay(c)
          PROVE  daily'[a] = D /\ baseline'[a] = b
      <4>1. a # c
        BY <3>3 DEF TakesFiles, TakesDay
      <4>2. daily \in [Account -> [Key -> Counters \union {None}]]
        BY <1>1 DEF TypeOK, TablesTypeOK
      <4>3. CASE TakesFiles(c)
        BY <4>1, <4>2, <4>3 DEF TakesFiles
      <4>4. CASE TakesDay(c)
        BY <1>1, <4>1, <4>2, <4>4 DEF TakesDay, UpsertAbsoluteDailyUsage, TypeOK, TablesTypeOK
      <4> QED
        BY <3>3, <4>3, <4>4
    <3>4. ASSUME NEW c \in Account, DeleteConnectedAccount(c)
          PROVE  Reckoned(M, T, u, daily'[a], baseline'[a])
      <4>1. CASE a = c
        <5>1. daily'[a] = NoRows /\ baseline'[a] = None
          BY <1>1, <3>4, <4>1 DEF DeleteConnectedAccount, TypeOK, TablesTypeOK
        <5> QED
          BY <1>2, <1>3, <5>1, ReckonedNothing
      <4>2. CASE a # c
        BY <1>1, <3>1, <3>4, <4>2 DEF DeleteConnectedAccount, TypeOK, TablesTypeOK
      <4> QED
        BY <4>1, <4>2
    <3>5. ASSUME NEW c \in Account, TakesReading(c)
          PROVE  Reckoned(M, T, u, daily'[a], baseline'[a])
      <4>1. PICK r \in taken[c] : RecordUsageSnapshot(c, [at |-> r.at, counters |-> r.counters], r.day)
        BY <3>5 DEF TakesReading
      <4>2. daily \in [Account -> [Key -> Counters \union {None}]] /\ DOMAIN baseline = Account
        BY <1>1 DEF TypeOK, TablesTypeOK
      <4>3. CASE a # c
        BY <3>1, <4>1, <4>2, <4>3 DEF RecordUsageSnapshot, AddDailyDelta
      <4>4. CASE a = c
        <5> DEFINE new == [at |-> r.at, counters |-> r.counters]
        <5>1. r \in T /\ r.at \in Nat /\ r.counters \in Counters
          BY <1>2, <4>4 DEF Taken
        <5>2. new # None /\ new.at = r.at /\ new.counters = r.counters
          BY <5>1, NoneAssumption
        <5>3. baseline'[a] = new
          BY <4>1, <4>2, <4>4 DEF RecordUsageSnapshot
        <5>4. \/ b = None /\ daily'[a] = D
              \/ /\ b # None /\ r.at > b.at
                 /\ IF RolledBack(b.counters, r.counters) \/ r.counters = b.counters THEN daily'[a] = D
                    ELSE daily'[a] = [D EXCEPT ![<<r.day, Unnamed>>] = Plus(Shown(@), Minus(r.counters, b.counters))]
          BY <4>1, <4>2, <4>4, <5>2 DEF RecordUsageSnapshot, AddDailyDelta
        <5>5. Stores(r, D, b, daily'[a], baseline'[a])
          BY <5>2, <5>3, <5>4 DEF Stores
        <5> QED
          BY <1>2, <1>3, <5>1, <5>5, ReckonedStored
      <4> QED
        BY <4>3, <4>4
    <3> QED
      BY <1>1, <3>1, <3>2, <3>3, <3>4, <3>5, TablesMove
  <2> QED
    BY <1>3, <1>4, <2>1
<1>5. CASE UNCHANGED tables /\ today' = today + 1 /\ used'[a] = u /\ meter'[a] = M /\ taken'[a] = T
  <2>1. \A d \in Day : d > today' => d > today
    BY <1>2, <1>5, LastDayAssumption DEF Day
  <2> QED
    BY <1>3, <1>5, <2>1 DEF tables
<1>6. ASSUME UNCHANGED tables, today' = today, taken'[a] = T, NEW c \in Counters, Uses(a, c), meter'[a] = Plus(M, c)
      PROVE  /\ \A d \in Day : d > today' => used'[a][d] = Zero
             /\ Reckoned(meter'[a], taken'[a], used'[a], daily'[a], baseline'[a])
  <2>1. MoreOn(u, today, c, used'[a])
    BY <1>1, <1>6, UsesOf DEF MoreOn
  <2>2. Reckoned(Plus(M, c), T, used'[a], D, b)
    BY <1>2, <1>3, <2>1, ReckonedUse
  <2>3. \A d \in Day : d > today => used'[a][d] = Zero
    <3>1. \A d \in Day : d > today => d # today
      BY <1>2, LastDayAssumption DEF Day
    <3> QED
      BY <1>3, <2>1, <3>1 DEF MoreOn
  <2> QED
    BY <1>6, <2>2, <2>3 DEF tables
<1>7. CASE UNCHANGED tables /\ today' = today /\ used'[a] = u /\ taken'[a] = T /\ meter'[a] \in Counters
           /\ AtMost(meter'[a], M)
  <2>1. Reckoned(meter'[a], T, u, D, b)
    BY <1>2, <1>3, <1>7, ReckonedReset
  <2> QED
    BY <1>3, <1>7, <2>1 DEF tables
<1>8. ASSUME UNCHANGED tables, today' = today, used'[a] = u, meter'[a] = M, NEW at \in Nat, clock <= at,
             taken'[a] = T \union {[at |-> at, day |-> today, counters |-> M]}
      PROVE  /\ \A d \in Day : d > today' => used'[a][d] = Zero
             /\ Reckoned(meter'[a], taken'[a], used'[a], daily'[a], baseline'[a])
  <2>1. \A r \in T : r.at <= at
    <3>1. \A r \in T : r.at \in Nat
      BY <1>2 DEF Taken
    <3> QED
      BY <1>2, <1>8, <3>1
  <2>2. Reckoned(M, T \union {[at |-> at, day |-> today, counters |-> M]}, u, D, b)
    <3> HIDE DEF M, T, u, D, b
    <3> QED
      BY <1>2, <1>3, <2>1, ReckonedReading
  <2> QED
    BY <1>3, <1>8, <2>2 DEF tables
<1> HIDE DEF M, T, u, D, b
<1>9. \/ used'[a] = u /\ meter'[a] = M /\ taken'[a] = T /\ today' = today
      \/ UNCHANGED tables /\ today' = today + 1 /\ used'[a] = u /\ meter'[a] = M /\ taken'[a] = T
      \/ UNCHANGED tables /\ today' = today /\ taken'[a] = T /\ \E c \in Counters : Uses(a, c) /\ meter'[a] = Plus(M, c)
      \/ UNCHANGED tables /\ today' = today /\ used'[a] = u /\ taken'[a] = T /\ meter'[a] \in Counters /\ AtMost(meter'[a], M)
      \/ UNCHANGED tables /\ today' = today /\ used'[a] = u /\ meter'[a] = M
         /\ \E at \in Nat : clock <= at /\ taken'[a] = T \union {[at |-> at, day |-> today, counters |-> M]}
  BY <1>1, MeterMove DEF M, T, u, D, b
<1> QED
  BY <1>4, <1>5, <1>6, <1>7, <1>8, <1>9

\* The use is what its sources show at the start,
LEMMA CountedAtFirst == Init => Counted
<1> SUFFICES ASSUME Init PROVE Counted
  OBVIOUS
<1>1. Held
  BY HeldAtFirst
<1>2. /\ used = [a \in Account |-> [d \in Day |-> Zero]] /\ log = [a \in Account |-> <<>>]
      /\ file = [a \in Account |-> [s \in Source |-> <<>>]]
      /\ meter = [a \in Account |-> Zero] /\ taken = [a \in Account |-> {}]
      /\ daily = [a \in Account |-> NoRows] /\ baseline = [a \in Account |-> None]
  BY DEF Init, StoreInit
<1>3. RhythmUse
  <2>1. \A e \in Day : ModelsOf(<<>>, e) = {}
    BY DEF ModelsOf
  <2>2. Total({}, CostsOf(<<>>)) = Zero
    <3>1. IsFiniteSet({})
      BY FS_EmptySet
    <3> QED
      BY <3>1, TotalStep
  <2>3. UseOfLog(<<>>, [d \in Day |-> Zero])
    BY <2>1, <2>2 DEF UseOfLog
  <2> QED
    BY <1>2, <2>3 DEF RhythmUse
<1>4. CodexUse
  <2> DEFINE F == [s \in Source |-> <<>>]
             nothing == [s \in Source |-> Newest(F[s])]
  <2>1. \A s \in Source : nothing[s] = [k \in Day \X Model |-> None]
    BY DEF Newest
  <2>2. \A d \in Day, s \in Source : DayOf(nothing, d)[s] = Zero
    <3> SUFFICES ASSUME NEW d \in Day, NEW s \in Source PROVE DayOf(nothing, d)[s] = Zero
      OBVIOUS
    <3> DEFINE g == [m \in Model |-> Shown(nothing[s][<<d, m>>])]
    <3>1. \A m \in Model : g[m] = Zero
      BY <2>1 DEF Shown
    <3>2. DayOf(nothing, d)[s] = Total(Model, g)
      BY DEF DayOf
    <3> HIDE DEF g
    <3> QED
      BY <3>1, <3>2, NamesAssumption, TotalZero
  <2> HIDE DEF nothing
  <2>3. \A d \in Day : Total(Source, DayOf(nothing, d)) = Zero
    BY <2>2, NamesAssumption, TotalZero
  <2>4. \A s \in Source : Growing(F[s])
    BY DEF Growing
  <2>5. UseOfFiles(F, [d \in Day |-> Zero])
    BY <2>3, <2>4 DEF UseOfFiles, nothing
  <2> QED
    BY <1>2, <2>5 DEF CodexUse
<1>5. MeterUse
  <2> DEFINE u == [d \in Day |-> Zero]
             U == [r \in {} |-> Zero]
  <2>1. u \in [Day -> Counters] /\ \A d \in Day : u[d] \in Counters
    BY ZeroType
  <2>2. U \in [{} -> Counters] /\ Measures(Zero, {}, u, U)
    BY DEF Measures
  <2> HIDE DEF u, U
  <2>3. Behind(NoRows, None, {}, u, U)
    BY <2>1, NothingBehind
  <2>4. \A d \in Day : u[d] = Zero
    BY DEF u
  <2> QED
    BY <1>2, <2>2, <2>3, <2>4 DEF MeterUse, NoneLater, u
<1> QED
  BY <1>1, <1>3, <1>4, <1>5 DEF Counted

\* after every step,
LEMMA CountedStep == Counted /\ [Next]_vars => Counted'
BY HeldStep, RhythmUseStep, CodexUseStep, MeterUseStep DEF Counted

\* and so always.
LEMMA AlwaysCounted == Spec => []Counted
BY CountedAtFirst, CountedStep, PTL DEF Spec

\* The rows of a metered account are under no model's name.
LEMMA RowsOfMeter ==
    ASSUME NEW a \in Account, daily[a] \in [Key -> Counters \union {None}], \A d \in Day, m \in Model : daily[a][<<d, m>>] = None,
           NEW d \in Day
    PROVE  Stored(a, d) = Row(daily[a])[d] /\ Stored(a, d) \in Counters
<1> DEFINE rows == [m \in Names |-> Shown(daily[a][<<d, m>>])]
<1>1. \A m \in Names : rows[m] \in Counters
  <2>1. \A m \in Names : <<d, m>> \in Key
    BY DEF Key
  <2> QED
    BY <2>1, ShownType
<1>2. Names \ {Unnamed} = Model /\ \A m \in Model : m \in Names /\ rows[m] = Zero
  BY NamesAssumption DEF Names, Shown
<1>3. rows[Unnamed] = Row(daily[a])[d]
  BY FiniteNames DEF Row
<1> HIDE DEF rows
<1>4. Total(Names, rows) = Plus(rows[Unnamed], Total(Names \ {Unnamed}, rows)) /\ Total(Names, rows) \in Counters
  BY <1>1, FiniteNames, TotalStep
<1>5. Total(Model, rows) = Zero
  BY <1>2, NamesAssumption, TotalZero
<1> QED
  BY <1>1, <1>2, <1>3, <1>4, <1>5, FiniteNames, PlusCounters DEF Stored, rows

\* So rows that are from the sources show no more than was used.
LEMMA NothingInvented == Counted => NeverInvents
<1> SUFFICES ASSUME Counted, NEW a \in Account, NEW d \in Day
             PROVE  AtMost(Total(1 .. d, [e \in Day |-> Stored(a, e)]), Total(1 .. d, used[a]))
  BY DEF NeverInvents
<1>1. /\ TypeOK /\ used[a] \in [Day -> Counters] /\ daily[a] \in [Key -> Counters \union {None}]
      /\ log \in [Account -> Seq(Key)]
  BY DEF Counted, Held, TypeOK, TablesTypeOK, UseTypeOK, LogTypeOK
<1> DEFINE f == [e \in Day |-> Stored(a, e)]
           u == used[a]
<1>2. ASSUME \A e \in Day : Stored(a, e) \in Counters /\ AtMost(Stored(a, e), used[a][e])
      PROVE  AtMost(Total(1 .. d, f), Total(1 .. d, u))
  <2> DEFINE S == 1 .. d
  <2>1. \A e \in Day : u[e] \in Counters
    BY <1>1
  <2>2. S \in SUBSET Day /\ IsFiniteSet(S)
    BY <2>1, DayTotals
  <2>3. \A e \in S : f[e] \in Counters /\ u[e] \in Counters /\ AtMost(f[e], u[e])
    BY <1>2, <2>1, <2>2
  <2> HIDE DEF S, f, u
  <2> QED
    BY <2>2, <2>3, TotalAtMost DEF S
<1>3. CASE Provider[a] = "tokenrhythm"
  <2>1. ASSUME NEW e \in Day
        PROVE  Stored(a, e) \in Counters /\ AtMost(Stored(a, e), used[a][e])
    <3>1. \A m \in Names : Part(a, <<e, m>>, daily[a][<<e, m>>])
      BY <1>3 DEF Counted, Held, FromLog, Key
    <3>2. used[a][e] = Total(ModelsOf(log[a], e), CostsOf(log[a]))
      BY <1>3 DEF Counted, RhythmUse, UseOfLog
    <3> QED
      BY <1>1, <3>1, <3>2, PartsOfUse
  <2> QED
    BY <1>2, <2>1
<1>4. CASE Provider[a] = "codex"
  <2>1. ASSUME NEW e \in Day
        PROVE  Stored(a, e) \in Counters /\ AtMost(Stored(a, e), used[a][e])
    <3>1. daily[a] = FromEntries(entries[a]) /\ Matches(a, hash[a], entries[a]) /\ UseOfFiles(file[a], used[a])
      BY <1>4 DEF Counted, Held, FromFiles, Imports, CodexUse
    <3> QED
      BY <1>1, <3>1, ImportsOfUse
  <2> QED
    BY <1>2, <2>1
<1>5. CASE Provider[a] = "metered"
  <2>1. PICK U \in [taken[a] -> Counters] : Behind(daily[a], baseline[a], taken[a], used[a], U)
    BY <1>5 DEF Counted, MeterUse
  <2>2. \A e \in Day, m \in Model : daily[a][<<e, m>>] = None
    BY <2>1 DEF Behind
  <2>3. \A e \in Day : Stored(a, e) = Row(daily[a])[e] /\ Stored(a, e) \in Counters
    BY <1>1, <2>2, RowsOfMeter
  <2>4. AtMost(Total(1 .. d, Row(daily[a])), Total(1 .. d, u))
    BY <2>1 DEF Behind
  <2> DEFINE S == 1 .. d
             g == Row(daily[a])
  <2>5. S \in SUBSET Day /\ IsFiniteSet(S)
    <3>1. \A e \in Day : u[e] \in Counters
      BY <1>1
    <3> QED
      BY <3>1, DayTotals
  <2>6. \A e \in S : f[e] \in Counters /\ g[e] = f[e]
    BY <2>3, <2>5
  <2> HIDE DEF S, f, g
  <2>7. Total(S, f) = Total(S, g)
    BY <2>5, <2>6, TotalEqual
  <2> QED
    BY <2>4, <2>7 DEF S, f, g
<1> QED
  BY <1>3, <1>4, <1>5, ProviderAssumption

\* Up to any day the dashboard shows no more than was used, for any number
\* of accounts, models, files, readings and refreshes
\* (RecordUsageSnapshot, UpsertAbsoluteDailyUsage,
\* ReplaceCodexUsageSources).
THEOREM UsageNeverInvents == Spec => []NeverInvents
BY AlwaysCounted, NothingInvented, PTL

-----------------------------------------------------------------------------
(* Syncs.                                                                  *)

\* Those requests of a log that are of the day, and what they come to.
KnownOf(l, R, d) == {i \in R : l[i][1] = d}
Worth(l, R, d) == Total(KnownOf(l, R, d), [i \in KnownOf(l, R, d) |-> Request(l[i][2])])

\* What rows come to on a day.
RowsOf(D, d) == Total(Names, [m \in Names |-> Shown(D[<<d, m>>])])

\* A page reaches further down the list, and the last one to its end: all
\* that was listed when the first was read, and still is, has been seen by
\* then.
LEMMA PageReaches ==
    ASSUME NEW n \in Nat, NEW o \in Nat, o <= n, NEW k \in Nat \ {0}, NEW f \in Nat, f <= n,
           NEW seen, NEW fetched \in Nat, fetched <= (k - 1) * PageSize,
           \A i \in o + 1 .. f : i > n - (k - 1) * PageSize => i \in seen
    PROVE  LET items == PageOf(o, n, k) IN
           /\ \A i \in o + 1 .. f : i > n - ((k + 1) - 1) * PageSize => i \in seen \union items
           /\ fetched + Cardinality(items) <= ((k + 1) - 1) * PageSize
           /\ items = {} \/ fetched + Cardinality(items) >= n - o \/ Cardinality(items) < PageSize
              => o + 1 .. f \subseteq seen \union items
<1> DEFINE w == (k - 1) * PageSize
           v == k * PageSize
           items == PageOf(o, n, k)
           lo == IF n - v < o THEN o + 1 ELSE n - v + 1
           hi == n - w
<1>1. PageSize \in Nat \ {0}
  BY PageAssumption
<1>2. w \in Nat /\ v \in Nat /\ v = w + PageSize /\ (k + 1) - 1 = k
  <2>1. k - 1 \in Nat /\ k = (k - 1) + 1
    OBVIOUS
  <2>2. \A j, z \in Nat : j * z \in Nat /\ (j + 1) * z = j * z + z
    OBVIOUS
  <2>3. (k - 1) * PageSize \in Nat /\ ((k - 1) + 1) * PageSize = (k - 1) * PageSize + PageSize
    BY <1>1, <2>1, <2>2
  <2> QED
    BY <1>1, <2>1, <2>3
<1>3. items = {i \in o + 1 .. n : n - v < i /\ i <= n - w}
  BY DEF PageOf
<1>4. \A i \in o + 1 .. f : i > n - w => i \in seen
  OBVIOUS
<1>5. fetched <= w
  OBVIOUS
<1>6. (k + 1 - 1) * PageSize = v
  BY <1>2
<1> HIDE DEF w, v
<1>7. items = lo .. hi /\ lo \in Int /\ hi \in Int
  <2> HIDE DEF items
  <2> QED
    BY <1>1, <1>2, <1>3
<1>8. Cardinality(lo .. hi) = IF lo > hi THEN 0 ELSE hi - lo + 1
  <2> HIDE DEF lo, hi, items
  <2> QED
    BY <1>7, FS_Interval
<1>9. fetched + Cardinality(items) <= v
  <2> HIDE DEF items
  <2> QED
    BY <1>1, <1>2, <1>5, <1>7, <1>8
<1>10. \A i \in o + 1 .. f : i > n - v => i \in seen \union items
  <2> HIDE DEF items
  <2> QED
    BY <1>1, <1>2, <1>3, <1>4
<1>11. ASSUME items = {} \/ fetched + Cardinality(items) >= n - o \/ Cardinality(items) < PageSize, NEW i \in o + 1 .. f
       PROVE  i \in seen \union items
  <2> HIDE DEF items
  <2>1. CASE items = {}
    <3>1. lo > hi
      BY <1>7, <2>1
    <3>2. n - w < o + 1
      BY <1>1, <1>2, <3>1
    <3> QED
      BY <1>2, <1>4, <3>2
  <2>2. CASE fetched + Cardinality(items) >= n - o
    <3>1. n - o <= v
      BY <1>1, <1>2, <1>5, <1>7, <1>8, <2>2
    <3> QED
      BY <1>2, <1>10, <3>1
  <2>3. CASE Cardinality(items) < PageSize
    <3>1. n - v < o \/ lo > hi
      BY <1>1, <1>2, <1>7, <1>8, <2>3
    <3>2. n - v < o + 1
      BY <1>1, <1>2, <3>1
    <3> QED
      BY <1>2, <1>10, <3>2
  <2> QED
    BY <1>11, <2>1, <2>2, <2>3
<1> QED
  BY <1>6, <1>9, <1>10, <1>11

\* Requests of a log go on to come to what they did.
LEMMA WorthStays ==
    ASSUME TypeOK, [Next]_vars, NEW a \in Account, NEW R \in SUBSET DOMAIN log[a], NEW d
    PROVE  Worth(log'[a], R, d) = Worth(log[a], R, d)
<1>1. \A i \in R : log'[a][i] = log[a][i]
  BY LogGrows
<1>2. KnownOf(log'[a], R, d) = KnownOf(log[a], R, d)
  BY <1>1 DEF KnownOf
<1>3. \A i \in KnownOf(log[a], R, d) : log'[a][i] = log[a][i]
  BY <1>1 DEF KnownOf
<1> QED
  BY <1>2, <1>3 DEF Worth

\* Requests that are all among others come to no more.
LEMMA WorthIn ==
    ASSUME log \in [Account -> Seq(Key)], NEW a \in Account, NEW Q \in SUBSET DOMAIN log[a], NEW d,
           NEW R \in SUBSET DOMAIN log[a], KnownOf(log[a], Q, d) \subseteq R
    PROVE  AtMost(Worth(log[a], Q, d), Total(R, CostOf(a))) /\ Worth(log[a], Q, d) \in Counters
           /\ Total(R, CostOf(a)) \in Counters /\ Worth(log[a], Q, d) = Total(KnownOf(log[a], Q, d), CostOf(a))
<1> DEFINE K == KnownOf(log[a], Q, d)
           g == [i \in K |-> Request(log[a][i][2])]
           c == CostOf(a)
<1>1. IsFiniteSet(R) /\ K \in SUBSET R /\ IsFiniteSet(K)
  BY LogFinite, FS_Subset
<1>2. (\A i \in R : c[i] \in Counters) /\ \A i \in K : g[i] \in Counters /\ c[i] = g[i]
  BY <1>1, RequestType DEF CostOf
<1> HIDE DEF K, g, c
<1>3. Total(K, g) = Total(K, c) /\ Total(K, g) \in Counters
  BY <1>1, <1>2, TotalEqual, TotalMore
<1>4. AtMost(Total(K, c), Total(R, c)) /\ Total(R, c) \in Counters
  BY <1>1, <1>2, TotalSubset, TotalMore
<1> QED
  BY <1>3, <1>4 DEF Worth, K, g, c

\* Fewer requests come to no more.
LEMMA WorthLess ==
    ASSUME log \in [Account -> Seq(Key)], NEW a \in Account, NEW Q \in SUBSET DOMAIN log[a], NEW P \in SUBSET Q, NEW d
    PROVE  AtMost(Worth(log[a], P, d), Worth(log[a], Q, d))
           /\ Worth(log[a], P, d) \in Counters /\ Worth(log[a], Q, d) \in Counters
<1> DEFINE K == KnownOf(log[a], Q, d)
<1>1. K \in SUBSET DOMAIN log[a] /\ KnownOf(log[a], P, d) \subseteq K /\ P \in SUBSET DOMAIN log[a]
  BY DEF KnownOf
<1>2. Worth(log[a], Q, d) = Total(K, CostOf(a)) /\ Worth(log[a], Q, d) \in Counters
  BY <1>1, WorthIn
<1> HIDE DEF K
<1> QED
  BY <1>1, <1>2, WorthIn

Upserted(D, day, n) == [k \in Key |-> IF k[1] = day THEN n[k[2]] ELSE D[k]]

\* The rows of the other days come to what they did.
LEMMA RowsElsewhere ==
    ASSUME NEW D, NEW day \in Day, NEW n, NEW E, E = Upserted(D, day, n), NEW d \in Day, d # day
    PROVE  RowsOf(E, d) = RowsOf(D, d)
<1>1. \A m \in Names : <<d, m>> \in Key /\ E[<<d, m>>] = D[<<d, m>>]
  BY DEF Key, Upserted
<1>2. [m \in Names |-> Shown(E[<<d, m>>])] = [m \in Names |-> Shown(D[<<d, m>>])]
  BY <1>1
<1> QED
  BY <1>2 DEF RowsOf

\* Those of the day come to the readings.
LEMMA RowsUpserted ==
    ASSUME NEW D, NEW day \in Day, NEW n, NEW E, E = Upserted(D, day, n)
    PROVE  RowsOf(E, day) = Total(Names, [m \in Names |-> Shown(n[m])])
<1>1. \A m \in Names : <<day, m>> \in Key /\ E[<<day, m>>] = n[m]
  BY DEF Key, Upserted
<1>2. [m \in Names |-> Shown(E[<<day, m>>])] = [m \in Names |-> Shown(n[m])]
  BY <1>1
<1> QED
  BY <1>2 DEF RowsOf

-----------------------------------------------------------------------------
\* These requests of the log are in the rows of the days.
HasDays(l, R, D, days) == \A d \in days : AtMost(Worth(l, R, d), RowsOf(D, d))

\* The list down to where it began has been seen, as far as it was read.
Paging(o, n, s) ==
    /\ s.fetched <= (s.page - 1) * PageSize /\ s.page >= 1
    /\ \A i \in o + 1 .. s.floor : i > n - (s.page - 1) * PageSize => i \in s.seen

\* How far a sync has come that has run alone and without an error, while
\* o of the n requests that were listed have left the list.
Going(s, l, o, n, there, D) ==
    /\ s.at # "idle" /\ s.floor <= n /\ s.made <= Len(l)
    /\ s.at = "page" => Paging(o, n, s)
    /\ s.at = "days" => o + 1 .. s.floor \subseteq s.seen
    /\ s.at \in {"days", "panel", "write"} /\ there =>
         HasDays(l, o + 1 .. s.floor, D, IF s.at = "days" THEN Day \ s.todo ELSE Day)
    /\ s.at = "write" =>
         AtMost(Worth(l, 1 .. s.made, s.panel.day), Total(Names, [m \in Names |-> Shown(s.panel.readings[m])]))

Alone(p) == \A q \in Process \ {p} : sync[q].at = "idle"

GoingOf(s) == Going(s, log[s.account], aged[s.account], listed[s.account], s.account \in connected, daily[s.account])

WholeSyncs == \A p \in Process : sync[p].whole => Alone(p) /\ GoingOf(sync[p])

\* A step that is no sync's: the rows of a TokenRhythm account stay, or the
\* account goes; its log only grows, and its list does at one end and
\* shrinks at the other.
LEMMA QuietStep ==
    ASSUME Held, [Next]_vars, UNCHANGED sync,
           NEW a \in Account, Provider[a] = "tokenrhythm"
    PROVE  /\ listed[a] <= listed'[a] /\ aged[a] <= aged'[a] /\ Len(log[a]) <= Len(log'[a])
           /\ a \in connected' => a \in connected /\ daily'[a] = daily[a]
<1> USE DEF Held
<1>1. listed \in [Account -> Nat] /\ aged \in [Account -> Nat] /\ log \in [Account -> Seq(Key)] /\ TablesTypeOK /\ SyncTypeOK
  BY DEF TypeOK, LogTypeOK
<1>2. listed[a] <= listed'[a]
  <2>1. CASE List
    BY <1>1, <2>1 DEF List
  <2>2. UNCHANGED listed \/ List
    BY DEF Next, NextDay, UseMeter, ResetMeter, TakeReading, GrowFile, Call, Age, StoreReading, ImportCodexUsage, Delete,
           StartSync, HistoryFails, FetchPage, StoreDay, DaysDone, FetchToday, StoreToday, vars
  <2> QED
    BY <1>1, <2>1, <2>2
<1>5. aged[a] <= aged'[a]
  <2>1. CASE Age
    BY <1>1, <2>1 DEF Age
  <2>2. UNCHANGED aged \/ Age
    BY DEF Next, NextDay, UseMeter, ResetMeter, TakeReading, GrowFile, Call, List, StoreReading, ImportCodexUsage, Delete,
           StartSync, HistoryFails, FetchPage, StoreDay, DaysDone, FetchToday, StoreToday, vars
  <2> QED
    BY <1>1, <2>1, <2>2
<1>3. Len(log[a]) <= Len(log'[a])
  <2>1. CASE Call
    <3>1. PICK b \in Rhythm, m \in Names : log' = [log EXCEPT ![b] = Append(@, <<today, m>>)]
      BY <2>1 DEF Call
    <3> QED
      BY <1>1, <3>1
  <2>2. UNCHANGED log \/ Call
    BY DEF Next, NextDay, UseMeter, ResetMeter, TakeReading, GrowFile, List, Age, StoreReading, ImportCodexUsage, Delete,
           StartSync, HistoryFails, FetchPage, StoreDay, DaysDone, FetchToday, StoreToday, vars
  <2> QED
    BY <1>1, <2>1, <2>2
<1>4. ASSUME a \in connected'
      PROVE  a \in connected /\ daily'[a] = daily[a]
  <2>1. CASE UNCHANGED tables
    BY <1>4, <2>1 DEF tables
  <2>2. CASE StoreReading
    <3>1. PICK b \in Metered : \E r \in taken[b] :
            RecordUsageSnapshot(b, [at |-> r.at, counters |-> r.counters], r.day)
      BY <2>2 DEF StoreReading
    <3>2. a # b
      BY DEF Metered
    <3> QED
      BY <1>1, <1>4, <3>1, <3>2 DEF RecordUsageSnapshot, AddDailyDelta, TablesTypeOK
  <2>3. CASE ImportCodexUsage
    <3>1. PICK b \in Account : TakesFiles(b)
      BY <2>3, ImportTakesFiles
    <3> QED
      BY <1>1, <1>4, <3>1 DEF TakesFiles, TablesTypeOK
  <2>4. CASE Delete
    <3>1. PICK b \in connected : DeleteConnectedAccount(b)
      BY <2>4 DEF Delete
    <3> QED
      BY <1>1, <1>4, <3>1 DEF DeleteConnectedAccount, TablesTypeOK
  <2>5. ASSUME NEW p \in Process, StoreDay(p)
        PROVE  UNCHANGED tables
    <3>1. sync[p] \in Sync /\ sync[p].todo # {} /\ sync[p].todo \in SUBSET Day
      BY <1>1, <2>5 DEF StoreDay, SyncTypeOK, Sync
    <3>2. Min(sync[p].todo) \in sync[p].todo
      BY <3>1, SmallestDay
    <3>3. CASE UNCHANGED tables
      BY <3>3
    <3>4. CASE Set(p, [sync[p] EXCEPT !.todo = @ \ {Min(sync[p].todo)}])
      <4> DEFINE s == sync[p]
                 rest == s.todo \ {Min(s.todo)}
                 t == [s EXCEPT !.todo = rest]
      <4>0. sync'[p] = t /\ t.todo = rest
        <5>1. sync'[p] = t
          BY <1>1, <3>4 DEF Set, SyncTypeOK
        <5>2. s \in Sync
          BY <3>1
        <5> HIDE DEF s, rest
        <5>3. t.todo = rest
          BY <5>2 DEF Sync
        <5> QED
          BY <5>1, <5>3
      <4>1. sync'[p].todo = sync[p].todo \ {Min(sync[p].todo)}
        BY <4>0
      <4> QED
        BY <3>2, <4>1
    <3> QED
      BY <2>5, <3>3, <3>4 DEF StoreDay
  <2>6. ASSUME NEW p \in Process, StoreToday(p)
        PROVE  FALSE
    <3>1. sync'[p] = IdleSync /\ sync[p].at = "write"
      BY <1>1, <2>6 DEF StoreToday, Set, SyncTypeOK
    <3> QED
      BY <3>1 DEF IdleSync
  <2>7. \/ UNCHANGED tables \/ StoreReading \/ ImportCodexUsage \/ Delete
        \/ \E p \in Process : StoreDay(p) \/ StoreToday(p)
    BY DEF Next, NextDay, UseMeter, ResetMeter, TakeReading, GrowFile, Call, List, Age,
           StartSync, HistoryFails, FetchPage, DaysDone, FetchToday, vars
  <2> QED
    BY <2>1, <2>2, <2>3, <2>4, <2>5, <2>6, <2>7
<1> QED
  BY <1>2, <1>3, <1>4, <1>5

\* What rows come to are counters.
LEMMA RowsType ==
    ASSUME NEW D \in [Key -> Counters \union {None}], NEW d \in Day
    PROVE  RowsOf(D, d) \in Counters
<1> DEFINE f == [m \in Names |-> Shown(D[<<d, m>>])]
<1>1. \A m \in Names : f[m] \in Counters
  <2>1. \A m \in Names : <<d, m>> \in Key
    BY DEF Key
  <2> QED
    BY <2>1, ShownType
<1> HIDE DEF f
<1>2. Total(Names, f) \in Counters
  BY <1>1, FiniteNames, TotalMore
<1> QED
  BY <1>2 DEF RowsOf, f

\* A sync is as far as it was after a step that no sync takes.
LEMMA GoingStays ==
    ASSUME Held, [Next]_vars, UNCHANGED sync, NEW p \in Process, GoingOf(sync[p])
    PROVE  GoingOf(sync[p])'
<1> DEFINE s == sync[p]
           a == s.account
           l == log[a]
           n == listed[a]
           o == aged[a]
<1>1. /\ s \in Sync /\ a \in Account /\ Provider[a] = "tokenrhythm" /\ TypeOK
      /\ s.floor \in Nat /\ s.made \in Nat /\ n \in Nat /\ n <= Len(l) /\ Len(l) \in Nat
      /\ o \in Nat /\ log \in [Account -> Seq(Key)] /\ daily \in [Account -> [Key -> Counters \union {None}]]
  BY DEF GoingOf, Going, Held, TypeOK, SyncTypeOK, LogTypeOK, TablesTypeOK, Syncing, Sync
<1>2. Going(s, l, o, n, a \in connected, daily[a])
  BY DEF GoingOf
<1>3. /\ n <= listed'[a] /\ o <= aged'[a] /\ Len(l) <= Len(log'[a])
      /\ a \in connected' => a \in connected /\ daily'[a] = daily[a]
  BY <1>1, QuietStep
<1>4. listed'[a] \in Nat /\ aged'[a] \in Nat /\ Len(log'[a]) \in Nat
  <2>1. TypeOK'
    BY TypesStep DEF Held
  <2> QED
    BY <1>1, <2>1 DEF TypeOK, LogTypeOK
<1>5. s.floor <= Len(l) /\ s.made <= Len(l) /\ s.floor <= n
  BY <1>1, <1>2 DEF Going
<1> DEFINE R == o + 1 .. s.floor
           P == aged'[a] + 1 .. s.floor
<1>13. R \in SUBSET DOMAIN l /\ P \in SUBSET R /\ 1 .. s.made \in SUBSET DOMAIN l
  <2>1. DOMAIN l = 1 .. Len(l)
    BY <1>1
  <2> QED
    BY <1>1, <1>3, <1>4, <1>5, <2>1
<1>6. \A d : Worth(log'[a], P, d) = Worth(l, P, d) /\ Worth(log'[a], 1 .. s.made, d) = Worth(l, 1 .. s.made, d)
  <2> HIDE DEF R, P
  <2>1. P \in SUBSET DOMAIN l
    BY <1>13
  <2> QED
    BY <1>1, <1>13, <2>1, WorthStays
<1>14. \A d : AtMost(Worth(l, P, d), Worth(l, R, d)) /\ Worth(l, P, d) \in Counters /\ Worth(l, R, d) \in Counters
  <2> HIDE DEF R, P
  <2> QED
    BY <1>1, <1>13, WorthLess
<1>15. \A d \in Day : RowsOf(daily[a], d) \in Counters
  BY <1>1, RowsType
<1> HIDE DEF a, l, n, o
<1>7. s.at # "idle" /\ s.floor <= listed'[a] /\ s.made <= Len(log'[a])
  BY <1>1, <1>2, <1>3, <1>4, <1>5 DEF Going
<1>8. ASSUME s.at = "page"
      PROVE  Paging(aged'[a], listed'[a], s)
  <2>1. Paging(o, n, s)
    BY <1>2, <1>8 DEF Going
  <2>2. s.page \in Nat /\ s.page >= 1 /\ (s.page - 1) * PageSize \in Nat
    <3>1. s.page \in Nat /\ s.page >= 1 /\ PageSize \in Nat
      BY <1>1, <2>1, PageAssumption DEF Sync, Paging
    <3>2. s.page - 1 \in Nat
      BY <3>1
    <3>3. \A x, y \in Nat : x * y \in Nat
      OBVIOUS
    <3> QED
      BY <3>1, <3>2, <3>3
  <2> DEFINE w == (s.page - 1) * PageSize
  <2>3. s.fetched <= w /\ \A i \in o + 1 .. s.floor : i > n - w => i \in s.seen
    BY <2>1 DEF Paging
  <2>5. w \in Nat
    BY <2>2
  <2> HIDE DEF w
  <2>4. ASSUME NEW i \in aged'[a] + 1 .. s.floor, i > listed'[a] - w
        PROVE  i \in s.seen
    <3>1. i \in o + 1 .. s.floor
      BY <1>1, <1>3, <1>4
    <3>2. i > n - w
      BY <1>1, <1>3, <1>4, <2>4, <2>5
    <3> QED
      BY <2>3, <3>1, <3>2
  <2> QED
    BY <2>2, <2>3, <2>4 DEF Paging, w
<1>9. s.at = "days" => aged'[a] + 1 .. s.floor \subseteq s.seen
  BY <1>2, <1>13 DEF Going, P, R
<1>10. s.at \in {"days", "panel", "write"} /\ a \in connected' =>
         HasDays(log'[a], aged'[a] + 1 .. s.floor, daily'[a], IF s.at = "days" THEN Day \ s.todo ELSE Day)
  <2> DEFINE days == IF s.at = "days" THEN Day \ s.todo ELSE Day
  <2> SUFFICES ASSUME s.at \in {"days", "panel", "write"}, a \in connected', NEW d \in days
               PROVE  AtMost(Worth(log'[a], P, d), RowsOf(daily'[a], d))
    BY DEF HasDays, P
  <2>1. AtMost(Worth(l, R, d), RowsOf(daily[a], d))
    BY <1>2, <1>3 DEF Going, HasDays, R
  <2>2. d \in Day
    OBVIOUS
  <2> HIDE DEF P, R
  <2>3. AtMost(Worth(l, P, d), RowsOf(daily[a], d))
    BY <1>14, <1>15, <2>1, <2>2, AtMostCounters
  <2> QED
    BY <1>3, <1>6, <2>3
<1>11. s.at = "write" => AtMost(Worth(log'[a], 1 .. s.made, s.panel.day), Total(Names, [m \in Names |-> Shown(s.panel.readings[m])]))
  BY <1>2, <1>6 DEF Going
<1>12. Going(s, log'[a], aged'[a], listed'[a], a \in connected', daily'[a])
  <2> HIDE DEF s
  <2> QED
    BY <1>7, <1>8, <1>9, <1>10, <1>11 DEF Going
<1> QED
  BY <1>12 DEF GoingOf, a

\* No requests come to nothing.
LEMMA NothingKnown == \A l, R, d : KnownOf(l, R, d) = {} => Worth(l, R, d) = Zero
<1> SUFFICES ASSUME NEW l, NEW R, NEW d, KnownOf(l, R, d) = {} PROVE Worth(l, R, d) = Zero
  OBVIOUS
<1> DEFINE K == KnownOf(l, R, d)
           g == [i \in K |-> Request(l[i][2])]
<1>1. IsFiniteSet(K) /\ \A x \in K : g[x] = Zero
  BY FS_EmptySet
<1> HIDE DEF K, g
<1>2. Total(K, g) = Zero
  BY <1>1, TotalZero
<1> QED
  BY <1>2 DEF Worth, K, g

\* A sync that another step is not of.
LEMMA OthersStay ==
    ASSUME TypeOK, NEW p \in Process, NEW s, Set(p, s)
    PROVE  sync'[p] = s /\ (Alone(p) => Alone(p)') /\ (Alone(p)' => Alone(p))
<1>1. sync \in [Process -> Sync]
  BY DEF TypeOK, SyncTypeOK
<1>2. sync'[p] = s /\ \A q \in Process \ {p} : sync'[q] = sync[q]
  BY <1>1 DEF Set
<1> QED
  BY <1>2 DEF Alone

\* A sync that runs alone gets further with each of its steps: begun,
LEMMA GoingFromStart ==
    ASSUME Held, NEW p \in Process, StartSync(p), sync'[p].whole
    PROVE  Alone(p)' /\ GoingOf(sync[p])'
<1>1. PICK a \in Rhythm :
        sync' = [q \in Process |->
           IF q # p THEN Partial(sync[q])
           ELSE IF Running # {} THEN Begun(a) ELSE Whole(Begun(a), listed[a], Len(log[a]))]
  BY DEF StartSync, Begun, Whole
<1>2. a \in Account /\ listed[a] \in Nat /\ aged[a] \in Nat /\ Len(log[a]) \in Nat
  BY DEF Rhythm, Held, TypeOK, TablesTypeOK, LogTypeOK
<1> DEFINE b == Begun(a)
           w == Whole(b, listed[a], Len(log[a]))
<1>3. b \in Sync /\ b.at = "page" /\ b.account = a /\ b.page = 1 /\ b.fetched = 0 /\ b.seen = {} /\ ~b.whole
  BY <1>2, BegunSync
<1> HIDE DEF b
<1>4. w \in Sync /\ w.at = "page" /\ w.account = a /\ w.page = 1 /\ w.fetched = 0 /\ w.floor = listed[a]
      /\ w.made = Len(log[a])
  <2>1. /\ w.at = b.at /\ w.account = b.account /\ w.page = b.page /\ w.fetched = b.fetched
        /\ w.floor = listed[a] /\ w.made = Len(log[a])
    BY <1>3 DEF Whole, Sync
  <2>2. w \in Sync
    BY <1>2, <1>3, WholeSync
  <2> QED
    BY <1>3, <2>1, <2>2
<1> HIDE DEF w
<1>5. Running = {} /\ sync'[p] = w
  BY <1>1, <1>3 DEF b, w
<1>6. Alone(p)'
  <2>1. \A q \in Process \ {p} : sync'[q] = Partial(sync[q]) /\ sync[q] \in Sync /\ sync[q].at = "idle"
    BY <1>1, <1>5 DEF Held, TypeOK, SyncTypeOK, Running
  <2> QED
    BY <2>1, PartialType DEF Alone
<1>7. Paging(aged[a], listed[a], w)
  <2>1. (w.page - 1) * PageSize = 0
    BY <1>4, PageAssumption
  <2> QED
    BY <1>2, <1>4, <2>1 DEF Paging
<1>8. ASSUME NEW there, NEW D
      PROVE  Going(w, log[a], aged[a], listed[a], there, D)
  BY <1>2, <1>4, <1>7 DEF Going
<1>9. UNCHANGED <<tables, log, listed, aged>>
  BY DEF StartSync
<1>10. Going(w, log'[a], aged'[a], listed'[a], a \in connected', daily'[a])
  BY <1>8, <1>9
<1> QED
  BY <1>4, <1>5, <1>6, <1>10 DEF GoingOf

\* with a page,
LEMMA GoingFromPage ==
    ASSUME Held, WholeSyncs, NEW p \in Process, FetchPage(p), sync'[p].whole
    PROVE  Alone(p)' /\ GoingOf(sync[p])'
<1> DEFINE s == sync[p]
           a == s.account
           l == log[a]
           n == listed[a]
           o == aged[a]
           items == PageNow(a, s.page)
           fetched == s.fetched + Cardinality(items)
           seen == s.seen \union items
           t == ReadWhole(s, seen, DaysOf(a, seen))
           u == Paged(s, fetched, seen)
<1>1. /\ s \in Sync /\ s.at = "page" /\ a \in Account /\ TypeOK /\ s.seen \subseteq DOMAIN l
      /\ log \in [Account -> Seq(Key)] /\ n \in Nat /\ n <= Len(l) /\ o \in Nat /\ o <= n
      /\ s.floor \in Nat /\ s.fetched \in Nat /\ s.page \in Nat
  <2>1. s.at = "page"
    BY DEF FetchPage
  <2> QED
    BY <2>1 DEF Held, TypeOK, SyncTypeOK, LogTypeOK, Sync
<1>2. UNCHANGED <<tables, log, listed, aged>>
  BY DEF FetchPage
<1>3. \/ /\ Set(p, t)
         /\ items = {} \/ fetched >= n - o \/ Cardinality(items) < PageSize
      \/ Set(p, u) /\ s.page < MaxPages
  BY FetchedPage
<1>4. /\ items \subseteq DOMAIN l /\ seen \in SUBSET DOMAIN l /\ seen \in SUBSET Nat /\ DaysOf(a, seen) \in SUBSET Day
      /\ IsFiniteSet(items)
  <2>1. items \in SUBSET DOMAIN l
    BY <1>1, PagesOf DEF TypeOK
  <2> HIDE DEF items
  <2>2. DOMAIN l \in SUBSET Nat
    BY <1>1, LogFinite
  <2> QED
    BY <1>1, <2>1, <2>2, LogFinite DEF DaysOf
<1>5. fetched \in Nat
  <2> HIDE DEF items
  <2> QED
    BY <1>1, <1>4, FS_CardinalityType
<1> HIDE DEF items, fetched, seen, t, u
<1>6. /\ t \in Sync /\ t.at = "days" /\ t.account = a /\ t.seen = seen /\ t.todo = DaysOf(a, seen)
      /\ t.whole = s.whole /\ t.floor = s.floor /\ t.made = s.made
  BY <1>1, <1>4, ListedSync DEF t
<1>7. s.page < MaxPages =>
        /\ u \in Sync /\ u.at = "page" /\ u.account = a /\ u.page = s.page + 1 /\ u.fetched = fetched
        /\ u.seen = seen /\ u.whole = s.whole /\ u.floor = s.floor /\ u.made = s.made
  BY <1>1, <1>4, <1>5, PagedSync DEF u
<1>8. s.whole
  BY <1>1, <1>3, <1>6, <1>7, OthersStay
<1>9. Alone(p) /\ Going(s, l, o, n, a \in connected, daily[a])
  BY <1>8 DEF WholeSyncs, GoingOf
<1>10. s.floor <= n /\ s.made <= Len(l) /\ Paging(o, n, s)
  BY <1>1, <1>9 DEF Going
<1>11. /\ \A i \in o + 1 .. s.floor : i > n - ((s.page + 1) - 1) * PageSize => i \in seen
       /\ fetched <= ((s.page + 1) - 1) * PageSize
       /\ items = {} \/ fetched >= n - o \/ Cardinality(items) < PageSize => o + 1 .. s.floor \subseteq seen
  <2>1. s.page \in Nat \ {0} /\ s.fetched <= (s.page - 1) * PageSize
        /\ \A i \in o + 1 .. s.floor : i > n - (s.page - 1) * PageSize => i \in s.seen
    BY <1>1, <1>10 DEF Paging
  <2> QED
    BY <1>1, <1>10, <2>1, PageReaches DEF items, fetched, seen, PageNow
<1>12. CASE Set(p, u) /\ s.page < MaxPages
  <2>1. sync'[p] = u /\ Alone(p)'
    BY <1>1, <1>9, <1>12, OthersStay
  <2>2. Paging(o, n, u)
    BY <1>1, <1>7, <1>11, <1>12 DEF Paging
  <2>3. Going(u, l, o, n, a \in connected, daily[a])
    BY <1>7, <1>10, <1>12, <2>2 DEF Going
  <2> QED
    BY <1>2, <1>7, <1>12, <2>1, <2>3 DEF GoingOf, tables
<1>13. CASE Set(p, t) /\ (items = {} \/ fetched >= n - o \/ Cardinality(items) < PageSize)
  <2>1. sync'[p] = t /\ Alone(p)'
    BY <1>1, <1>9, <1>13, OthersStay
  <2>2. o + 1 .. s.floor \subseteq seen
    BY <1>11, <1>13
  <2>3. HasDays(l, o + 1 .. s.floor, daily[a], Day \ DaysOf(a, seen))
    <3> SUFFICES ASSUME NEW d \in Day, d \notin DaysOf(a, seen)
                 PROVE  AtMost(Worth(l, o + 1 .. s.floor, d), RowsOf(daily[a], d))
      BY DEF HasDays
    <3>1. KnownOf(l, o + 1 .. s.floor, d) = {}
      BY <2>2 DEF DaysOf, KnownOf
    <3>2. RowsOf(daily[a], d) \in Counters
      BY <1>1, RowsType DEF TypeOK, TablesTypeOK
    <3> QED
      BY <3>1, <3>2, NothingKnown, AtMostCounters
  <2>4. Going(t, l, o, n, a \in connected, daily[a])
    BY <1>6, <1>10, <2>2, <2>3 DEF Going
  <2> QED
    BY <1>2, <1>6, <2>1, <2>4 DEF GoingOf, tables
<1> QED
  BY <1>3, <1>12, <1>13

\* with a day,
LEMMA GoingFromDay ==
    ASSUME Held, WholeSyncs, NEW p \in Process, StoreDay(p), sync'[p].whole
    PROVE  Alone(p)' /\ GoingOf(sync[p])'
<1> DEFINE s == sync[p]
           a == s.account
           l == log[a]
           n == listed[a]
           o == aged[a]
           known == o + 1 .. s.floor
           d == Min(s.todo)
           R == OfDay(a, s.seen, d)
           rows == Readings(a, R)
           t == [s EXCEPT !.todo = @ \ {d}]
           f == [s EXCEPT !.todo = {}]
<1>1. /\ s \in Sync /\ s.at = "days" /\ a \in Account /\ TypeOK /\ s.seen \in SUBSET DOMAIN l
      /\ s.todo # {} /\ s.todo \in SUBSET Day /\ log \in [Account -> Seq(Key)] /\ n \in Nat /\ n <= Len(l)
      /\ s.floor \in Nat /\ o \in Nat
  BY DEF StoreDay, Held, TypeOK, SyncTypeOK, LogTypeOK, Sync
<1>2. UNCHANGED <<log, listed, aged>>
  BY DEF StoreDay
<1>3. (UpsertAbsoluteDailyUsage(a, d, rows) /\ Set(p, t)) \/ Set(p, Partial(f))
  BY DEF StoreDay
<1>4. d \in s.todo /\ d \in Day
  BY <1>1, SmallestDay
<1>5. R \in SUBSET DOMAIN l /\ \A i \in R : l[i][1] = d
  BY <1>1 DEF OfDay
<1>6. Total(Names, [m \in Names |-> Shown(rows[m])]) = Total(R, CostOf(a))
  BY <1>1, <1>4, <1>5, ReadingsOfDay
<1> HIDE DEF d
<1>7. /\ t \in Sync /\ t.at = "days" /\ t.account = a /\ t.seen = s.seen /\ t.todo = s.todo \ {d}
      /\ t.whole = s.whole /\ t.floor = s.floor /\ t.made = s.made
  BY <1>1 DEF Sync
<1>8. f \in Sync /\ Partial(f).whole = FALSE
  BY <1>1 DEF Sync, Partial
<1> HIDE DEF R, rows, t, f
<1>9. UpsertAbsoluteDailyUsage(a, d, rows) /\ sync'[p] = t /\ s.whole /\ (Alone(p) => Alone(p)')
  BY <1>1, <1>3, <1>7, <1>8, OthersStay
<1>10. Alone(p) /\ Going(s, l, o, n, a \in connected, daily[a])
  BY <1>9 DEF WholeSyncs, GoingOf
<1>11. s.floor <= n /\ s.made <= Len(l) /\ known \subseteq s.seen /\ known \in SUBSET DOMAIN l
  BY <1>1, <1>10 DEF Going
<1>12. a \in connected /\ a \in connected' /\ daily'[a] = Upserted(daily[a], d, rows)
  BY <1>1, <1>9 DEF Upserted, UpsertAbsoluteDailyUsage, TypeOK, TablesTypeOK
<1>13. HasDays(l, known, daily[a], Day \ s.todo)
  BY <1>1, <1>10, <1>12 DEF Going
<1>14. /\ RowsOf(daily'[a], d) = Total(R, CostOf(a))
       /\ \A e \in Day : e # d => RowsOf(daily'[a], e) = RowsOf(daily[a], e)
  <2>1. RowsOf(daily'[a], d) = Total(R, CostOf(a))
    BY <1>4, <1>6, <1>12, RowsUpserted
  <2>2. ASSUME NEW e \in Day, e # d
        PROVE  RowsOf(daily'[a], e) = RowsOf(daily[a], e)
    BY <1>4, <1>12, <2>2, RowsElsewhere
  <2> QED
    BY <2>1, <2>2
<1>15. HasDays(l, known, daily'[a], Day \ (s.todo \ {d}))
  <2> SUFFICES ASSUME NEW e \in Day, e \notin s.todo \ {d}
               PROVE  AtMost(Worth(l, known, e), RowsOf(daily'[a], e))
    BY DEF HasDays
  <2>1. CASE e = d
    <3>1. KnownOf(l, known, d) \subseteq R
      BY <1>11 DEF KnownOf, R, OfDay
    <3>2. AtMost(Worth(l, known, d), Total(R, CostOf(a)))
      BY <1>1, <1>5, <1>11, <3>1, WorthIn
    <3> QED
      BY <1>14, <2>1, <3>2
  <2>2. CASE e # d
    BY <1>13, <1>14, <2>2 DEF HasDays
  <2> QED
    BY <2>1, <2>2
<1>16. Going(t, l, o, n, a \in connected', daily'[a])
  BY <1>7, <1>11, <1>15 DEF Going
<1> QED
  BY <1>2, <1>7, <1>9, <1>10, <1>16 DEF GoingOf

\* after the last day,
LEMMA GoingFromDays ==
    ASSUME Held, WholeSyncs, NEW p \in Process, DaysDone(p), sync'[p].whole
    PROVE  Alone(p)' /\ GoingOf(sync[p])'
<1> DEFINE s == sync[p]
           a == s.account
           t == [s EXCEPT !.at = "panel", !.seen = {}]
<1>1. s \in Sync /\ s.at = "days" /\ s.todo = {} /\ TypeOK /\ Set(p, t) /\ UNCHANGED <<tables, log, listed, aged>>
  BY DEF DaysDone, Held, TypeOK, SyncTypeOK
<1>2. t.at = "panel" /\ t.account = a /\ t.whole = s.whole /\ t.floor = s.floor /\ t.made = s.made
  BY <1>1 DEF Sync
<1> HIDE DEF t
<1>3. sync'[p] = t /\ s.whole /\ (Alone(p) => Alone(p)')
  BY <1>1, <1>2, OthersStay
<1>4. Alone(p) /\ Going(s, log[a], aged[a], listed[a], a \in connected, daily[a])
  BY <1>3 DEF WholeSyncs, GoingOf
<1>5. Day \ s.todo = Day
  BY <1>1
<1>6. Going(t, log[a], aged[a], listed[a], a \in connected, daily[a])
  BY <1>1, <1>2, <1>4, <1>5 DEF Going
<1> QED
  BY <1>1, <1>2, <1>3, <1>4, <1>6 DEF GoingOf, tables

\* and with the day's totals.
LEMMA GoingFromPanel ==
    ASSUME Held, WholeSyncs, NEW p \in Process, FetchToday(p), sync'[p].whole
    PROVE  Alone(p)' /\ GoingOf(sync[p])'
<1> DEFINE s == sync[p]
           a == s.account
           l == log[a]
           R == OfDay(a, DOMAIN l, today)
           rows == Readings(a, R)
           t == [s EXCEPT !.at = "write", !.panel = [day |-> today, readings |-> rows]]
<1>1. /\ s \in Sync /\ s.at = "panel" /\ TypeOK /\ a \in Account /\ UNCHANGED <<tables, log, listed, aged>>
      /\ log \in [Account -> Seq(Key)] /\ today \in Day /\ s.made \in Nat
  BY DEF FetchToday, Held, TypeOK, SyncTypeOK, LogTypeOK, UseTypeOK, Sync
<1>2. Set(p, IdleSync) \/ Set(p, t)
  BY DEF FetchToday
<1>3. R \in SUBSET DOMAIN l /\ \A i \in R : l[i][1] = today
  BY DEF OfDay
<1>4. Total(Names, [m \in Names |-> Shown(rows[m])]) = Total(R, CostOf(a))
  BY <1>1, <1>3, ReadingsOfDay
<1> HIDE DEF R, rows
<1>5. /\ t.at = "write" /\ t.account = a /\ t.whole = s.whole /\ t.floor = s.floor /\ t.made = s.made
      /\ t.panel.day = today /\ t.panel.readings = rows
  BY <1>1 DEF Sync
<1>6. ~IdleSync.whole
  BY DEF IdleSync
<1> HIDE DEF t
<1>7. sync'[p] = t /\ s.whole /\ (Alone(p) => Alone(p)')
  BY <1>1, <1>2, <1>5, <1>6, OthersStay
<1>8. Alone(p) /\ Going(s, l, aged[a], listed[a], a \in connected, daily[a])
  BY <1>7 DEF WholeSyncs, GoingOf
<1>9. s.floor <= listed[a] /\ s.made <= Len(l) /\ (a \in connected => HasDays(l, aged[a] + 1 .. s.floor, daily[a], Day))
  BY <1>1, <1>8 DEF Going
<1>10. AtMost(Worth(l, 1 .. s.made, today), Total(R, CostOf(a)))
  <2>1. 1 .. s.made \in SUBSET DOMAIN l
    BY <1>1, <1>9, LogFinite
  <2>2. KnownOf(l, 1 .. s.made, today) \subseteq R
    BY <2>1 DEF KnownOf, R, OfDay
  <2> QED
    BY <1>1, <1>3, <2>1, <2>2, WorthIn
<1>11. Going(t, l, aged[a], listed[a], a \in connected, daily[a])
  BY <1>4, <1>5, <1>9, <1>10 DEF Going
<1> QED
  BY <1>1, <1>5, <1>7, <1>8, <1>11 DEF GoingOf, tables

\* Every step keeps the syncs that run alone as far as they have come,
LEMMA WholeSyncsStep ==
    ASSUME Held, WholeSyncs, [Next]_vars
    PROVE  WholeSyncs'
<1> SUFFICES ASSUME NEW p \in Process, sync'[p].whole
             PROVE  Alone(p)' /\ GoingOf(sync[p])'
  BY DEF WholeSyncs
<1>1. TypeOK /\ sync \in [Process -> Sync]
  BY DEF Held, TypeOK, SyncTypeOK
<1>2. CASE UNCHANGED sync
  <2>1. Alone(p) /\ GoingOf(sync[p])
    BY <1>2 DEF WholeSyncs
  <2>2. Alone(p)'
    BY <1>2, <2>1 DEF Alone
  <2> QED
    BY <1>2, <2>1, <2>2, GoingStays
<1>3. ASSUME NEW q \in Process,
             StartSync(q) \/ HistoryFails(q) \/ FetchPage(q) \/ StoreDay(q)
             \/ DaysDone(q) \/ FetchToday(q) \/ StoreToday(q),
             \A r \in Process \ {q} : sync'[r] = sync[r] \/ sync'[r] = Partial(sync[r])
      PROVE  Alone(p)' /\ GoingOf(sync[p])'
  <2>1. CASE p # q
    <3>1. sync'[p] = sync[p] /\ sync[p].whole
      BY <1>1, <1>3, <2>1, PartialType
    <3>2. Alone(p)
      BY <3>1 DEF WholeSyncs
    <3>3. sync[q].at = "idle"
      BY <2>1, <3>2 DEF Alone
    <3>4. StartSync(q)
      BY <1>3, <3>3 DEF HistoryFails, FetchPage, StoreDay, DaysDone, FetchToday, StoreToday
    <3>5. sync'[p] = Partial(sync[p])
      BY <2>1, <3>4 DEF StartSync
    <3> QED
      BY <1>1, <3>5, PartialType
  <2>2. CASE p = q /\ HistoryFails(p)
    <3>1. Set(p, Partial(Failed(sync[p])))
      BY <2>2 DEF HistoryFails, Failed
    <3>2. Partial(Failed(sync[p])).whole = FALSE
      BY <1>1, FailedSync, PartialType
    <3> QED
      BY <1>1, <3>1, <3>2, OthersStay
  <2>3. CASE p = q /\ StoreToday(p)
    <3>1. Set(p, IdleSync) /\ ~IdleSync.whole
      BY <2>3 DEF StoreToday, IdleSync
    <3> QED
      BY <1>1, <3>1, OthersStay
  <2> QED
    BY <1>3, <2>1, <2>2, <2>3, GoingFromStart, GoingFromPage, GoingFromDay, GoingFromDays, GoingFromPanel
<1> QED
  BY <1>1, <1>2, <1>3, SyncMove

\* there is none at the start,
LEMMA WholeSyncsAtFirst == Init => WholeSyncs
BY DEF Init, WholeSyncs, IdleSync

\* and so they always are.
LEMMA AlwaysWhole == Spec => [](Held /\ WholeSyncs)
<1>1. Init => Held /\ WholeSyncs
  BY HeldAtFirst, WholeSyncsAtFirst
<1>2. (Held /\ WholeSyncs) /\ [Next]_vars => (Held /\ WholeSyncs)'
  BY HeldStep, WholeSyncsStep
<1> QED
  BY <1>1, <1>2, PTL DEF Spec

\* What a sync that ends stores.
Completes(p) ==
    LET s == sync[p]
        known(d) == OfDay(s.account, IF d = s.panel.day THEN 1 .. s.made ELSE aged[s.account] + 1 .. s.floor, d)
        stored(k) == daily'[s.account][k] = s.panel.readings[k[2]]
    IN  /\ s.at = "write" /\ sync'[p].at = "idle" /\ s.whole
        /\ s.account \in connected /\ \A k \in Key : k[1] = s.panel.day => stored(k)
        =>
          \A a \in {s.account}, d \in Day :
             AtMost(Total(known(d), [i \in known(d) |-> Request(log[a][i][2])]), Stored(a, d)')

\* A sync that ends alone and without an error has stored what was listed.
LEMMA CompletesStep ==
    ASSUME Held, WholeSyncs, [Next]_vars, NEW p \in Process
    PROVE  Completes(p)
<1> DEFINE s == sync[p]
           a == s.account
           l == log[a]
           day == s.panel.day
           upto(d) == IF d = day THEN 1 .. s.made ELSE aged[a] + 1 .. s.floor
<1> SUFFICES ASSUME s.at = "write", sync'[p].at = "idle", s.whole, a \in connected,
                    \A k \in Key : k[1] = day => daily'[a][k] = s.panel.readings[k[2]],
                    NEW d \in Day
             PROVE  AtMost(Worth(l, upto(d), d), RowsOf(daily'[a], d))
  BY DEF Completes, Worth, KnownOf, OfDay, RowsOf, Stored
<1>1. TypeOK /\ sync \in [Process -> Sync] /\ s \in Sync
  BY DEF Held, TypeOK, SyncTypeOK
<1>2. Going(s, l, aged[a], listed[a], a \in connected, daily[a])
  BY DEF WholeSyncs, GoingOf
<1>3. /\ HasDays(l, aged[a] + 1 .. s.floor, daily[a], Day)
      /\ AtMost(Worth(l, 1 .. s.made, day), Total(Names, [m \in Names |-> Shown(s.panel.readings[m])]))
  BY <1>2 DEF Going
<1>4. StoreToday(p)
  <2>1. sync'[p] # sync[p]
    OBVIOUS
  <2>2. PICK q \in Process :
          /\ StartSync(q) \/ HistoryFails(q) \/ FetchPage(q) \/ StoreDay(q)
             \/ DaysDone(q) \/ FetchToday(q) \/ StoreToday(q)
          /\ \A r \in Process \ {q} : sync'[r] = sync[r] \/ sync'[r] = Partial(sync[r])
    BY <1>1, <2>1, SyncMove
  <2>3. Partial(s).at = "write"
    BY <1>1, PartialType
  <2>4. p = q
    BY <2>2, <2>3
  <2> QED
    BY <2>2, <2>4 DEF StartSync, HistoryFails, FetchPage, StoreDay, DaysDone, FetchToday
<1>5. a \in Account /\ day \in Day
  BY <1>1, <1>4 DEF StoreToday, Held, Syncing, SyncTypeOK, TypeOK, Panel
<1>6. CASE d = day
  <2>1. \A m \in Names : daily'[a][<<d, m>>] = s.panel.readings[m]
    <3>1. \A m \in Names : <<d, m>> \in Key /\ <<d, m>>[1] = d /\ <<d, m>>[2] = m
      BY DEF Key
    <3> QED
      BY <1>6, <3>1
  <2>2. [m \in Names |-> Shown(daily'[a][<<d, m>>])] = [m \in Names |-> Shown(s.panel.readings[m])]
    BY <2>1
  <2>3. RowsOf(daily'[a], d) = Total(Names, [m \in Names |-> Shown(s.panel.readings[m])])
    BY <2>2 DEF RowsOf
  <2> QED
    BY <1>3, <1>6, <2>3
<1>7. CASE d # day
  <2>1. UpsertAbsoluteDailyUsage(a, day, s.panel.readings) \/ UNCHANGED tables
    BY <1>4 DEF StoreToday
  <2>2. RowsOf(daily'[a], d) = RowsOf(daily[a], d)
    <3>1. CASE UNCHANGED tables
      BY <3>1 DEF tables
    <3>2. CASE UpsertAbsoluteDailyUsage(a, day, s.panel.readings)
      <4>1. daily'[a] = Upserted(daily[a], day, s.panel.readings)
        BY <1>1, <1>5, <3>2 DEF UpsertAbsoluteDailyUsage, Upserted, TypeOK, TablesTypeOK
      <4> QED
        BY <1>5, <1>7, <4>1, RowsElsewhere
    <3> QED
      BY <2>1, <3>1, <3>2
  <2> QED
    BY <1>3, <1>7, <2>2 DEF HasDays
<1> QED
  BY <1>6, <1>7

\* A sync that ends without an error, and that no other one ran beside, has
\* stored every request that was listed when it began and still is
\* (syncTokenRhythmUsageSnapshots, FetchUsageHistory).
THEOREM UsageSyncIsComplete == Spec => SyncIsComplete
<1>1. (Held /\ WholeSyncs) /\ [Next]_vars => \A p \in Process : Completes(p)
  BY CompletesStep
<1>2. (Held /\ WholeSyncs) /\ [Next]_vars =>
        [\A p \in Process :
         LET s == sync[p]
             known(d) == OfDay(s.account, IF d = s.panel.day THEN 1 .. s.made
                                          ELSE aged[s.account] + 1 .. s.floor, d)
             stored(k) == daily'[s.account][k] = s.panel.readings[k[2]]
         IN  /\ s.at = "write" /\ sync'[p].at = "idle" /\ s.whole
             /\ s.account \in connected /\ \A k \in Key : k[1] = s.panel.day => stored(k)
             =>
               \A a \in {s.account}, d \in Day :
                  AtMost(Total(known(d), [i \in known(d) |-> Request(log[a][i][2])]), Stored(a, d)')]_vars
  BY <1>1 DEF Completes
<1> QED
  BY <1>2, AlwaysWhole, PTL DEF Spec, SyncIsComplete
=============================================================================
