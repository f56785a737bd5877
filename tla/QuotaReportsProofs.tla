-------------------------- MODULE QuotaReportsProofs --------------------------
(***************************************************************************)
(* For any accounts, any savings and whatever the providers answer: what   *)
(* the windows and the cards of the accounts may show.                     *)
(*                                                                         *)
(* First what a loop over a list computes, by induction (a recursive       *)
(* function over finite sets exists); then the windows of each provider's  *)
(* readings; then the steps of QuotaReports; last the sums of credits.     *)
(***************************************************************************)
EXTENDS QuotaReports, FiniteSetTheorems, WellFoundedInduction, TLAPS

-----------------------------------------------------------------------------
(* Induction, and functions by recursion.                                  *)

\* Every set of numbers has a least one ...
LEMMA NatLeast ==
    ASSUME NEW T \in SUBSET Nat, T # {}
    PROVE  \E m \in T : \A n \in T : m <= n
<1> DEFINE R == {ss \in Nat \X Nat : ss[1] < ss[2]}
<1>1. IsWellFoundedOn(R, Nat)
  BY NatLessThanWellFounded DEF OpToRel
<1>2. PICK m \in T : \A n \in T : ~(<<n, m>> \in R)
  BY <1>1, WFMin
<1>3. \A i, j \in Nat : i < j => <<i, j>> \in R
  OBVIOUS
<1> HIDE DEF R
<1>4. ASSUME NEW n \in T
      PROVE  m <= n
  <2>1. m \in Nat /\ n \in Nat /\ ~(n < m)
    BY <1>2, <1>3, <1>4
  <2> QED
    BY <2>1
<1> QED
  BY <1>4

\* ... so a set of finite sets has a smallest one.
LEMMA SmallestSet ==
    ASSUME NEW B, B # {}, \A T \in B : IsFiniteSet(T)
    PROVE  \E T \in B : \A V \in B : Cardinality(T) <= Cardinality(V)
<1> DEFINE sizes == {Cardinality(T) : T \in B}
<1>1. sizes \in SUBSET Nat /\ sizes # {}
  BY FS_CardinalityType
<1>2. PICK n \in sizes : \A m \in sizes : n <= m
  BY <1>1, NatLeast
<1> QED
  BY <1>2

\* What holds of no element, and of one more with every set, holds of the whole.
LEMMA SetInduction ==
    ASSUME NEW S, IsFiniteSet(S), NEW G, {} \in G,
           \A T \in SUBSET S : \A x \in S \ T : T \in G => T \union {x} \in G
    PROVE  S \in G
<1> SUFFICES ASSUME S \notin G
             PROVE  FALSE
  OBVIOUS
<1> DEFINE B == {T \in SUBSET S : T \notin G}
<1>1. B # {} /\ \A T \in B : IsFiniteSet(T)
  BY FS_Subset
<1> HIDE DEF B
<1>2. PICK T \in B : \A V \in B : Cardinality(T) <= Cardinality(V)
  BY <1>1, SmallestSet
<1>3. T \in SUBSET S /\ T \notin G /\ T # {} /\ IsFiniteSet(T)
  BY <1>1, <1>2 DEF B
<1>4. PICK x \in T : TRUE
  BY <1>3
<1>5. Cardinality(T \ {x}) = Cardinality(T) - 1 /\ Cardinality(T) \in Nat
  BY <1>3, <1>4, FS_RemoveElement, FS_CardinalityType
<1>6. T \ {x} \in G
  BY <1>2, <1>3, <1>5 DEF B
<1>7. T \ {x} \in SUBSET S /\ x \in S \ (T \ {x}) /\ (T \ {x}) \union {x} = T
  BY <1>3, <1>4
<1> QED
  BY <1>3, <1>6, <1>7

\* A function that is computed for a set from its value for one element less.
Folds(S, base, pick, step, g) ==
    g = [s \in SUBSET S |-> IF s = {} THEN base ELSE step[<<s, g[s \ {pick[s]}]>>]]

\* The recursive function behind a fold over a finite set exists, and has
\* the type of its steps.
LEMMA FoldsExist ==
    ASSUME NEW S, IsFiniteSet(S), NEW V, NEW base \in V,
           NEW pick, \A s \in SUBSET S : s # {} => pick[s] \in s,
           NEW step, \A s \in SUBSET S, v \in V : step[<<s, v>>] \in V
    PROVE  \E g : Folds(S, base, pick, step, g) /\ \A s \in SUBSET S : g[s] \in V
<1> DEFINE Value(g, s) == IF s = {} THEN base ELSE step[<<s, g[s \ {pick[s]}]>>]
           Small(n) == {s \in SUBSET S : Cardinality(s) <= n}
           G == {n \in Nat : \E g : /\ g = [s \in Small(n) |-> Value(g, s)]
                                    /\ \A s \in Small(n) : g[s] \in V}
<1>0. \A s \in SUBSET S : /\ IsFiniteSet(s) /\ Cardinality(s) \in Nat
                          /\ Cardinality(s) <= Cardinality(S)
                          /\ s # {} => Cardinality(s \ {pick[s]}) = Cardinality(s) - 1
  BY FS_Subset, FS_CardinalityType, FS_RemoveElement
<1>1. 0 \in G
  <2>1. ASSUME NEW s \in Small(0)
        PROVE  s = {}
    <3>1. s \in SUBSET S /\ Cardinality(s) <= 0
      OBVIOUS
    <3>2. IsFiniteSet(s) /\ Cardinality(s) \in Nat
      BY <1>0, <3>1
    <3>3. Cardinality(s) = 0
      BY <3>1, <3>2
    <3> QED
      BY <3>2, <3>3, FS_EmptySet
  <2> DEFINE g == [s \in Small(0) |-> base]
  <2>2. g = [s \in Small(0) |-> Value(g, s)] /\ \A s \in Small(0) : g[s] \in V
    BY <2>1
  <2> HIDE DEF g
  <2> QED
    BY <2>2
<1>2. ASSUME NEW n \in Nat, n \in G
      PROVE  n + 1 \in G
  <2>1. PICK g : g = [s \in Small(n) |-> Value(g, s)] /\ \A s \in Small(n) : g[s] \in V
    BY <1>2
  <2> DEFINE h == [s \in Small(n + 1) |-> Value(g, s)]
  <2>2. ASSUME NEW s \in Small(n)
        PROVE  s \in Small(n + 1) /\ h[s] = g[s]
    <3>0. s \in SUBSET S /\ Cardinality(s) <= n
      OBVIOUS
    <3>9. Cardinality(s) \in Nat
      BY <1>0, <3>0
    <3>1. s \in Small(n + 1)
      BY <3>0, <3>9
    <3>2. h[s] = Value(g, s)
      BY <3>1
    <3>3. g[s] = Value(g, s)
      BY <2>1, Zenon
    <3> QED
      BY <3>1, <3>2, <3>3
  <2>3. ASSUME NEW s \in Small(n + 1), s # {}
        PROVE  s \ {pick[s]} \in Small(n)
    <3>1. s \in SUBSET S /\ Cardinality(s) <= n + 1
      OBVIOUS
    <3>2. Cardinality(s) \in Nat /\ Cardinality(s \ {pick[s]}) = Cardinality(s) - 1
      BY <1>0, <2>3, <3>1
    <3> QED
      BY <3>1, <3>2
  <2>4. ASSUME NEW s \in Small(n + 1)
        PROVE  Value(g, s) \in V
    BY <2>1, <2>3
  <2> HIDE DEF Small
  <2>5. \A s \in Small(n + 1) : Value(g, s) = Value(h, s)
    BY <2>2, <2>3
  <2>6. h = [s \in Small(n + 1) |-> Value(h, s)]
    BY <2>5
  <2>7. \A s \in Small(n + 1) : h[s] \in V
    BY <2>4
  <2> HIDE DEF h, Value
  <2> QED
    BY <2>6, <2>7
<1> HIDE DEF G
<1>3. \A n \in Nat : n \in G
  <2> SUFFICES ASSUME Nat \ G # {}
               PROVE  FALSE
    OBVIOUS
  <2>1. PICK m \in Nat \ G : \A n \in Nat \ G : m <= n
    BY NatLeast
  <2>2. m # 0 /\ m - 1 \in Nat /\ m - 1 + 1 = m
    BY <1>1, <2>1
  <2>3. m - 1 \in G
    BY <2>1, <2>2
  <2> QED
    BY <1>2, <2>1, <2>2, <2>3
<1>4. Cardinality(S) \in G
  BY <1>3, FS_CardinalityType
<1>5. Small(Cardinality(S)) = SUBSET S
  BY <1>0
<1> QED
  BY <1>4, <1>5 DEF G, Folds

-----------------------------------------------------------------------------
(* Loops.                                                                  *)

\* What holds before the first round, and after a round if it held before,
\* holds after each of n rounds.
Carried(n, G) == 0 \in G /\ \A i \in 1 .. n : i - 1 \in G => i \in G

LEMMA Rounds ==
    ASSUME NEW n \in Nat, NEW G, Carried(n, G)
    PROVE  n \in G /\ \A i \in 0 .. n : i \in G
<1> USE DEF Carried
<1> SUFFICES ASSUME (0 .. n) \ G # {}
             PROVE  FALSE
  OBVIOUS
<1>1. PICK m \in (0 .. n) \ G : \A i \in (0 .. n) \ G : m <= i
  <2>1. (0 .. n) \ G \in SUBSET Nat
    OBVIOUS
  <2> QED
    BY <2>1, NatLeast
<1>2. m \in 1 .. n /\ m - 1 \in 0 .. n
  BY <1>1
<1>3. m - 1 \in G
  BY <1>1, <1>2
<1> QED
  BY <1>1, <1>2, <1>3

\* The greatest of some numbers up to n.
LEMMA MaxUpTo ==
    ASSUME NEW n \in Nat, NEW T \in SUBSET (1 .. n), T # {}
    PROVE  Max(T) \in T /\ \A i \in T : i <= Max(T)
<1> DEFINE rest == {n - i : i \in T}
<1>1. rest \in SUBSET Nat /\ rest # {}
  <2>1. \A i \in T : n - i \in Nat
    OBVIOUS
  <2>2. PICK i \in T : TRUE
    OBVIOUS
  <2>3. n - i \in rest
    OBVIOUS
  <2> QED
    BY <2>1, <2>3
<1>2. PICK m \in rest : \A k \in rest : m <= k
  BY <1>1, NatLeast
<1>3. PICK j \in T : m = n - j
  BY <1>2
<1>4. ASSUME NEW i \in T
      PROVE  j >= i
  <2>1. n - j <= n - i
    BY <1>2, <1>3
  <2> QED
    BY <2>1
<1>5. Max(T) \in T /\ \A i \in T : Max(T) >= i
  BY <1>4 DEF Max
<1> QED
  BY <1>5

LEMMA MaxOfInterval ==
    ASSUME NEW i \in Nat \ {0}
    PROVE  Max(1 .. i) = i /\ (1 .. i) \ {i} = 1 .. (i - 1)
<1>1. Max(1 .. i) \in 1 .. i /\ \A j \in 1 .. i : j <= Max(1 .. i)
  <2>1. 1 .. i \in SUBSET (1 .. i) /\ 1 .. i # {}
    OBVIOUS
  <2> QED
    BY <2>1, MaxUpTo
<1> QED
  BY <1>1

\* Round i computes a value from the value before.
Rounded(n, V, step) == \A i \in 1 .. n, v \in V : step[<<i, v>>] \in V
\* The value of no round, and of the rounds in a set, by the last of them.
Behind(n, base, step, g) ==
    g = [T \in SUBSET (1 .. n) |-> IF T = {} THEN base ELSE step[<<Max(T), g[T \ {Max(T)}]>>]]
Valued(n, V, g) == \A T \in SUBSET (1 .. n) : g[T] \in V
BehindIn(n, V, base, step, f) ==
    /\ f[{}] = base
    /\ \A T \in SUBSET (1 .. n) : T # {} /\ f[T \ {Max(T)}] \in V => f[T] = step[<<Max(T), f[T \ {Max(T)}]>>]
\* The values after each of n rounds.
Runs(n, V, base, step, h) ==
    h \in [0 .. n -> V] /\ h[0] = base /\ \A i \in 1 .. n : h[i] = step[<<i, h[i - 1]>>]

\* The function behind FoldLeft, from a set of rounds to what those compute,
\* exists when each round i computes a value from the value before ...
LEMMA LoopExists ==
    ASSUME NEW n \in Nat, NEW V, NEW base \in V,
           NEW step, Rounded(n, V, step)
    PROVE  \E g : Behind(n, base, step, g) /\ Valued(n, V, g)
<1> USE DEF Rounded
<1> DEFINE latest == [T \in SUBSET (1 .. n) |-> Max(T)]
           round == [q \in (SUBSET (1 .. n)) \X V |-> IF q[1] = {} THEN base ELSE step[<<Max(q[1]), q[2]>>]]
<1>1. IsFiniteSet(1 .. n)
  BY FS_Interval
<1>2. \A T \in SUBSET (1 .. n) : latest[T] = Max(T) /\ (T # {} => Max(T) \in T)
  BY MaxUpTo
<1>3. ASSUME NEW T \in SUBSET (1 .. n), NEW v \in V
      PROVE  round[<<T, v>>] = (IF T = {} THEN base ELSE step[<<Max(T), v>>]) /\ round[<<T, v>>] \in V
  <2>1. <<T, v>> \in (SUBSET (1 .. n)) \X V
    OBVIOUS
  <2>2. round[<<T, v>>] = IF T = {} THEN base ELSE step[<<Max(T), v>>]
    BY <2>1
  <2>3. T # {} => Max(T) \in 1 .. n
    BY <1>2
  <2> HIDE DEF round
  <2> QED
    BY <2>2, <2>3
<1> HIDE DEF latest, round
<1>4. PICK g : Folds(1 .. n, base, latest, round, g) /\ \A T \in SUBSET (1 .. n) : g[T] \in V
  <2>1. \A T \in SUBSET (1 .. n) : T # {} => latest[T] \in T
    BY <1>2
  <2>2. \A T \in SUBSET (1 .. n), v \in V : round[<<T, v>>] \in V
    BY <1>3
  <2> QED
    BY <1>1, <2>1, <2>2, FoldsExist
<1>5. ASSUME NEW T \in SUBSET (1 .. n)
      PROVE  (IF T = {} THEN base ELSE round[<<T, g[T \ {latest[T]}]>>])
               = IF T = {} THEN base ELSE step[<<Max(T), g[T \ {Max(T)}]>>]
  <2>1. latest[T] = Max(T) /\ g[T \ {Max(T)}] \in V
    BY <1>2, <1>4
  <2> QED
    BY <1>3, <2>1
<1>6. g = [T \in SUBSET (1 .. n) |-> IF T = {} THEN base ELSE step[<<Max(T), g[T \ {Max(T)}]>>]]
  BY <1>4, <1>5, Zenon DEF Folds
<1> QED
  BY <1>4, <1>6 DEF Behind, Valued

\* ... and of the rounds from the first to the last it is what they compute
\* one after the other.
LEMMA LoopRuns ==
    ASSUME NEW n \in Nat, NEW V, NEW base \in V,
           NEW step, Rounded(n, V, step), NEW f, BehindIn(n, V, base, step, f)
    PROVE  \E h : Runs(n, V, base, step, h) /\ f[1 .. n] = h[n]
<1> USE DEF Rounded, BehindIn
<1> DEFINE h == [i \in 0 .. n |-> f[1 .. i]]
           G == {i \in 0 .. n : h[i] \in V /\ (i # 0 => h[i] = step[<<i, h[i - 1]>>])}
<1>1. h[0] = base
  <2>1. 1 .. 0 = {}
    OBVIOUS
  <2> QED
    BY <2>1
<1>2. ASSUME NEW i \in 1 .. n, i - 1 \in G
      PROVE  i \in G
  <2>1. Max(1 .. i) = i /\ (1 .. i) \ {i} = 1 .. (i - 1) /\ 1 .. i # {} /\ 1 .. i \in SUBSET (1 .. n)
    BY MaxOfInterval
  <2>2. h[i] = f[1 .. i] /\ h[i - 1] = f[1 .. (i - 1)] /\ h[i - 1] \in V
    BY <1>2
  <2>3. f[1 .. i] = step[<<i, f[1 .. (i - 1)]>>]
    BY <2>1, <2>2
  <2> HIDE DEF h
  <2> QED
    BY <2>2, <2>3
<1>3. 0 \in G
  BY <1>1
<1> HIDE DEF G
<1>4. \A i \in 0 .. n : i \in G
  <2>1. Carried(n, G)
    BY <1>2, <1>3 DEF Carried
  <2> QED
    BY <2>1, Rounds
<1>5. h \in [0 .. n -> V]
  <2>1. \A i \in 0 .. n : h[i] \in V
    BY <1>4 DEF G
  <2>2. h = [i \in 0 .. n |-> h[i]]
    OBVIOUS
  <2> HIDE DEF h
  <2> QED
    BY <2>1, <2>2
<1>6. f[1 .. n] = h[n]
  OBVIOUS
<1>7. \A i \in 1 .. n : i \in 0 .. n /\ i # 0
  OBVIOUS
<1> HIDE DEF h
<1>8. \A i \in 1 .. n : h[i] = step[<<i, h[i - 1]>>]
  BY <1>4, <1>7 DEF G
<1> QED
  BY <1>1, <1>5, <1>6, <1>8 DEF Runs

\* Windows as they are built have their type, and a share its status.
LEMMA ShareWindow ==
    ASSUME NEW label \in Label, NEW left \in Int, NEW of \in Nat
    PROVE  /\ Share(label, left, of) \in Window
           /\ Share(label, left, of).left = left /\ Share(label, left, of).of = of
           /\ Share(label, left, of).status = QuotaStatus(left, of)
  BY DEF Share, Window, QuotaStatus, Status

LEMMA UsedWindow ==
    ASSUME NEW label \in Label, NEW used \in Int
    PROVE  /\ Used(label, used) \in Window /\ Used(label, OrZero(used)) \in Window
           /\ OrZero(used) \in Int
  BY ShareWindow DEF Used, Clamp, AtLeastZero, OrZero, Missing

LEMMA PlaceStep ==
    ASSUME NEW placed \in Seq(Window), NEW w, w.used \in Int
    PROVE  /\ Place(placed, w) \in Seq(Window)
           /\ \/ Place(placed, w) = placed /\ Len(placed) > 1
              \/ \E label \in {"5h", "week"} : Place(placed, w) = Append(placed, Used(label, OrZero(w.used)))
<1> DEFINE free(label) == \A i \in DOMAIN placed : placed[i].label # label
<1>1. Used("5h", OrZero(w.used)) \in Window /\ Used("week", OrZero(w.used)) \in Window
  <2>1. "5h" \in Label /\ "week" \in Label
    BY DEF Label
  <2> QED
    BY <2>1, UsedWindow, Zenon
<1>2. ~free("5h") /\ ~free("week") => Len(placed) > 1
  <2> SUFFICES ASSUME NEW i \in DOMAIN placed, placed[i].label = "5h",
                      NEW j \in DOMAIN placed, placed[j].label = "week"
               PROVE  Len(placed) > 1
    OBVIOUS
  <2>1. i # j /\ i \in 1 .. Len(placed) /\ j \in 1 .. Len(placed) /\ Len(placed) \in Nat
    OBVIOUS
  <2> QED
    BY <2>1
<1> HIDE DEF free
<1>3. Place(placed, w) = IF free("5h") THEN Append(placed, Used("5h", OrZero(w.used)))
                          ELSE IF free("week") THEN Append(placed, Used("week", OrZero(w.used))) ELSE placed
  BY DEF Place, free
<1> QED
  BY <1>1, <1>2, <1>3

\* The loops of the model: what is not skipped ...
ThoseRuns(E, s, S, h) ==
    /\ h \in [0 .. Len(s) -> Seq(E)]
    /\ h[0] = <<>>
    /\ \A i \in 1 .. Len(s) : h[i] = IF s[i] \in S THEN Append(h[i - 1], s[i]) ELSE h[i - 1]

LEMMA ThoseLoop ==
    ASSUME NEW E, NEW s \in Seq(E), NEW S
    PROVE  \E h : ThoseRuns(E, s, S, h) /\ Those(s, S) = h[Len(s)]
<1> DEFINE n == Len(s)
           V == Seq(E)
           Value(g, T) == IF T = {} THEN <<>> ELSE IF s[Max(T)] \in S THEN Append(g[T \ {Max(T)}], s[Max(T)]) ELSE g[T \ {Max(T)}]
           Good(g) == g = [T \in SUBSET (1 .. n) |-> Value(g, T)]
           step == [q \in (1 .. n) \X V |-> IF s[q[1]] \in S THEN Append(q[2], s[q[1]]) ELSE q[2]]
<1>1. n \in Nat /\ DOMAIN s = 1 .. n /\ <<>> \in V
  OBVIOUS
<1>2. Those(s, S) = (CHOOSE f : Good(f))[1 .. n]
  BY <1>1 DEF Those, FoldLeft, MapThenFoldSet
<1>3. ASSUME NEW i \in 1 .. n, NEW v \in V
      PROVE  step[<<i, v>>] = (IF s[i] \in S THEN Append(v, s[i]) ELSE v) /\ step[<<i, v>>] \in V
  <2>1. step[<<i, v>>] = IF s[i] \in S THEN Append(v, s[i]) ELSE v
    OBVIOUS
  <2>2. s[i] \in E
    OBVIOUS
  <2> HIDE DEF step
  <2> QED
    BY <2>1, <2>2
<1> HIDE DEF n, V, step
<1>4. Rounded(n, V, step)
  BY <1>3 DEF Rounded
<1>5. PICK g : Behind(n, <<>>, step, g) /\ Valued(n, V, g)
  BY <1>1, <1>4, LoopExists
<1>6. \A T \in SUBSET (1 .. n) : T # {} => Max(T) \in 1 .. n
  BY <1>1, MaxUpTo
<1>7. Good(g)
  <2>1. ASSUME NEW T \in SUBSET (1 .. n)
        PROVE  (IF T = {} THEN <<>> ELSE step[<<Max(T), g[T \ {Max(T)}]>>]) = Value(g, T)
    BY <1>3, <1>5, <1>6 DEF Valued
  <2> HIDE DEF Value
  <2> QED
    BY <1>5, <2>1, Zenon DEF Behind
<1> DEFINE f == CHOOSE f : Good(f)
<1>8. \A T \in SUBSET (1 .. n) : f[T] = Value(f, T)
  <2>1. Good(f)
    BY <1>7
  <2> HIDE DEF f, Value
  <2> QED
    BY <2>1
<1>9. Those(s, S) = f[1 .. n]
  BY <1>2
<1> HIDE DEF f
<1>10. f[{}] = <<>>
  BY <1>8
<1>11. BehindIn(n, V, <<>>, step, f)
  BY <1>3, <1>6, <1>8, <1>10 DEF BehindIn
<1>12. PICK h : Runs(n, V, <<>>, step, h) /\ f[1 .. n] = h[n]
  BY <1>1, <1>4, <1>11, LoopRuns
<1>13. \A i \in 1 .. n : h[i] = IF s[i] \in S THEN Append(h[i - 1], s[i]) ELSE h[i - 1]
  <2>1. \A i \in 1 .. n : h[i - 1] \in V
    BY <1>1, <1>12 DEF Runs
  <2> QED
    BY <1>3, <1>12, <2>1 DEF Runs
<1> QED
  BY <1>9, <1>12, <1>13 DEF n, V, Runs, ThoseRuns

\* ... the status of an account ...
LEMMA StatusLoop ==
    ASSUME NEW list \in Seq(Window)
    PROVE  \E h \in [0 .. Len(list) -> Status] :
               /\ h[0] = "healthy"
               /\ \A i \in 1 .. Len(list) : h[i] = NextStatus(h[i - 1], list[i])
               /\ AccountStatus(list) = h[Len(list)]
<1> DEFINE n == Len(list)
           V == Status
           Value(g, T) == IF T = {} THEN "healthy" ELSE NextStatus(g[T \ {Max(T)}], list[Max(T)])
           Good(g) == g = [T \in SUBSET (1 .. n) |-> Value(g, T)]
           step == [q \in (1 .. n) \X V |-> NextStatus(q[2], list[q[1]])]
<1>1. n \in Nat /\ DOMAIN list = 1 .. n /\ "healthy" \in V
  BY DEF Status
<1>2. AccountStatus(list) = (CHOOSE f : Good(f))[1 .. n]
  BY <1>1 DEF AccountStatus, FoldLeft, MapThenFoldSet
<1>3. ASSUME NEW i \in 1 .. n, NEW v \in V
      PROVE  step[<<i, v>>] = (NextStatus(v, list[i])) /\ step[<<i, v>>] \in V
  <2>1. step[<<i, v>>] = NextStatus(v, list[i])
    OBVIOUS
  <2>2. list[i] \in Window
    OBVIOUS
  <2> HIDE DEF step
  <2> QED
    BY <2>1, <2>2 DEF NextStatus, Status
<1> HIDE DEF n, V, step
<1>4. Rounded(n, V, step)
  BY <1>3 DEF Rounded
<1>5. PICK g : Behind(n, "healthy", step, g) /\ Valued(n, V, g)
  BY <1>1, <1>4, LoopExists
<1>6. \A T \in SUBSET (1 .. n) : T # {} => Max(T) \in 1 .. n
  BY <1>1, MaxUpTo
<1>7. Good(g)
  <2>1. ASSUME NEW T \in SUBSET (1 .. n)
        PROVE  (IF T = {} THEN "healthy" ELSE step[<<Max(T), g[T \ {Max(T)}]>>]) = Value(g, T)
    BY <1>3, <1>5, <1>6 DEF Valued
  <2> HIDE DEF Value
  <2> QED
    BY <1>5, <2>1, Zenon DEF Behind
<1> DEFINE f == CHOOSE f : Good(f)
<1>8. \A T \in SUBSET (1 .. n) : f[T] = Value(f, T)
  <2>1. Good(f)
    BY <1>7
  <2> HIDE DEF f, Value
  <2> QED
    BY <2>1
<1>9. AccountStatus(list) = f[1 .. n]
  BY <1>2
<1> HIDE DEF f
<1>10. f[{}] = "healthy"
  BY <1>8
<1>11. BehindIn(n, V, "healthy", step, f)
  BY <1>3, <1>6, <1>8, <1>10 DEF BehindIn
<1>12. PICK h : Runs(n, V, "healthy", step, h) /\ f[1 .. n] = h[n]
  BY <1>1, <1>4, <1>11, LoopRuns
<1>13. \A i \in 1 .. n : h[i] = NextStatus(h[i - 1], list[i])
  <2>1. \A i \in 1 .. n : h[i - 1] \in V
    BY <1>1, <1>12 DEF Runs
  <2> QED
    BY <1>3, <1>12, <2>1 DEF Runs
<1> QED
  BY <1>9, <1>12, <1>13 DEF n, V, Runs

\* ... the labels of a coding plan ...
LEMMA PlaceLoop ==
    ASSUME NEW base \in Seq(Window), NEW E, NEW s \in Seq(E), \A w \in E : w.used \in Int
    PROVE  \E h \in [0 .. Len(s) -> Seq(Window)] :
               /\ h[0] = base
               /\ \A i \in 1 .. Len(s) : h[i] = Place(h[i - 1], s[i])
               /\ FoldLeft(Place, base, s) = h[Len(s)]
<1> DEFINE n == Len(s)
           V == Seq(Window)
           Value(g, T) == IF T = {} THEN base ELSE Place(g[T \ {Max(T)}], s[Max(T)])
           Good(g) == g = [T \in SUBSET (1 .. n) |-> Value(g, T)]
           step == [q \in (1 .. n) \X V |-> Place(q[2], s[q[1]])]
<1>1. n \in Nat /\ DOMAIN s = 1 .. n /\ base \in V
  OBVIOUS
<1>2. FoldLeft(Place, base, s) = (CHOOSE f : Good(f))[1 .. n]
  BY <1>1 DEF FoldLeft, MapThenFoldSet
<1>3. ASSUME NEW i \in 1 .. n, NEW v \in V
      PROVE  step[<<i, v>>] = (Place(v, s[i])) /\ step[<<i, v>>] \in V
  <2>1. step[<<i, v>>] = Place(v, s[i])
    OBVIOUS
  <2>2. s[i] \in E
    OBVIOUS
  <2> HIDE DEF step
  <2> QED
    BY <2>1, <2>2, PlaceStep
<1> HIDE DEF n, V, step
<1>4. Rounded(n, V, step)
  BY <1>3 DEF Rounded
<1>5. PICK g : Behind(n, base, step, g) /\ Valued(n, V, g)
  BY <1>1, <1>4, LoopExists
<1>6. \A T \in SUBSET (1 .. n) : T # {} => Max(T) \in 1 .. n
  BY <1>1, MaxUpTo
<1>7. Good(g)
  <2>1. ASSUME NEW T \in SUBSET (1 .. n)
        PROVE  (IF T = {} THEN base ELSE step[<<Max(T), g[T \ {Max(T)}]>>]) = Value(g, T)
    BY <1>3, <1>5, <1>6 DEF Valued
  <2> HIDE DEF Value
  <2> QED
    BY <1>5, <2>1, Zenon DEF Behind
<1> DEFINE f == CHOOSE f : Good(f)
<1>8. \A T \in SUBSET (1 .. n) : f[T] = Value(f, T)
  <2>1. Good(f)
    BY <1>7
  <2> HIDE DEF f, Value
  <2> QED
    BY <2>1
<1>9. FoldLeft(Place, base, s) = f[1 .. n]
  BY <1>2
<1> HIDE DEF f
<1>10. f[{}] = base
  BY <1>8
<1>11. BehindIn(n, V, base, step, f)
  BY <1>3, <1>6, <1>8, <1>10 DEF BehindIn
<1>12. PICK h : Runs(n, V, base, step, h) /\ f[1 .. n] = h[n]
  BY <1>1, <1>4, <1>11, LoopRuns
<1>13. \A i \in 1 .. n : h[i] = Place(h[i - 1], s[i])
  <2>1. \A i \in 1 .. n : h[i - 1] \in V
    BY <1>1, <1>12 DEF Runs
  <2> QED
    BY <1>3, <1>12, <2>1 DEF Runs
<1> QED
  BY <1>9, <1>12, <1>13 DEF n, V, Runs

\* ... packages without their doubles ...
LEMMA DedupeLoop ==
    ASSUME NEW E, NEW s \in Seq(E)
    PROVE  \E h \in [0 .. Len(s) -> Seq(E)] :
               /\ h[0] = <<>>
               /\ \A i \in 1 .. Len(s) : h[i] = IF s[i] \in Range(h[i - 1]) THEN h[i - 1] ELSE Append(h[i - 1], s[i])
               /\ DedupeResources(s) = h[Len(s)]
<1> DEFINE n == Len(s)
           V == Seq(E)
           Value(g, T) == IF T = {} THEN <<>> ELSE IF s[Max(T)] \in Range(g[T \ {Max(T)}]) THEN g[T \ {Max(T)}] ELSE Append(g[T \ {Max(T)}], s[Max(T)])
           Good(g) == g = [T \in SUBSET (1 .. n) |-> Value(g, T)]
           step == [q \in (1 .. n) \X V |-> IF s[q[1]] \in Range(q[2]) THEN q[2] ELSE Append(q[2], s[q[1]])]
<1>1. n \in Nat /\ DOMAIN s = 1 .. n /\ <<>> \in V
  OBVIOUS
<1>2. DedupeResources(s) = (CHOOSE f : Good(f))[1 .. n]
  BY <1>1 DEF DedupeResources, FoldLeft, MapThenFoldSet
<1>3. ASSUME NEW i \in 1 .. n, NEW v \in V
      PROVE  step[<<i, v>>] = (IF s[i] \in Range(v) THEN v ELSE Append(v, s[i])) /\ step[<<i, v>>] \in V
  <2>1. step[<<i, v>>] = IF s[i] \in Range(v) THEN v ELSE Append(v, s[i])
    OBVIOUS
  <2>2. s[i] \in E
    OBVIOUS
  <2> HIDE DEF step
  <2> QED
    BY <2>1, <2>2
<1> HIDE DEF n, V, step
<1>4. Rounded(n, V, step)
  BY <1>3 DEF Rounded
<1>5. PICK g : Behind(n, <<>>, step, g) /\ Valued(n, V, g)
  BY <1>1, <1>4, LoopExists
<1>6. \A T \in SUBSET (1 .. n) : T # {} => Max(T) \in 1 .. n
  BY <1>1, MaxUpTo
<1>7. Good(g)
  <2>1. ASSUME NEW T \in SUBSET (1 .. n)
        PROVE  (IF T = {} THEN <<>> ELSE step[<<Max(T), g[T \ {Max(T)}]>>]) = Value(g, T)
    BY <1>3, <1>5, <1>6 DEF Valued
  <2> HIDE DEF Value
  <2> QED
    BY <1>5, <2>1, Zenon DEF Behind
<1> DEFINE f == CHOOSE f : Good(f)
<1>8. \A T \in SUBSET (1 .. n) : f[T] = Value(f, T)
  <2>1. Good(f)
    BY <1>7
  <2> HIDE DEF f, Value
  <2> QED
    BY <2>1
<1>9. DedupeResources(s) = f[1 .. n]
  BY <1>2
<1> HIDE DEF f
<1>10. f[{}] = <<>>
  BY <1>8
<1>11. BehindIn(n, V, <<>>, step, f)
  BY <1>3, <1>6, <1>8, <1>10 DEF BehindIn
<1>12. PICK h : Runs(n, V, <<>>, step, h) /\ f[1 .. n] = h[n]
  BY <1>1, <1>4, <1>11, LoopRuns
<1>13. \A i \in 1 .. n : h[i] = IF s[i] \in Range(h[i - 1]) THEN h[i - 1] ELSE Append(h[i - 1], s[i])
  <2>1. \A i \in 1 .. n : h[i - 1] \in V
    BY <1>1, <1>12 DEF Runs
  <2> QED
    BY <1>3, <1>12, <2>1 DEF Runs
<1> QED
  BY <1>9, <1>12, <1>13 DEF n, V, Runs

\* ... and sums.
LEMMA LeftLoop ==
    ASSUME NEW E, NEW s \in Seq(E), \A r \in E : r.left \in Int
    PROVE  \E h \in [0 .. Len(s) -> Int] :
               /\ h[0] = 0
               /\ \A i \in 1 .. Len(s) : h[i] = h[i - 1] + s[i].left
               /\ Summed(LAMBDA r : r.left, s) = h[Len(s)]
<1> DEFINE n == Len(s)
           V == Int
           Value(g, T) == IF T = {} THEN 0 ELSE g[T \ {Max(T)}] + s[Max(T)].left
           Good(g) == g = [T \in SUBSET (1 .. n) |-> Value(g, T)]
           step == [q \in (1 .. n) \X V |-> q[2] + s[q[1]].left]
<1>1. n \in Nat /\ DOMAIN s = 1 .. n /\ 0 \in V
  OBVIOUS
<1>2. Summed(LAMBDA r : r.left, s) = (CHOOSE f : Good(f))[1 .. n]
  BY <1>1 DEF Summed, FoldLeft, MapThenFoldSet
<1>3. ASSUME NEW i \in 1 .. n, NEW v \in V
      PROVE  step[<<i, v>>] = (v + s[i].left) /\ step[<<i, v>>] \in V
  <2>1. step[<<i, v>>] = v + s[i].left
    OBVIOUS
  <2>2. s[i] \in E
    OBVIOUS
  <2> HIDE DEF step
  <2> QED
    BY <2>1, <2>2
<1> HIDE DEF n, V, step
<1>4. Rounded(n, V, step)
  BY <1>3 DEF Rounded
<1>5. PICK g : Behind(n, 0, step, g) /\ Valued(n, V, g)
  BY <1>1, <1>4, LoopExists
<1>6. \A T \in SUBSET (1 .. n) : T # {} => Max(T) \in 1 .. n
  BY <1>1, MaxUpTo
<1>7. Good(g)
  <2>1. ASSUME NEW T \in SUBSET (1 .. n)
        PROVE  (IF T = {} THEN 0 ELSE step[<<Max(T), g[T \ {Max(T)}]>>]) = Value(g, T)
    BY <1>3, <1>5, <1>6 DEF Valued
  <2> HIDE DEF Value
  <2> QED
    BY <1>5, <2>1, Zenon DEF Behind
<1> DEFINE f == CHOOSE f : Good(f)
<1>8. \A T \in SUBSET (1 .. n) : f[T] = Value(f, T)
  <2>1. Good(f)
    BY <1>7
  <2> HIDE DEF f, Value
  <2> QED
    BY <2>1
<1>9. Summed(LAMBDA r : r.left, s) = f[1 .. n]
  BY <1>2
<1> HIDE DEF f
<1>10. f[{}] = 0
  BY <1>8
<1>11. BehindIn(n, V, 0, step, f)
  BY <1>3, <1>6, <1>8, <1>10 DEF BehindIn
<1>12. PICK h : Runs(n, V, 0, step, h) /\ f[1 .. n] = h[n]
  BY <1>1, <1>4, <1>11, LoopRuns
<1>13. \A i \in 1 .. n : h[i] = h[i - 1] + s[i].left
  <2>1. \A i \in 1 .. n : h[i - 1] \in V
    BY <1>1, <1>12 DEF Runs
  <2> QED
    BY <1>3, <1>12, <2>1 DEF Runs
<1> QED
  BY <1>9, <1>12, <1>13 DEF n, V, Runs

LEMMA TotalLoop ==
    ASSUME NEW E, NEW s \in Seq(E), \A r \in E : r.total \in Int
    PROVE  \E h \in [0 .. Len(s) -> Int] :
               /\ h[0] = 0
               /\ \A i \in 1 .. Len(s) : h[i] = h[i - 1] + s[i].total
               /\ Summed(LAMBDA r : r.total, s) = h[Len(s)]
<1> DEFINE n == Len(s)
           V == Int
           Value(g, T) == IF T = {} THEN 0 ELSE g[T \ {Max(T)}] + s[Max(T)].total
           Good(g) == g = [T \in SUBSET (1 .. n) |-> Value(g, T)]
           step == [q \in (1 .. n) \X V |-> q[2] + s[q[1]].total]
<1>1. n \in Nat /\ DOMAIN s = 1 .. n /\ 0 \in V
  OBVIOUS
<1>2. Summed(LAMBDA r : r.total, s) = (CHOOSE f : Good(f))[1 .. n]
  BY <1>1 DEF Summed, FoldLeft, MapThenFoldSet
<1>3. ASSUME NEW i \in 1 .. n, NEW v \in V
      PROVE  step[<<i, v>>] = (v + s[i].total) /\ step[<<i, v>>] \in V
  <2>1. step[<<i, v>>] = v + s[i].total
    OBVIOUS
  <2>2. s[i] \in E
    OBVIOUS
  <2> HIDE DEF step
  <2> QED
    BY <2>1, <2>2
<1> HIDE DEF n, V, step
<1>4. Rounded(n, V, step)
  BY <1>3 DEF Rounded
<1>5. PICK g : Behind(n, 0, step, g) /\ Valued(n, V, g)
  BY <1>1, <1>4, LoopExists
<1>6. \A T \in SUBSET (1 .. n) : T # {} => Max(T) \in 1 .. n
  BY <1>1, MaxUpTo
<1>7. Good(g)
  <2>1. ASSUME NEW T \in SUBSET (1 .. n)
        PROVE  (IF T = {} THEN 0 ELSE step[<<Max(T), g[T \ {Max(T)}]>>]) = Value(g, T)
    BY <1>3, <1>5, <1>6 DEF Valued
  <2> HIDE DEF Value
  <2> QED
    BY <1>5, <2>1, Zenon DEF Behind
<1> DEFINE f == CHOOSE f : Good(f)
<1>8. \A T \in SUBSET (1 .. n) : f[T] = Value(f, T)
  <2>1. Good(f)
    BY <1>7
  <2> HIDE DEF f, Value
  <2> QED
    BY <2>1
<1>9. Summed(LAMBDA r : r.total, s) = f[1 .. n]
  BY <1>2
<1> HIDE DEF f
<1>10. f[{}] = 0
  BY <1>8
<1>11. BehindIn(n, V, 0, step, f)
  BY <1>3, <1>6, <1>8, <1>10 DEF BehindIn
<1>12. PICK h : Runs(n, V, 0, step, h) /\ f[1 .. n] = h[n]
  BY <1>1, <1>4, <1>11, LoopRuns
<1>13. \A i \in 1 .. n : h[i] = h[i - 1] + s[i].total
  <2>1. \A i \in 1 .. n : h[i - 1] \in V
    BY <1>1, <1>12 DEF Runs
  <2> QED
    BY <1>3, <1>12, <2>1 DEF Runs
<1> QED
  BY <1>9, <1>12, <1>13 DEF n, V, Runs

-----------------------------------------------------------------------------
(* What the loops compute.                                                 *)

LEMMA RangeAppend ==
    ASSUME NEW E, NEW s \in Seq(E), NEW x \in E
    PROVE  Range(Append(s, x)) = Range(s) \union {x}
<1>1. Append(s, x) \in Seq(E) /\ Len(Append(s, x)) = Len(s) + 1 /\ Len(s) \in Nat
  OBVIOUS
<1>2. DOMAIN Append(s, x) = 1 .. (Len(s) + 1) /\ DOMAIN s = 1 .. Len(s)
  BY <1>1
<1>3. \A i \in 1 .. Len(s) : Append(s, x)[i] = s[i]
  OBVIOUS
<1>4. Append(s, x)[Len(s) + 1] = x
  OBVIOUS
<1>5. 1 .. (Len(s) + 1) = (1 .. Len(s)) \union {Len(s) + 1}
  BY <1>1
<1> QED
  BY <1>2, <1>3, <1>4, <1>5 DEF Range

\* A loop that skips keeps the elements it does not skip ...
LEMMA ThoseOf ==
    ASSUME NEW E, NEW s \in Seq(E), NEW S
    PROVE  Those(s, S) \in Seq(E) /\ Range(Those(s, S)) = Range(s) \intersect S
<1>1. PICK h : ThoseRuns(E, s, S, h) /\ Those(s, S) = h[Len(s)]
  BY ThoseLoop
<1> USE DEF ThoseRuns
<1> DEFINE upTo(i) == {s[j] : j \in 1 .. i} \intersect S
           G == {i \in 0 .. Len(s) : Range(h[i]) = upTo(i)}
<1>2. 0 \in G
  BY <1>1 DEF Range
<1>3. ASSUME NEW i \in 1 .. Len(s), i - 1 \in G
      PROVE  i \in G
  <2>0. Range(h[i - 1]) = upTo(i - 1)
    BY <1>3
  <2>1. h[i - 1] \in Seq(E) /\ Range(h[i - 1]) = upTo(i - 1) /\ s[i] \in E
    BY <1>1, <2>0
  <2>2. Range(Append(h[i - 1], s[i])) = Range(h[i - 1]) \union {s[i]}
    BY <2>1, RangeAppend
  <2>3. upTo(i) = upTo(i - 1) \union ({s[i]} \intersect S)
    <3>1. 1 .. i = (1 .. (i - 1)) \union {i}
      OBVIOUS
    <3> QED
      BY <3>1
  <2>4. i \in 0 .. Len(s)
    OBVIOUS
  <2> HIDE DEF upTo
  <2>5. Range(h[i]) = upTo(i)
    BY <1>1, <2>1, <2>2, <2>3
  <2> QED
    BY <2>4, <2>5
<1> HIDE DEF G
<1>4. Len(s) \in G
  <2>1. Len(s) \in Nat
    OBVIOUS
  <2>2. Carried(Len(s), G)
    BY <1>2, <1>3 DEF Carried
  <2> QED
    BY <2>1, <2>2, Rounds
<1>5. Range(s) = {s[j] : j \in 1 .. Len(s)}
  BY DEF Range
<1> QED
  BY <1>1, <1>4, <1>5 DEF G

\* ... and two loops that skip what the other does not keep no more than all.
LEMMA ThoseShort ==
    ASSUME NEW E, NEW s \in Seq(E), NEW S, NEW T, S \intersect T = {}
    PROVE  Len(Those(s, S)) + Len(Those(s, T)) <= Len(s)
<1>1. PICK g : ThoseRuns(E, s, S, g) /\ Those(s, S) = g[Len(s)]
  BY ThoseLoop
<1>2. PICK h : ThoseRuns(E, s, T, h) /\ Those(s, T) = h[Len(s)]
  BY ThoseLoop
<1> USE DEF ThoseRuns
<1> DEFINE G == {i \in 0 .. Len(s) : Len(g[i]) + Len(h[i]) <= i}
<1>3. 0 \in G
  BY <1>1, <1>2
<1>4. ASSUME NEW i \in 1 .. Len(s), i - 1 \in G
      PROVE  i \in G
  <2>1. g[i - 1] \in Seq(E) /\ h[i - 1] \in Seq(E) /\ s[i] \in E /\ i \in 0 .. Len(s)
    BY <1>1, <1>2
  <2>2. Len(g[i - 1]) + Len(h[i - 1]) <= i - 1
    BY <1>4
  <2>3. ~(s[i] \in S /\ s[i] \in T)
    OBVIOUS
  <2>4. /\ s[i] \in S => g[i] = Append(g[i - 1], s[i])
        /\ s[i] \notin S => g[i] = g[i - 1]
        /\ s[i] \in T => h[i] = Append(h[i - 1], s[i])
        /\ s[i] \notin T => h[i] = h[i - 1]
    BY <1>1, <1>2
  <2>5. /\ Len(Append(g[i - 1], s[i])) = Len(g[i - 1]) + 1 /\ Len(g[i - 1]) \in Nat
        /\ Len(Append(h[i - 1], s[i])) = Len(h[i - 1]) + 1 /\ Len(h[i - 1]) \in Nat
    BY <2>1
  <2>6. Len(g[i]) + Len(h[i]) <= i
    <3> DEFINE a == Len(g[i - 1])  b == Len(h[i - 1])  c == Len(g[i])  d == Len(h[i])
    <3>1. a \in Nat /\ b \in Nat /\ (c = a \/ c = a + 1) /\ (d = b \/ d = b + 1) /\ (c = a \/ d = b) /\ a + b <= i - 1
      BY <2>2, <2>3, <2>4, <2>5
    <3> HIDE DEF a, b, c, d
    <3>2. c + d <= i
      BY <3>1
    <3> QED
      BY <3>2 DEF c, d
  <2> QED
    BY <2>1, <2>6
<1> HIDE DEF G
<1>5. Len(s) \in G
  <2>1. Len(s) \in Nat
    OBVIOUS
  <2>2. Carried(Len(s), G)
    BY <1>3, <1>4 DEF Carried
  <2> QED
    BY <2>1, <2>2, Rounds
<1> QED
  BY <1>1, <1>2, <1>5 DEF G

\* An account has the status of its worst window.
LEMMA WorstDecides ==
    ASSUME NEW list \in Seq(Window)
    PROVE  /\ AccountStatus(list) \in Status
           /\ AccountStatus(list) = "critical" <=> \E w \in Range(list) : w.status = "critical"
           /\ AccountStatus(list) = "warning" <=>
                /\ \E w \in Range(list) : w.status = "warning"
                /\ ~\E w \in Range(list) : w.status = "critical"
<1>1. PICK h \in [0 .. Len(list) -> Status] :
          /\ h[0] = "healthy"
          /\ \A i \in 1 .. Len(list) : h[i] = NextStatus(h[i - 1], list[i])
          /\ AccountStatus(list) = h[Len(list)]
  BY StatusLoop
<1> DEFINE some(i, s) == \E j \in 1 .. i : list[j].status = s
           decided(i, v) == /\ v = "critical" <=> some(i, "critical")
                            /\ v = "warning" <=> some(i, "warning") /\ ~some(i, "critical")
           G == {i \in 0 .. Len(list) : decided(i, h[i])}
<1>2. 0 \in G
  BY <1>1
<1>3. ASSUME NEW i \in 1 .. Len(list), i - 1 \in G
      PROVE  i \in G
  <2>1. h[i - 1] \in Status /\ decided(i - 1, h[i - 1]) /\ i \in 0 .. Len(list)
    BY <1>3
  <2>2. \A s : some(i, s) <=> some(i - 1, s) \/ list[i].status = s
    <3>1. 1 .. i = (1 .. (i - 1)) \union {i}
      OBVIOUS
    <3> QED
      BY <3>1
  <2>3. h[i] = NextStatus(h[i - 1], list[i])
    BY <1>1
  <2> HIDE DEF some
  <2>4. decided(i, h[i])
    BY <2>1, <2>2, <2>3 DEF NextStatus
  <2> QED
    BY <2>1, <2>4
<1> HIDE DEF G
<1>4. Len(list) \in G
  <2>1. Len(list) \in Nat
    OBVIOUS
  <2>2. Carried(Len(list), G)
    BY <1>2, <1>3 DEF Carried
  <2> QED
    BY <2>1, <2>2, Rounds
<1>5. \A s : some(Len(list), s) <=> \E w \in Range(list) : w.status = s
  BY DEF Range
<1>6. h[Len(list)] \in Status
  OBVIOUS
<1> HIDE DEF some
<1> QED
  BY <1>1, <1>4, <1>5, <1>6 DEF G

\* Labels that are placed drop no window; and of two windows in all, each
\* finds a label.
LEMMA PlacedAll ==
    ASSUME NEW base \in Seq(Window), NEW E, NEW s \in Seq(E), \A w \in E : w.used \in Int
    PROVE  /\ FoldLeft(Place, base, s) \in Seq(Window)
           /\ Range(base) \subseteq Range(FoldLeft(Place, base, s))
           /\ Len(base) + Len(s) <= 2 => \A w \in Range(s) : \E label \in {"5h", "week"} :
                  Used(label, OrZero(w.used)) \in Range(FoldLeft(Place, base, s))
           /\ \A x \in Range(FoldLeft(Place, base, s)) :
                  \/ x \in Range(base)
                  \/ \E w \in Range(s) : \E label \in {"5h", "week"} : x = Used(label, OrZero(w.used))
<1>1. PICK h \in [0 .. Len(s) -> Seq(Window)] :
          /\ h[0] = base
          /\ \A i \in 1 .. Len(s) : h[i] = Place(h[i - 1], s[i])
          /\ FoldLeft(Place, base, s) = h[Len(s)]
  BY PlaceLoop
<1> DEFINE of(w) == {Used("5h", OrZero(w.used)), Used("week", OrZero(w.used))}
           kept(v) == Range(base) \subseteq Range(v)
           fits(v, i) == Len(base) + Len(s) <= 2 =>
               Len(v) = Len(base) + i /\ \A j \in 1 .. i : of(s[j]) \intersect Range(v) # {}
           known(v, i) == \A x \in Range(v) : x \in Range(base) \/ \E j \in 1 .. i : x \in of(s[j])
           G == {i \in 0 .. Len(s) : kept(h[i]) /\ fits(h[i], i) /\ known(h[i], i)}
<1>2. 0 \in G
  BY <1>1
<1>3. ASSUME NEW i \in 1 .. Len(s), i - 1 \in G
      PROVE  i \in G
  <2>1. /\ h[i - 1] \in Seq(Window) /\ kept(h[i - 1]) /\ fits(h[i - 1], i - 1) /\ known(h[i - 1], i - 1)
        /\ s[i] \in E /\ s[i].used \in Int /\ i \in 0 .. Len(s) /\ Len(base) \in Nat /\ Len(s) \in Nat
    <3>1. kept(h[i - 1]) /\ fits(h[i - 1], i - 1) /\ known(h[i - 1], i - 1)
      BY <1>3
    <3> HIDE DEF kept, fits, known, G
    <3>2. s[i] \in E
      OBVIOUS
    <3>3. i \in 0 .. Len(s) /\ i - 1 \in 0 .. Len(s) /\ Len(base) \in Nat /\ Len(s) \in Nat
      OBVIOUS
    <3> QED
      BY <3>1, <3>2, <3>3
  <2>2. \/ h[i] = h[i - 1] /\ Len(h[i - 1]) > 1
        \/ \E x \in of(s[i]) : h[i] = Append(h[i - 1], x)
    <3>1. h[i] = Place(h[i - 1], s[i])
      BY <1>1
    <3>2. \/ h[i] = h[i - 1] /\ Len(h[i - 1]) > 1
          \/ \E label \in {"5h", "week"} : h[i] = Append(h[i - 1], Used(label, OrZero(s[i].used)))
      BY <2>1, <3>1, PlaceStep
    <3> QED
      BY <3>2
  <2>3. 1 .. i = (1 .. (i - 1)) \union {i}
    OBVIOUS
  <2>4. \A x \in of(s[i]) : x \in Window
    <3>1. "5h" \in Label /\ "week" \in Label
      BY DEF Label
    <3> QED
      BY <2>1, <3>1, UsedWindow, Zenon
  <2> HIDE DEF of
  <2>5. CASE h[i] = h[i - 1] /\ Len(h[i - 1]) > 1
    <3>1. ~(Len(base) + Len(s) <= 2)
      BY <2>1, <2>5
    <3> QED
      BY <2>1, <2>3, <2>5, <3>1
  <2>6. ASSUME NEW x \in of(s[i]), h[i] = Append(h[i - 1], x)
        PROVE  i \in G
    <3>1. Range(h[i]) = Range(h[i - 1]) \union {x} /\ Len(h[i]) = Len(h[i - 1]) + 1
      BY <2>1, <2>4, <2>6, RangeAppend
    <3>2. kept(h[i])
      BY <2>1, <3>1
    <3>3. known(h[i], i)
      BY <2>1, <2>3, <3>1
    <3>4. fits(h[i], i)
      <4> SUFFICES ASSUME Len(base) + Len(s) <= 2
                   PROVE  Len(h[i]) = Len(base) + i /\ \A j \in 1 .. i : of(s[j]) \intersect Range(h[i]) # {}
        OBVIOUS
      <4>1. Len(h[i - 1]) = Len(base) + (i - 1) /\ \A j \in 1 .. (i - 1) : of(s[j]) \intersect Range(h[i - 1]) # {}
        BY <2>1
      <4>2. Len(h[i]) = Len(base) + i
        BY <2>1, <3>1, <4>1
      <4> QED
        BY <2>3, <3>1, <4>1, <4>2
    <3> QED
      BY <2>1, <3>2, <3>3, <3>4
  <2> QED
    BY <2>2, <2>5, <2>6
<1> HIDE DEF G
<1>4. Len(s) \in G
  <2>1. Len(s) \in Nat
    OBVIOUS
  <2>2. Carried(Len(s), G)
    BY <1>2, <1>3 DEF Carried
  <2> QED
    BY <2>1, <2>2, Rounds
<1>5. Range(s) = {s[j] : j \in 1 .. Len(s)}
  BY DEF Range
<1> DEFINE last == h[Len(s)]
<1>6. last \in Seq(Window) /\ kept(last) /\ fits(last, Len(s)) /\ known(last, Len(s)) /\ FoldLeft(Place, base, s) = last
  BY <1>1, <1>4 DEF G
<1> HIDE DEF last, kept, fits, known
<1>7. Range(base) \subseteq Range(last)
  BY <1>6 DEF kept
<1>8. Len(base) + Len(s) <= 2 => \A w \in Range(s) : of(w) \intersect Range(last) # {}
  BY <1>5, <1>6 DEF fits
<1>9. \A x \in Range(last) : x \in Range(base) \/ \E w \in Range(s) : x \in of(w)
  BY <1>5, <1>6 DEF known
<1>10. \A w, x : x \in of(w) <=> \E label \in {"5h", "week"} : x = Used(label, OrZero(w.used))
  OBVIOUS
<1> HIDE DEF of
<1> QED
  BY <1>6, <1>7, <1>8, <1>9, <1>10

-----------------------------------------------------------------------------
(* The windows of the readings.                                            *)

Percents == {"claude", "codex", "gemini", "mimo", "zhipu"}
Subtracts == {"kiro", "trae", "workbuddy"}

\* What the windows of a provider are: a share has the status of what is
\* left, and is bounded where the client computes it.
WindowsOf(p) ==
    {w \in Window : w.of > 0 =>
        /\ w.status = QuotaStatus(w.left, w.of)
        /\ p \in Percents \union Subtracts => w.left >= 0
        /\ p \in Percents => w.left <= w.of}

\* What a reading that succeeds shows of an answer.
Shows(p, x, list) ==
    /\ list \in Seq(WindowsOf(p))
    /\ UsedUp(p, x) => \E w \in Range(list) : w.status = "critical"

LEMMA ConcatIn ==
    ASSUME NEW W, NEW s \in Seq(W), NEW t \in Seq(W)
    PROVE  s \o t \in Seq(W) /\ Range(s \o t) = Range(s) \union Range(t)
<1>1. /\ s \o t \in Seq(W) /\ Len(s \o t) = Len(s) + Len(t) /\ Len(s) \in Nat /\ Len(t) \in Nat
      /\ DOMAIN (s \o t) = 1 .. (Len(s) + Len(t)) /\ DOMAIN s = 1 .. Len(s) /\ DOMAIN t = 1 .. Len(t)
  OBVIOUS
<1>2. \A i \in 1 .. (Len(s) + Len(t)) : (s \o t)[i] = IF i <= Len(s) THEN s[i] ELSE t[i - Len(s)]
  OBVIOUS
<1>3. ASSUME NEW i \in 1 .. (Len(s) + Len(t))
      PROVE  (s \o t)[i] \in Range(s) \union Range(t)
  <2>1. CASE i <= Len(s)
    BY <1>1, <1>2, <2>1 DEF Range
  <2>2. CASE ~(i <= Len(s))
    <3>1. i - Len(s) \in 1 .. Len(t)
      BY <1>1, <2>2
    <3> QED
      BY <1>1, <1>2, <2>2, <3>1 DEF Range
  <2> QED
    BY <2>1, <2>2
<1>4. ASSUME NEW i \in 1 .. Len(s)
      PROVE  s[i] \in Range(s \o t)
  <2>1. i \in 1 .. (Len(s) + Len(t)) /\ i <= Len(s)
    BY <1>1
  <2> QED
    BY <1>1, <1>2, <2>1 DEF Range
<1>5. ASSUME NEW i \in 1 .. Len(t)
      PROVE  t[i] \in Range(s \o t)
  <2>1. i + Len(s) \in 1 .. (Len(s) + Len(t)) /\ ~(i + Len(s) <= Len(s)) /\ (i + Len(s)) - Len(s) = i
    BY <1>1
  <2>2. (s \o t)[i + Len(s)] = t[i]
    BY <1>2, <2>1
  <2> QED
    BY <1>1, <2>1, <2>2 DEF Range
<1>6. Range(s \o t) \subseteq Range(s) \union Range(t)
  BY <1>1, <1>3 DEF Range
<1>7. Range(s) \subseteq Range(s \o t) /\ Range(t) \subseteq Range(s \o t)
  BY <1>1, <1>4, <1>5 DEF Range
<1> QED
  BY <1>1, <1>6, <1>7

\* One element after another, each by itself.
LEMMA OneIn ==
    ASSUME NEW W, NEW w \in W
    PROVE  <<w>> \in Seq(W) /\ Range(<<w>>) = {w} /\ <<>> \in Seq(W) /\ Range(<<>>) = {}
  BY DEF Range

Mapped(n, W, m) == m = [i \in 1 .. n |-> m[i]] /\ \A i \in 1 .. n : m[i] \in W

LEMMA EachIn ==
    ASSUME NEW n \in Nat, NEW W, NEW m, Mapped(n, W, m)
    PROVE  m \in Seq(W) /\ Range(m) = {m[i] : i \in 1 .. n}
<1>1. m \in [1 .. n -> W]
  BY Zenon DEF Mapped
<1>2. DOMAIN m = 1 .. n
  BY <1>1
<1> QED
  BY <1>1, <1>2 DEF Range

\* What is reported fails when it is nothing.
LEMMA SomeIn ==
    ASSUME NEW list
    PROVE  /\ Report(list).ok /\ Report(list).windows = list
           /\ ReportSome(list).ok => ReportSome(list).windows = list
           /\ ~Failed.ok
  BY DEF Report, ReportSome, Failed

LEMMA ShareIn ==
    ASSUME NEW p, NEW label \in Label, NEW left \in Int, NEW of \in Nat,
           p \in Percents \union Subtracts => left >= 0, p \in Percents => left <= of
    PROVE  Share(label, left, of) \in WindowsOf(p)
  BY ShareWindow DEF WindowsOf

LEMMA AmountIn ==
    ASSUME NEW p, NEW label \in Label, NEW left \in Int, NEW status \in Status
    PROVE  Amount(label, left, status) \in WindowsOf(p)
  BY DEF Amount, WindowsOf, Window

LEMMA UsedIn ==
    ASSUME NEW p, NEW label \in Label, NEW used \in Int
    PROVE  Used(label, used) \in WindowsOf(p) /\ (used >= 100 => Used(label, used).status = "critical")
<1>1. Clamp(100 - used) \in 0 .. 100 /\ (used >= 100 => Clamp(100 - used) = 0)
  BY DEF Clamp, AtLeastZero
<1>2. Share(label, Clamp(100 - used), 100) \in WindowsOf(p)
  BY <1>1, ShareIn
<1>3. used >= 100 => Share(label, Clamp(100 - used), 100).status = "critical"
  BY <1>1, ShareWindow DEF QuotaStatus
<1> QED
  BY <1>2, <1>3 DEF Used

LEMMA SizedIn ==
    ASSUME NEW p, NEW label \in Label, NEW left \in Int, NEW total \in Int,
           p \notin Percents, p \in Subtracts => left >= 0
    PROVE  /\ Sized(label, left, total) \in WindowsOf(p)
           /\ Sized(label, left, total).left = left
           /\ total > 0 /\ left = 0 => Sized(label, left, total).status = "critical"
<1>1. CASE total > 0
  <2>1. Share(label, left, total) \in WindowsOf(p)
    BY <1>1, ShareIn
  <2>2. Share(label, left, total).left = left /\ (left = 0 => Share(label, left, total).status = "critical")
    BY <1>1, ShareWindow DEF QuotaStatus
  <2> QED
    BY <1>1, <2>1, <2>2 DEF Sized
<1>2. CASE ~(total > 0)
  <2>1. Amount(label, left, "healthy") \in WindowsOf(p) /\ Amount(label, left, "healthy").left = left
    BY AmountIn DEF Status, Amount
  <2> QED
    BY <1>2, <2>1 DEF Sized
<1> QED
  BY <1>1, <1>2


\* Each client in turn shows what it should, those first that answer with
\* what is used.
LEMMA CodexShows ==
    ASSUME NEW x \in AnswersOf.codex, Codex(x).ok
    PROVE  Shows("codex", x, Codex(x).windows)
<1> DEFINE E == [label : STRING, used : Int]
           W == WindowsOf("codex")
           limits == Those(x.limits, {w \in Range(x.limits) : w.used # Missing})
           ws == [i \in 1 .. Len(limits) |-> Used(limits[i].label, limits[i].used)]
           shown == /\ x.credits.balance # Missing /\ ~x.credits.unlimited
                    /\ \/ x.credits.has = "true"
                       \/ x.credits.has = "absent" /\ (x.credits.balance > 0)
           more == IF shown THEN <<Amount("credits", x.credits.balance, "healthy")>> ELSE <<>>
<1>1. x.ok => x.limits \in Seq(E) /\ x.credits.balance \in Int
  BY DEF AnswersOf, Refused
<1>2. x.ok /\ Codex(x) = ReportSome(ws \o more)
  BY SomeIn DEF Codex, Each
<1> HIDE DEF E
<1>3. limits \in Seq(E) /\ Range(limits) = {w \in Range(x.limits) : w.used # Missing}
  BY <1>1, <1>2, ThoseOf
<1> HIDE DEF limits
<1>4. ASSUME NEW i \in 1 .. Len(limits)
      PROVE  ws[i] \in W /\ limits[i] \in Range(limits) /\ (limits[i].used >= 100 => ws[i].status = "critical")
  <2>1. limits[i] \in E /\ limits[i] \in Range(limits)
    BY <1>3 DEF Range
  <2>2. limits[i].label \in Label /\ limits[i].used \in Int
    BY <2>1 DEF E, Label
  <2>3. ws[i] = Used(limits[i].label, limits[i].used)
    OBVIOUS
  <2> QED
    BY <2>1, <2>2, <2>3, UsedIn
<1>5. ws \in Seq(W) /\ Range(ws) = {ws[i] : i \in 1 .. Len(limits)}
  <2>1. \A i \in 1 .. Len(limits) : ws[i] \in W
    BY <1>4
  <2>2. ws = [i \in 1 .. Len(limits) |-> ws[i]]
    OBVIOUS
  <2>3. Len(limits) \in Nat
    BY <1>3
  <2> HIDE DEF ws
  <2>4. Mapped(Len(limits), W, ws)
    BY <2>1, <2>2 DEF Mapped
  <2> QED
    BY <2>3, <2>4, EachIn
<1>6. more \in Seq(W)
  <2>1. "credits" \in Label /\ "healthy" \in Status
    BY DEF Label, Status
  <2>2. Amount("credits", x.credits.balance, "healthy") \in W
    BY <1>1, <1>2, <2>1, AmountIn
  <2> QED
    BY <2>2, OneIn
<1>7. ASSUME NEW w \in Range(x.limits), w.used >= 100
      PROVE  \E v \in Range(ws) : v.status = "critical"
  <2>1. w \in Range(limits)
    BY <1>3, <1>7 DEF Missing
  <2>2. PICK i \in 1 .. Len(limits) : w = limits[i]
    BY <1>3, <2>1 DEF Range
  <2> QED
    BY <1>4, <1>5, <1>7, <2>2
<1> HIDE DEF ws, more
<1>8. ws \o more \in Seq(W) /\ Range(ws) \subseteq Range(ws \o more)
  BY <1>5, <1>6, ConcatIn
<1>9. UsedUp("codex", x) => \E w \in Range(x.limits) : w.used >= 100
  BY DEF UsedUp
<1>10. Codex(x).windows = ws \o more
  BY <1>2, SomeIn
<1> QED
  BY <1>7, <1>8, <1>9, <1>10 DEF Shows

LEMMA ClaudeShows ==
    ASSUME NEW x \in AnswersOf.claude, Claude(x).ok
    PROVE  Shows("claude", x, Claude(x).windows)
<1> DEFINE E == [label : STRING, used : Int, kind : STRING, named : BOOLEAN]
           W == WindowsOf("claude")
           counted == {w \in Range(x.limits) :
                         w.used # Missing /\ w.kind \in {"window", "weekly_scoped"} /\ w.named}
           limits == Those(x.limits, counted)
           ws == [i \in 1 .. Len(limits) |-> Used(limits[i].label, limits[i].used)]
<1>1. x.ok => x.limits \in Seq(E)
  BY DEF AnswersOf, Refused
<1>2. x.ok /\ Claude(x) = ReportSome(ws)
  BY SomeIn DEF Claude, Each
<1> HIDE DEF E
<1>3. limits \in Seq(E) /\ Range(limits) = counted
  BY <1>1, <1>2, ThoseOf
<1> HIDE DEF limits
<1>4. ASSUME NEW i \in 1 .. Len(limits)
      PROVE  ws[i] \in W /\ (limits[i].used >= 100 => ws[i].status = "critical")
  <2>1. limits[i] \in E
    BY <1>3
  <2>2. limits[i].label \in Label /\ limits[i].used \in Int
    BY <2>1 DEF E, Label
  <2>3. ws[i] = Used(limits[i].label, limits[i].used)
    OBVIOUS
  <2> QED
    BY <2>1, <2>2, <2>3, UsedIn
<1>5. ws \in Seq(W) /\ Range(ws) = {ws[i] : i \in 1 .. Len(limits)}
  <2>1. \A i \in 1 .. Len(limits) : ws[i] \in W
    BY <1>4
  <2>2. ws = [i \in 1 .. Len(limits) |-> ws[i]]
    OBVIOUS
  <2>3. Len(limits) \in Nat
    BY <1>3
  <2> HIDE DEF ws
  <2>4. Mapped(Len(limits), W, ws)
    BY <2>1, <2>2 DEF Mapped
  <2> QED
    BY <2>3, <2>4, EachIn
<1>7. ASSUME NEW w \in Range(x.limits), w.kind = "window", w.named, w.used >= 100
      PROVE  \E v \in Range(ws) : v.status = "critical"
  <2>1. w \in Range(limits)
    BY <1>3, <1>7 DEF Missing
  <2>2. PICK i \in 1 .. Len(limits) : w = limits[i]
    BY <1>3, <2>1 DEF Range
  <2> QED
    BY <1>4, <1>5, <1>7, <2>2
<1> HIDE DEF ws
<1>8. UsedUp("claude", x) => \E w \in Range(x.limits) : w.kind = "window" /\ w.named /\ w.used >= 100
  BY DEF UsedUp
<1>9. Claude(x).windows = ws
  BY <1>2, SomeIn
<1> QED
  BY <1>5, <1>7, <1>8, <1>9 DEF Shows

LEMMA CursorShows ==
    ASSUME NEW x \in AnswersOf.cursor, Cursor(x).ok
    PROVE  Shows("cursor", x, Cursor(x).windows)
<1> DEFINE W == WindowsOf("cursor")
           left == IF x.percent # Missing THEN <<100 - x.percent, 100>>
                   ELSE IF x.remaining # Missing /\ x.limit > 0 THEN <<x.remaining, x.limit>>
                   ELSE IF x.used # Missing /\ x.limit > 0 THEN <<x.limit - x.used, x.limit>>
                   ELSE <<-1, 1>>
           shown == IF left[1] > left[2] THEN left[2] ELSE left[1]
           plan == Share("plan", shown, left[2])
           more == IF x.onDemand = Missing THEN <<>> ELSE <<Sized("on demand", x.onDemand, x.onDemandMax)>>
<1>1. x.ok /\ ~(left[1] < 0) /\ Cursor(x) = Report(<<plan>> \o more)
  BY SomeIn DEF Cursor
<1>2. /\ x.percent \in Int /\ x.remaining \in Int /\ x.limit \in Int /\ x.used \in Int
      /\ x.onDemand \in Int /\ x.onDemandMax \in Int
  <2>1. x.ok
    BY <1>1
  <2> HIDE DEF left
  <2> QED
    BY <2>1 DEF AnswersOf, Refused
<1>3. left[1] \in Int /\ left[2] \in Nat /\ (UsedUp("cursor", x) => left[1] = 0 /\ left[2] > 0)
  <2>1. UsedUp("cursor", x) => x.percent = 100 \/ (x.percent = Missing /\ x.limit > 0 /\ x.remaining = 0)
    BY DEF UsedUp
  <2>2. PICK n, m : left = <<n, m>> /\ \/ x.percent # Missing /\ n = 100 - x.percent /\ m = 100
                                       \/ x.percent = Missing /\ x.remaining # Missing /\ n = x.remaining /\ m = x.limit /\ x.limit > 0
                                       \/ /\ x.percent = Missing /\ ~(x.remaining # Missing /\ x.limit > 0)
                                          /\ \/ n = x.limit - x.used /\ m = x.limit /\ x.limit > 0
                                             \/ n = -1 /\ m = 1
    OBVIOUS
  <2> HIDE DEF left
  <2>3. n \in Int /\ m \in Nat /\ (UsedUp("cursor", x) => n = 0 /\ m > 0)
    BY <1>2, <2>1, <2>2 DEF Missing
  <2>4. left[1] = n /\ left[2] = m
    BY <2>2
  <2> QED
    BY <2>3, <2>4
<1> HIDE DEF left
<1>4. left[2] \in Nat /\ shown \in Int /\ (UsedUp("cursor", x) => left[2] > 0 /\ shown = 0)
  BY <1>3
<1>5. "plan" \in Label /\ "on demand" \in Label /\ "cursor" \notin Percents \union Subtracts
  BY DEF Label, Percents, Subtracts
<1> HIDE DEF left, shown
<1>6. plan \in W /\ (UsedUp("cursor", x) => plan.status = "critical")
  <2>1. plan \in W
    BY <1>4, <1>5, ShareIn
  <2>2. plan.status = QuotaStatus(shown, left[2])
    <3>1. left[2] \in Nat /\ shown \in Int /\ "plan" \in Label
      BY <1>4, <1>5
    <3> QED
      BY <3>1, ShareWindow
  <2> QED
    BY <1>4, <2>1, <2>2 DEF QuotaStatus
<1>7. <<plan>> \in Seq(W) /\ Range(<<plan>>) = {plan}
  BY <1>6, OneIn
<1>8. more \in Seq(W)
  <2>1. Sized("on demand", x.onDemand, x.onDemandMax) \in W
    BY <1>2, <1>5, SizedIn
  <2> QED
    BY <2>1, OneIn
<1> HIDE DEF plan, more, W
<1>9. <<plan>> \o more \in Seq(W) /\ plan \in Range(<<plan>> \o more)
  <2> DEFINE first == <<plan>>
  <2> HIDE DEF first
  <2>1. first \in Seq(W) /\ plan \in Range(first)
    BY <1>7 DEF first
  <2>2. Range(first \o more) = Range(first) \union Range(more) /\ first \o more \in Seq(W)
    BY <1>8, <2>1, ConcatIn
  <2> QED
    BY <2>1, <2>2 DEF first
<1>10. Cursor(x).windows = <<plan>> \o more
  BY <1>1, SomeIn
<1> QED
  BY <1>6, <1>9, <1>10 DEF Shows, W

LEMMA KiroShows ==
    ASSUME NEW x \in AnswersOf.kiro, Kiro(x).ok
    PROVE  Shows("kiro", x, Kiro(x).windows)
<1> DEFINE W == WindowsOf("kiro")
           plan(label, total, used) ==
               IF total > 0 THEN <<Share(label, AtLeastZero(total - used), total)>> ELSE <<>>
           own == plan("plan", OrZero(x.total), OrZero(x.used))
           bonus == plan("bonus", OrZero(x.bonusTotal), OrZero(x.bonusUsed))
<1>1. x.ok => x.total \in Int /\ x.used \in Int /\ x.bonusTotal \in Int /\ x.bonusUsed \in Int
  BY DEF AnswersOf, Refused
<1>2. x.ok /\ Kiro(x) = ReportSome(own \o bonus)
  BY SomeIn DEF Kiro
<1>3. ASSUME NEW label \in Label, NEW total \in Int, NEW used \in Int
      PROVE  /\ plan(label, total, used) \in Seq(W)
             /\ total > 0 /\ used >= total => \E w \in Range(plan(label, total, used)) : w.status = "critical"
  <2>1. CASE total > 0
    <3>1. AtLeastZero(total - used) \in Nat /\ (used >= total => AtLeastZero(total - used) = 0)
      BY DEF AtLeastZero
    <3>2. Share(label, AtLeastZero(total - used), total) \in W
      BY <2>1, <3>1, ShareIn DEF Percents, Subtracts
    <3>3. used >= total => Share(label, AtLeastZero(total - used), total).status = "critical"
      BY <2>1, <3>1, ShareWindow DEF QuotaStatus
    <3> QED
      BY <2>1, <3>2, <3>3, OneIn
  <2>2. CASE ~(total > 0)
    BY <2>2, OneIn
  <2> QED
    BY <2>1, <2>2
<1>4. "plan" \in Label /\ "bonus" \in Label
  BY DEF Label
<1>5. /\ OrZero(x.total) \in Int /\ OrZero(x.used) \in Int /\ OrZero(x.bonusTotal) \in Int /\ OrZero(x.bonusUsed) \in Int
      /\ x.total > 0 => OrZero(x.total) = x.total
      /\ x.total > 0 /\ x.used >= x.total => OrZero(x.used) = x.used
      /\ x.bonusTotal > 0 => OrZero(x.bonusTotal) = x.bonusTotal
      /\ x.bonusTotal > 0 /\ x.bonusUsed >= x.bonusTotal => OrZero(x.bonusUsed) = x.bonusUsed
  BY <1>1, <1>2 DEF OrZero, Missing
<1> HIDE DEF plan
<1>6. /\ own \in Seq(W)
      /\ x.total > 0 /\ x.used >= x.total => \E w \in Range(own) : w.status = "critical"
  BY <1>3, <1>4, <1>5
<1>7. /\ bonus \in Seq(W)
      /\ x.bonusTotal > 0 /\ x.bonusUsed >= x.bonusTotal => \E w \in Range(bonus) : w.status = "critical"
  BY <1>3, <1>4, <1>5
<1> HIDE DEF own, bonus
<1>8. own \o bonus \in Seq(W) /\ Range(own \o bonus) = Range(own) \union Range(bonus)
  BY <1>6, <1>7, ConcatIn
<1>9. Kiro(x).windows = own \o bonus
  BY <1>2, SomeIn
<1>10. UsedUp("kiro", x) =>
          (x.total > 0 /\ x.used >= x.total) \/ (x.bonusTotal > 0 /\ x.bonusUsed >= x.bonusTotal)
  BY DEF UsedUp
<1> QED
  BY <1>6, <1>7, <1>8, <1>9, <1>10 DEF Shows

\* Up to the whole a number is a fraction, beyond a percentage; either way
\* what is left is between nothing and the whole.
LEMMA MimoShows ==
    ASSUME NEW x \in AnswersOf.mimo, Mimo(x).ok
    PROVE  Shows("mimo", x, Mimo(x).windows)
<1> DEFINE W == WindowsOf("mimo")
           percent == IF x.percent # <<>> THEN x.percent
                      ELSE IF OrZero(x.limit) > 0 THEN <<OrZero(x.used), x.limit>> ELSE <<>>
           n == IF percent[1] <= percent[2] THEN 100 * percent[1] ELSE percent[1]
           whole == 100 * percent[2]
           left == IF n > whole THEN 0 ELSE IF n < 0 THEN whole ELSE whole - n
           plan == Share("plan", left, whole)
<1>1. x.ok => x.percent \in {<<>>} \union (Int \X (Nat \ {0})) /\ x.used \in Int /\ x.limit \in Int
  BY DEF AnswersOf, Refused
<1>2. x.ok /\ percent # <<>> /\ Mimo(x) = Report(<<plan>>)
  BY SomeIn DEF Mimo
<1>3. percent \in Int \X (Nat \ {0}) /\ (UsedUp("mimo", x) => percent[1] = percent[2])
  <2>1. UsedUp("mimo", x) => x.percent = <<>> /\ x.limit > 0 /\ x.used = x.limit
    BY DEF UsedUp
  <2>2. CASE x.percent # <<>>
    <3>1. percent = x.percent
      BY <2>2
    <3> HIDE DEF percent
    <3> QED
      BY <1>1, <1>2, <2>1, <2>2, <3>1
  <2>3. CASE x.percent = <<>>
    <3>1. OrZero(x.limit) > 0 /\ percent = <<OrZero(x.used), x.limit>>
      BY <1>2, <2>3
    <3> HIDE DEF percent
    <3>2. OrZero(x.used) \in Int /\ x.limit \in Nat \ {0} /\ (x.used > 0 => OrZero(x.used) = x.used)
      BY <1>1, <1>2, <3>1 DEF OrZero, Missing
    <3> QED
      BY <1>1, <1>2, <2>1, <3>1, <3>2
  <2> QED
    BY <2>2, <2>3
<1> HIDE DEF percent
<1>4. percent[1] \in Int /\ percent[2] \in Nat /\ percent[2] > 0
  BY <1>3
<1>5. n \in Int /\ (percent[1] = percent[2] => n = 100 * percent[2])
  BY <1>4
<1>6. whole \in Nat /\ whole > 0 /\ (percent[1] = percent[2] => n = whole)
  BY <1>4, <1>5
<1> HIDE DEF n, whole
<1>7. left \in 0 .. whole /\ (UsedUp("mimo", x) => left = 0)
  BY <1>3, <1>5, <1>6
<1> HIDE DEF left
<1>8. plan \in W /\ (UsedUp("mimo", x) => plan.status = "critical")
  <2>1. "plan" \in Label /\ left \in Int /\ left >= 0 /\ left <= whole
    BY <1>6, <1>7 DEF Label
  <2>2. plan \in W
    BY <1>6, <2>1, ShareIn
  <2>3. plan.status = QuotaStatus(left, whole)
    BY <1>6, <2>1, ShareWindow
  <2> QED
    BY <1>6, <1>7, <2>2, <2>3 DEF QuotaStatus
<1> HIDE DEF plan
<1>9. <<plan>> \in Seq(W) /\ Range(<<plan>>) = {plan}
  BY <1>8, OneIn
<1>10. Mimo(x).windows = <<plan>>
  BY <1>2, SomeIn
<1> QED
  BY <1>8, <1>9, <1>10 DEF Shows


\* The elements of a list are finitely many, and so is what is made of them.
LEMMA ImageFinite ==
    ASSUME NEW S, IsFiniteSet(S), NEW f, NEW T, T = {f[x] : x \in S}
    PROVE  IsFiniteSet(T)
<1> DEFINE g == [x \in S |-> f[x]]
<1>1. g \in Surjection(S, T)
  BY DEF Surjection
<1> QED
  BY <1>1, FS_Surjection

LEMMA RangeFinite ==
    ASSUME NEW E, NEW s \in Seq(E)
    PROVE  IsFiniteSet(Range(s)) /\ Range(s) \subseteq E
<1>1. DOMAIN s = 1 .. Len(s) /\ Len(s) \in Nat
  OBVIOUS
<1>2. IsFiniteSet(DOMAIN s)
  BY <1>1, FS_Interval
<1>3. Range(s) = {s[i] : i \in DOMAIN s}
  BY DEF Range
<1>4. \A i \in 1 .. Len(s) : s[i] \in E
  OBVIOUS
<1> QED
  BY <1>1, <1>2, <1>3, <1>4, ImageFinite

\* A list of as many elements as a set has, each once, has all of them.
LEMMA RankedAll ==
    ASSUME NEW labels, IsFiniteSet(labels), NEW s \in Ranked(labels)
    PROVE  s \in Seq(labels) /\ \A x \in labels : \E i \in 1 .. Len(s) : s[i] = x
<1> DEFINE n == Cardinality(labels)
<1>1. n \in Nat
  BY FS_CardinalityType
<1>2. s \in [1 .. n -> labels] /\ \A i, j \in 1 .. n : i # j => s[i] # s[j]
  BY DEF Ranked, SetToSeqs
<1>3. s \in Seq(labels) /\ Len(s) = n
  BY <1>1, <1>2
<1>4. ASSUME NEW x \in labels, ~\E i \in 1 .. n : s[i] = x
      PROVE  FALSE
  <2> DEFINE places == 1 .. n
             rest == labels \ {x}
  <2>1. IsFiniteSet(rest) /\ Cardinality(rest) = Cardinality(labels) - 1
    BY FS_RemoveElement
  <2>2. IsFiniteSet(places) /\ Cardinality(places) = n
    BY <1>1, FS_Interval
  <2>3. Cardinality(rest) < Cardinality(places)
    BY <1>1, <2>1, <2>2
  <2>4. s \in [places -> rest]
    BY <1>2, <1>4
  <2> HIDE DEF places, rest
  <2>5. \E i, j \in places : i # j /\ s[i] = s[j]
    BY <2>1, <2>2, <2>3, <2>4, FS_PigeonHole
  <2> QED
    BY <1>2, <2>5 DEF places
<1> QED
  BY <1>3, <1>4

\* The least of some numbers.
LEMMA MinIn ==
    ASSUME NEW T \in SUBSET Nat, T # {}
    PROVE  Min(T) \in T /\ \A n \in T : Min(T) <= n
<1>1. PICK m \in T : \A n \in T : m <= n
  BY NatLeast
<1> QED
  BY <1>1 DEF Min

LEMMA UpToHundred ==
    ASSUME NEW k \in 0 .. 100
    PROVE  k \in Int /\ k >= 0 /\ k <= 100
  OBVIOUS

\* A label of Gemini shows the fullest of its buckets, in whatever order the
\* labels come.
LEMMA GeminiShows ==
    ASSUME NEW x \in AnswersOf.gemini, NEW r \in Gemini(x), r.ok
    PROVE  Shows("gemini", x, r.windows)
<1> DEFINE W == WindowsOf("gemini")
           M == [family : STRING, version : Nat]
           E == [model : M, left : Int]
           named == {b \in Range(x.buckets) : b.model.family # ""}
           buckets == Those(x.buckets, named)
           labels == {ModelLabel(b.model) : b \in Range(buckets)}
           windowsOf(s) == [i \in 1 .. Len(s) |-> Share(s[i].family, BucketOf(buckets, s[i]), 100)]
<1>1. x.ok /\ r \in {ReportSome(windowsOf(s)) : s \in Ranked(labels)}
  <2>1. CASE ~x.ok
    <3>1. r = Failed
      BY <2>1 DEF Gemini
    <3> QED
      BY <3>1, SomeIn
  <2>2. CASE x.ok
    BY <2>2 DEF Gemini, Each
  <2> QED
    BY <2>1, <2>2
<1>2. x.buckets \in Seq(E)
  BY <1>1 DEF AnswersOf, Refused
<1> HIDE DEF E
<1>3. buckets \in Seq(E) /\ Range(buckets) = {b \in Range(x.buckets) : b.model.family # ""}
  <2>1. Range(x.buckets) \intersect named = named
    OBVIOUS
  <2> HIDE DEF named
  <2>2. buckets \in Seq(E) /\ Range(buckets) = named
    BY <1>2, <2>1, ThoseOf
  <2> QED
    BY <2>2 DEF named
<1> HIDE DEF buckets
<1>4. \A b \in Range(buckets) : b.model \in M /\ b.left \in Int
  <2>1. Range(buckets) \subseteq E
    BY <1>3, RangeFinite
  <2> QED
    BY <2>1 DEF E
<1>5. IsFiniteSet(labels) /\ \A label \in labels : label \in M
  <2> DEFINE f == [b \in Range(buckets) |-> ModelLabel(b.model)]
  <2>1. labels = {f[b] : b \in Range(buckets)} /\ IsFiniteSet(Range(buckets))
    BY <1>3, RangeFinite
  <2>2. \A b \in Range(buckets) : ModelLabel(b.model) \in M
    BY <1>4 DEF ModelLabel
  <2>3. \A label \in labels : label \in M
    BY <2>2
  <2> HIDE DEF f, labels
  <2>4. IsFiniteSet(labels)
    BY <2>1, ImageFinite
  <2> QED
    BY <2>3, <2>4
<1>6. ASSUME NEW label \in labels
      PROVE  /\ BucketOf(buckets, label) \in 0 .. 100
             /\ \A b \in Range(buckets) : ModelLabel(b.model) = label /\ b.left = 0 => BucketOf(buckets, label) = 0
  <2> DEFINE leftOf(b) == IF b.left = Missing THEN 100 ELSE Clamp(b.left)
             T == {leftOf(b) : b \in {c \in Range(buckets) : ModelLabel(c.model) = label}}
  <2>1. \A b \in Range(buckets) : leftOf(b) \in 0 .. 100 /\ (b.left = 0 => leftOf(b) = 0)
    BY <1>4 DEF Clamp, AtLeastZero, Missing
  <2> HIDE DEF leftOf
  <2>2. T \in SUBSET Nat /\ T # {} /\ T \subseteq 0 .. 100
    BY <2>1
  <2>3. BucketOf(buckets, label) = Min(T)
    BY DEF BucketOf, leftOf
  <2>4. Min(T) \in T /\ \A n \in T : Min(T) <= n
    BY <2>2, MinIn
  <2>5. \A b \in Range(buckets) : ModelLabel(b.model) = label => leftOf(b) \in T
    OBVIOUS
  <2> HIDE DEF T
  <2> QED
    BY <2>1, <2>2, <2>3, <2>4, <2>5
<1> HIDE DEF labels
<1>7. PICK s \in Ranked(labels) : r = ReportSome(windowsOf(s))
  BY <1>1
<1>8. s \in Seq(labels) /\ \A label \in labels : \E i \in 1 .. Len(s) : s[i] = label
  BY <1>5, RankedAll
<1> DEFINE ws == windowsOf(s)
<1>9. ASSUME NEW i \in 1 .. Len(s)
      PROVE  ws[i] \in W /\ (BucketOf(buckets, s[i]) = 0 => ws[i].status = "critical")
  <2>1. s[i] \in labels
    BY <1>8
  <2>2. s[i].family \in Label
    BY <1>5, <2>1 DEF Label
  <2> DEFINE left == BucketOf(buckets, s[i])
  <2>3. left \in Int /\ left >= 0 /\ left <= 100
    <3>1. left \in 0 .. 100
      BY <1>6, <2>1
    <3> HIDE DEF left, ws
    <3> QED
      BY <3>1, UpToHundred
  <2>4. ws[i] = Share(s[i].family, left, 100)
    OBVIOUS
  <2> HIDE DEF left, ws
  <2>5. ws[i] \in W
    BY <2>2, <2>3, <2>4, ShareIn
  <2>6. ws[i].status = QuotaStatus(left, 100)
    BY <2>2, <2>3, <2>4, ShareWindow
  <2>7. left = 0 => ws[i].status = "critical"
    BY <2>6 DEF QuotaStatus
  <2> QED
    BY <2>5, <2>7 DEF left
<1>10. ws \in Seq(W) /\ Range(ws) = {ws[i] : i \in 1 .. Len(s)}
  <2>1. \A i \in 1 .. Len(s) : ws[i] \in W
    BY <1>9
  <2>2. ws = [i \in 1 .. Len(s) |-> ws[i]]
    OBVIOUS
  <2>3. Len(s) \in Nat
    BY <1>8
  <2> HIDE DEF ws
  <2>4. Mapped(Len(s), W, ws)
    BY <2>1, <2>2 DEF Mapped
  <2> QED
    BY <2>3, <2>4, EachIn
<1>11. r.windows = ws
  BY <1>7, SomeIn
<1> HIDE DEF ws
<1>12. ASSUME UsedUp("gemini", x)
       PROVE  \E w \in Range(ws) : w.status = "critical"
  <2>1. PICK b \in Range(buckets) : b.left = 0
    BY <1>3, <1>12 DEF UsedUp
  <2>2. ModelLabel(b.model) \in labels
    BY DEF labels
  <2>3. PICK i \in 1 .. Len(s) : s[i] = ModelLabel(b.model)
    BY <1>8, <2>2
  <2>4. BucketOf(buckets, s[i]) = 0
    BY <1>6, <2>1, <2>2, <2>3
  <2> QED
    BY <1>9, <1>10, <2>4
<1> QED
  BY <1>10, <1>11, <1>12 DEF Shows


\* The elements of a list.
LEMMA ElementIn ==
    ASSUME NEW E, NEW s \in Seq(E), NEW i \in 1 .. Len(s)
    PROVE  s[i] \in E /\ s[i] \in Range(s)
  BY DEF Range

LEMMA NarrowIn ==
    ASSUME NEW E, NEW s \in Seq(E), NEW W, \A x \in Range(s) : x \in W
    PROVE  s \in Seq(W)
<1>1. DOMAIN s = 1 .. Len(s) /\ Len(s) \in Nat /\ s = [i \in 1 .. Len(s) |-> s[i]]
  OBVIOUS
<1>2. \A i \in 1 .. Len(s) : s[i] \in W
  BY <1>1 DEF Range
<1>3. Mapped(Len(s), W, s)
  BY <1>1, <1>2 DEF Mapped
<1> QED
  BY <1>1, <1>3, EachIn

\* The list of the coding plan.
LEMMA PlanShows ==
    ASSUME NEW a, a.ok, a.limits \in Seq([type : STRING, unit : Int, used : Int])
    PROVE  \E list \in Seq(WindowsOf("zhipu")) :
               /\ ZhipuPlan(a) = ReportSome(list)
               /\ Len(a.limits) <= 2 => \A w \in Range(a.limits) :
                      w.type \in {"TOKENS_LIMIT", "CREDIT_LIMIT"} /\ w.used >= 100 =>
                          \E v \in Range(list) : v.status = "critical"
<1> DEFINE E == [type : STRING, unit : Int, used : Int]
           W == WindowsOf("zhipu")
           known == {w \in Range(a.limits) : w.type \in {"TOKENS_LIMIT", "CREDIT_LIMIT"}}
           units == {w \in known : w.unit \in {3, 6}}
           first == Those(a.limits, units)
           rest == Those(a.limits, known \ units)
           labelOf(w) == IF w.unit = 3 THEN "5h" ELSE "week"
           labelled == [i \in 1 .. Len(first) |-> Used(labelOf(first[i]), OrZero(first[i].used))]
           list == FoldLeft(Place, labelled, rest)
<1>1. ZhipuPlan(a) = ReportSome(list)
  BY DEF ZhipuPlan, Each
<1>2. units \intersect (known \ units) = {} /\ known \subseteq Range(a.limits) /\ units \subseteq known
  OBVIOUS
<1>3. a.limits \in Seq(E)
  OBVIOUS
<1>4. ASSUME NEW w \in E, NEW label \in {"5h", "week"}
      PROVE  /\ OrZero(w.used) \in Int /\ Used(label, OrZero(w.used)) \in W
             /\ w.used >= 100 => Used(label, OrZero(w.used)).status = "critical"
  <2>1. w.used \in Int /\ label \in Label
    BY DEF Label
  <2>2. OrZero(w.used) \in Int /\ (w.used >= 100 => OrZero(w.used) >= 100)
    BY <2>1 DEF OrZero, Missing
  <2> QED
    BY <2>1, <2>2, UsedIn
<1>5. \A w \in E : w.used \in Int
  OBVIOUS
<1> HIDE DEF E, units, known
<1>6. /\ first \in Seq(E) /\ Range(first) = units /\ rest \in Seq(E) /\ Range(rest) = known \ units
      /\ Len(first) + Len(rest) <= Len(a.limits)
  <2>1. Range(a.limits) \intersect units = units /\ Range(a.limits) \intersect (known \ units) = known \ units
    BY <1>2
  <2>2. first \in Seq(E) /\ Range(first) = units
    BY <1>3, <2>1, ThoseOf
  <2>3. rest \in Seq(E) /\ Range(rest) = known \ units
    BY <1>3, <2>1, ThoseOf
  <2>4. Len(first) + Len(rest) <= Len(a.limits)
    BY <1>2, <1>3, ThoseShort
  <2> QED
    BY <2>2, <2>3, <2>4
<1> HIDE DEF first, rest
<1>7. Len(first) \in Nat /\ Len(rest) \in Nat /\ Len(a.limits) \in Nat /\ DOMAIN first = 1 .. Len(first)
  BY <1>3, <1>6
<1>8. \A i \in 1 .. Len(first) : first[i] \in E /\ first[i] \in Range(first)
  BY <1>6, ElementIn
<1>9. ASSUME NEW i \in 1 .. Len(first)
      PROVE  labelled[i] \in W /\ (first[i].used >= 100 => labelled[i].status = "critical")
  <2>1. labelOf(first[i]) \in {"5h", "week"} /\ first[i] \in E
    BY <1>8
  <2>2. labelled[i] = Used(labelOf(first[i]), OrZero(first[i].used))
    OBVIOUS
  <2> HIDE DEF labelOf
  <2> QED
    BY <1>4, <2>1, <2>2
<1>10. labelled \in Seq(W) /\ Range(labelled) = {labelled[i] : i \in 1 .. Len(first)} /\ Len(labelled) = Len(first)
  <2>1. \A i \in 1 .. Len(first) : labelled[i] \in W
    BY <1>9
  <2>2. labelled = [i \in 1 .. Len(first) |-> labelled[i]]
    OBVIOUS
  <2>3. DOMAIN labelled = 1 .. Len(first)
    OBVIOUS
  <2> HIDE DEF labelled
  <2>4. Mapped(Len(first), W, labelled)
    BY <2>1, <2>2 DEF Mapped
  <2>5. labelled \in Seq(W) /\ Range(labelled) = {labelled[i] : i \in 1 .. Len(first)}
    BY <1>7, <2>4, EachIn
  <2> QED
    BY <1>7, <2>3, <2>5
<1> HIDE DEF labelled
<1>11. labelled \in Seq(Window)
  BY <1>10, RangeFinite, NarrowIn DEF WindowsOf
<1>12. /\ list \in Seq(Window) /\ Range(labelled) \subseteq Range(list)
       /\ Len(labelled) + Len(rest) <= 2 => \A w \in Range(rest) : \E label \in {"5h", "week"} :
              Used(label, OrZero(w.used)) \in Range(list)
       /\ \A x \in Range(list) :
              \/ x \in Range(labelled)
              \/ \E w \in Range(rest) : \E label \in {"5h", "week"} : x = Used(label, OrZero(w.used))
  BY <1>5, <1>6, <1>11, PlacedAll
<1> HIDE DEF list
<1>13. \A w \in Range(rest) : w \in E
  BY <1>6, RangeFinite
<1>14. list \in Seq(W)
  <2>1. \A x \in Range(labelled) : x \in W
    BY <1>10, RangeFinite
  <2>2. \A x \in Range(list) : x \in W
    BY <1>4, <1>12, <1>13, <2>1
  <2> HIDE DEF W
  <2> QED
    BY <1>12, <2>2, NarrowIn
<1>15. ASSUME Len(a.limits) <= 2, NEW w \in known, w.used >= 100
       PROVE  \E v \in Range(list) : v.status = "critical"
  <2>1. CASE w \in units
    <3>1. PICK i \in 1 .. Len(first) : first[i] = w
      BY <1>6, <1>7, <2>1 DEF Range
    <3> QED
      BY <1>9, <1>10, <1>12, <1>15, <3>1
  <2>2. CASE w \notin units
    <3>1. w \in Range(rest) /\ w \in E
      BY <1>6, <1>13, <2>2
    <3>2. Len(labelled) + Len(rest) <= 2
      BY <1>6, <1>7, <1>10, <1>15
    <3>3. PICK label \in {"5h", "week"} : Used(label, OrZero(w.used)) \in Range(list)
      BY <1>12, <3>1, <3>2
    <3> QED
      BY <1>4, <1>15, <3>1, <3>3
  <2> QED
    BY <2>1, <2>2
<1> QED
  BY <1>1, <1>14, <1>15 DEF known

\* Zhipu: the plan, or what it falls back to.
LEMMA ZhipuShows ==
    ASSUME NEW x \in AnswersOf.zhipu, Zhipu(x).ok
    PROVE  Shows("zhipu", x, Zhipu(x).windows)
<1> DEFINE W == WindowsOf("zhipu")
<1>1. /\ x.plan.ok => x.plan.limits \in Seq([type : STRING, unit : Int, used : Int])
      /\ x.plan.ok \in BOOLEAN
      /\ x.report.ok => x.report.balance \in Int
  BY DEF AnswersOf, Refused
<1>2. ASSUME ZhipuPlan(x.plan).ok
      PROVE  Shows("zhipu", x, ZhipuPlan(x.plan).windows)
  <2>1. x.plan.ok
    BY <1>2, SomeIn DEF ZhipuPlan
  <2>2. PICK list \in Seq(W) :
            /\ ZhipuPlan(x.plan) = ReportSome(list)
            /\ Len(x.plan.limits) <= 2 => \A w \in Range(x.plan.limits) :
                   w.type \in {"TOKENS_LIMIT", "CREDIT_LIMIT"} /\ w.used >= 100 =>
                       \E v \in Range(list) : v.status = "critical"
    BY <1>1, <2>1, PlanShows
  <2>3. ZhipuPlan(x.plan).windows = list
    BY <1>2, <2>2, SomeIn
  <2>4. UsedUp("zhipu", x) => \E v \in Range(list) : v.status = "critical"
    BY <2>2 DEF UsedUp
  <2> QED
    BY <2>2, <2>3, <2>4 DEF Shows
<1>3. ASSUME ~ZhipuPlan(x.plan).ok
      PROVE  ~UsedUp("zhipu", x)
  <2> SUFFICES ASSUME UsedUp("zhipu", x)
               PROVE  FALSE
    OBVIOUS
  <2>1. x.plan.ok /\ Len(x.plan.limits) <= 2 /\ \E w \in Range(x.plan.limits) :
            w.type \in {"TOKENS_LIMIT", "CREDIT_LIMIT"} /\ w.used >= 100
    BY DEF UsedUp
  <2>2. PICK list \in Seq(W) :
            /\ ZhipuPlan(x.plan) = ReportSome(list)
            /\ Len(x.plan.limits) <= 2 => \A w \in Range(x.plan.limits) :
                   w.type \in {"TOKENS_LIMIT", "CREDIT_LIMIT"} /\ w.used >= 100 =>
                       \E v \in Range(list) : v.status = "critical"
    BY <1>1, <2>1, PlanShows
  <2>3. list # <<>>
    BY <2>1, <2>2 DEF Range
  <2> QED
    BY <1>3, <2>2, <2>3, SomeIn DEF ReportSome
<1>4. ASSUME ZhipuBalance(x.report).ok
      PROVE  ZhipuBalance(x.report).windows \in Seq(W)
  <2> DEFINE w == Amount("balance", x.report.balance, BalanceStatus(x.report.balance))
  <2>1. x.report.ok /\ ZhipuBalance(x.report) = Report(<<w>>)
    BY <1>4, SomeIn DEF ZhipuBalance
  <2>2. "balance" \in Label /\ BalanceStatus(x.report.balance) \in Status
    BY DEF Label, BalanceStatus, Status
  <2>3. w \in W
    BY <1>1, <2>1, <2>2, AmountIn
  <2> HIDE DEF w
  <2>4. <<w>> \in Seq(W)
    BY <2>3, OneIn
  <2>5. ZhipuBalance(x.report).windows = <<w>>
    BY <2>1, SomeIn
  <2> QED
    BY <2>4, <2>5
<1>5. Report(<<>>).windows \in Seq(W)
  <2>1. Report(<<>>).windows = <<>>
    BY SomeIn
  <2>2. <<>> \in Seq(W)
    OBVIOUS
  <2> QED
    BY <2>1, <2>2, Zenon
<1>6. CASE ZhipuPlan(x.plan).ok
  BY <1>2, <1>6 DEF Zhipu
<1>7. CASE ~ZhipuPlan(x.plan).ok /\ ZhipuBalance(x.report).ok
  BY <1>3, <1>4, <1>7 DEF Zhipu, Shows
<1>8. CASE ~ZhipuPlan(x.plan).ok /\ ~ZhipuBalance(x.report).ok
  <2>1. Zhipu(x) = Report(<<>>)
    BY <1>8, SomeIn DEF Zhipu
  <2> QED
    BY <1>3, <1>5, <1>8, <2>1 DEF Shows
<1> QED
  BY <1>6, <1>7, <1>8

LEMMA QoderShows ==
    ASSUME NEW x \in AnswersOf.qoder, Qoder(x).ok
    PROVE  Shows("qoder", x, Qoder(x).windows)
<1> DEFINE E == [label : STRING, total : Int, left : Int]
           W == WindowsOf("qoder")
           ws == [i \in 1 .. Len(x.quotas) |-> Sized(x.quotas[i].label, x.quotas[i].left, x.quotas[i].total)]
<1>1. x.ok /\ Qoder(x) = Report(ws)
  BY SomeIn DEF Qoder, Each
<1>2. x.quotas \in Seq(E)
  BY <1>1 DEF AnswersOf, Refused
<1>3. Len(x.quotas) \in Nat /\ DOMAIN x.quotas = 1 .. Len(x.quotas)
  BY <1>2
<1>4. ASSUME NEW i \in 1 .. Len(x.quotas)
      PROVE  /\ ws[i] \in W
             /\ x.quotas[i].total > 0 /\ x.quotas[i].left = 0 => ws[i].status = "critical"
  <2>1. x.quotas[i] \in E
    BY <1>2, ElementIn
  <2>2. x.quotas[i].label \in Label /\ x.quotas[i].total \in Int /\ x.quotas[i].left \in Int
    BY <2>1 DEF Label
  <2>3. ws[i] = Sized(x.quotas[i].label, x.quotas[i].left, x.quotas[i].total)
    OBVIOUS
  <2>4. "qoder" \notin Percents /\ "qoder" \notin Subtracts
    BY DEF Percents, Subtracts
  <2> DEFINE label == x.quotas[i].label
             left == x.quotas[i].left
             total == x.quotas[i].total
  <2> HIDE DEF label, left, total, ws
  <2>5. Sized(label, left, total) \in W /\ (total > 0 /\ left = 0 => Sized(label, left, total).status = "critical")
    BY <2>2, <2>4, SizedIn DEF label, left, total
  <2> QED
    BY <2>3, <2>5 DEF label, left, total
<1>5. ws \in Seq(W) /\ Range(ws) = {ws[i] : i \in 1 .. Len(x.quotas)}
  <2>1. \A i \in 1 .. Len(x.quotas) : ws[i] \in W
    BY <1>4
  <2>2. ws = [i \in 1 .. Len(x.quotas) |-> ws[i]]
    OBVIOUS
  <2> HIDE DEF ws
  <2>3. Mapped(Len(x.quotas), W, ws)
    BY <2>1, <2>2 DEF Mapped
  <2> QED
    BY <1>3, <2>3, EachIn
<1>6. ASSUME UsedUp("qoder", x)
      PROVE  \E w \in Range(ws) : w.status = "critical"
  <2>1. PICK w \in Range(x.quotas) : w.total > 0 /\ w.left = 0
    BY <1>6 DEF UsedUp
  <2>2. PICK i \in 1 .. Len(x.quotas) : x.quotas[i] = w
    BY <1>3, <2>1 DEF Range
  <2> QED
    BY <1>4, <1>5, <2>1, <2>2
<1> HIDE DEF ws
<1>7. Qoder(x).windows = ws
  BY <1>1, SomeIn
<1> QED
  BY <1>5, <1>6, <1>7 DEF Shows


\* The clients that answer with amounts.
LEMMA TraeShows ==
    ASSUME NEW x \in AnswersOf.trae, Trae(x).ok
    PROVE  Shows("trae", x, Trae(x).windows)
<1> DEFINE P == [hidden : BOOLEAN, base : TraeQuota, subscription : TraeQuota, package : TraeQuota, used : TraeQuota]
           W == WindowsOf("trae")
           shown == {p \in Range(x.packs) : LET q == EffectiveQuota(p) IN
                       ~p.hidden /\ (q.credits >= 0 \/ (q.credits = Missing /\ q.basic # Missing))}
           total(p) == LET q == EffectiveQuota(p) IN
                       IF q.credits # Missing THEN q.credits ELSE q.basic + OrZero(q.bonus)
           used(p) == IF EffectiveQuota(p).credits # Missing THEN OrZero(p.used.credits)
                      ELSE OrZero(p.used.basic) + OrZero(p.used.bonus)
           window(p) == IF total(p) > 0 THEN Share("pack", AtLeastZero(total(p) - used(p)), total(p))
                        ELSE Share("pack", 1, 1)
           packs == Those(x.packs, shown)
           ws == [i \in 1 .. Len(packs) |-> window(packs[i])]
<1>1. x.ok /\ Trae(x) = ReportSome(ws)
  BY SomeIn DEF Trae, Each
<1>2. x.packs \in Seq(P)
  BY <1>1 DEF AnswersOf, Refused
<1>3. ASSUME NEW p \in P
      PROVE  window(p) \in W
  <2>1. \A q \in TraeQuota : OrZero(q.credits) \in Int /\ OrZero(q.basic) \in Int /\ OrZero(q.bonus) \in Int
    BY DEF TraeQuota, OrZero
  <2>2. EffectiveQuota(p) \in TraeQuota /\ p.used \in TraeQuota
    BY DEF EffectiveQuota
  <2>3. total(p) \in Int /\ used(p) \in Int
    BY <2>1, <2>2 DEF TraeQuota
  <2> HIDE DEF total, used
  <2>4. AtLeastZero(total(p) - used(p)) \in Nat
    BY <2>3 DEF AtLeastZero
  <2>5. "pack" \in Label /\ "trae" \notin Percents
    BY DEF Label, Percents
  <2>6. total(p) > 0 => Share("pack", AtLeastZero(total(p) - used(p)), total(p)) \in W
    BY <2>3, <2>4, <2>5, ShareIn
  <2>7. Share("pack", 1, 1) \in W
    BY <2>5, ShareIn
  <2> QED
    BY <2>6, <2>7
<1> HIDE DEF P, shown, window
<1>4. packs \in Seq(P)
  BY <1>2, ThoseOf
<1> HIDE DEF packs
<1>5. ws \in Seq(W)
  <2>1. \A i \in 1 .. Len(packs) : ws[i] \in W
    BY <1>3, <1>4, ElementIn
  <2>2. ws = [i \in 1 .. Len(packs) |-> ws[i]]
    OBVIOUS
  <2>3. Len(packs) \in Nat
    BY <1>4
  <2> HIDE DEF ws
  <2>4. Mapped(Len(packs), W, ws)
    BY <2>1, <2>2 DEF Mapped
  <2> QED
    BY <2>3, <2>4, EachIn
<1> HIDE DEF ws
<1>6. Trae(x).windows = ws /\ ~UsedUp("trae", x)
  BY <1>1, SomeIn DEF UsedUp
<1> QED
  BY <1>5, <1>6 DEF Shows

LEMMA DeepSeekShows ==
    ASSUME NEW x \in AnswersOf.deepseek, DeepSeek(x).ok
    PROVE  Shows("deepseek", x, DeepSeek(x).windows)
<1> DEFINE W == WindowsOf("deepseek")
           status == IF x.available THEN "healthy" ELSE "critical"
           w == Amount("balance", OrZero(x.total), status)
<1>1. x.ok /\ DeepSeek(x) = Report(<<w>>)
  BY SomeIn DEF DeepSeek
<1>2. status \in Status /\ "balance" \in Label
  BY DEF Status, Label
<1> HIDE DEF status
<1>3. x.total \in Int
  BY <1>1 DEF AnswersOf, Refused
<1>4. OrZero(x.total) \in Int
  BY <1>3 DEF OrZero
<1>5. w \in W
  BY <1>2, <1>4, AmountIn
<1> HIDE DEF w
<1>6. <<w>> \in Seq(W)
  BY <1>5, OneIn
<1>7. DeepSeek(x).windows = <<w>> /\ ~UsedUp("deepseek", x)
  BY <1>1, SomeIn DEF UsedUp
<1> QED
  BY <1>6, <1>7 DEF Shows

LEMMA AliyunShows ==
    ASSUME NEW x \in AnswersOf.aliyun, Aliyun(x).ok
    PROVE  Shows("aliyun", x, Aliyun(x).windows)
<1> DEFINE W == WindowsOf("aliyun")
           available == Amount("available", x.available, "healthy")
           cash == Amount("cash", x.cash, "healthy")
           more == IF x.cash = Missing THEN <<>> ELSE <<cash>>
<1>1. x.ok /\ Aliyun(x) = Report(<<available>> \o more)
  BY SomeIn DEF Aliyun
<1>2. x.available \in Int /\ x.cash \in Int
  BY <1>1 DEF AnswersOf, Refused
<1>3. "healthy" \in Status /\ "available" \in Label /\ "cash" \in Label
  BY DEF Status, Label
<1>4. available \in W /\ cash \in W
  BY <1>2, <1>3, AmountIn
<1> HIDE DEF available, cash
<1>5. <<available>> \in Seq(W) /\ more \in Seq(W)
  BY <1>4, OneIn
<1> DEFINE first == <<available>>
<1> HIDE DEF first, more
<1>6. first \o more \in Seq(W)
  BY <1>5, ConcatIn DEF first
<1>7. Aliyun(x).windows = first \o more /\ ~UsedUp("aliyun", x)
  BY <1>1, SomeIn DEF UsedUp, first
<1> QED
  BY <1>6, <1>7 DEF Shows

LEMMA GenericShows ==
    ASSUME NEW x \in AnswersOf.generic, Generic(x).ok
    PROVE  Shows("generic", x, Generic(x).windows)
<1> DEFINE W == WindowsOf("generic")
           total == IF x.total.asked THEN x.total.value ELSE 0
           w == Sized("quota", x.value, total)
<1>1. x.ok /\ Generic(x) = Report(<<w>>)
  BY SomeIn DEF Generic
<1>2. x.value \in Int /\ x.total \in GenericPath
  BY <1>1 DEF AnswersOf, Refused
<1>3. total \in Int /\ "quota" \in Label /\ "generic" \notin Percents /\ "generic" \notin Subtracts
  BY <1>2 DEF GenericPath, Label, Percents, Subtracts
<1> HIDE DEF total
<1>4. w \in W
  BY <1>2, <1>3, SizedIn
<1> HIDE DEF w
<1>5. <<w>> \in Seq(W)
  BY <1>4, OneIn
<1>6. Generic(x).windows = <<w>> /\ ~UsedUp("generic", x)
  BY <1>1, SomeIn DEF UsedUp
<1> QED
  BY <1>5, <1>6 DEF Shows

LEMMA CozeShows ==
    ASSUME NEW x \in AnswersOf.coze, NEW r \in Coze(x), r.ok
    PROVE  Shows("coze", x, r.windows)
<1> DEFINE W == WindowsOf("coze")
<1>1. x.outer \in CozeFields /\ x.inner \subseteq CozeFields
  BY DEF AnswersOf
<1>2. FindNumber(x, "balance") \subseteq Int
  BY <1>1 DEF FindNumber, CozeFields, Missing
<1>3. FindNumber(x, "total") \subseteq Int
  BY <1>1 DEF FindNumber, CozeFields, Missing
<1>4. PICK left \in Int, total \in Int : r = Report(<<Sized("credits", left, total)>>)
  BY <1>2, <1>3, SomeIn DEF Coze
<1> DEFINE w == Sized("credits", left, total)
<1>5. "credits" \in Label /\ "coze" \notin Percents /\ "coze" \notin Subtracts
  BY DEF Label, Percents, Subtracts
<1>6. w \in W
  BY <1>5, SizedIn
<1> HIDE DEF w
<1>7. <<w>> \in Seq(W)
  BY <1>6, OneIn
<1>8. r.windows = <<w>> /\ ~UsedUp("coze", x)
  BY <1>4, SomeIn DEF UsedUp, w
<1> QED
  BY <1>7, <1>8 DEF Shows

\* Packages as they are read.
Packages == {r \in [code : STRING, total : Int, left : Int, used : Int, expires : Nat] : r.left >= 0}

LEMMA NormalizeIn ==
    ASSUME NEW r \in CreditResource
    PROVE  Normalize(r) \in Packages /\ Normalize(r).code = r.code
<1>1. r.total \in Int /\ r.left \in Int /\ r.used \in Int /\ r.code \in STRING /\ r.expires \in Nat
  BY DEF CreditResource
<1>2. r = [code |-> r.code, total |-> r.total, left |-> r.left, used |-> r.used, expires |-> r.expires]
  BY DEF CreditResource
<1> DEFINE total == IF r.total # Missing THEN r.total ELSE OrZero(r.left) + OrZero(r.used)
           left == IF r.left # Missing THEN r.left ELSE total - OrZero(r.used)
           used == IF r.used # Missing THEN r.used
                   ELSE total - (IF r.left # Missing THEN r.left ELSE AtLeastZero(total))
<1>3. total \in Int
  BY <1>1 DEF OrZero
<1>4. left \in Int /\ used \in Int
  BY <1>1, <1>3 DEF OrZero, AtLeastZero
<1>5. Normalize(r) = [r EXCEPT !.total = AtLeastZero(total), !.left = AtLeastZero(left), !.used = AtLeastZero(used)]
  BY DEF Normalize
<1> HIDE DEF total, left, used
<1>6. AtLeastZero(total) \in Int /\ AtLeastZero(left) \in Nat /\ AtLeastZero(used) \in Int
  BY <1>3, <1>4 DEF AtLeastZero
<1>7. Normalize(r) = [code |-> r.code, total |-> AtLeastZero(total), left |-> AtLeastZero(left),
                      used |-> AtLeastZero(used), expires |-> r.expires]
  BY <1>2, <1>5
<1> QED
  BY <1>1, <1>6, <1>7 DEF Packages

LEMMA ItemsIn ==
    ASSUME NEW reply \in CreditReply
    PROVE  Items(reply) \in Seq(Packages)
<1> DEFINE m == [i \in 1 .. Len(reply.items) |-> Normalize(reply.items[i])]
<1>1. reply.items \in Seq(CreditResource)
  BY DEF CreditReply
<1>2. \A i \in 1 .. Len(reply.items) : m[i] \in Packages
  BY <1>1, ElementIn, NormalizeIn
<1>3. Len(reply.items) \in Nat
  BY <1>1
<1>4. m = [i \in 1 .. Len(reply.items) |-> m[i]]
  OBVIOUS
<1>5. Items(reply) = IF Recognised(reply) THEN m ELSE <<>>
  BY DEF Items, Each
<1> HIDE DEF m
<1>6. m \in Seq(Packages)
  BY <1>2, <1>3, <1>4, EachIn DEF Mapped
<1> QED
  BY <1>5, <1>6


-----------------------------------------------------------------------------
(* The sums of credits.                                                    *)

\* A sum over a set, one element after another as CHOOSE picks them.
Picked(s) == CHOOSE x \in s : TRUE
AddsLeft(g, s) == IF s = {} THEN 0 ELSE Picked(s).left + g[s \ {Picked(s)}]
SumsLeft(S, g) == g = [s \in SUBSET S |-> AddsLeft(g, s)]
HaveLeft(S) == IsFiniteSet(S) /\ \A x \in S : x.left \in Int
\* The order makes no difference.
AnyOrder(S, g) ==
    g[{}] = 0 /\ \A s \in SUBSET S : g[s] \in Int /\ \A x \in s : g[s] = x.left + g[s \ {x}]

\* The value of LeftOf is that of a function that adds up one element after
\* another; there is one, and it does not matter which element comes first.
LEMMA LeftOfIsSum ==
    ASSUME NEW S, NEW g, SumsLeft(S, g)
    PROVE  \E h : SumsLeft(S, h) /\ LeftOf(S) = h[S]
<1>1. LeftOf(S) = (CHOOSE h : SumsLeft(S, h))[S]
  BY DEF LeftOf, MapThenSumSet, MapThenFoldSet, SumsLeft, AddsLeft, Picked
<1> QED
  BY <1>1

LEMMA SumsLeftExist ==
    ASSUME NEW S, HaveLeft(S)
    PROVE  \E g : SumsLeft(S, g)
<1> DEFINE pick == [s \in SUBSET S |-> Picked(s)]
           step == [q \in (SUBSET S) \X Int |-> IF q[1] = {} THEN 0 ELSE Picked(q[1]).left + q[2]]
<1>1. \A s \in SUBSET S : pick[s] = Picked(s) /\ (s # {} => Picked(s) \in s)
  BY DEF Picked
<1>2. ASSUME NEW s \in SUBSET S, NEW v \in Int
      PROVE  step[<<s, v>>] = (IF s = {} THEN 0 ELSE Picked(s).left + v) /\ step[<<s, v>>] \in Int
  <2>1. step[<<s, v>>] = IF s = {} THEN 0 ELSE Picked(s).left + v
    OBVIOUS
  <2>2. s # {} => Picked(s).left \in Int
    BY <1>1 DEF HaveLeft
  <2> HIDE DEF step
  <2> QED
    BY <2>1, <2>2
<1> HIDE DEF pick, step
<1>3. PICK g : Folds(S, 0, pick, step, g) /\ \A s \in SUBSET S : g[s] \in Int
  <2>1. \A s \in SUBSET S : s # {} => pick[s] \in s
    BY <1>1
  <2>2. \A s \in SUBSET S, v \in Int : step[<<s, v>>] \in Int
    BY <1>2
  <2>3. 0 \in Int /\ IsFiniteSet(S)
    BY DEF HaveLeft
  <2> QED
    BY <2>1, <2>2, <2>3, FoldsExist
<1>4. ASSUME NEW s \in SUBSET S
      PROVE  (IF s = {} THEN 0 ELSE step[<<s, g[s \ {pick[s]}]>>]) = AddsLeft(g, s)
  <2>1. pick[s] = Picked(s) /\ g[s \ {Picked(s)}] \in Int
    BY <1>1, <1>3
  <2> QED
    BY <1>2, <2>1 DEF AddsLeft
<1>5. g = [s \in SUBSET S |-> AddsLeft(g, s)]
  BY <1>3, <1>4, Zenon DEF Folds
<1> QED
  BY <1>5 DEF SumsLeft

LEMMA SumsLeftAnyOrder ==
    ASSUME NEW S, HaveLeft(S), NEW g, SumsLeft(S, g)
    PROVE  AnyOrder(S, g)
<1> DEFINE Fine(s) == g[s] \in Int /\ \A x \in s : g[s] = x.left + g[s \ {x}]
           B == {s \in SUBSET S : ~Fine(s)}
<1>0. \A s \in SUBSET S : IsFiniteSet(s) /\ g[s] = AddsLeft(g, s)
  BY FS_Subset DEF HaveLeft, SumsLeft
<1>1. g[{}] = 0
  BY <1>0 DEF AddsLeft
<1> SUFFICES ASSUME B # {}
             PROVE  FALSE
  BY <1>1 DEF AnyOrder
<1>2. PICK s \in B : \A v \in B : Cardinality(s) <= Cardinality(v)
  <2>1. \A s \in B : IsFiniteSet(s)
    BY <1>0
  <2> HIDE DEF B
  <2> QED
    BY <2>1, SmallestSet
<1>3. s \in SUBSET S /\ ~Fine(s) /\ s # {}
  <2>1. s \in SUBSET S /\ ~Fine(s)
    OBVIOUS
  <2>2. g[s] # 0 \/ s # {}
    BY <1>1, <2>1
  <2>3. s = {} => g[s] = 0
    BY <1>1
  <2> QED
    BY <2>1, <2>2, <2>3
<1>4. ASSUME NEW v \in SUBSET s, NEW x \in s \ v
      PROVE  Fine(v)
  <2>1. IsFiniteSet(s) /\ IsFiniteSet(v) /\ Cardinality(s) \in Nat /\ Cardinality(v) \in Nat
    BY <1>0, <1>3, FS_Subset, FS_CardinalityType
  <2>2. IsFiniteSet(s \ {x}) /\ Cardinality(s \ {x}) = Cardinality(s) - 1
    BY <1>4, <2>1, FS_RemoveElement
  <2>3. Cardinality(v) <= Cardinality(s \ {x}) /\ Cardinality(s \ {x}) \in Nat
    BY <1>4, <2>2, FS_Subset, FS_CardinalityType
  <2>4. ~(Cardinality(s) <= Cardinality(v))
    BY <2>1, <2>2, <2>3
  <2>5. v \notin B
    BY <1>2, <2>4
  <2> QED
    BY <1>3, <2>5
<1> DEFINE c == Picked(s)
<1>5. c \in s
  BY <1>3 DEF Picked
<1>6. g[s] = c.left + g[s \ {c}]
  BY <1>0, <1>3 DEF AddsLeft
<1> HIDE DEF c
<1>7. Fine(s \ {c})
  BY <1>4, <1>5
<1>8. \A x \in S : x.left \in Int
  BY DEF HaveLeft
<1>9. g[s] \in Int
  BY <1>3, <1>5, <1>6, <1>7, <1>8
<1>10. ASSUME NEW x \in s
       PROVE  g[s] = x.left + g[s \ {x}]
  <2>1. CASE x = c
    BY <1>6, <2>1
  <2>2. CASE x # c
    <3> DEFINE w == (s \ {x}) \ {c}
    <3>1. Fine(s \ {x}) /\ Fine(w)
      BY <1>4, <1>5
    <3>2. (s \ {c}) \ {x} = w /\ w \in SUBSET s
      OBVIOUS
    <3>3. g[s \ {c}] = x.left + g[w] /\ g[s \ {x}] = c.left + g[w]
      BY <1>5, <1>7, <2>2, <3>1, <3>2
    <3>4. x.left \in Int /\ c.left \in Int /\ g[w] \in Int
      BY <1>3, <1>5, <1>8, <3>1
    <3> QED
      BY <1>6, <3>3, <3>4
  <2> QED
    BY <2>1, <2>2
<1> QED
  BY <1>3, <1>9, <1>10

\* What LeftOf is: nothing for no packages, and one package's credits more
\* for one package more.
LEMMA LeftOfMore ==
    ASSUME NEW S, HaveLeft(S)
    PROVE  /\ LeftOf({}) = 0
           /\ LeftOf(S) \in Int
           /\ \A x \in S : LeftOf(S) = x.left + LeftOf(S \ {x})
<1>1. PICK g : SumsLeft(S, g)
  BY SumsLeftExist
<1>2. AnyOrder(S, g)
  BY <1>1, SumsLeftAnyOrder
<1> USE DEF AnyOrder
<1>3. ASSUME NEW V \in SUBSET S
      PROVE  LeftOf(V) = g[V]
  <2>1. HaveLeft(V)
    BY FS_Subset DEF HaveLeft
  <2>2. PICK h : SumsLeft(V, h) /\ LeftOf(V) = h[V]
    BY <2>1, SumsLeftExist, LeftOfIsSum
  <2>3. AnyOrder(V, h)
    BY <2>1, <2>2, SumsLeftAnyOrder
  <2> DEFINE G == {s \in SUBSET V : g[s] = h[s]}
  <2>4. {} \in G
    BY <1>2, <2>3
  <2>5. ASSUME NEW T \in SUBSET V, NEW x \in V \ T, T \in G
        PROVE  T \union {x} \in G
    <3> DEFINE U == T \union {x}
    <3>1. U \in SUBSET V /\ U \in SUBSET S /\ x \in U /\ U \ {x} = T
      OBVIOUS
    <3>2. g[T] = h[T]
      BY <2>5
    <3> HIDE DEF U
    <3>3. g[U] = x.left + g[T] /\ h[U] = x.left + h[T]
      BY <1>2, <2>3, <3>1
    <3>4. U \in G
      BY <3>1, <3>2, <3>3
    <3> QED
      BY <3>4 DEF U
  <2>6. IsFiniteSet(V)
    BY <2>1 DEF HaveLeft
  <2> HIDE DEF G
  <2>7. V \in G
    BY <2>4, <2>5, <2>6, SetInduction
  <2> QED
    BY <2>2, <2>7 DEF G
<1>4. \A x \in S : S \ {x} \in SUBSET S
  OBVIOUS
<1> QED
  BY <1>2, <1>3, <1>4

\* The same, for parts of a set.
LEMMA LeftOfAdd ==
    ASSUME NEW S, HaveLeft(S), NEW T \in SUBSET S, NEW x \in S \ T
    PROVE  LeftOf(T \union {x}) = x.left + LeftOf(T) /\ LeftOf(T) \in Int /\ x.left \in Int
<1> DEFINE U == T \union {x}
<1>1. HaveLeft(U) /\ HaveLeft(T) /\ x \in U /\ U \ {x} = T
  <2>1. U \in SUBSET S
    OBVIOUS
  <2> QED
    BY <2>1, FS_Subset DEF HaveLeft
<1> HIDE DEF U
<1>2. LeftOf(U) = x.left + LeftOf(T) /\ LeftOf(T) \in Int
  BY <1>1, LeftOfMore
<1> QED
  BY <1>2 DEF U, HaveLeft

\* Two sets apart have what each has.
LEMMA LeftOfParts ==
    ASSUME NEW A, HaveLeft(A), NEW B, HaveLeft(B), A \intersect B = {}
    PROVE  LeftOf(A \union B) = LeftOf(A) + LeftOf(B)
<1> DEFINE S == A \union B
           G == {T \in SUBSET B : LeftOf(A \union T) = LeftOf(A) + LeftOf(T)}
<1>1. HaveLeft(S)
  BY FS_Union DEF HaveLeft
<1>2. {} \in G
  <2>1. A \union {} = A /\ LeftOf({}) = 0 /\ LeftOf(A) \in Int
    BY LeftOfMore
  <2>2. LeftOf(A) + 0 = LeftOf(A)
    BY <2>1
  <2> QED
    BY <2>1, <2>2
<1>3. ASSUME NEW T \in SUBSET B, NEW x \in B \ T, T \in G
      PROVE  T \union {x} \in G
  <2> DEFINE AT == A \union T
  <2>1. AT \in SUBSET S /\ x \in S \ AT /\ T \in SUBSET S /\ x \in S \ T /\ A \union (T \union {x}) = AT \union {x}
    OBVIOUS
  <2>2. LeftOf(AT) = LeftOf(A) + LeftOf(T) /\ LeftOf(A) \in Int
    BY <1>3, LeftOfMore
  <2> HIDE DEF S, AT
  <2>3. LeftOf(AT \union {x}) = x.left + LeftOf(AT) /\ x.left \in Int
    BY <1>1, <2>1, LeftOfAdd
  <2>4. LeftOf(T \union {x}) = x.left + LeftOf(T) /\ LeftOf(T) \in Int
    BY <1>1, <2>1, LeftOfAdd
  <2>5. LeftOf(AT \union {x}) = LeftOf(A) + LeftOf(T \union {x})
    BY <2>2, <2>3, <2>4
  <2> QED
    BY <2>1, <2>5
<1>4. IsFiniteSet(B)
  BY DEF HaveLeft
<1> HIDE DEF G
<1>5. B \in G
  BY <1>2, <1>3, <1>4, SetInduction
<1> QED
  BY <1>5 DEF G

\* More packages have no less.
LEMMA LeftOfPart ==
    ASSUME NEW S, HaveLeft(S), \A x \in S : x.left >= 0, NEW V \in SUBSET S
    PROVE  LeftOf(V) <= LeftOf(S) /\ LeftOf(V) >= 0
<1>1. ASSUME NEW T \in SUBSET S
      PROVE  LeftOf(T) >= 0 /\ LeftOf(T) \in Int
  <2> DEFINE G == {U \in SUBSET T : LeftOf(U) >= 0}
  <2>1. {} \in G
    BY LeftOfMore
  <2>2. ASSUME NEW U \in SUBSET T, NEW x \in T \ U, U \in G
        PROVE  U \union {x} \in G
    <3>1. LeftOf(U \union {x}) = x.left + LeftOf(U) /\ LeftOf(U) \in Int /\ x.left \in Int
      BY LeftOfAdd
    <3>2. LeftOf(U) >= 0 /\ x.left >= 0
      BY <2>2
    <3> QED
      BY <3>1, <3>2
  <2>3. HaveLeft(T)
    BY FS_Subset DEF HaveLeft
  <2> HIDE DEF G
  <2>4. T \in G
    BY <2>1, <2>2, <2>3, SetInduction DEF HaveLeft
  <2> QED
    BY <2>3, <2>4, LeftOfMore DEF G
<1> DEFINE rest == S \ V
<1>2. V \union rest = S /\ V \intersect rest = {} /\ rest \in SUBSET S
  OBVIOUS
<1>3. HaveLeft(V) /\ HaveLeft(rest)
  BY FS_Subset DEF HaveLeft
<1> HIDE DEF rest
<1>4. LeftOf(S) = LeftOf(V) + LeftOf(rest)
  BY <1>2, <1>3, LeftOfParts
<1> QED
  BY <1>1, <1>2, <1>4


-----------------------------------------------------------------------------
(* The packages of an account.                                             *)

Distinct(s) == \A i, j \in 1 .. Len(s) : i # j => s[i] # s[j]

\* Elements that are not there yet keep a list without doubles.
LEMMA AppendDistinct ==
    ASSUME NEW E, NEW s \in Seq(E), NEW x \in E, x \notin Range(s), Distinct(s)
    PROVE  Distinct(Append(s, x))
<1>1. Len(Append(s, x)) = Len(s) + 1 /\ Len(s) \in Nat /\ DOMAIN s = 1 .. Len(s)
  OBVIOUS
<1>2. \A i \in 1 .. Len(s) : Append(s, x)[i] = s[i] /\ s[i] # x
  BY <1>1 DEF Range
<1>3. Append(s, x)[Len(s) + 1] = x
  OBVIOUS
<1>4. 1 .. (Len(s) + 1) = (1 .. Len(s)) \union {Len(s) + 1}
  BY <1>1
<1> QED
  BY <1>1, <1>2, <1>3, <1>4 DEF Distinct

\* Without their doubles packages are the same, each once ...
LEMMA DedupedOf ==
    ASSUME NEW E, NEW s \in Seq(E)
    PROVE  /\ DedupeResources(s) \in Seq(E)
           /\ Range(DedupeResources(s)) = Range(s)
           /\ Distinct(DedupeResources(s))
<1>1. PICK h \in [0 .. Len(s) -> Seq(E)] :
          /\ h[0] = <<>>
          /\ \A i \in 1 .. Len(s) : h[i] = IF s[i] \in Range(h[i - 1]) THEN h[i - 1] ELSE Append(h[i - 1], s[i])
          /\ DedupeResources(s) = h[Len(s)]
  BY DedupeLoop
<1> DEFINE upTo(i) == {s[j] : j \in 1 .. i}
           G == {i \in 0 .. Len(s) : Range(h[i]) = upTo(i) /\ Distinct(h[i])}
<1>2. 0 \in G
  BY <1>1 DEF Range, Distinct
<1>3. ASSUME NEW i \in 1 .. Len(s), i - 1 \in G
      PROVE  i \in G
  <2>1. Range(h[i - 1]) = upTo(i - 1) /\ Distinct(h[i - 1])
    BY <1>3
  <2>2. h[i - 1] \in Seq(E) /\ s[i] \in E /\ i \in 0 .. Len(s)
    BY <1>1
  <2>3. upTo(i) = upTo(i - 1) \union {s[i]}
    <3>1. 1 .. i = (1 .. (i - 1)) \union {i}
      OBVIOUS
    <3> QED
      BY <3>1
  <2> HIDE DEF upTo
  <2>4. CASE s[i] \in Range(h[i - 1])
    BY <1>1, <2>1, <2>2, <2>3, <2>4
  <2>5. CASE s[i] \notin Range(h[i - 1])
    <3>1. h[i] = Append(h[i - 1], s[i])
      BY <1>1, <2>5
    <3>2. Range(h[i]) = Range(h[i - 1]) \union {s[i]}
      BY <2>2, <3>1, RangeAppend
    <3>3. Distinct(h[i])
      BY <2>1, <2>2, <2>5, <3>1, AppendDistinct
    <3> QED
      BY <2>1, <2>2, <2>3, <3>2, <3>3
  <2> QED
    BY <2>4, <2>5
<1> HIDE DEF G
<1>4. Len(s) \in G
  <2>1. Len(s) \in Nat
    OBVIOUS
  <2>2. Carried(Len(s), G)
    BY <1>2, <1>3 DEF Carried
  <2> QED
    BY <2>1, <2>2, Rounds
<1>5. Range(s) = {s[j] : j \in 1 .. Len(s)}
  BY DEF Range
<1> QED
  BY <1>1, <1>4, <1>5 DEF G

\* Lists of packages are sums.
LEMMA PackagesHaveLeft ==
    ASSUME NEW list \in Seq(Packages)
    PROVE  HaveLeft(Range(list)) /\ \A x \in Range(list) : x.left >= 0
<1>1. IsFiniteSet(Range(list))
  BY RangeFinite
<1>2. \A x \in Range(list) : x \in Packages
  BY DEF Range
<1> QED
  BY <1>1, <1>2 DEF HaveLeft, Packages

\* ... and their sum counts each once.
LEMMA SummedIs ==
    ASSUME NEW list \in Seq(Packages), Distinct(list)
    PROVE  Summed(LAMBDA r : r.left, list) = LeftOf(Range(list))
<1>1. \A r \in Packages : r.left \in Int
  BY DEF Packages
<1>2. PICK h \in [0 .. Len(list) -> Int] :
          /\ h[0] = 0
          /\ \A i \in 1 .. Len(list) : h[i] = h[i - 1] + list[i].left
          /\ Summed(LAMBDA r : r.left, list) = h[Len(list)]
  BY <1>1, LeftLoop
<1>3. HaveLeft(Range(list)) /\ LeftOf({}) = 0
  BY PackagesHaveLeft, LeftOfMore
<1> DEFINE upTo(i) == {list[j] : j \in 1 .. i}
           G == {i \in 0 .. Len(list) : h[i] = LeftOf(upTo(i))}
<1>4. 0 \in G
  <2>1. upTo(0) = {}
    OBVIOUS
  <2> QED
    BY <1>2, <1>3, <2>1
<1>5. ASSUME NEW i \in 1 .. Len(list), i - 1 \in G
      PROVE  i \in G
  <2>1. 1 .. i = (1 .. (i - 1)) \union {i} /\ i - 1 \in Nat
    OBVIOUS
  <2>2. upTo(i) = upTo(i - 1) \union {list[i]}
    BY <2>1
  <2>3. DOMAIN list = 1 .. Len(list)
    OBVIOUS
  <2>4. upTo(i - 1) \in SUBSET Range(list) /\ list[i] \in Range(list)
    BY <2>3 DEF Range
  <2>5. list[i] \notin upTo(i - 1)
    BY DEF Distinct
  <2>6. h[i - 1] = LeftOf(upTo(i - 1)) /\ i \in 0 .. Len(list)
    BY <1>5
  <2>7. h[i] = h[i - 1] + list[i].left
    BY <1>2
  <2> HIDE DEF upTo
  <2>8. /\ LeftOf(upTo(i)) = list[i].left + LeftOf(upTo(i - 1))
        /\ LeftOf(upTo(i - 1)) \in Int /\ list[i].left \in Int
    BY <1>3, <2>2, <2>4, <2>5, LeftOfAdd
  <2>9. h[i] = LeftOf(upTo(i))
    BY <2>6, <2>7, <2>8
  <2> QED
    BY <2>6, <2>9
<1> HIDE DEF G
<1>6. Len(list) \in G
  <2>1. Len(list) \in Nat
    OBVIOUS
  <2>2. Carried(Len(list), G)
    BY <1>4, <1>5 DEF Carried
  <2> QED
    BY <2>1, <2>2, Rounds
<1>7. Range(list) = {list[j] : j \in 1 .. Len(list)}
  BY DEF Range
<1> QED
  BY <1>2, <1>6, <1>7 DEF G

\* The first window of a WorkBuddy account has what its packages have left.
LEMMA SummarizeShows ==
    ASSUME NEW list \in Seq(Packages), Distinct(list)
    PROVE  /\ Summarize(list).ok
           /\ Summarize(list).windows \in Seq(WindowsOf("workbuddy"))
           /\ Summarize(list).windows[1].left = LeftOf(Range(list))
<1> DEFINE W == WindowsOf("workbuddy")
           total == Summed(LAMBDA r : r.total, list)
           all == Sized("credits", Summed(LAMBDA r : r.left, list), total)
           ws == [i \in 1 .. Len(list) |-> Sized("package", list[i].left, list[i].total)]
<1>1. Summarize(list) = Report(<<all>> \o ws)
  BY DEF Summarize, Each
<1>2. "credits" \in Label /\ "package" \in Label
  BY DEF Label
<1>3. "workbuddy" \notin Percents
  BY DEF Percents
<1>4. LeftOf(Range(list)) \in Int /\ LeftOf(Range(list)) >= 0
  <2>1. HaveLeft(Range(list)) /\ \A x \in Range(list) : x.left >= 0
    BY PackagesHaveLeft
  <2> QED
    BY <2>1, LeftOfMore, LeftOfPart
<1>5. total \in Int
  <2>1. \A r \in Packages : r.total \in Int
    BY DEF Packages
  <2>2. PICK h \in [0 .. Len(list) -> Int] :
            /\ h[0] = 0
            /\ \A i \in 1 .. Len(list) : h[i] = h[i - 1] + list[i].total
            /\ Summed(LAMBDA r : r.total, list) = h[Len(list)]
    BY <2>1, TotalLoop
  <2>3. Len(list) \in 0 .. Len(list)
    OBVIOUS
  <2> QED
    BY <2>2, <2>3
<1>6. all = Sized("credits", LeftOf(Range(list)), total)
  BY SummedIs
<1> HIDE DEF total, all
<1>7. all \in W /\ all.left = LeftOf(Range(list))
  BY <1>2, <1>3, <1>4, <1>5, <1>6, SizedIn
<1>8. ws \in Seq(W)
  <2>1. ASSUME NEW i \in 1 .. Len(list)
        PROVE  ws[i] \in W
    <3>1. list[i] \in Packages
      BY ElementIn
    <3>2. list[i].left \in Int /\ list[i].left >= 0 /\ list[i].total \in Int
      BY <3>1 DEF Packages
    <3>3. Sized("package", list[i].left, list[i].total) \in W
      BY <1>2, <1>3, <3>2, SizedIn
    <3> QED
      BY <3>3
  <2>2. ws = [i \in 1 .. Len(list) |-> ws[i]] /\ Len(list) \in Nat
    OBVIOUS
  <2> HIDE DEF ws
  <2>3. Mapped(Len(list), W, ws)
    BY <2>1, <2>2 DEF Mapped
  <2> QED
    BY <2>2, <2>3, EachIn
<1> HIDE DEF ws, W
<1>9. <<all>> \o ws \in Seq(W) /\ (<<all>> \o ws)[1] = all
  BY <1>7, <1>8
<1>10. Report(<<all>> \o ws).ok /\ Report(<<all>> \o ws).windows = <<all>> \o ws
  BY SomeIn
<1> QED
  BY <1>1, <1>7, <1>9, <1>10 DEF W

\* The packages that are put together.
Merged(x) == MergeResources(Items(x.summary), Items(x.paid) \o Items(x.free))
Answered(x) == x.domestic /\ \E reply \in {x.summary, x.paid, x.free} : Recognised(reply)
PutTogether(x) == IF Answered(x) THEN Merged(x) ELSE Items(x.legacy)

\* They are the details, and of the summary what these do not name.
LEMMA MergedOf ==
    ASSUME NEW x \in AnswersOf.workbuddy
    PROVE  LET details == Items(x.paid) \o Items(x.free)
               codes == {r.code : r \in Range(details)}
           IN /\ Merged(x) \in Seq(Packages)
              /\ Range(details) = Range(Items(x.paid)) \union Range(Items(x.free))
              /\ Range(Merged(x)) = Range(details) \union
                     {r \in Range(Items(x.summary)) : r.code = "" \/ r.code \notin codes}
<1> DEFINE details == Items(x.paid) \o Items(x.free)
           codes == {r.code : r \in Range(details)}
           more == {r \in Range(Items(x.summary)) : r.code = "" \/ r.code \notin codes}
<1>1. x.summary \in CreditReply /\ x.paid \in CreditReply /\ x.free \in CreditReply
  BY DEF AnswersOf
<1>2. Items(x.summary) \in Seq(Packages) /\ Items(x.paid) \in Seq(Packages) /\ Items(x.free) \in Seq(Packages)
  BY <1>1, ItemsIn
<1>3. details \in Seq(Packages) /\ Range(details) = Range(Items(x.paid)) \union Range(Items(x.free))
  BY <1>2, ConcatIn
<1>4. Merged(x) = details \o Those(Items(x.summary), more)
  BY DEF Merged, MergeResources
<1> HIDE DEF details, more
<1>5. /\ Those(Items(x.summary), more) \in Seq(Packages)
      /\ Range(Those(Items(x.summary), more)) = Range(Items(x.summary)) \intersect more
  BY <1>2, ThoseOf
<1>6. /\ Merged(x) \in Seq(Packages)
      /\ Range(Merged(x)) = Range(details) \union (Range(Items(x.summary)) \intersect more)
  BY <1>3, <1>4, <1>5, ConcatIn
<1>7. Range(Items(x.summary)) \intersect more = more
  BY DEF more
<1> QED
  BY <1>3, <1>6, <1>7 DEF details, more

\* A reading of WorkBuddy summarizes them without doubles, whichever way the
\* requests went.
LEMMA WorkBuddyIs ==
    ASSUME NEW x \in AnswersOf.workbuddy, WorkBuddy(x).ok
    PROVE  /\ WorkBuddy(x) = Summarize(DedupeResources(PutTogether(x)))
           /\ PutTogether(x) \in Seq(Packages)
<1>1. ~Failed.ok
  BY SomeIn
<1>2. Legacy(x).ok => Legacy(x) = Summarize(DedupeResources(Items(x.legacy)))
  BY <1>1 DEF Legacy
<1>3. Domestic(x) = Summarize(DedupeResources(Merged(x)))
  BY DEF Domestic, Merged
<1>4. WorkBuddy(x) = Summarize(DedupeResources(PutTogether(x)))
  BY <1>1, <1>2, <1>3 DEF WorkBuddy, PutTogether, Answered
<1>5. x.legacy \in CreditReply
  BY DEF AnswersOf
<1> QED
  BY <1>4, <1>5, ItemsIn, MergedOf DEF PutTogether

LEMMA WorkBuddyShows ==
    ASSUME NEW x \in AnswersOf.workbuddy, WorkBuddy(x).ok
    PROVE  /\ Shows("workbuddy", x, WorkBuddy(x).windows)
           /\ WorkBuddy(x).windows[1].left = LeftOf(Range(PutTogether(x)))
<1> DEFINE list == DedupeResources(PutTogether(x))
<1>1. WorkBuddy(x) = Summarize(list) /\ PutTogether(x) \in Seq(Packages)
  BY WorkBuddyIs
<1>2. list \in Seq(Packages) /\ Range(list) = Range(PutTogether(x)) /\ Distinct(list)
  BY <1>1, DedupedOf
<1>3. ~UsedUp("workbuddy", x)
  BY DEF UsedUp
<1> HIDE DEF list
<1> QED
  BY <1>1, <1>2, <1>3, SummarizeShows DEF Shows


\* What the summary says of a code that the lists do not name, the packages
\* of that code have; and packages of two codes are apart.
OfCodes(held, B) == {h \in held : \E r \in B : h.code = r.code}
CodesSay(held, B) ==
    /\ \A r \in B : r.left = LeftOf({h \in held : h.code = r.code})
    /\ \A r, s \in B : r.code = s.code => r = s

LEMMA CodesHave ==
    ASSUME NEW held, HaveLeft(held), NEW B, HaveLeft(B), CodesSay(held, B)
    PROVE  LeftOf(B) = LeftOf(OfCodes(held, B))
<1> USE DEF OfCodes, CodesSay
<1> DEFINE of(r) == {h \in held : h.code = r.code}
           have(T) == OfCodes(held, T)
           G == {T \in SUBSET B : LeftOf(T) = LeftOf(have(T))}
<1>1. {} \in G
  <2>1. have({}) = {}
    OBVIOUS
  <2> QED
    BY <2>1
<1>2. ASSUME NEW T \in SUBSET B, NEW r \in B \ T, T \in G
      PROVE  T \union {r} \in G
  <2>1. have(T \union {r}) = have(T) \union of(r) /\ T \union {r} \in SUBSET B
    OBVIOUS
  <2>2. have(T) \intersect of(r) = {}
    OBVIOUS
  <2>3. HaveLeft(have(T)) /\ HaveLeft(of(r))
    <3>1. have(T) \in SUBSET held /\ of(r) \in SUBSET held
      OBVIOUS
    <3> HIDE DEF have, of
    <3> QED
      BY <3>1, FS_Subset DEF HaveLeft
  <2>4. r.left = LeftOf(of(r)) /\ LeftOf(T) = LeftOf(have(T))
    BY <1>2
  <2> HIDE DEF have, of
  <2>5. LeftOf(have(T) \union of(r)) = LeftOf(have(T)) + LeftOf(of(r))
    BY <2>2, <2>3, LeftOfParts
  <2>6. LeftOf(T \union {r}) = r.left + LeftOf(T) /\ LeftOf(T) \in Int /\ r.left \in Int
    BY LeftOfAdd
  <2>7. LeftOf(T \union {r}) = LeftOf(have(T \union {r}))
    <3>1. LeftOf(have(T \union {r})) = LeftOf(T) + r.left
      BY <2>1, <2>4, <2>5
    <3>2. LeftOf(T) + r.left = r.left + LeftOf(T)
      BY <2>6
    <3> QED
      BY <2>6, <3>1, <3>2
  <2> QED
    BY <2>1, <2>7
<1>3. IsFiniteSet(B)
  BY DEF HaveLeft
<1> HIDE DEF G
<1>4. B \in G
  BY <1>1, <1>2, <1>3, SetInduction
<1> QED
  BY <1>4 DEF G

\* No credit is counted twice, and none is missed when all is answered.
LEMMA CreditsOnce ==
    ASSUME NEW x \in AnswersOf.workbuddy, Truthful(x)
    PROVE  /\ LeftOf(Range(PutTogether(x))) <= LeftOf(x.held)
           /\ x.domestic /\ (\A reply \in {x.summary, x.paid, x.free} : Recognised(reply))
                => LeftOf(Range(PutTogether(x))) = LeftOf(x.held)
<1> DEFINE paid == Range(Items(x.paid))
           free == Range(Items(x.free))
           summary == Range(Items(x.summary))
           details == paid \union free
           codes == {r.code : r \in details}
           A == details \union {r \in summary : r.code = ""}
           B == {r \in summary : r.code # "" /\ r.code \notin codes}
           named == OfCodes(x.held, B)
<1>1. HaveLeft(x.held) /\ \A h \in x.held : h.left >= 0
  <2>1. x.held \subseteq CreditResource
    BY DEF AnswersOf
  <2> QED
    BY <2>1 DEF Truthful, HaveLeft, CreditResource
<1>2. /\ paid \subseteq x.held /\ free \subseteq x.held /\ Range(Items(x.legacy)) \subseteq x.held
      /\ Recognised(x.paid) /\ Recognised(x.free) => x.held = paid \union free
      /\ \A r \in summary : IF r.code = "" THEN r \in x.held
                            ELSE r.left = LeftOf({h \in x.held : h.code = r.code})
      /\ \A r, s \in summary : r.code = s.code /\ r.code # "" => r = s
  BY DEF Truthful
<1>3. HaveLeft(summary)
  <2>1. x.summary \in CreditReply
    BY DEF AnswersOf
  <2> QED
    BY <2>1, ItemsIn, PackagesHaveLeft
<1>4. CASE ~Answered(x)
  <2>1. PutTogether(x) = Items(x.legacy)
    BY <1>4 DEF PutTogether
  <2>2. ~(x.domestic /\ \A reply \in {x.summary, x.paid, x.free} : Recognised(reply))
    BY <1>4 DEF Answered
  <2>3. LeftOf(Range(Items(x.legacy))) <= LeftOf(x.held)
    BY <1>1, <1>2, LeftOfPart
  <2> QED
    BY <2>1, <2>2, <2>3
<1>5. CASE Answered(x)
  <2>1. Range(PutTogether(x)) = A \union B
    <3>1. PutTogether(x) = Merged(x)
      BY <1>5 DEF PutTogether
    <3>2. Range(Items(x.paid) \o Items(x.free)) = details
      BY MergedOf
    <3>3. Range(Merged(x)) = details \union {r \in summary : r.code = "" \/ r.code \notin codes}
      BY <3>2, MergedOf
    <3> QED
      BY <3>1, <3>3
  <2>2. A \in SUBSET x.held /\ named \in SUBSET x.held /\ B \in SUBSET summary
    BY <1>2 DEF OfCodes
  <2>3. A \intersect B = {} /\ A \intersect named = {}
    BY DEF OfCodes
  <2>4. HaveLeft(A) /\ HaveLeft(B) /\ HaveLeft(named)
    <3> HIDE DEF A, B, named, summary
    <3> QED
      BY <1>1, <1>3, <2>2, FS_Subset DEF HaveLeft
  <2>5. LeftOf(B) = LeftOf(named)
    <3>1. CodesSay(x.held, B)
      BY <1>2 DEF CodesSay
    <3> HIDE DEF B
    <3> QED
      BY <1>1, <2>4, <3>1, CodesHave
  <2>6. (\A reply \in {x.summary, x.paid, x.free} : Recognised(reply)) => A \union named = x.held
    BY <1>2, <2>2 DEF OfCodes
  <2> HIDE DEF A, B, named
  <2>7. LeftOf(A \union B) = LeftOf(A) + LeftOf(B) /\ LeftOf(A \union named) = LeftOf(A) + LeftOf(named)
    BY <2>3, <2>4, LeftOfParts
  <2>8. LeftOf(A \union named) <= LeftOf(x.held)
    <3>1. A \union named \in SUBSET x.held
      BY <2>2
    <3> QED
      BY <1>1, <3>1, LeftOfPart
  <2> QED
    BY <2>1, <2>5, <2>6, <2>7, <2>8
<1> QED
  BY <1>4, <1>5


-----------------------------------------------------------------------------
(* The readings.                                                           *)

\* Whatever provider an account is of, a reading that succeeds shows what it
\* should of the answer.
LEMMA ReadingShows ==
    ASSUME NEW p \in DOMAIN Answer, NEW x \in Answer[p], NEW r \in Readings(p, x), r.ok
    PROVE  Shows(p, x, r.windows)
<1>1. p \in DOMAIN AnswersOf /\ x \in AnswersOf[p]
  BY AnswersAssumption
<1>2. p \in {"aliyun", "claude", "codex", "coze", "cursor", "deepseek", "gemini",
             "generic", "kiro", "mimo", "qoder", "trae", "workbuddy", "zhipu"}
  BY <1>1 DEF AnswersOf
<1>3. CASE p = "aliyun"
  <2>1. x \in AnswersOf.aliyun
    BY <1>1, <1>3
  <2>2. r = Aliyun(x)
    BY <1>3 DEF Readings
  <2> QED
    BY <1>3, <2>1, <2>2, AliyunShows
<1>4. CASE p = "claude"
  <2>1. x \in AnswersOf.claude
    BY <1>1, <1>4
  <2>2. r = Claude(x)
    BY <1>4 DEF Readings
  <2> QED
    BY <1>4, <2>1, <2>2, ClaudeShows
<1>5. CASE p = "codex"
  <2>1. x \in AnswersOf.codex
    BY <1>1, <1>5
  <2>2. r = Codex(x)
    BY <1>5 DEF Readings
  <2> QED
    BY <1>5, <2>1, <2>2, CodexShows
<1>6. CASE p = "coze"
  <2>1. x \in AnswersOf.coze
    BY <1>1, <1>6
  <2>2. r \in Coze(x)
    BY <1>6 DEF Readings
  <2> QED
    BY <1>6, <2>1, <2>2, CozeShows
<1>7. CASE p = "cursor"
  <2>1. x \in AnswersOf.cursor
    BY <1>1, <1>7
  <2>2. r = Cursor(x)
    BY <1>7 DEF Readings
  <2> QED
    BY <1>7, <2>1, <2>2, CursorShows
<1>8. CASE p = "deepseek"
  <2>1. x \in AnswersOf.deepseek
    BY <1>1, <1>8
  <2>2. r = DeepSeek(x)
    BY <1>8 DEF Readings
  <2> QED
    BY <1>8, <2>1, <2>2, DeepSeekShows
<1>9. CASE p = "gemini"
  <2>1. x \in AnswersOf.gemini
    BY <1>1, <1>9
  <2>2. r \in Gemini(x)
    BY <1>9 DEF Readings
  <2> QED
    BY <1>9, <2>1, <2>2, GeminiShows
<1>10. CASE p = "generic"
  <2>1. x \in AnswersOf.generic
    BY <1>1, <1>10
  <2>2. r = Generic(x)
    BY <1>10 DEF Readings
  <2> QED
    BY <1>10, <2>1, <2>2, GenericShows
<1>11. CASE p = "kiro"
  <2>1. x \in AnswersOf.kiro
    BY <1>1, <1>11
  <2>2. r = Kiro(x)
    BY <1>11 DEF Readings
  <2> QED
    BY <1>11, <2>1, <2>2, KiroShows
<1>12. CASE p = "mimo"
  <2>1. x \in AnswersOf.mimo
    BY <1>1, <1>12
  <2>2. r = Mimo(x)
    BY <1>12 DEF Readings
  <2> QED
    BY <1>12, <2>1, <2>2, MimoShows
<1>13. CASE p = "qoder"
  <2>1. x \in AnswersOf.qoder
    BY <1>1, <1>13
  <2>2. r = Qoder(x)
    BY <1>13 DEF Readings
  <2> QED
    BY <1>13, <2>1, <2>2, QoderShows
<1>14. CASE p = "trae"
  <2>1. x \in AnswersOf.trae
    BY <1>1, <1>14
  <2>2. r = Trae(x)
    BY <1>14 DEF Readings
  <2> QED
    BY <1>14, <2>1, <2>2, TraeShows
<1>15. CASE p = "workbuddy"
  <2>1. x \in AnswersOf.workbuddy
    BY <1>1, <1>15
  <2>2. r = WorkBuddy(x)
    BY <1>15 DEF Readings
  <2> QED
    BY <1>15, <2>1, <2>2, WorkBuddyShows
<1>16. CASE p = "zhipu"
  <2>1. x \in AnswersOf.zhipu
    BY <1>1, <1>16
  <2>2. r = Zhipu(x)
    BY <1>16 DEF Readings
  <2> QED
    BY <1>16, <2>1, <2>2, ZhipuShows
<1> QED
  BY <1>2, <1>3, <1>4, <1>5, <1>6, <1>7, <1>8, <1>9, <1>10,
     <1>11, <1>12, <1>13, <1>14, <1>15, <1>16

\* A reading of WorkBuddy begins with the credits of what is put together.
LEMMA ReadingCredits ==
    ASSUME NEW x \in Answer["workbuddy"], NEW r \in Readings("workbuddy", x), r.ok,
           "workbuddy" \in DOMAIN Answer
    PROVE  /\ r.windows[1].left <= LeftOf(x.held)
           /\ x.domestic /\ (\A reply \in {x.summary, x.paid, x.free} : Recognised(reply))
                => r.windows[1].left = LeftOf(x.held)
<1>1. x \in AnswersOf.workbuddy /\ Truthful(x)
  BY AnswersAssumption, CreditsAssumption
<1>2. r = WorkBuddy(x)
  BY DEF Readings
<1>3. r.windows[1].left = LeftOf(Range(PutTogether(x)))
  BY <1>1, <1>2, WorkBuddyShows
<1> QED
  BY <1>1, <1>3, CreditsOnce


-----------------------------------------------------------------------------
(* The invariant.                                                          *)

Row == [status : Status \union {""}, save : 0 .. MaxSaves]
Kept == [list : Seq(Window), save : 0 .. MaxSaves]

\* Rows, windows and cards have their shapes.
Shaped ==
    /\ provider \in [Account -> DOMAIN Answer \union {""}]
    /\ loads \in BOOLEAN
    /\ rows \in [Account -> Row]
    /\ windows \in [Account -> Kept]
    /\ DOMAIN answer = Account
    /\ saves \in [Account -> 0 .. MaxSaves]
    /\ view \in [at : {"idle", "rows", "windows", "shown"}, since : [Account -> 0 .. MaxSaves],
                 todo : SUBSET Account, cards : [Account -> [row : Row, windows : Kept]]]

\* The windows of an account are a reading of its last answer.
FromAnswer(a) ==
    /\ provider[a] \in DOMAIN Answer
    /\ answer[a] \in Answer[provider[a]]
    /\ \E r \in Readings(provider[a], answer[a]) : r.ok /\ windows[a].list = r.windows

\* Row and windows are of the last saving, or both are gone.
OneSaving(a) ==
    \/ rows[a] = NoRow /\ windows[a] = NoWindows
    \/ /\ rows[a] = [status |-> AccountStatus(windows[a].list), save |-> saves[a]]
       /\ windows[a].save = saves[a] /\ saves[a] > 0
       /\ FromAnswer(a)

\* A card's row is of a saving since the load began, and no later one than
\* the last; its windows, once they are read, and those it would read now,
\* are none or of no earlier saving, and if of the same the row has their
\* status.
Fits(row, kept) ==
    \/ kept = NoWindows
    \/ kept.save >= row.save /\ (kept.save = row.save => row.status = AccountStatus(kept.list))

CardFits(a) ==
    LET card == view.cards[a]
    IN card.row # NoRow =>
         /\ card.row.save > 0 /\ card.row.save >= view.since[a] /\ card.row.save <= saves[a]
         /\ Fits(card.row, windows[a])
         /\ a \notin view.todo => Fits(card.row, card.windows)

Loading ==
    /\ \A a \in Account : view.since[a] <= saves[a]
    /\ view.at \in {"windows", "shown"} => \A a \in Account : CardFits(a)
    /\ view.at = "shown" => view.todo = {}

IInv == Shaped /\ (\A a \in Account : OneSaving(a)) /\ Loading

\* The values of what is not there.
LEMMA Nothing ==
    NoRow \in Row /\ NoWindows \in Kept /\ NoCard \in [row : Row, windows : Kept] /\ NoRow.save = 0
<1>1. 0 \in 0 .. MaxSaves
  BY MaxSavesAssumption
<1>2. <<>> \in Seq(Window)
  OBVIOUS
<1> QED
  BY <1>1, <1>2 DEF NoRow, NoWindows, NoCard, Row, Kept

\* Savings are counted by naturals.
LEMMA Counted ==
    ASSUME Shaped, NEW b \in Account
    PROVE  /\ MaxSaves \in Nat \ {0}
           /\ saves[b] \in Nat /\ saves[b] <= MaxSaves /\ view.since[b] \in Nat
           /\ view.cards[b].row.save \in Nat /\ view.cards[b].windows.save \in Nat
           /\ view.cards[b].windows.list \in Seq(Window)
<1>1. MaxSaves \in Nat \ {0} /\ \A i \in 0 .. MaxSaves : i \in Nat /\ i <= MaxSaves
  BY MaxSavesAssumption
<1>2. saves[b] \in 0 .. MaxSaves
  BY DEF Shaped
<1>3. view.since \in [Account -> 0 .. MaxSaves] /\ view.cards \in [Account -> [row : Row, windows : Kept]]
  BY DEF Shaped
<1>4. view.since[b] \in 0 .. MaxSaves /\ view.cards[b] \in [row : Row, windows : Kept]
  BY <1>3
<1>5. view.cards[b].row \in Row /\ view.cards[b].windows \in Kept
  BY <1>4
<1>6. /\ view.cards[b].row.save \in 0 .. MaxSaves /\ view.cards[b].windows.save \in 0 .. MaxSaves
      /\ view.cards[b].windows.list \in Seq(Window)
  BY <1>5 DEF Row, Kept
<1> QED
  BY <1>1, <1>2, <1>4, <1>6

\* Nothing is stored at first.
LEMMA InitIInv == Init => IInv
<1> SUFFICES ASSUME Init
             PROVE  IInv
  OBVIOUS
<1>1. PICK t \in Together :
          /\ provider = t.provider /\ loads = t.loads
          /\ rows = [a \in Account |-> NoRow] /\ windows = [a \in Account |-> NoWindows]
          /\ answer = [a \in Account |-> NoAnswer] /\ saves = [a \in Account |-> 0]
          /\ view = NoView
  BY DEF Init
<1>2. t \in [provider : [Account -> DOMAIN Answer \union {""}], loads : BOOLEAN]
  BY TogetherAssumption
<1>3. provider \in [Account -> DOMAIN Answer \union {""}] /\ loads \in BOOLEAN
  BY <1>1, <1>2
<1>4. 0 \in 0 .. MaxSaves
  BY MaxSavesAssumption
<1>5. view \in [at : {"idle", "rows", "windows", "shown"}, since : [Account -> 0 .. MaxSaves],
                todo : SUBSET Account, cards : [Account -> [row : Row, windows : Kept]]]
  <2>1. [a \in Account |-> NoCard] \in [Account -> [row : Row, windows : Kept]]
    BY Nothing
  <2>2. [a \in Account |-> 0] \in [Account -> 0 .. MaxSaves]
    BY <1>4
  <2> QED
    BY <1>1, <2>1, <2>2 DEF NoView
<1>6. Shaped
  BY <1>1, <1>3, <1>4, <1>5, Nothing DEF Shaped
<1>7. \A a \in Account : OneSaving(a)
  BY <1>1 DEF OneSaving
<1>8. Loading
  BY <1>1 DEF Loading, NoView
<1> QED
  BY <1>6, <1>7, <1>8 DEF IInv

\* An account that a step does not touch.
LEMMA SameSaving ==
    ASSUME NEW b \in Account, OneSaving(b),
           rows'[b] = rows[b], windows'[b] = windows[b], saves'[b] = saves[b],
           answer'[b] = answer[b], provider'[b] = provider[b]
    PROVE  OneSaving(b)'
  BY DEF OneSaving, FromAnswer

\* What is saved.
LEMMA SavedIs ==
    ASSUME Shaped, NEW a \in Account, Refresh(a)
    PROVE  /\ saves[a] < MaxSaves
           /\ provider[a] \in DOMAIN Answer
           /\ \E x \in Answer[provider[a]] : \E r \in Readings(provider[a], x) :
                 /\ r.ok /\ Save(a, r.windows) /\ answer' = [answer EXCEPT ![a] = x]
                 /\ r.windows \in Seq(Window) /\ AccountStatus(r.windows) \in Status
<1>1. provider[a] \in DOMAIN Answer
  BY DEF Shaped, Refresh
<1>2. saves[a] < MaxSaves
  <2>1. saves[a] < (IF loads THEN MaxSaves ELSE 1) /\ MaxSaves \in Nat \ {0} /\ saves[a] \in Nat
    BY Counted DEF Refresh
  <2> QED
    BY <2>1
<1>0. PICK x \in Answer[provider[a]] : \E r \in Readings(provider[a], x) :
          r.ok /\ Save(a, r.windows) /\ answer' = [answer EXCEPT ![a] = x]
  BY DEF Refresh
<1>3. PICK r \in Readings(provider[a], x) :
          r.ok /\ Save(a, r.windows) /\ answer' = [answer EXCEPT ![a] = x]
  BY <1>0
<1>4. r.windows \in Seq(WindowsOf(provider[a]))
  BY <1>1, <1>3, ReadingShows DEF Shows
<1>5. \A w \in Range(r.windows) : w \in Window
  BY <1>4, RangeFinite DEF WindowsOf
<1>6. r.windows \in Seq(Window)
  BY <1>4, <1>5, NarrowIn
<1> QED
  BY <1>1, <1>2, <1>3, <1>6, WorstDecides

\* A saving is later than any that a card shows.
LEMMA RefreshKeeps ==
    ASSUME IInv, NEW a \in Account, Refresh(a)
    PROVE  IInv'
<1>1. Shaped /\ (\A b \in Account : OneSaving(b)) /\ Loading
  BY DEF IInv
<1>2. saves[a] < MaxSaves /\ provider[a] \in DOMAIN Answer
  BY <1>1, SavedIs
<1>0. PICK x \in Answer[provider[a]] : \E r \in Readings(provider[a], x) :
          /\ r.ok /\ Save(a, r.windows) /\ answer' = [answer EXCEPT ![a] = x]
          /\ r.windows \in Seq(Window) /\ AccountStatus(r.windows) \in Status
  BY <1>1, SavedIs
<1>3. PICK r \in Readings(provider[a], x) :
          /\ r.ok /\ Save(a, r.windows) /\ answer' = [answer EXCEPT ![a] = x]
          /\ r.windows \in Seq(Window) /\ AccountStatus(r.windows) \in Status
  BY <1>0
<1> DEFINE n == saves[a] + 1
           row == [status |-> AccountStatus(r.windows), save |-> n]
           kept == [list |-> r.windows, save |-> n]
<1>4. /\ rows' = [rows EXCEPT ![a] = row] /\ windows' = [windows EXCEPT ![a] = kept]
      /\ saves' = [saves EXCEPT ![a] = n]
      /\ UNCHANGED <<provider, loads, view>>
  BY <1>3 DEF Save, Refresh
<1>5. saves[a] \in Nat /\ n \in 0 .. MaxSaves /\ n > 0 /\ n > saves[a]
  <2>1. saves[a] \in Nat /\ MaxSaves \in Nat
    BY <1>1, Counted
  <2> QED
    BY <1>2, <2>1
<1>6. row \in Row /\ kept \in Kept /\ row.save = n /\ kept.save = n
  BY <1>3, <1>5 DEF Row, Kept
<1> HIDE DEF n
<1>7. Shaped'
  BY <1>1, <1>3, <1>4, <1>5, <1>6 DEF Shaped
<1>8. ASSUME NEW b \in Account
      PROVE  OneSaving(b)'
  <2>1. CASE b # a
    <3>1. /\ rows'[b] = rows[b] /\ windows'[b] = windows[b] /\ saves'[b] = saves[b]
          /\ answer'[b] = answer[b] /\ provider'[b] = provider[b]
      BY <1>1, <1>3, <1>4, <2>1 DEF Shaped
    <3> QED
      BY <1>1, <3>1, SameSaving
  <2>2. CASE b = a
    <3>1. rows'[a] = row /\ windows'[a] = kept /\ saves'[a] = n /\ answer'[a] = x /\ provider'[a] = provider[a]
      BY <1>1, <1>3, <1>4 DEF Shaped
    <3>2. FromAnswer(a)'
      BY <1>2, <1>3, <3>1 DEF FromAnswer
    <3> QED
      BY <1>5, <2>2, <3>1, <3>2 DEF OneSaving
  <2> QED
    BY <2>1, <2>2
<1>9. Loading'
  <2>1. \A b \in Account : saves'[b] >= saves[b] /\ saves[b] \in Nat /\ saves'[b] \in Nat /\ view.since[b] \in Nat
    <3>1. ASSUME NEW b \in Account
          PROVE  saves'[b] >= saves[b] /\ saves[b] \in Nat /\ saves'[b] \in Nat /\ view.since[b] \in Nat
      <4>1. saves[b] \in Nat /\ view.since[b] \in Nat
        BY <1>1, Counted
      <4>2. saves'[b] = IF b = a THEN n ELSE saves[b]
        BY <1>1, <1>4 DEF Shaped
      <4>3. n \in Nat
        BY <1>5 DEF n
      <4> QED
        BY <1>5, <4>1, <4>2, <4>3
    <3> QED
      BY <3>1
  <2>2. \A b \in Account : view'.since[b] <= saves'[b]
    BY <1>1, <1>4, <2>1 DEF Loading
  <2>3. ASSUME NEW b \in Account, CardFits(b)
        PROVE  CardFits(b)'
    <3> DEFINE card == view.cards[b]
    <3> SUFFICES ASSUME card.row # NoRow
                 PROVE  /\ card.row.save > 0 /\ card.row.save >= view.since[b] /\ card.row.save <= saves'[b]
                        /\ Fits(card.row, windows'[b])
                        /\ b \notin view.todo => Fits(card.row, card.windows)
      BY <1>4 DEF CardFits
    <3>1. /\ card.row.save > 0 /\ card.row.save >= view.since[b] /\ card.row.save <= saves[b]
          /\ Fits(card.row, windows[b])
          /\ b \notin view.todo => Fits(card.row, card.windows)
      BY <2>3 DEF CardFits
    <3>2. card.row.save \in Nat
      BY <1>1, Counted
    <3> HIDE DEF card
    <3>3. card.row.save <= saves'[b]
      BY <2>1, <3>1, <3>2
    <3>4. CASE b # a
      <4>1. windows'[b] = windows[b]
        BY <1>1, <1>4, <3>4 DEF Shaped
      <4> QED
        BY <3>1, <3>3, <4>1
    <3>5. CASE b = a
      <4>1. windows'[b] = kept
        BY <1>1, <1>4, <3>5 DEF Shaped
      <4>2. kept.save > card.row.save
        BY <1>5, <1>6, <3>1, <3>2, <3>5
      <4>3. Fits(card.row, kept)
        BY <1>5, <1>6, <3>2, <4>2 DEF Fits
      <4> QED
        BY <3>1, <3>3, <4>1, <4>3
    <3> QED
      BY <3>4, <3>5
  <2> QED
    BY <1>1, <1>4, <2>2, <2>3 DEF Loading
<1> QED
  BY <1>7, <1>8, <1>9 DEF IInv

\* A deletion leaves no windows to a card that has still to read them.
LEMMA DeleteKeeps ==
    ASSUME IInv, NEW a \in Account, Delete(a)
    PROVE  IInv'
<1>1. Shaped /\ (\A b \in Account : OneSaving(b)) /\ Loading
  BY DEF IInv
<1>2. /\ provider' = [provider EXCEPT ![a] = ""]
      /\ rows' = [rows EXCEPT ![a] = NoRow] /\ windows' = [windows EXCEPT ![a] = NoWindows]
      /\ UNCHANGED <<loads, answer, saves, view>>
  BY DEF Delete
<1>3. Shaped'
  BY <1>1, <1>2, Nothing DEF Shaped
<1>4. ASSUME NEW b \in Account
      PROVE  OneSaving(b)' /\ (windows'[b] = NoWindows \/ windows'[b] = windows[b])
  <2>1. CASE b # a
    <3>1. rows'[b] = rows[b] /\ windows'[b] = windows[b] /\ provider'[b] = provider[b]
      BY <1>1, <1>2, <2>1 DEF Shaped
    <3> QED
      BY <1>1, <1>2, <3>1, SameSaving
  <2>2. CASE b = a
    <3>1. rows'[a] = NoRow /\ windows'[a] = NoWindows
      BY <1>1, <1>2 DEF Shaped
    <3> QED
      BY <2>2, <3>1 DEF OneSaving
  <2> QED
    BY <2>1, <2>2
<1>5. Loading'
  <2>1. \A b \in Account : CardFits(b) => CardFits(b)'
    BY <1>2, <1>4 DEF CardFits, Fits
  <2> QED
    BY <1>1, <1>2, <2>1 DEF Loading
<1> QED
  BY <1>3, <1>4, <1>5 DEF IInv

\* The steps of a load change nothing that is stored.
LEMMA AskKeeps ==
    ASSUME IInv, Ask
    PROVE  IInv'
<1>1. Shaped /\ (\A b \in Account : OneSaving(b)) /\ Loading
  BY DEF IInv
<1>2. view' = [NoView EXCEPT !.at = "rows", !.since = saves]
      /\ UNCHANGED <<provider, loads, rows, windows, answer, saves>>
  BY DEF Ask
<1>3. view' = [at |-> "rows", since |-> saves, todo |-> {}, cards |-> [a \in Account |-> NoCard]]
  BY <1>2 DEF NoView
<1>4. Shaped'
  <2>1. [a \in Account |-> NoCard] \in [Account -> [row : Row, windows : Kept]]
    BY Nothing
  <2>2. saves \in [Account -> 0 .. MaxSaves]
    BY <1>1 DEF Shaped
  <2>3. view' \in [at : {"idle", "rows", "windows", "shown"}, since : [Account -> 0 .. MaxSaves],
                   todo : SUBSET Account, cards : [Account -> [row : Row, windows : Kept]]]
    BY <1>3, <2>1, <2>2
  <2> QED
    BY <1>1, <1>2, <2>3 DEF Shaped
<1>5. \A b \in Account : OneSaving(b)'
  BY <1>1, <1>2 DEF OneSaving, FromAnswer
<1>6. Loading'
  <2>1. \A b \in Account : saves[b] <= saves[b]
    BY <1>1, Counted
  <2> QED
    BY <1>2, <1>3, <2>1 DEF Loading
<1> QED
  BY <1>4, <1>5, <1>6 DEF IInv

LEMMA ReadRowsKeeps ==
    ASSUME IInv, ReadRows
    PROVE  IInv'
<1>1. Shaped /\ (\A b \in Account : OneSaving(b)) /\ Loading
  BY DEF IInv
<1> DEFINE seen == {a \in Account : rows[a] # NoRow}
           cards == [a \in Account |-> [NoCard EXCEPT !.row = rows[a]]]
<1>2. /\ view' = [view EXCEPT !.at = "windows", !.todo = seen, !.cards = cards]
      /\ UNCHANGED <<provider, loads, rows, windows, answer, saves>>
  BY DEF ReadRows
<1>3. cards \in [Account -> [row : Row, windows : Kept]] /\ \A a \in Account : cards[a].row = rows[a]
  BY <1>1, Nothing DEF Shaped, NoCard
<1>4. seen \subseteq Account /\ \A a \in Account : a \in seen <=> rows[a] # NoRow
  OBVIOUS
<1> HIDE DEF seen, cards
<1>5. view'.at = "windows" /\ view'.todo = seen /\ view'.cards = cards /\ view'.since = view.since
  BY <1>1, <1>2 DEF Shaped
<1>6. Shaped'
  BY <1>1, <1>2, <1>3, <1>4 DEF Shaped
<1>7. \A b \in Account : OneSaving(b)'
  BY <1>1, <1>2 DEF OneSaving, FromAnswer
<1>8. ASSUME NEW b \in Account
      PROVE  CardFits(b)'
  <2> SUFFICES ASSUME rows[b] # NoRow
               PROVE  /\ rows[b].save > 0 /\ rows[b].save >= view.since[b] /\ rows[b].save <= saves[b]
                      /\ Fits(rows[b], windows[b])
    BY <1>2, <1>3, <1>4, <1>5 DEF CardFits
  <2>1. rows[b] = [status |-> AccountStatus(windows[b].list), save |-> saves[b]]
        /\ windows[b].save = saves[b] /\ saves[b] > 0
    BY <1>1 DEF OneSaving
  <2>2. view.since[b] <= saves[b]
    BY <1>1 DEF Loading
  <2>3. saves[b] \in Nat /\ view.since[b] \in Nat
    BY <1>1, Counted
  <2> QED
    BY <2>1, <2>2, <2>3 DEF Fits
<1>9. Loading'
  BY <1>1, <1>2, <1>5, <1>8 DEF Loading
<1> QED
  BY <1>6, <1>7, <1>9 DEF IInv

LEMMA ReadWindowsKeeps ==
    ASSUME IInv, NEW a \in Account, ReadWindows(a)
    PROVE  IInv'
<1>1. Shaped /\ (\A b \in Account : OneSaving(b)) /\ Loading
  BY DEF IInv
<1>2. /\ view.at = "windows"
      /\ view' = [view EXCEPT !.cards[a].windows = windows[a], !.todo = @ \ {a}]
      /\ UNCHANGED <<provider, loads, rows, windows, answer, saves>>
  BY DEF ReadWindows
<1>3. windows[a] \in Kept /\ view.cards \in [Account -> [row : Row, windows : Kept]]
  BY <1>1 DEF Shaped
<1> DEFINE cards == [view.cards EXCEPT ![a].windows = windows[a]]
<1>4. /\ cards \in [Account -> [row : Row, windows : Kept]]
      /\ \A b \in Account : /\ cards[b].row = view.cards[b].row
                            /\ cards[b].windows = IF b = a THEN windows[a] ELSE view.cards[b].windows
  BY <1>3
<1>5. view'.at = "windows" /\ view'.todo = view.todo \ {a} /\ view'.cards = cards /\ view'.since = view.since
  BY <1>1, <1>2 DEF Shaped
<1>6. view' \in [at : {"idle", "rows", "windows", "shown"}, since : [Account -> 0 .. MaxSaves],
                 todo : SUBSET Account, cards : [Account -> [row : Row, windows : Kept]]]
  <2>1. view' = [view EXCEPT !.cards = cards, !.todo = @ \ {a}]
    BY <1>2
  <2> HIDE DEF cards
  <2> QED
    BY <1>1, <1>4, <2>1 DEF Shaped
<1> HIDE DEF cards
<1>7. Shaped'
  BY <1>1, <1>2, <1>6 DEF Shaped
<1>8. \A b \in Account : OneSaving(b)'
  BY <1>1, <1>2 DEF OneSaving, FromAnswer
<1>9. ASSUME NEW b \in Account
      PROVE  CardFits(b)'
  <2>1. CardFits(b)
    BY <1>1, <1>2 DEF Loading
  <2> QED
    BY <1>2, <1>4, <1>5, <2>1 DEF CardFits
<1>10. Loading'
  BY <1>1, <1>2, <1>5, <1>9 DEF Loading
<1> QED
  BY <1>7, <1>8, <1>10 DEF IInv

LEMMA ShowKeeps ==
    ASSUME IInv, Show
    PROVE  IInv'
<1>1. Shaped /\ (\A b \in Account : OneSaving(b)) /\ Loading
  BY DEF IInv
<1>2. /\ view.at = "windows" /\ view.todo = {} /\ view' = [view EXCEPT !.at = "shown"]
      /\ UNCHANGED <<provider, loads, rows, windows, answer, saves>>
  BY DEF Show
<1>3. view'.at = "shown" /\ view'.todo = view.todo /\ view'.cards = view.cards /\ view'.since = view.since
  BY <1>1, <1>2 DEF Shaped
<1>4. Shaped'
  BY <1>1, <1>2 DEF Shaped
<1>5. \A b \in Account : OneSaving(b)'
  BY <1>1, <1>2 DEF OneSaving, FromAnswer
<1>6. \A b \in Account : CardFits(b)'
  BY <1>1, <1>2, <1>3 DEF CardFits, Loading
<1>7. Loading'
  BY <1>1, <1>2, <1>3, <1>6 DEF Loading
<1> QED
  BY <1>4, <1>5, <1>7 DEF IInv

\* Every step keeps the invariant.
LEMMA NextIInv == IInv /\ [Next]_vars => IInv'
<1> SUFFICES ASSUME IInv, [Next]_vars
             PROVE  IInv'
  OBVIOUS
<1>1. CASE Next
  BY <1>1, RefreshKeeps, DeleteKeeps, AskKeeps, ReadRowsKeeps, ReadWindowsKeeps, ShowKeeps DEF Next
<1>2. CASE UNCHANGED vars
  BY <1>2 DEF vars, IInv, Shaped, OneSaving, FromAnswer, Loading, CardFits
<1> QED
  BY <1>1, <1>2

LEMMA Invariant == Spec => []IInv
<1>1. Init => IInv
  BY InitIInv
<1>2. IInv /\ [Next]_vars => IInv'
  BY NextIInv
<1> QED
  BY <1>1, <1>2, PTL DEF Spec

-----------------------------------------------------------------------------
(* The theorems.                                                           *)

\* What a window that is stored is.
LEMMA StoredIs ==
    ASSUME IInv, NEW a \in Account
    PROVE  /\ windows[a].list \in Seq(Window)
           /\ \A w \in Listed(a) : w \in WindowsOf(provider[a])
           /\ rows[a] # NoRow =>
                /\ Shows(provider[a], answer[a], windows[a].list)
                /\ rows[a].status = AccountStatus(windows[a].list)
                /\ FromAnswer(a)
<1>1. OneSaving(a) /\ windows[a].list \in Seq(Window)
  BY DEF IInv, Shaped, Kept
<1>2. CASE rows[a] = NoRow /\ windows[a] = NoWindows
  <2>1. Listed(a) = {}
    BY <1>2 DEF Listed, NoWindows, Range
  <2> QED
    BY <1>1, <1>2, <2>1
<1>3. CASE /\ rows[a] = [status |-> AccountStatus(windows[a].list), save |-> saves[a]]
           /\ FromAnswer(a)
  <2>1. PICK r \in Readings(provider[a], answer[a]) : r.ok /\ windows[a].list = r.windows
    BY <1>3 DEF FromAnswer
  <2>2. Shows(provider[a], answer[a], windows[a].list)
    BY <1>3, <2>1, ReadingShows DEF FromAnswer
  <2>3. Listed(a) \subseteq WindowsOf(provider[a])
    BY <2>2, RangeFinite DEF Listed, Shows
  <2> QED
    BY <1>1, <1>3, <2>2, <2>3
<1> QED
  BY <1>1, <1>2, <1>3 DEF OneSaving

\* Rows, windows and the overview have their shapes, and the shares their
\* bounds: whatever numbers the providers send, the clients that compute
\* what is left never store less than nothing, nor more than the whole.
THEOREM ReportsTypeOK == Spec => []TypeOK
<1>1. IInv => TypeOK
  <2> SUFFICES ASSUME IInv
               PROVE  TypeOK
    OBVIOUS
  <2>1. Shaped
    BY DEF IInv
  <2>2. ASSUME NEW a \in Account, NEW w \in Listed(a), w.of > 0
        PROVE  /\ provider[a] \in Percents \union Subtracts => w.left >= 0
               /\ provider[a] \in Percents => w.left <= w.of
    BY <2>2, StoredIs DEF WindowsOf
  <2> QED
    BY <2>1, <2>2 DEF TypeOK, Shaped, Row, Kept, Percents, Subtracts
<1> QED
  BY <1>1, Invariant, PTL

\* Every window with a percentage that quotaStatus calls critical is low
\* enough for the low-quota alert of Policy, and the other way round.
THEOREM ReportsCriticalIsAlerted == Spec => []CriticalIsAlerted
<1>1. IInv => CriticalIsAlerted
  <2> SUFFICES ASSUME IInv, NEW a \in Account, NEW w \in Listed(a), w.of > 0
               PROVE  w.status = "critical" <=> 100 * w.left <= LowQuotaPercent * w.of
    BY DEF CriticalIsAlerted
  <2>1. w.status = QuotaStatus(w.left, w.of) /\ w.left \in Int /\ w.of \in Nat
    BY StoredIs DEF WindowsOf, Window
  <2> QED
    BY <2>1 DEF QuotaStatus, LowQuotaPercent
<1> QED
  BY <1>1, Invariant, PTL

\* However savings and deletions fall between the statements of Overview, no
\* card mixes windows with the row of a later saving, and no card shows what
\* was saved before the load began.
THEOREM ReportsCardsAreRecent == Spec => []CardsAreRecent
<1>1. IInv => CardsAreRecent
  <2> SUFFICES ASSUME IInv, view.at = "shown", NEW a \in Account, view.cards[a].row # NoRow
               PROVE  LET card == view.cards[a]
                          worst(s) == \E w \in Range(card.windows.list) : w.status = s
                      IN /\ card.row.save >= view.since[a]
                         /\ card.windows = NoWindows \/ card.windows.save >= card.row.save
                         /\ card.windows.save = card.row.save =>
                              /\ card.row.status = "critical" <=> worst("critical")
                              /\ card.row.status = "warning" <=> worst("warning") /\ ~worst("critical")
    BY DEF CardsAreRecent
  <2> DEFINE card == view.cards[a]
             worst(s) == \E w \in Range(card.windows.list) : w.status = s
  <2>1. card.row.save > 0 /\ card.row.save >= view.since[a] /\ Fits(card.row, card.windows)
    BY DEF IInv, Loading, CardFits
  <2>2. card.windows.list \in Seq(Window) /\ card.row.save \in Nat
    BY Counted DEF IInv
  <2>3. NoWindows.save = 0
    BY DEF NoWindows
  <2> HIDE DEF card
  <2>4. ASSUME card.windows.save = card.row.save
        PROVE  card.row.status = AccountStatus(card.windows.list)
    BY <2>1, <2>2, <2>3, <2>4 DEF Fits
  <2>5. /\ AccountStatus(card.windows.list) = "critical" <=> worst("critical")
        /\ AccountStatus(card.windows.list) = "warning" <=> worst("warning") /\ ~worst("critical")
    BY <2>2, WorstDecides
  <2>6. card.windows = NoWindows \/ card.windows.save >= card.row.save
    BY <2>1 DEF Fits
  <2> HIDE DEF worst
  <2>7. /\ card.row.save >= view.since[a]
        /\ card.windows = NoWindows \/ card.windows.save >= card.row.save
        /\ card.windows.save = card.row.save =>
             /\ card.row.status = "critical" <=> worst("critical")
             /\ card.row.status = "warning" <=> worst("warning") /\ ~worst("critical")
    BY <2>1, <2>4, <2>5, <2>6
  <2> QED
    BY <2>7 DEF card, worst
<1> QED
  BY <1>1, Invariant, PTL

\* Whichever client reads it, an answer in which a limit is used up makes the
\* account critical.
THEOREM ReportsUsedUpIsCritical == Spec => []UsedUpIsCritical
<1>1. IInv => UsedUpIsCritical
  <2> SUFFICES ASSUME IInv, NEW a \in Account, rows[a] # NoRow, UsedUp(provider[a], answer[a])
               PROVE  rows[a].status = "critical"
    BY DEF UsedUpIsCritical
  <2>1. /\ Shows(provider[a], answer[a], windows[a].list) /\ windows[a].list \in Seq(Window)
        /\ rows[a].status = AccountStatus(windows[a].list)
    BY StoredIs
  <2> QED
    BY <2>1, WorstDecides DEF Shows
<1> QED
  BY <1>1, Invariant, PTL

\* As long as the answers tell the truth of what an account holds, no credit
\* of WorkBuddy is shown twice, and none is missed when all requests succeed.
THEOREM ReportsCreditsCountedOnce == Spec => []CreditsCountedOnce
<1>1. IInv => CreditsCountedOnce
  <2> SUFFICES ASSUME IInv, NEW a \in Account, rows[a] # NoRow, provider[a] = "workbuddy"
               PROVE  LET x == answer[a]
                          held == LeftOf(x.held)
                          shown == windows[a].list[1].left
                      IN /\ shown <= held
                         /\ x.domestic /\ (\A r \in {x.summary, x.paid, x.free} : Recognised(r))
                              => shown = held
    BY DEF CreditsCountedOnce
  <2>1. FromAnswer(a)
    BY StoredIs
  <2>2. "workbuddy" \in DOMAIN Answer /\ answer[a] \in Answer["workbuddy"]
    BY <2>1 DEF FromAnswer
  <2>3. PICK r \in Readings("workbuddy", answer[a]) : r.ok /\ windows[a].list = r.windows
    BY <2>1 DEF FromAnswer
  <2> QED
    BY <2>2, <2>3, ReadingCredits
<1> QED
  BY <1>1, Invariant, PTL
=============================================================================
