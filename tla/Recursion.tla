------------------------------ MODULE Recursion ------------------------------
(***************************************************************************)
(* What the proofs of other modules need about recursion: induction over   *)
(* numbers and over sequences, in terms of sets, and that a function which *)
(* is defined along a sequence, each value from the one before, exists and *)
(* is the only one.                                                        *)
(***************************************************************************)
EXTENDS Integers, Sequences, SequenceTheorems, WellFoundedInduction, TLAPS

LEMMA LeastNat ==
    ASSUME NEW S, S \subseteq Nat, S # {}
    PROVE  \E m \in S : \A k \in S : m <= k
<1> DEFINE R == OpToRel(<, Nat)
<1>1. IsWellFoundedOn(R, Nat)
  BY NatLessThanWellFounded, Zenon
<1>2. \A x, y \in Nat : x < y => << x, y >> \in R
  BY DEF OpToRel
<1> HIDE DEF R
<1>3. PICK m \in S : \A k \in S : ~ (<< k, m >> \in R)
  BY <1>1, WFMin
<1>4. ASSUME NEW k \in S
      PROVE  m <= k
  <2>1. m \in Nat /\ k \in Nat
    OBVIOUS
  <2>2. ~ (k < m)
    BY <1>2, <1>3, <2>1
  <2> QED
    BY <2>1, <2>2
<1> QED
  BY <1>4

LEMMA Induction ==
    ASSUME NEW S, 0 \in S, \A n \in Nat : n \in S => n + 1 \in S
    PROVE  Nat \subseteq S
<1> SUFFICES ASSUME ~ (Nat \subseteq S)
             PROVE  FALSE
  OBVIOUS
<1> DEFINE T == Nat \ S
<1>1. T \subseteq Nat /\ T # {}
  OBVIOUS
<1>2. PICK m \in T : \A k \in T : m <= k
  BY <1>1, LeastNat
<1>3. m # 0
  OBVIOUS
<1>4. m - 1 \in Nat
  BY <1>3, <1>1
<1>5. m - 1 \in S
  BY <1>2, <1>4
<1> QED
  BY <1>4, <1>5

\* With all smaller ones known.
LEMMA CourseOfValues ==
    ASSUME NEW S, \A n \in Nat : (\A m \in Nat : m < n => m \in S) => n \in S
    PROVE  Nat \subseteq S
<1> SUFFICES ASSUME ~ (Nat \subseteq S)
             PROVE  FALSE
  OBVIOUS
<1> DEFINE T == Nat \ S
<1>1. T \subseteq Nat /\ T # {}
  OBVIOUS
<1>2. PICK n \in T : \A k \in T : n <= k
  BY <1>1, LeastNat
<1>3. \A m \in Nat : m < n => m \in S
  BY <1>2
<1> QED
  BY <1>3

-----------------------------------------------------------------------------

LEMMA AppendFacts ==
    ASSUME NEW A, NEW s \in Seq(A), NEW a \in A
    PROVE  /\ Append(s, a) \in Seq(A) /\ Len(s) \in Nat /\ Len(Append(s, a)) = Len(s) + 1
           /\ Append(s, a)[Len(s) + 1] = a
           /\ \A k \in 1..Len(s) : Append(s, a)[k] = s[k]
OBVIOUS

LEMMA SequenceOf ==
    ASSUME NEW A, NEW n \in Nat, NEW u \in [1..n -> A]
    PROVE  u \in Seq(A) /\ Len(u) = n
OBVIOUS

LEMMA AppendJoins ==
    ASSUME NEW A, NEW s \in Seq(A), NEW t \in Seq(A), NEW a \in A
    PROVE  /\ Append(s, a) # <<>> /\ Append(s, a) \in Seq(A) /\ s \o t \in Seq(A)
           /\ s \o Append(t, a) = Append(s \o t, a)
OBVIOUS

LEMMA LastFacts ==
    ASSUME NEW A, NEW s \in Seq(A), s # <<>>
    PROVE  \E r \in Seq(A), a \in A : s = Append(r, a)
<1> DEFINE r == [k \in 1..(Len(s) - 1) |-> s[k]]
           a == s[Len(s)]
<1>1. Len(s) \in Nat /\ Len(s) > 0
  OBVIOUS
<1>2. a \in A /\ \A k \in 1..Len(s) : s[k] \in A
  BY <1>1
<1>3. r \in Seq(A) /\ Len(r) = Len(s) - 1
  <2>1. r \in [1..(Len(s) - 1) -> A] /\ Len(s) - 1 \in Nat
    BY <1>1, <1>2
  <2> QED
    BY <2>1
<1>4. s = Append(r, a)
  <2>1. \A k \in 1..(Len(s) - 1) : r[k] = s[k]
    OBVIOUS
  <2> HIDE DEF r, a
  <2>2. Len(Append(r, a)) = Len(s) /\ Append(r, a) \in Seq(A)
    BY <1>1, <1>2, <1>3
  <2>3. \A k \in 1..Len(s) : Append(r, a)[k] = s[k]
    <3> TAKE k \in 1..Len(s)
    <3>1. CASE k = Len(s)
      BY <1>1, <1>2, <1>3, <3>1 DEF a
    <3>2. CASE k # Len(s)
      BY <1>1, <1>2, <1>3, <2>1, <3>2
    <3> QED
      BY <3>1, <3>2
  <2> QED
    BY <2>2, <2>3
<1> QED
  BY <1>2, <1>3, <1>4

LEMMA AppendInduction ==
    ASSUME NEW A, NEW S, <<>> \in S,
           \A s \in Seq(A), a \in A : s \in S => Append(s, a) \in S
    PROVE  Seq(A) \subseteq S
<1> DEFINE N == {n \in Nat : \A s \in Seq(A) : Len(s) = n => s \in S}
<1>1. 0 \in N
  <2>1. \A s \in Seq(A) : Len(s) = 0 => s = <<>>
    OBVIOUS
  <2> QED
    BY <2>1
<1>2. \A n \in Nat : n \in N => n + 1 \in N
  <2> SUFFICES ASSUME NEW n \in Nat, \A s \in Seq(A) : Len(s) = n => s \in S,
                      NEW s \in Seq(A), Len(s) = n + 1
               PROVE  s \in S
    OBVIOUS
  <2>1. s # <<>>
    OBVIOUS
  <2>2. PICK r \in Seq(A), a \in A : s = Append(r, a)
    BY <2>1, LastFacts
  <2>3. Len(r) = n
    BY <2>2
  <2> QED
    BY <2>2, <2>3
<1>3. Nat \subseteq N
  <2> HIDE DEF N
  <2> QED
    BY <1>1, <1>2, Induction
<1>4. ASSUME NEW s \in Seq(A)
      PROVE  s \in S
  <2>1. Len(s) \in N
    BY <1>3
  <2> QED
    BY <2>1
<1> QED
  BY <1>4

-----------------------------------------------------------------------------
(* Going along a sequence: F[x][a] is what x becomes at element a.          *)

Folder(A, X, F, x0) == F \in [X -> [A -> X]] /\ x0 \in X

IsRun(X, F, x0, s, g) ==
    /\ g \in [0..Len(s) -> X] /\ g[0] = x0
    /\ \A k \in 1..Len(s) : g[k] = F[g[k - 1]][s[k]]

\* What goes along s like this, from where it is known to be in X.
Goes(X, F, x0, s, v) ==
    /\ v[0] = x0
    /\ \A k \in 1..Len(s) : v[k - 1] \in X => v[k] = F[v[k - 1]][s[k]]

Folded(X, F, x0, s) == (CHOOSE g : IsRun(X, F, x0, s, g))[Len(s)]

LEMMA RunLonger ==
    ASSUME NEW A, NEW X, NEW F, NEW x0, Folder(A, X, F, x0),
           NEW s \in Seq(A), NEW a \in A, NEW g, IsRun(X, F, x0, s, g),
           NEW h, h = [k \in 0..Len(Append(s, a)) |-> IF k <= Len(s) THEN g[k] ELSE F[g[Len(s)]][a]]
    PROVE  IsRun(X, F, x0, Append(s, a), h)
<1>1. Len(s) \in Nat /\ Len(Append(s, a)) = Len(s) + 1
  OBVIOUS
<1>2. /\ g \in [0..Len(s) -> X] /\ g[0] = x0
      /\ \A k \in 1..Len(s) : g[k] = F[g[k - 1]][s[k]]
  BY DEF IsRun
<1>3. g[Len(s)] \in X /\ F[g[Len(s)]][a] \in X
  <2>1. Len(s) \in 0..Len(s)
    BY <1>1
  <2>2. g[Len(s)] \in X
    BY <1>2, <2>1
  <2>3. F[g[Len(s)]] \in [A -> X]
    BY <2>2 DEF Folder
  <2> QED
    BY <2>2, <2>3 DEF Folder
<1>4. \A k \in 0..Len(s) : h[k] = g[k]
  BY <1>1
<1>5. h[Len(s) + 1] = F[g[Len(s)]][a]
  BY <1>1
<1>6. h \in [0..Len(Append(s, a)) -> X]
  BY <1>1, <1>2, <1>3 DEF Folder
<1>7. h[0] = x0
  BY <1>1, <1>2, <1>4
<1>8. \A k \in 1..Len(Append(s, a)) : h[k] = F[h[k - 1]][Append(s, a)[k]]
  <2> TAKE k \in 1..Len(Append(s, a))
  <2>1. CASE k <= Len(s)
    <3>1. k \in 1..Len(s) /\ k - 1 \in 0..Len(s) /\ k \in 0..Len(s)
      BY <1>1, <2>1
    <3>2. Append(s, a)[k] = s[k]
      BY <3>1
    <3> QED
      BY <1>2, <1>4, <3>1, <3>2
  <2>2. CASE ~(k <= Len(s))
    <3>1. k = Len(s) + 1 /\ k - 1 = Len(s) /\ Len(s) \in 0..Len(s)
      BY <1>1, <2>2
    <3>2. Append(s, a)[k] = a
      BY <3>1
    <3> QED
      BY <1>4, <1>5, <3>1, <3>2
  <2> QED
    BY <2>1, <2>2
<1> QED
  BY <1>6, <1>7, <1>8 DEF IsRun

LEMMA RunExists ==
    ASSUME NEW A, NEW X, NEW F, NEW x0, Folder(A, X, F, x0), NEW s \in Seq(A)
    PROVE  \E g : IsRun(X, F, x0, s, g)
<1> DEFINE S == {t \in Seq(A) : \E g : IsRun(X, F, x0, t, g)}
<1>1. <<>> \in S
  <2> DEFINE g == [k \in 0..0 |-> x0]
  <2>1. IsRun(X, F, x0, <<>>, g)
    BY DEF IsRun, Folder
  <2> QED
    BY <2>1
<1>2. \A t \in Seq(A), a \in A : t \in S => Append(t, a) \in S
  <2> SUFFICES ASSUME NEW t \in Seq(A), NEW a \in A, NEW g, IsRun(X, F, x0, t, g)
               PROVE  \E h : IsRun(X, F, x0, Append(t, a), h)
    OBVIOUS
  <2> DEFINE h == [k \in 0..Len(Append(t, a)) |-> IF k <= Len(t) THEN g[k] ELSE F[g[Len(t)]][a]]
  <2>1. IsRun(X, F, x0, Append(t, a), h)
    BY RunLonger
  <2> QED
    BY <2>1
<1>3. Seq(A) \subseteq S
  <2> HIDE DEF S
  <2> QED
    BY <1>1, <1>2, AppendInduction
<1> QED
  BY <1>3

\* Whatever goes along s like this is the run.
LEMMA RunUnique ==
    ASSUME NEW A, NEW X, NEW F, NEW x0, Folder(A, X, F, x0), NEW s \in Seq(A),
           NEW g, IsRun(X, F, x0, s, g),
           NEW v, Goes(X, F, x0, s, v)
    PROVE  \A k \in 0..Len(s) : v[k] = g[k] /\ v[k] \in X
<1> DEFINE S == {k \in Nat : k <= Len(s) => v[k] = g[k] /\ v[k] \in X}
<1>1. /\ g \in [0..Len(s) -> X] /\ g[0] = x0
      /\ \A k \in 1..Len(s) : g[k] = F[g[k - 1]][s[k]]
  BY DEF IsRun
<1>2. Len(s) \in Nat /\ \A k \in 0..Len(s) : g[k] \in X
  <2>1. Len(s) \in Nat
    OBVIOUS
  <2>2. \A k \in 0..Len(s) : g[k] \in X
    BY <1>1
  <2> QED
    BY <2>1, <2>2
<1>3. 0 \in S
  BY <1>1 DEF Goes, Folder
<1>4. \A k \in Nat : k \in S => k + 1 \in S
  <2> SUFFICES ASSUME NEW k \in Nat, k \in S, k + 1 <= Len(s)
               PROVE  v[k + 1] = g[k + 1] /\ v[k + 1] \in X
    OBVIOUS
  <2>1. v[k] = g[k] /\ v[k] \in X
    BY <1>2
  <2>2. k + 1 \in 1..Len(s) /\ (k + 1) - 1 = k /\ k + 1 \in 0..Len(s)
    BY <1>2
  <2>3. v[k + 1] = F[v[k]][s[k + 1]]
    BY <2>1, <2>2 DEF Goes
  <2>4. g[k + 1] = F[g[k]][s[k + 1]]
    BY <1>1, <2>2
  <2> QED
    BY <1>2, <2>1, <2>2, <2>3, <2>4 DEF Folder
<1>5. Nat \subseteq S
  <2> HIDE DEF S
  <2> QED
    BY <1>3, <1>4, Induction
<1> QED
  BY <1>2, <1>5

LEMMA FoldedIs ==
    ASSUME NEW A, NEW X, NEW F, NEW x0, Folder(A, X, F, x0), NEW s \in Seq(A),
           NEW v, Goes(X, F, x0, s, v)
    PROVE  v[Len(s)] = Folded(X, F, x0, s)
<1> DEFINE g == CHOOSE g : IsRun(X, F, x0, s, g)
<1>1. IsRun(X, F, x0, s, g)
  BY RunExists
<1> HIDE DEF g
<1>2. \A k \in 0..Len(s) : v[k] = g[k]
  BY <1>1, RunUnique
<1>3. Len(s) \in 0..Len(s)
  OBVIOUS
<1> QED
  BY <1>2, <1>3 DEF Folded, g

LEMMA FoldedBegins ==
    ASSUME NEW A, NEW X, NEW F, NEW x0, Folder(A, X, F, x0)
    PROVE  Folded(X, F, x0, <<>>) = x0
<1> DEFINE g == CHOOSE g : IsRun(X, F, x0, <<>>, g)
<1>0. <<>> \in Seq(A) /\ Len(<<>>) = 0
  OBVIOUS
<1>1. IsRun(X, F, x0, <<>>, g)
  BY <1>0, RunExists
<1> HIDE DEF g
<1> QED
  BY <1>0, <1>1 DEF IsRun, Folded, g

LEMMA FoldedAppend ==
    ASSUME NEW A, NEW X, NEW F, NEW x0, Folder(A, X, F, x0), NEW s \in Seq(A), NEW a \in A
    PROVE  Folded(X, F, x0, Append(s, a)) = F[Folded(X, F, x0, s)][a]
<1> DEFINE g == CHOOSE g : IsRun(X, F, x0, s, g)
           h == [k \in 0..Len(Append(s, a)) |-> IF k <= Len(s) THEN g[k] ELSE F[g[Len(s)]][a]]
<1>1. IsRun(X, F, x0, s, g)
  BY RunExists
<1>2. IsRun(X, F, x0, Append(s, a), h)
  BY <1>1, RunLonger
<1>3. Append(s, a) \in Seq(A) /\ Len(s) \in Nat /\ Len(Append(s, a)) = Len(s) + 1
  OBVIOUS
<1>4. h[Len(s) + 1] = F[g[Len(s)]][a]
  BY <1>3
<1> HIDE DEF g, h
<1>5. h[Len(Append(s, a))] = Folded(X, F, x0, Append(s, a))
  <2>1. Goes(X, F, x0, Append(s, a), h)
    BY <1>2 DEF IsRun, Goes
  <2> DEFINE t == Append(s, a)
  <2>2. t \in Seq(A) /\ Goes(X, F, x0, t, h)
    BY <1>3, <2>1
  <2> HIDE DEF t
  <2>3. h[Len(t)] = Folded(X, F, x0, t)
    BY <2>2, FoldedIs
  <2> QED
    BY <2>3 DEF t
<1> QED
  BY <1>3, <1>4, <1>5 DEF Folded, g

LEMMA FoldedType ==
    ASSUME NEW A, NEW X, NEW F, NEW x0, Folder(A, X, F, x0), NEW s \in Seq(A)
    PROVE  Folded(X, F, x0, s) \in X
<1> DEFINE g == CHOOSE g : IsRun(X, F, x0, s, g)
<1>1. IsRun(X, F, x0, s, g)
  BY RunExists
<1> HIDE DEF g
<1>2. g \in [0..Len(s) -> X] /\ Len(s) \in 0..Len(s)
  BY <1>1 DEF IsRun
<1> QED
  BY <1>2 DEF Folded, g

-----------------------------------------------------------------------------
(* Going along a chain: from each element of D that is not in Stop to one   *)
(* of smaller rank.                                                        *)

Ranked(D, Stop, next, rank) ==
    /\ next \in [D -> D] /\ rank \in [D -> Nat]
    /\ \A a \in D \ Stop : rank[next[a]] < rank[a]

LEMMA RankInduction ==
    ASSUME NEW D, NEW rank \in [D -> Nat], NEW S,
           \A a \in D : (\A b \in D : rank[b] < rank[a] => b \in S) => a \in S
    PROVE  D \subseteq S
<1> DEFINE N == {n \in Nat : \A a \in D : rank[a] = n => a \in S}
<1>1. \A n \in Nat : (\A m \in Nat : m < n => m \in N) => n \in N
  <2> SUFFICES ASSUME NEW n \in Nat, \A m \in Nat : m < n => m \in N,
                      NEW a \in D, rank[a] = n
               PROVE  a \in S
    OBVIOUS
  <2>1. \A b \in D : rank[b] < rank[a] => b \in S
    OBVIOUS
  <2> QED
    BY <2>1
<1>2. Nat \subseteq N
  <2> HIDE DEF N
  <2> QED
    BY <1>1, CourseOfValues
<1> QED
  BY <1>2

\* A function of the numbers, each value from the one before.
Iterates(X, F, x0, g) ==
    g \in [Nat -> X] /\ g[0] = x0 /\ \A n \in Nat : g[n + 1] = F[g[n]]

LEMMA IterationExists ==
    ASSUME NEW X, NEW F, NEW x0, F \in [X -> X], x0 \in X
    PROVE  \E g : Iterates(X, F, x0, g)
<1> DEFINE A == {0}
           G == [x \in X |-> [a \in A |-> F[x]]]
           z(n) == [k \in 1..n |-> 0]
           g == [n \in Nat |-> Folded(X, G, x0, z(n))]
<1>1. Folder(A, X, G, x0)
  BY DEF Folder
<1>2. \A n \in Nat : z(n) \in Seq(A) /\ Len(z(n)) = n
  <2> TAKE n \in Nat
  <2>1. z(n) \in [1..n -> A]
    OBVIOUS
  <2> QED
    BY <2>1, SequenceOf
<1>3. z(0) = <<>>
  BY <1>2
<1>4. \A n \in Nat : z(n + 1) = Append(z(n), 0)
  <2> TAKE n \in Nat
  <2>1. z(n) \in Seq(A) /\ Len(z(n)) = n /\ z(n + 1) \in Seq(A) /\ Len(z(n + 1)) = n + 1
    BY <1>2
  <2>2. \A k \in 1..(n + 1) : z(n + 1)[k] = 0
    OBVIOUS
  <2>3. \A k \in 1..n : z(n)[k] = 0
    OBVIOUS
  <2> HIDE DEF z
  <2>4. \A k \in 1..(n + 1) : Append(z(n), 0)[k] = 0
    BY <2>1, <2>3
  <2>5. Append(z(n), 0) \in Seq(A) /\ Len(Append(z(n), 0)) = n + 1
    BY <2>1
  <2> QED
    BY <2>1, <2>2, <2>4, <2>5
<1> HIDE DEF z
<1>5. g \in [Nat -> X]
  <2> HIDE DEF G
  <2>1. \A n \in Nat : Folded(X, G, x0, z(n)) \in X
    BY <1>1, <1>2, FoldedType
  <2> QED
    BY <2>1
<1>6. g[0] = x0
  <2> HIDE DEF G
  <2> QED
    BY <1>1, <1>3, FoldedBegins
<1>7. ASSUME NEW n \in Nat
      PROVE  g[n + 1] = F[g[n]]
  <2> DEFINE x == Folded(X, G, x0, z(n))
  <2>1. g[n + 1] = Folded(X, G, x0, Append(z(n), 0)) /\ g[n] = x
    <3> HIDE DEF G
    <3>0. z(n + 1) = Append(z(n), 0)
      BY <1>4, Zenon
    <3>1. n + 1 \in Nat /\ z(n + 1) = Append(z(n), 0)
      BY <3>0
    <3>2. g[n + 1] = Folded(X, G, x0, z(n + 1)) /\ g[n] = x
      BY <3>1
    <3> QED
      BY <3>1, <3>2
  <2>2. Folded(X, G, x0, Append(z(n), 0)) = G[x][0]
    <3> HIDE DEF G
    <3>1. z(n) \in Seq(A) /\ 0 \in A
      BY <1>2
    <3> HIDE DEF A
    <3> QED
      BY <1>1, <3>1, FoldedAppend
  <2>3. x \in X
    BY <1>5, <2>1
  <2> HIDE DEF x, g
  <2> QED
    BY <2>1, <2>2, <2>3
<1> HIDE DEF g
<1>8. Iterates(X, F, x0, g)
  BY <1>5, <1>6, <1>7 DEF Iterates
<1> QED
  BY <1>8

ChainStep(Stop, next, last, more, h, a) == IF a \in Stop THEN last[a] ELSE more[a][h[next[a]]]

IsChain(D, V, Stop, next, last, more, f) ==
    f \in [D -> V] /\ \A a \in D : f[a] = ChainStep(Stop, next, last, more, f, a)

LEMMA ChainExists ==
    ASSUME NEW D, NEW V, NEW Stop, NEW next, NEW rank, Ranked(D, Stop, next, rank),
           NEW last, NEW more, last \in [D -> V], more \in [D -> [V -> V]]
    PROVE  \E f : IsChain(D, V, Stop, next, last, more, f)
<1> DEFINE X == [D -> V]
           B(h, a) == ChainStep(Stop, next, last, more, h, a)
           F == [h \in X |-> [a \in D |-> B(h, a)]]
<1>0. /\ \A a \in D : next[a] \in D /\ rank[a] \in Nat
      /\ \A a \in D : a \notin Stop => rank[next[a]] < rank[a]
  BY DEF Ranked
<1>1. F \in [X -> X]
  <2>1. \A h \in X, a \in D : B(h, a) \in V
    BY <1>0 DEF ChainStep
  <2> HIDE DEF B
  <2> QED
    BY <2>1
<1>2. PICK G : Iterates(X, F, last, G)
  <2>1. last \in X
    OBVIOUS
  <2> HIDE DEF F, X
  <2> QED
    BY <1>1, <2>1, IterationExists
<1> HIDE DEF B
<1>3. \A n \in Nat, a \in D : G[n] \in X /\ G[n + 1][a] = B(G[n], a)
  <2> TAKE n \in Nat, a \in D
  <2> DEFINE h == G[n]
  <2>1. h \in X /\ G[n + 1] = F[h]
    BY <1>2 DEF Iterates
  <2> HIDE DEF h
  <2>2. F[h] = [b \in D |-> B(h, b)]
    BY <2>1
  <2> QED
    BY <2>1, <2>2 DEF h
<1> HIDE DEF F
<1> DEFINE Same(n) == \A a \in D : rank[a] < n => G[n + 1][a] = G[n][a]
           S == {n \in Nat : Same(n)}
<1>4. 0 \in S
  BY <1>0
<1>5. ASSUME NEW n \in Nat, Same(n)
      PROVE  Same(n + 1)
  <2> SUFFICES ASSUME NEW a \in D, rank[a] < n + 1
               PROVE  G[(n + 1) + 1][a] = G[n + 1][a]
    OBVIOUS
  <2>0. \A b \in D : rank[b] < n => G[n + 1][b] = G[n][b]
    BY <1>5
  <2>1. G[(n + 1) + 1][a] = B(G[n + 1], a) /\ G[n + 1][a] = B(G[n], a)
    BY <1>3
  <2>2. CASE a \in Stop
    BY <2>1, <2>2 DEF B, ChainStep
  <2>3. CASE a \notin Stop
    <3>1. next[a] \in D /\ rank[next[a]] < n
      BY <1>0, <2>3
    <3>2. G[n + 1][next[a]] = G[n][next[a]]
      BY <2>0, <3>1
    <3> QED
      BY <2>1, <2>3, <3>2 DEF B, ChainStep
  <2> QED
    BY <2>2, <2>3
<1>6. Nat \subseteq S
  <2> HIDE DEF Same
  <2>1. \A n \in Nat : n \in S => n + 1 \in S
    BY <1>5
  <2> HIDE DEF S
  <2> QED
    BY <1>4, <2>1, Induction
<1>7. \A n \in Nat, a \in D : rank[a] < n => G[n + 1][a] = G[n][a]
  BY <1>6
<1> HIDE DEF S
<1>8. ASSUME NEW a \in D
      PROVE  \A n \in Nat : G[(rank[a] + 1) + n][a] = G[rank[a] + 1][a]
  <2> DEFINE T == {n \in Nat : G[(rank[a] + 1) + n][a] = G[rank[a] + 1][a]}
  <2>1. rank[a] \in Nat
    BY <1>0
  <2>2. 0 \in T
    BY <2>1
  <2>3. \A n \in Nat : n \in T => n + 1 \in T
    <3> SUFFICES ASSUME NEW n \in Nat, G[(rank[a] + 1) + n][a] = G[rank[a] + 1][a]
                 PROVE  G[(rank[a] + 1) + (n + 1)][a] = G[rank[a] + 1][a]
      OBVIOUS
    <3>1. /\ (rank[a] + 1) + (n + 1) = ((rank[a] + 1) + n) + 1
          /\ (rank[a] + 1) + n \in Nat /\ rank[a] < (rank[a] + 1) + n
      BY <2>1
    <3> QED
      BY <1>7, <3>1
  <2>4. Nat \subseteq T
    <3> HIDE DEF T
    <3> QED
      BY <2>2, <2>3, Induction
  <2> QED
    BY <2>4
<1> DEFINE f == [a \in D |-> G[rank[a] + 1][a]]
<1>9. f \in X
  BY <1>0, <1>3
<1>10. ASSUME NEW a \in D
       PROVE  f[a] = B(f, a)
  <2>1. rank[a] \in Nat /\ f[a] = G[rank[a] + 1][a]
    BY <1>0
  <2>2. f[a] = B(G[rank[a]], a)
    BY <1>3, <2>1
  <2>3. CASE a \in Stop
    BY <2>2, <2>3 DEF B, ChainStep
  <2>4. CASE a \notin Stop
    <3> DEFINE b == next[a]
    <3>1. b \in D /\ rank[b] \in Nat /\ rank[b] < rank[a]
      BY <1>0, <2>4
    <3>2. rank[a] - (rank[b] + 1) \in Nat /\ (rank[b] + 1) + (rank[a] - (rank[b] + 1)) = rank[a]
      BY <2>1, <3>1
    <3>3. G[rank[a]][b] = G[rank[b] + 1][b]
      <4> DEFINE k == rank[a] - (rank[b] + 1)
      <4>1. k \in Nat /\ (rank[b] + 1) + k = rank[a]
        BY <3>2
      <4> HIDE DEF k, b
      <4>2. G[(rank[b] + 1) + k][b] = G[rank[b] + 1][b]
        BY <1>8, <3>1, <4>1
      <4> QED
        BY <4>1, <4>2
    <3>4. f[b] = G[rank[b] + 1][b]
      BY <3>1
    <3> HIDE DEF f
    <3> QED
      BY <2>2, <2>4, <3>3, <3>4 DEF B, ChainStep
  <2> QED
    BY <2>3, <2>4
<1>11. IsChain(D, V, Stop, next, last, more, f)
  <2> HIDE DEF f
  <2> QED
    BY <1>9, <1>10 DEF B, IsChain
<1> QED
  BY <1>11

=============================================================================
