--------------------------- MODULE SequenceLemmas ----------------------------
(* Facts about numbers, sequences and folds that the proofs of several      *)
(* components use. None of them needs an operator as a parameter: induction *)
(* is on the set of the numbers of which something holds, which has all     *)
(* numbers if it has 0 and, with each, the next.                            *)
EXTENDS SequencesExt, SequenceTheorems, FiniteSetTheorems, WellFoundedInduction, TLAPS

\* Every set of numbers has a least one.
LEMMA LeastNumber ==
    ASSUME NEW S \in SUBSET Nat, S # {}
    PROVE  \E n \in S : \A m \in S : n <= m
<1>. DEFINE R == OpToRel(<, Nat)
<1>1. \E x \in S : \A y \in S : ~ (<<y, x>> \in R)
  <2>. HIDE DEF R
  <2>1. IsWellFoundedOn(R, Nat)
    BY NatLessThanWellFounded DEF R
  <2>. QED BY <2>1, WFMin
<1>2. \A x, y \in Nat : <<y, x>> \in R <=> y < x
  BY DEF OpToRel
<1>. HIDE DEF R
<1>3. PICK n \in S : \A m \in S : ~ (<<m, n>> \in R)
  BY <1>1
<1>4. ASSUME NEW m \in S PROVE n <= m
  <2>1. m \in Nat /\ n \in Nat
    OBVIOUS
  <2>2. ~ (m < n)
    BY <1>2, <1>3, <2>1
  <2>. QED BY <2>1, <2>2
<1>. QED BY <1>4

\* Induction, on the set of the numbers of which something holds.
LEMMA SetInduction ==
    ASSUME NEW S, 0 \in S, \A n \in Nat : n \in S => n + 1 \in S
    PROVE  Nat \subseteq S
<1>. SUFFICES ASSUME ~(Nat \subseteq S) PROVE FALSE
  OBVIOUS
<1>1. PICK n \in Nat \ S : \A m \in Nat \ S : n <= m
  BY LeastNumber
<1>2. n # 0 /\ n - 1 \in Nat /\ n - 1 \in S
  BY <1>1
<1>. QED BY <1>1, <1>2

---------------------------------------------------------------------------
(* Sequences, end to end                                                 *)

\* s \o t, as an operator that is expanded only where that is needed.
Concat(s, t) == s \o t

\* f[i] is the first i sequences, end to end.
Joins(f, s) == f = [i \in 1..Len(s) |-> IF i = 1 THEN s[i] ELSE Concat(f[i - 1], s[i])]

\* There is such a function, whatever the sequences.
LEMMA JoinExists ==
    ASSUME NEW s, NEW n \in Nat
    PROVE  \E f : f = [i \in 1..n |-> IF i = 1 THEN s[i] ELSE Concat(f[i - 1], s[i])]
<1>. DEFINE J(f, m) == f = [i \in 1..m |-> IF i = 1 THEN s[i] ELSE Concat(f[i - 1], s[i])]
            G == {m \in Nat : \E f : J(f, m)}
<1>1. 0 \in G
  <2>1. J([i \in 1..0 |-> s], 0)
    OBVIOUS
  <2>. QED BY <2>1
<1>2. ASSUME NEW m \in Nat, m \in G PROVE m + 1 \in G
  <2>1. PICK f : J(f, m)
    BY <1>2
  <2>. DEFINE g == [i \in 1..(m + 1) |-> IF i = 1 THEN s[i] ELSE Concat(f[i - 1], s[i])]
  <2>2. \A i \in 1..m : g[i] = f[i]
    BY <2>1
  <2>3. \A i \in 1..(m + 1) : i # 1 => i - 1 \in 1..m
    OBVIOUS
  <2>4. J(g, m + 1)
    <3>. HIDE DEF g
    <3>1. \A i \in 1..(m + 1) : i # 1 => g[i - 1] = f[i - 1]
      BY <2>2, <2>3
    <3>. QED BY <3>1 DEF g
  <2>. HIDE DEF g, J
  <2>. QED BY <2>4
<1>. HIDE DEF G
<1>3. Nat \subseteq G
  BY <1>1, <1>2, SetInduction
<1>. QED BY <1>3 DEF G

\* It is what FlattenSeq goes by.
LEMMA FlattenIsJoin ==
    ASSUME NEW S, NEW s \in Seq(Seq(S)), Len(s) > 0
    PROVE  \E f : Joins(f, s) /\ FlattenSeq(s) = f[Len(s)]
<1>. DEFINE f == CHOOSE f : f = [i \in 1..Len(s) |-> IF i = 1 THEN s[i]
                                                     ELSE Concat(f[i - 1], s[i])]
<1>1. Len(s) \in Nat
  OBVIOUS
<1>2. \E g : g = [i \in 1..Len(s) |-> IF i = 1 THEN s[i] ELSE Concat(g[i - 1], s[i])]
  BY <1>1, JoinExists
<1>3. f = [i \in 1..Len(s) |-> IF i = 1 THEN s[i] ELSE Concat(f[i - 1], s[i])]
  BY <1>2, Zenon
<1>4. FlattenSeq(s) = f[Len(s)]
  BY DEF FlattenSeq, Concat
<1>. QED BY <1>3, <1>4 DEF Joins

\* Its first value, and each from the one before.
LEMMA JoinIs ==
    ASSUME NEW s, Len(s) \in Nat, NEW f, Joins(f, s)
    PROVE  /\ Len(s) > 0 => f[1] = s[1]
           /\ \A n \in Nat : n > 0 /\ n < Len(s) => f[n + 1] = Concat(f[n], s[n + 1])
<1>1. ASSUME NEW i \in 1..Len(s)
      PROVE  f[i] = IF i = 1 THEN s[i] ELSE Concat(f[i - 1], s[i])
  BY DEF Joins
<1>2. Len(s) > 0 => f[1] = s[1]
  BY <1>1
<1>3. ASSUME NEW n \in Nat, n > 0, n < Len(s)
      PROVE  f[n + 1] = Concat(f[n], s[n + 1])
  <2>1. n + 1 \in 1..Len(s) /\ n + 1 # 1 /\ n + 1 - 1 = n
    BY <1>3
  <2>. QED BY <1>1, <2>1
<1>. QED BY <1>2, <1>3

\* Concat makes sequences over S of such.
LEMMA ConcatTyped ==
    ASSUME NEW S, NEW s \in Seq(S), NEW t \in Seq(S)
    PROVE  Concat(s, t) \in Seq(S)
BY DEF Concat

\* The same, of one more sequence.
LEMMA JoinNext ==
    ASSUME NEW s, Len(s) \in Nat, NEW f, Joins(f, s), NEW n \in Nat, n + 1 \in 1..Len(s)
    PROVE  f[n + 1] = IF n = 0 THEN s[n + 1] ELSE Concat(f[n], s[n + 1])
<1>1. Len(s) > 0 => f[1] = s[1]
  BY JoinIs
<1>2. \A k \in Nat : k > 0 /\ k < Len(s) => f[k + 1] = Concat(f[k], s[k + 1])
  BY JoinIs
<1>3. n > 0 => f[n + 1] = Concat(f[n], s[n + 1])
  BY <1>2
<1>4. n = 0 => f[n + 1] = s[n + 1]
  BY <1>1
<1>. QED BY <1>3, <1>4

\* The sequences joined are sequences over S.
LEMMA JoinTyped ==
    ASSUME NEW S, NEW s \in Seq(Seq(S)), NEW f, Joins(f, s)
    PROVE  \A i \in 1..Len(s) : f[i] \in Seq(S)
<1>. DEFINE G == {n \in Nat : n \in 1..Len(s) => f[n] \in Seq(S)}
<1>1. 0 \in G
  OBVIOUS
<1>2. ASSUME NEW n \in Nat, n \in G PROVE n + 1 \in G
  <2>1. SUFFICES ASSUME n + 1 \in 1..Len(s) PROVE f[n + 1] \in Seq(S)
    OBVIOUS
  <2>2. Len(s) \in Nat
    OBVIOUS
  <2>4. f[n + 1] = IF n = 0 THEN s[n + 1] ELSE Concat(f[n], s[n + 1])
    BY <2>1, <2>2, JoinNext
  <2>3. s[n + 1] \in Seq(S) /\ (n # 0 => n \in 1..Len(s))
    BY <2>1
  <2>. QED BY <1>2, <2>3, <2>4, ConcatTyped
<1>. HIDE DEF G
<1>3. Nat \subseteq G
  BY <1>1, <1>2, SetInduction
<1>. QED BY <1>3 DEF G

\* The first sequences do not depend on the last.
LEMMA JoinExtends ==
    ASSUME NEW S, NEW s \in Seq(Seq(S)), NEW x \in Seq(S), NEW f, Joins(f, s),
           NEW g, Joins(g, Append(s, x))
    PROVE  \A i \in 1..Len(s) : g[i] = f[i]
<1>. DEFINE t == Append(s, x)
            G == {n \in Nat : n \in 1..Len(s) => g[n] = f[n]}
<1>1. Len(t) = Len(s) + 1 /\ Len(s) \in Nat /\ \A i \in 1..Len(s) : t[i] = s[i]
  OBVIOUS
<1>. HIDE DEF t
<1>2. 0 \in G
  OBVIOUS
<1>3. ASSUME NEW n \in Nat, n \in G PROVE n + 1 \in G
  <2>1. SUFFICES ASSUME n + 1 \in 1..Len(s) PROVE g[n + 1] = f[n + 1]
    OBVIOUS
  <2>2. f[n + 1] = IF n = 0 THEN s[n + 1] ELSE Concat(f[n], s[n + 1])
    BY <1>1, <2>1, JoinNext
  <2>3. Len(t) \in Nat /\ Joins(g, t) /\ n + 1 \in 1..Len(t)
    BY <1>1, <2>1 DEF t
  <2>4. g[n + 1] = IF n = 0 THEN t[n + 1] ELSE Concat(g[n], t[n + 1])
    BY <2>3, JoinNext
  <2>5. n # 0 => n \in 1..Len(s)
    BY <2>1
  <2>. QED BY <1>1, <1>3, <2>1, <2>2, <2>4, <2>5
<1>. HIDE DEF G
<1>4. Nat \subseteq G
  BY <1>2, <1>3, SetInduction
<1>. QED BY <1>4 DEF G

\* A sequence more is put after those there were.
LEMMA FlattenAppend ==
    ASSUME NEW S, NEW s \in Seq(Seq(S)), NEW x \in Seq(S)
    PROVE  /\ FlattenSeq(s) \in Seq(S)
           /\ FlattenSeq(Append(s, x)) = FlattenSeq(s) \o x
<1>. DEFINE t == Append(s, x)
<1>1. /\ t \in Seq(Seq(S)) /\ Len(t) = Len(s) + 1 /\ t[Len(s) + 1] = x
      /\ Len(s) \in Nat /\ Len(t) \in Nat /\ Len(t) > 0
  OBVIOUS
<1>. HIDE DEF t
<1>2. PICK g : Joins(g, t) /\ FlattenSeq(t) = g[Len(t)]
  BY <1>1, FlattenIsJoin
<1>3. CASE Len(s) = 0
  <2>1. s = <<>> /\ FlattenSeq(s) = <<>>
    BY <1>3 DEF FlattenSeq
  <2>2. Len(t) = 1 /\ FlattenSeq(t) = x
    <3>1. 0 \in Nat /\ 0 + 1 \in 1..Len(t)
      BY <1>1, <1>3
    <3>2. g[0 + 1] = t[0 + 1]
      BY <1>1, <1>2, <3>1, JoinNext
    <3>. QED BY <1>1, <1>2, <1>3, <3>2
  <2>3. <<>> \o x = x
    OBVIOUS
  <2>4. FlattenSeq(s) \o x = x /\ FlattenSeq(s) \in Seq(S)
    <3>1. <<>> \in Seq(S)
      OBVIOUS
    <3>. QED BY <2>1, <2>3, <3>1, Zenon
  <2>. QED BY <2>2, <2>4 DEF t
<1>4. CASE Len(s) > 0
  <2>1. PICK f : Joins(f, s) /\ FlattenSeq(s) = f[Len(s)]
    BY <1>4, FlattenIsJoin
  <2>2. Len(s) \in 1..Len(s)
    BY <1>1, <1>4
  <2>3. g[Len(s)] = f[Len(s)] /\ f[Len(s)] \in Seq(S)
    BY <1>2, <2>1, <2>2, JoinExtends, JoinTyped DEF t
  <2>4. g[Len(s) + 1] = Concat(g[Len(s)], t[Len(s) + 1])
    <3>1. Len(s) + 1 \in 1..Len(t)
      BY <1>1
    <3>. DEFINE n == Len(s)
    <3>2. n \in Nat /\ n # 0 /\ n + 1 \in 1..Len(t) /\ Len(t) \in Nat
      BY <1>1, <1>4, <3>1
    <3>. HIDE DEF n
    <3>3. g[n + 1] = IF n = 0 THEN t[n + 1] ELSE Concat(g[n], t[n + 1])
      BY <1>2, <3>2, JoinNext
    <3>. QED BY <3>2, <3>3 DEF n
  <2>5. FlattenSeq(t) = Concat(FlattenSeq(s), x)
    BY <1>1, <1>2, <2>1, <2>3, <2>4
  <2>. QED BY <2>1, <2>3, <2>5 DEF t, Concat
<1>. QED BY <1>1, <1>3, <1>4

---------------------------------------------------------------------------
(* Folds                                                                    *)

\* The greatest of some numbers, and of all up to one.
LEMMA MaxIs ==
    ASSUME NEW n \in Nat, NEW T \in SUBSET (1..n), T # {}
    PROVE  Max(T) \in T /\ \A x \in T : x <= Max(T)
<1>. DEFINE U == {k \in Nat : n - k \in T}
<1>1. \A x \in T : n - x \in Nat /\ n - (n - x) = x
  OBVIOUS
<1>2. U # {} /\ U \in SUBSET Nat
  BY <1>1
<1>. HIDE DEF U
<1>3. PICK k \in U : \A m \in U : k <= m
  BY <1>2, LeastNumber
<1>4. n - k \in T /\ \A x \in T : n - x \in U
  BY <1>1, <1>3 DEF U
<1>5. \A x \in T : x <= n - k
  <2>1. k \in Nat
    BY <1>2, <1>3
  <2>. QED BY <1>3, <1>4, <2>1
<1>6. \E x \in T : \A y \in T : x >= y
  <2>1. k \in Nat
    BY <1>2, <1>3
  <2>. QED BY <1>4, <1>5, <2>1
<1>7. Max(T) = CHOOSE x \in T : \A y \in T : x >= y
  BY DEF Max
<1>. DEFINE m == CHOOSE x \in T : \A y \in T : x >= y
<1>8. m \in T /\ \A y \in T : m >= y
  BY <1>6, Zenon
<1>. HIDE DEF m
<1>9. m = Max(T)
  BY <1>7 DEF m
<1>10. m \in Nat /\ \A y \in T : y \in Nat
  BY <1>8
<1>. QED BY <1>8, <1>9, <1>10

\* f[T] is what step makes of base and the members of s at the positions T, the
\* last of them last.
Folded(f, S, step, base, s, n) ==
    /\ f \in [SUBSET (1..n) -> S]
    /\ \A T \in SUBSET (1..n) :
          f[T] = IF T = {} THEN base ELSE step[<<f[T \ {Max(T)}], s[Max(T)]>>]

\* There is such a function.
LEMMA FoldExists ==
    ASSUME NEW S, NEW X, NEW step \in [S \X X -> S], NEW base \in S, NEW s, NEW n \in Nat,
           \A i \in 1..n : s[i] \in X
    PROVE  \E f : Folded(f, S, step, base, s, n)
<1>. DEFINE Folds(f, m) == Folded(f, S, step, base, s, m)
            G == {m \in Nat : m <= n => \E f : Folds(f, m)}
<1>1. 0 \in G
  <2>. DEFINE f == [T \in SUBSET (1..0) |-> base]
  <2>1. \A T \in SUBSET (1..0) : T = {}
    OBVIOUS
  <2>2. Folds(f, 0)
    BY <2>1 DEF Folded
  <2>. HIDE DEF f
  <2>. QED BY <2>2
<1>2. ASSUME NEW m \in Nat, m \in G PROVE m + 1 \in G
  <2>. SUFFICES ASSUME m + 1 <= n PROVE \E f : Folds(f, m + 1)
    OBVIOUS
  <2>1. m + 1 <= n /\ m <= n
    OBVIOUS
  <2>2. PICK f : Folds(f, m)
    BY <1>2, <2>1
  <2>. DEFINE g == [T \in SUBSET (1..(m + 1)) |->
                       IF m + 1 \in T THEN step[<<f[T \ {m + 1}], s[m + 1]>>] ELSE f[T]]
  <2>3. ASSUME NEW T \in SUBSET (1..(m + 1)), m + 1 \in T
        PROVE  T # {} /\ Max(T) = m + 1 /\ T \ {m + 1} \in SUBSET (1..m)
    <3>. DEFINE x == Max(T)
    <3>. DEFINE k == m + 1
    <3>0. k \in Nat /\ T \in SUBSET (1..k) /\ T # {}
      BY <2>3
    <3>1. x \in T /\ \A y \in T : y <= x
      <4>. HIDE DEF k
      <4>. QED BY <3>0, MaxIs
    <3>. HIDE DEF x
    <3>2. x = m + 1
      BY <2>3, <3>1
    <3>. QED BY <2>3, <3>2 DEF x
  <2>4. ASSUME NEW T \in SUBSET (1..(m + 1)), m + 1 \notin T
        PROVE  T \in SUBSET (1..m) /\ (T # {} => Max(T) \in T)
    <3>1. T \in SUBSET (1..m)
      BY <2>4
    <3>. QED BY <3>1, MaxIs
  <2>5. s[m + 1] \in X
    BY <2>1
  <2>6. g \in [SUBSET (1..(m + 1)) -> S]
    <3>1. ASSUME NEW T \in SUBSET (1..(m + 1)) PROVE g[T] \in S
      BY <2>2, <2>3, <2>4, <2>5 DEF Folded
    <3>. QED BY <3>1
  <2>7. ASSUME NEW T \in SUBSET (1..(m + 1))
        PROVE  g[T] = IF T = {} THEN base ELSE step[<<g[T \ {Max(T)}], s[Max(T)]>>]
    <3>1. CASE m + 1 \in T
      <4>1. g[T] = step[<<f[T \ {m + 1}], s[m + 1]>>]
        BY <3>1
      <4>2. g[T \ {m + 1}] = f[T \ {m + 1}]
        BY <2>3, <3>1
      <4>. HIDE DEF g
      <4>. QED BY <2>3, <3>1, <4>1, <4>2
    <3>2. CASE m + 1 \notin T
      <4>1. g[T] = f[T] /\ T \in SUBSET (1..m)
        BY <2>4, <3>2
      <4>2. \A x : g[T \ {x}] = f[T \ {x}]
        BY <3>2, <4>1
      <4>3. f[T] = IF T = {} THEN base ELSE step[<<f[T \ {Max(T)}], s[Max(T)]>>]
        BY <2>2, <4>1 DEF Folded
      <4>. HIDE DEF g
      <4>. QED BY <4>1, <4>2, <4>3
    <3>. QED BY <3>1, <3>2
  <2>8. Folds(g, m + 1)
    <3>. HIDE DEF g
    <3>. QED BY <2>6, <2>7 DEF Folded
  <2>. HIDE DEF g
  <2>. QED BY <2>8
<1>. HIDE DEF G
<1>3. Nat \subseteq G
  BY <1>1, <1>2, SetInduction
<1>. QED BY <1>3 DEF G

---------------------------------------------------------------------------
(* Sequences one behind the other                                           *)

\* Nothing put behind a sequence changes it.
LEMMA NothingMore ==
    ASSUME NEW X, NEW s \in Seq(X)
    PROVE  s \o <<>> = s
OBVIOUS

\* One more is appended.
LEMMA OneMore ==
    ASSUME NEW X, NEW s \in Seq(X), NEW x \in X
    PROVE  s \o <<x>> = Append(s, x)
OBVIOUS

\* What two sequences, one behind the other, consist of.
LEMMA ConcatIs ==
    ASSUME NEW X, NEW s \in Seq(X), NEW t \in Seq(X)
    PROVE  s \o t \in Seq(X) /\ Len(s \o t) = Len(s) + Len(t)
           /\ \A i \in 1..(Len(s) + Len(t)) : (s \o t)[i] = IF i <= Len(s) THEN s[i] ELSE t[i - Len(s)]
OBVIOUS

\* A pair is one and another, one behind the other.
LEMMA OneAndOne ==
    ASSUME NEW X, NEW a \in X, NEW b \in X
    PROVE  <<a>> \o <<b>> = <<a, b>>
<1>. DEFINE s == <<a>>
            t == <<b>>
            u == s \o t
            v == <<a, b>>
<1>1. s \in Seq(X) /\ t \in Seq(X) /\ Len(s) = 1 /\ Len(t) = 1 /\ s[1] = a /\ t[1] = b
  OBVIOUS
<1>2. v \in Seq(X) /\ Len(v) = 2 /\ v[1] = a /\ v[2] = b
  OBVIOUS
<1>. HIDE DEF s, t, v
<1>3. u \in Seq(X) /\ Len(u) = 2 /\ u[1] = s[1] /\ u[2] = t[1]
  <2>1. u \in Seq(X) /\ Len(u) = Len(s) + Len(t)
        /\ \A i \in 1..(Len(s) + Len(t)) : u[i] = IF i <= Len(s) THEN s[i] ELSE t[i - Len(s)]
    BY <1>1, ConcatIs, Zenon
  <2>. HIDE DEF u
  <2>2. 1 \in 1..(1 + 1) /\ 2 \in 1..(1 + 1) /\ 1 <= 1 /\ ~(2 <= 1) /\ 2 - 1 = 1 /\ 1 + 1 = 2
    OBVIOUS
  <2>. QED BY <1>1, <2>1, <2>2, Zenon
<1>. HIDE DEF u
<1>4. \A i \in 1..2 : u[i] = v[i]
  <2>1. \A i \in 1..2 : i = 1 \/ i = 2
    OBVIOUS
  <2>. QED BY <1>1, <1>2, <1>3, <2>1, Zenon
<1>5. u = v
  BY <1>2, <1>3, <1>4, SeqEqual
<1>. QED BY <1>5, Zenon DEF s, t, u, v

\* Two pairs, one behind the other.
LEMMA TwoAndTwo ==
    ASSUME NEW X, NEW a \in X, NEW b \in X, NEW c \in X, NEW d \in X
    PROVE  <<a, b>> \o <<c, d>> = <<a, b, c, d>>
<1>. DEFINE u == <<a, b>> \o <<c, d>>
            v == <<a, b, c, d>>
<1>1. v \in Seq(X) /\ Len(v) = 4 /\ v[1] = a /\ v[2] = b /\ v[3] = c /\ v[4] = d
  OBVIOUS
<1>2. u \in Seq(X) /\ Len(u) = 4 /\ u[1] = a /\ u[2] = b /\ u[3] = c /\ u[4] = d
  OBVIOUS
<1>. HIDE DEF u, v
<1>3. \A i \in 1..4 : u[i] = v[i]
  <2>1. \A i \in 1..4 : i = 1 \/ i = 2 \/ i = 3 \/ i = 4
    OBVIOUS
  <2>. QED BY <1>1, <1>2, <2>1, Zenon
<1>4. u = v
  BY <1>1, <1>2, <1>3, SeqEqual
<1>. QED BY <1>4, Zenon DEF u, v

\* A pair is one and another.
LEMMA AppendToOne ==
    ASSUME NEW S, NEW x \in S, NEW y \in S
    PROVE  Append(<<x>>, y) = <<x, y>>
<1>1. /\ <<x>> \in Seq(S) /\ Len(<<x>>) = 1 /\ <<x>>[1] = x
      /\ <<x, y>> \in Seq(S) /\ Len(<<x, y>>) = 2 /\ <<x, y>>[1] = x /\ <<x, y>>[2] = y
  OBVIOUS
<1>. DEFINE a == <<x>>
            b == <<x, y>>
<1>. HIDE DEF a, b
<1>2. /\ Append(a, y) \in Seq(S) /\ Len(Append(a, y)) = 2
      /\ Append(a, y)[1] = x /\ Append(a, y)[2] = y
  BY <1>1 DEF a
<1>. DEFINE c == Append(a, y)
<1>3. b \in Seq(S) /\ c \in Seq(S) /\ Len(b) = Len(c) /\ Len(b) = 2
  BY <1>1, <1>2 DEF b
<1>4. \A i \in 1..2 : b[i] = c[i]
  BY <1>1, <1>2 DEF b
<1>. HIDE DEF c
<1>5. b = c
  BY <1>3, <1>4, SeqEqual
<1>. QED BY <1>5 DEF a, b, c

\* One more behind two sequences is one more behind the second.
LEMMA AppendConcat ==
    ASSUME NEW X, NEW s \in Seq(X), NEW t \in Seq(X), NEW x \in X
    PROVE  s \o Append(t, x) = Append(s \o t, x)
OBVIOUS

\* How three sequences are put together does not matter.
LEMMA Associative ==
    ASSUME NEW X, NEW s \in Seq(X), NEW t \in Seq(X), NEW u \in Seq(X)
    PROVE  s \o (t \o u) = (s \o t) \o u
<1>. DEFINE a == s \o (t \o u)
            b == (s \o t) \o u
            l == Len(s)
            m == Len(t)
            n == Len(u)
<1>1. l \in Nat /\ m \in Nat /\ n \in Nat /\ t \o u \in Seq(X) /\ s \o t \in Seq(X)
      /\ Len(t \o u) = m + n /\ Len(s \o t) = l + m
  OBVIOUS
<1>2. a \in Seq(X) /\ b \in Seq(X) /\ Len(a) = l + (m + n) /\ Len(b) = (l + m) + n
  BY <1>1
<1>3. \A i \in 1..(l + (m + n)) : a[i] = IF i <= l THEN s[i] ELSE (t \o u)[i - l]
  BY <1>1
<1>4. \A i \in 1..((l + m) + n) : b[i] = IF i <= l + m THEN (s \o t)[i] ELSE u[i - (l + m)]
  BY <1>1
<1>5. \A i \in 1..(m + n) : (t \o u)[i] = IF i <= m THEN t[i] ELSE u[i - m]
  OBVIOUS
<1>6. \A i \in 1..(l + m) : (s \o t)[i] = IF i <= l THEN s[i] ELSE t[i - l]
  OBVIOUS
<1>. DEFINE v == t \o u
            w == s \o t
<1>. HIDE DEF a, b, l, m, n, v, w
<1>7. ASSUME NEW i \in 1..(l + (m + n)) PROVE a[i] = b[i]
  <2>1. i <= l \/ (i > l /\ i <= l + m) \/ i > l + m
    BY <1>1
  <2>2. CASE i <= l
    <3>1. i \in 1..(l + m) /\ i \in 1..((l + m) + n) /\ i <= l + m
      BY <1>1, <2>2
    <3>2. b[i] = w[i] /\ w[i] = s[i]
      BY <1>4, <1>6, <2>2, <3>1, Zenon DEF w
    <3>. QED BY <1>3, <2>2, <3>2, Zenon
  <2>3. CASE i > l /\ i <= l + m
    <3>1. i \in 1..(l + m) /\ i \in 1..((l + m) + n) /\ ~(i <= l) /\ i - l \in 1..(m + n) /\ i - l <= m
      BY <1>1, <2>3
    <3>2. b[i] = t[i - l]
      BY <1>4, <1>6, <2>3, <3>1, Zenon
    <3>3. a[i] = t[i - l]
      BY <1>3, <1>5, <3>1, Zenon
    <3>. QED BY <3>2, <3>3, Zenon
  <2>4. CASE i > l + m
    <3>1. i \in 1..((l + m) + n) /\ ~(i <= l) /\ ~(i <= l + m) /\ i - l \in 1..(m + n) /\ ~(i - l <= m)
          /\ (i - l) - m = i - (l + m)
      BY <1>1, <2>4
    <3>2. b[i] = u[i - (l + m)]
      BY <1>4, <3>1, Zenon
    <3>3. a[i] = u[(i - l) - m]
      BY <1>3, <1>5, <3>1, Zenon
    <3>. QED BY <3>1, <3>2, <3>3, Zenon
  <2>. QED BY <2>1, <2>2, <2>3, <2>4
<1>8. l + (m + n) = (l + m) + n /\ l + (m + n) \in Nat
  BY <1>1
<1>9. a = b
  BY <1>2, <1>7, <1>8, SeqEqual
<1>. QED BY <1>9 DEF a, b

\* Three texts and their separators, however they are put together.
Rearranged(a, k, b, c) ==
    (a \o <<c>>) \o ((k \o <<c>>) \o b) = (((a \o <<c>>) \o k) \o <<c>>) \o b

\* How texts are put together does not matter.
LEMMA InARow ==
    ASSUME NEW X, NEW c \in X, NEW a \in Seq(X), NEW k \in Seq(X), NEW b \in Seq(X)
    PROVE  Rearranged(a, k, b, c)
<1>. DEFINE x == <<c>>
            u == a \o x
            v == k \o x
<1>0. x \in Seq(X)
  OBVIOUS
<1>. HIDE DEF x
<1>1. u \in Seq(X) /\ v \in Seq(X)
  BY <1>0
<1>. HIDE DEF u
<1>2. u \o v = (u \o k) \o x
  BY <1>0, <1>1, SMTT(30)
<1>. HIDE DEF v
<1>3. u \o (v \o b) = (u \o v) \o b
  BY <1>1, SMTT(30)
<1>4. u \o (v \o b) = ((u \o k) \o x) \o b
  BY <1>2, <1>3
<1>. QED BY <1>4, Zenon DEF u, v, x, Rearranged

\* What is behind the first token.
LEMMA TailOfPrefixed ==
    ASSUME NEW X, NEW x \in X, NEW s \in Seq(X)
    PROVE  Tail(<<x>> \o s) = s /\ <<x>> \o s \in Seq(X) /\ <<x>> \in Seq(X)
<1>. DEFINE a == <<x>> \o s
            b == Tail(a)
<1>1. /\ a \in Seq(X) /\ Len(a) = Len(s) + 1 /\ Len(s) \in Nat
      /\ \A i \in 1..Len(s) : a[i + 1] = s[i]
  OBVIOUS
<1>. HIDE DEF a
<1>2. b \in Seq(X) /\ Len(b) = Len(s) /\ \A i \in 1..Len(s) : b[i] = a[i + 1]
  BY <1>1
<1>. HIDE DEF b
<1>3. \A i \in 1..Len(s) : b[i] = s[i]
  BY <1>1, <1>2
<1>4. b = s
  BY <1>2, <1>3, SeqEqual
<1>5. <<x>> \in Seq(X)
  OBVIOUS
<1>. QED BY <1>1, <1>4, <1>5 DEF a, b

\* One part replaced.
LEMMA LastReplaced ==
    ASSUME NEW X, NEW a \in Seq(X), NEW b \in Seq(X), NEW l \in Nat, l > 0,
           Len(a) = l, Len(b) = l, NEW w \in X, b[l] = w,
           \A i \in 1..l : i # l => a[i] = b[i]
    PROVE  [a EXCEPT ![l] = w] = b
<1>. DEFINE c == [a EXCEPT ![l] = w]
<1>1. c \in Seq(X) /\ Len(c) = l
  OBVIOUS
<1>2. \A i \in 1..l : c[i] = b[i]
  OBVIOUS
<1>. HIDE DEF c
<1>3. c = b
  BY <1>1, <1>2, SeqEqual
<1>. QED BY <1>3 DEF c

\* The last of some texts, and those before it.
LEMMA LastText ==
    ASSUME NEW X, NEW n \in Nat, NEW p \in Seq(X), Len(p) = n + 1
    PROVE  \E q \in Seq(X), x \in X :
              /\ p = Append(q, x) /\ Len(q) = n /\ x = p[n + 1] /\ n + 1 \in DOMAIN p
              /\ \A i \in DOMAIN q : q[i] = p[i] /\ i \in DOMAIN p
<1>. DEFINE q == SubSeq(p, 1, n)
            x == p[n + 1]
<1>1. q \in Seq(X) /\ x \in X /\ p = Append(q, x) /\ Len(q) = n /\ n + 1 \in DOMAIN p
  OBVIOUS
<1>2. \A i \in DOMAIN q : q[i] = p[i] /\ i \in DOMAIN p
  OBVIOUS
<1>3. x = p[n + 1]
  OBVIOUS
<1>. HIDE DEF q, x
<1>. QED BY <1>1, <1>2, <1>3

\* The last member, and those before it.
LastIs(p, q, x) == p = Append(q, x) /\ Len(p) \in DOMAIN p /\ x = p[Len(p)]

\* A sequence that is not empty has a last member.
LEMMA SomeLast ==
    ASSUME NEW S, NEW p \in Seq(S) \ {<<>>}
    PROVE  \E q \in Seq(S), x \in S : LastIs(p, q, x)
<1>. DEFINE n == Len(p) - 1
<1>1. n \in Nat /\ Len(p) = n + 1 /\ p \in Seq(S)
  OBVIOUS
<1>. HIDE DEF n
<1>2. PICK q \in Seq(S), x \in S :
         /\ p = Append(q, x) /\ Len(q) = n /\ x = p[n + 1] /\ n + 1 \in DOMAIN p
         /\ \A i \in DOMAIN q : q[i] = p[i] /\ i \in DOMAIN p
  BY <1>1, LastText
<1>3. LastIs(p, q, x)
  BY <1>1, <1>2, Zenon DEF LastIs
<1>. QED BY <1>3, Zenon

---------------------------------------------------------------------------
(* Members that do not occur                                                *)

\* The separator does not occur in s.
Free(s, separator) == \A i \in DOMAIN s : s[i] # separator

\* A token in neither of two texts is not in one behind the other.
LEMMA FreeConcat ==
    ASSUME NEW X, NEW s \in Seq(X), NEW t \in Seq(X), NEW c, Free(s, c), Free(t, c)
    PROVE  Free(s \o t, c)
<1>1. /\ DOMAIN (s \o t) = 1..(Len(s) + Len(t)) /\ Len(s) \in Nat /\ Len(t) \in Nat
      /\ \A i \in 1..(Len(s) + Len(t)) : (s \o t)[i] = IF i <= Len(s) THEN s[i] ELSE t[i - Len(s)]
  OBVIOUS
<1>2. DOMAIN s = 1..Len(s) /\ DOMAIN t = 1..Len(t)
  OBVIOUS
<1>3. ASSUME NEW i \in 1..(Len(s) + Len(t)) PROVE (s \o t)[i] # c
  <2>1. CASE i <= Len(s)
    BY <1>1, <1>2, <2>1 DEF Free
  <2>2. CASE i > Len(s)
    <3>1. i - Len(s) \in 1..Len(t)
      BY <1>1, <2>2
    <3>2. (s \o t)[i] = t[i - Len(s)]
      BY <1>1, <2>2
    <3>. QED BY <1>2, <3>1, <3>2 DEF Free
  <2>. QED BY <1>1, <2>1, <2>2
<1>. QED BY <1>1, <1>3 DEF Free

\* A text of one token has no other.
LEMMA FreeOne ==
    ASSUME NEW x, NEW c, x # c
    PROVE  Free(<<x>>, c)
BY DEF Free

---------------------------------------------------------------------------
(* What is made of the members of a sequence                                *)

\* What a function makes of every member of a sequence.
Mapped(f, s) == [i \in DOMAIN s |-> f[s[i]]]

\* It is as long as the sequence.
LEMMA MappedTyped ==
    ASSUME NEW S, NEW T, NEW f \in [S -> T], NEW s \in Seq(S)
    PROVE  Mapped(f, s) \in Seq(T) /\ Len(Mapped(f, s)) = Len(s)
<1>. DEFINE n == Len(s)
            e(i) == f[s[i]]
            w == [i \in 1..n |-> e(i)]
<1>1. n \in Nat /\ DOMAIN s = 1..n /\ \A i \in 1..n : s[i] \in S
  OBVIOUS
<1>2. \A i \in 1..n : e(i) \in T
  BY <1>1
<1>3. Mapped(f, s) = w
  BY <1>1 DEF Mapped
<1>. HIDE DEF n, e
<1>4. w \in Seq(T) /\ Len(w) = n
  BY <1>1, <1>2
<1>. QED BY <1>3, <1>4 DEF n

\* One member more makes one more.
LEMMA MappedAppend ==
    ASSUME NEW S, NEW T, NEW f \in [S -> T], NEW s \in Seq(S), NEW x \in S
    PROVE  Mapped(f, Append(s, x)) = Append(Mapped(f, s), f[x])
<1>. DEFINE n == Len(s)
            t == Append(s, x)
            m == Mapped(f, s)
            a == Mapped(f, t)
            b == Append(m, f[x])
<1>1. /\ n \in Nat /\ DOMAIN s = 1..n /\ t \in Seq(S) /\ Len(t) = n + 1 /\ DOMAIN t = 1..(n + 1)
      /\ t[n + 1] = x /\ \A i \in 1..n : t[i] = s[i]
  OBVIOUS
<1>2. m \in Seq(T) /\ Len(m) = n /\ f[x] \in T
  <2>1. f[x] \in T
    OBVIOUS
  <2>. QED BY <2>1, MappedTyped, SMTT(30)
<1>. HIDE DEF n, t
<1>3. a \in Seq(T) /\ Len(a) = n + 1
  BY <1>1, MappedTyped
<1>4. a[n + 1] = f[x]
  <2>1. n + 1 \in DOMAIN t
    BY <1>1
  <2>. QED BY <1>1, <2>1 DEF Mapped
<1>5. ASSUME NEW i \in 1..n PROVE a[i] = m[i]
  <2>1. i \in DOMAIN t /\ i \in DOMAIN s /\ t[i] = s[i]
    BY <1>1
  <2>. QED BY <2>1 DEF Mapped
<1>. HIDE DEF m, a
<1>6. b \in Seq(T) /\ Len(b) = n + 1 /\ b[n + 1] = f[x] /\ \A i \in 1..n : b[i] = m[i]
  BY <1>1, <1>2
<1>. HIDE DEF b
<1>7. ASSUME NEW i \in 1..(n + 1) PROVE a[i] = b[i]
  <2>1. i \in 1..n \/ i = n + 1
    BY <1>1
  <2>. QED BY <1>4, <1>5, <1>6, <2>1
<1>8. a = b
  BY <1>1, <1>3, <1>6, <1>7, SeqEqual
<1>. QED BY <1>8 DEF a, b, m, t

\* The same, as an operator that is expanded only where that is needed.
MappedGrows(f, s, x) == Mapped(f, Append(s, x)) = Append(Mapped(f, s), f[x])

\* Mapped with one member more.
LEMMA MappedNext ==
    ASSUME NEW S, NEW T, NEW f \in [S -> T], NEW s \in Seq(S), NEW x \in S
    PROVE  MappedGrows(f, s, x)
<1>1. Mapped(f, Append(s, x)) = Append(Mapped(f, s), f[x])
  BY MappedAppend, ZenonT(30)
<1>. QED BY <1>1, Zenon DEF MappedGrows

\* The sequences a function makes of the members, one behind the other.
Flat(f, s) == FlattenSeq(Mapped(f, s))

\* One member more adds the sequence made of it.
FlatGrows(f, s, x) == Flat(f, Append(s, x)) = Flat(f, s) \o f[x]

\* One member more adds what is made of it.
LEMMA FlatAppend ==
    ASSUME NEW S, NEW T, NEW f \in [S -> Seq(T)], NEW s \in Seq(S), NEW x \in S
    PROVE  /\ Flat(f, s) \in Seq(T)
           /\ FlatGrows(f, s, x)
<1>. DEFINE m == Mapped(f, s)
            y == f[x]
            W == Seq(T)
<1>1. m \in Seq(W) /\ y \in W
  BY MappedTyped
<1>2. Mapped(f, Append(s, x)) = Append(m, y)
  BY MappedAppend, Zenon
<1>. HIDE DEF m, y
<1>3. FlattenSeq(m) \in Seq(T) /\ FlattenSeq(Append(m, y)) = FlattenSeq(m) \o y
  BY <1>1, FlattenAppend
<1>. QED BY <1>2, <1>3, Zenon DEF FlatGrows, Flat, m, y

\* Of no members nothing is made.
LEMMA FlatEmpty ==
    ASSUME NEW f
    PROVE  Flat(f, <<>>) = <<>>
<1>. DEFINE m == Mapped(f, <<>>)
<1>1. m = <<>>
  BY DEF Mapped
<1>2. FlattenSeq(<<>>) = <<>>
  BY DEF FlattenSeq
<1>. HIDE DEF m
<1>3. FlattenSeq(m) = <<>>
  BY <1>1, <1>2
<1>. QED BY <1>3 DEF Flat, m

\* What is put together is of what is put in.
LEMMA FlatTyped ==
    ASSUME NEW S, NEW T, NEW f \in [S -> Seq(T)], NEW s \in Seq(S)
    PROVE  Flat(f, s) \in Seq(T)
<1>. DEFINE m == Mapped(f, s)
            W == Seq(T)
            e == <<>>
<1>1. m \in Seq(W)
  BY MappedTyped
<1>2. e \in W
  OBVIOUS
<1>. HIDE DEF m, e
<1>3. FlattenSeq(m) \in Seq(T)
  BY <1>1, <1>2, FlattenAppend
<1>. QED BY <1>3 DEF Flat, m

\* A token in nothing that is made is not in what is put together.
FlatIsFree(f, s, c) == (\A i \in DOMAIN s : Free(f[s[i]], c)) => Free(Flat(f, s), c)

\* A token in nothing that is put together is not in the whole.
LEMMA FlatFree ==
    ASSUME NEW S, NEW T, NEW f \in [S -> Seq(T)], NEW c, NEW s \in Seq(S)
    PROVE  FlatIsFree(f, s, c)
<1>. DEFINE G == {n \in Nat : \A q \in Seq(S) : Len(q) = n => FlatIsFree(f, q, c)}
<1>1. 0 \in G
  <2>1. ASSUME NEW q \in Seq(S), Len(q) = 0 PROVE FlatIsFree(f, q, c)
    <3>1. q = <<>>
      BY <2>1
    <3>2. Flat(f, <<>>) = <<>>
      BY FlatEmpty
    <3>3. Free(<<>>, c)
      BY DEF Free
    <3>. QED BY <3>1, <3>2, <3>3, Zenon DEF FlatIsFree
  <2>. QED BY <2>1
<1>2. ASSUME NEW n \in Nat, n \in G PROVE n + 1 \in G
  <2>1. ASSUME NEW q \in Seq(S), Len(q) = n + 1, \A i \in DOMAIN q : Free(f[q[i]], c)
        PROVE  Free(Flat(f, q), c)
    <3>1. PICK v \in Seq(S), x \in S :
             /\ q = Append(v, x) /\ Len(v) = n /\ x = q[n + 1] /\ n + 1 \in DOMAIN q
             /\ \A i \in DOMAIN v : v[i] = q[i] /\ i \in DOMAIN q
      <4>. HIDE DEF G
      <4>. QED BY <2>1, LastText
    <3>2. Free(f[x], c) /\ \A i \in DOMAIN v : Free(f[v[i]], c)
      BY <2>1, <3>1
    <3>3. Free(Flat(f, v), c)
      BY <1>2, <3>1, <3>2, Zenon DEF FlatIsFree
    <3>4. FlatGrows(f, v, x) /\ Flat(f, v) \in Seq(T)
      BY FlatAppend
    <3>. DEFINE w == Flat(f, v)
                y == f[x]
    <3>5. w \in Seq(T) /\ y \in Seq(T) /\ Free(w, c) /\ Free(y, c)
      BY <3>2, <3>3, <3>4
    <3>6. Flat(f, q) = w \o y
      BY <3>1, <3>4, Zenon DEF FlatGrows
    <3>. HIDE DEF w, y
    <3>7. Free(w \o y, c)
      BY <3>5, FreeConcat
    <3>. QED BY <3>6, <3>7, Zenon
  <2>2. \A q \in Seq(S) : Len(q) = n + 1 => FlatIsFree(f, q, c)
    BY <2>1, Zenon DEF FlatIsFree
  <2>. QED BY <2>2
<1>. HIDE DEF G
<1>3. Nat \subseteq G
  BY <1>1, <1>2, SetInduction
<1>4. Len(s) \in G
  BY <1>3
<1>. QED BY <1>4 DEF G
=============================================================================
