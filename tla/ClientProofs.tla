---------------------------- MODULE ClientProofs -----------------------------
(* The generated client, for any parameters, tokens and texts: the reader   *)
(* is shown the events of a stream each once and in the order they were     *)
(* sent, unless a read ends within the end of a line, and a request carries *)
(* the token there was when it was made, if its operation asks for one.     *)
(*                                                                          *)
(* A stream that is read piece by piece is taken apart at blank lines; the  *)
(* invariant says where in the stream the buffer, the events and the next   *)
(* request belong. Folds and recursive functions are taken step by step     *)
(* (SequenceLemmas), and induction goes over the pieces and the events.     *)
EXTENDS GeneratedClient, SequenceLemmas

---------------------------------------------------------------------------
(* Cutting a text into events                                               *)

\* f[T] is what is made of the tokens at the positions T.
Cuts(f, s) == f = [T \in SUBSET DOMAIN s |->
                      IF T = {} THEN << <<>> >> ELSE CutToken(f[T \ {Max(T)}], s[Max(T)])]

LEMMA TokenCut ==
    ASSUME NEW X, NEW parts \in Seq(Seq(X)) \ {<<>>}, NEW x \in X
    PROVE  CutToken(parts, x) \in Seq(Seq(X)) \ {<<>>}
<1>. DEFINE l == Len(parts)
            t == parts[l]
<1>1. l \in Nat /\ l \in 1..l /\ t \in Seq(X)
  OBVIOUS
<1>2. Append(t, x) \in Seq(X)
  BY <1>1
<1>3. [parts EXCEPT ![l] = Append(t, x)] \in Seq(Seq(X)) \ {<<>>}
  <2>. DEFINE p == [parts EXCEPT ![l] = Append(t, x)]
  <2>1. p \in Seq(Seq(X)) /\ Len(p) = l
    BY <1>1, <1>2
  <2>. HIDE DEF p
  <2>. QED BY <1>1, <2>1
<1>4. ASSUME t # <<>>
      PROVE  Append([parts EXCEPT ![l] = Front(t)], <<>>) \in Seq(Seq(X)) \ {<<>>}
  <2>1. Front(t) \in Seq(X)
    BY <1>1, <1>4 DEF Front
  <2>. DEFINE p == [parts EXCEPT ![l] = Front(t)]
  <2>2. p \in Seq(Seq(X))
    BY <1>1, <2>1
  <2>. HIDE DEF p
  <2>3. <<>> \in Seq(X)
    OBVIOUS
  <2>4. Append(p, <<>>) \in Seq(Seq(X)) /\ Len(Append(p, <<>>)) = Len(p) + 1 /\ Len(p) \in Nat
    BY <2>2, <2>3
  <2>. QED BY <2>4 DEF p
<1>. QED BY <1>3, <1>4 DEF CutToken, Last

LEMMA CutIs ==
    ASSUME NEW X, NEW s \in Seq(X)
    PROVE  \E f : Cuts(f, s) /\ Cut(s) = f[DOMAIN s]
<1>. DEFINE S == Seq(Seq(X)) \ {<<>>}
            step == [p \in S \X X |-> CutToken(p[1], p[2])]
            n == Len(s)
<1>1. n \in Nat /\ DOMAIN s = 1..n /\ \A i \in 1..n : s[i] \in X
  OBVIOUS
<1>2. << <<>> >> \in S
  OBVIOUS
<1>3. step \in [S \X X -> S]
  <2>1. ASSUME NEW p \in S \X X PROVE CutToken(p[1], p[2]) \in S
    BY TokenCut
  <2>. HIDE DEF S
  <2>. QED BY <2>1
<1>4. \A a \in S, x \in X : step[<<a, x>>] = CutToken(a, x)
  OBVIOUS
<1>. HIDE DEF S, step, n
<1>. DEFINE none == << <<>> >>
<1>. HIDE DEF none
<1>5. PICK f : Folded(f, S, step, none, s, n)
  <2>1. none \in S
    BY <1>2 DEF none
  <2>. QED BY <1>1, <1>3, <2>1, FoldExists
<1>6. ASSUME NEW T \in SUBSET (1..n)
      PROVE  f[T] = IF T = {} THEN << <<>> >> ELSE CutToken(f[T \ {Max(T)}], s[Max(T)])
  <2>1. ASSUME T # {} PROVE f[T \ {Max(T)}] \in S /\ s[Max(T)] \in X
    <3>1. Max(T) \in 1..n
      BY <1>1, <2>1, MaxIs
    <3>2. T \ {Max(T)} \in SUBSET (1..n)
      OBVIOUS
    <3>. QED BY <1>1, <1>5, <3>1, <3>2 DEF Folded
  <2>. QED BY <1>4, <1>5, <2>1 DEF none, Folded
<1>7. Cuts(f, s)
  <2>1. f = [T \in SUBSET (1..n) |->
                IF T = {} THEN << <<>> >> ELSE CutToken(f[T \ {Max(T)}], s[Max(T)])]
    BY <1>5, <1>6 DEF Folded
  <2>. QED BY <1>1, <2>1 DEF Cuts
<1>. DEFINE g == CHOOSE g : g = [T \in SUBSET DOMAIN s |->
                      IF T = {} THEN << <<>> >> ELSE CutToken(g[T \ {Max(T)}], s[Max(T)])]
<1>8. \E h : h = [T \in SUBSET DOMAIN s |->
                      IF T = {} THEN << <<>> >> ELSE CutToken(h[T \ {Max(T)}], s[Max(T)])]
  BY <1>7 DEF Cuts
<1>9. g = [T \in SUBSET DOMAIN s |->
                      IF T = {} THEN << <<>> >> ELSE CutToken(g[T \ {Max(T)}], s[Max(T)])]
  BY <1>8, Zenon
<1>10. Cut(s) = g[DOMAIN s]
  BY DEF Cut, FoldLeft, MapThenFoldSet
<1>. QED BY <1>9, <1>10 DEF Cuts

\* The greatest of the first positions.
LEMMA MaxOfFirst ==
    ASSUME NEW n \in Nat
    PROVE  /\ Max(1..(n + 1)) = n + 1
           /\ (1..(n + 1)) \ {n + 1} = 1..n
           /\ 1..(n + 1) # {}
<1>. DEFINE T == 1..(n + 1)
            k == n + 1
            x == Max(T)
<1>1. k \in Nat /\ T \in SUBSET (1..k) /\ T # {} /\ k \in T /\ \A y \in T : y \in Nat /\ y <= k
  OBVIOUS
<1>2. x \in T /\ \A y \in T : y <= x
  <2>. HIDE DEF T, k
  <2>. QED BY <1>1, MaxIs
<1>3. x = k
  <2>. HIDE DEF T, k, x
  <2>. QED BY <1>1, <1>2
<1>4. (1..(n + 1)) \ {n + 1} = 1..n
  OBVIOUS
<1>. QED BY <1>1, <1>3, <1>4

\* Such a function takes the first n tokens of s one after the other.
CutSteps(f, s, n) ==
    /\ f[1..0] = << <<>> >>
    /\ \A k \in Nat : k < n => f[1..(k + 1)] = CutToken(f[1..k], s[k + 1])

\* Token after token.
LEMMA CutsNext ==
    ASSUME NEW s, NEW n \in Nat, DOMAIN s = 1..n, NEW f, Cuts(f, s)
    PROVE  CutSteps(f, s, n)
<1>1. ASSUME NEW T \in SUBSET (1..n)
      PROVE  f[T] = IF T = {} THEN << <<>> >> ELSE CutToken(f[T \ {Max(T)}], s[Max(T)])
  BY DEF Cuts
<1>2. f[1..0] = << <<>> >>
  <2>1. 1..0 = {} /\ 1..0 \in SUBSET (1..n)
    OBVIOUS
  <2>. QED BY <1>1, <2>1
<1>3. ASSUME NEW k \in Nat, k < n
      PROVE  f[1..(k + 1)] = CutToken(f[1..k], s[k + 1])
  <2>. DEFINE T == 1..(k + 1)
  <2>1. T \in SUBSET (1..n)
    BY <1>3
  <2>2. T # {} /\ Max(T) = k + 1 /\ T \ {k + 1} = 1..k
    BY MaxOfFirst
  <2>. HIDE DEF T
  <2>3. f[T] = CutToken(f[T \ {Max(T)}], s[Max(T)])
    BY <1>1, <2>1, <2>2
  <2>4. f[T] = CutToken(f[1..k], s[k + 1])
    BY <2>2, <2>3
  <2>. QED BY <2>4 DEF T
<1>. QED BY <1>2, <1>3, Zenon DEF CutSteps

\* No token cuts nothing, and one token more is one step more.
LEMMA CutAppend ==
    ASSUME NEW X, NEW s \in Seq(X), NEW x \in X
    PROVE  Cut(Append(s, x)) = CutToken(Cut(s), x)
<1>. DEFINE n == Len(s)
            t == Append(s, x)
<1>1. /\ n \in Nat /\ DOMAIN s = 1..n /\ t \in Seq(X) /\ DOMAIN t = 1..(n + 1)
      /\ t[n + 1] = x /\ n + 1 \in Nat
  OBVIOUS
<1>2. \A k \in Nat : k < n => t[k + 1] = s[k + 1]
  OBVIOUS
<1>. HIDE DEF n, t
<1>3. PICK f : Cuts(f, s) /\ Cut(s) = f[DOMAIN s]
  BY CutIs
<1>4. PICK g : Cuts(g, t) /\ Cut(t) = g[DOMAIN t]
  BY <1>1, CutIs
<1>5. /\ f[1..0] = << <<>> >>
      /\ \A k \in Nat : k < n => f[1..(k + 1)] = CutToken(f[1..k], s[k + 1])
  <2>1. CutSteps(f, s, n)
    BY <1>1, <1>3, CutsNext
  <2>. QED BY <2>1, Zenon DEF CutSteps
<1>6. /\ g[1..0] = << <<>> >>
      /\ \A k \in Nat : k < n + 1 => g[1..(k + 1)] = CutToken(g[1..k], t[k + 1])
  <2>1. CutSteps(g, t, n + 1)
    BY <1>1, <1>4, CutsNext
  <2>. QED BY <2>1, Zenon DEF CutSteps
<1>. DEFINE G == {k \in Nat : k <= n => g[1..k] = f[1..k]}
<1>7. 0 \in G
  BY <1>5, <1>6
<1>8. ASSUME NEW k \in Nat, k \in G PROVE k + 1 \in G
  <2>1. SUFFICES ASSUME k + 1 <= n PROVE g[1..(k + 1)] = f[1..(k + 1)]
    OBVIOUS
  <2>2. k < n /\ k < n + 1 /\ g[1..k] = f[1..k]
    BY <1>1, <1>8, <2>1
  <2>3. f[1..(k + 1)] = CutToken(f[1..k], s[k + 1]) /\ g[1..(k + 1)] = CutToken(g[1..k], t[k + 1])
    BY <1>5, <1>6, <2>2
  <2>. QED BY <1>2, <2>2, <2>3
<1>. HIDE DEF G
<1>9. Nat \subseteq G
  BY <1>7, <1>8, SetInduction
<1>10. g[1..n] = f[1..n]
  BY <1>1, <1>9 DEF G
<1>11. g[1..(n + 1)] = CutToken(g[1..n], t[n + 1])
  <2>1. n < n + 1
    BY <1>1
  <2>. QED BY <1>1, <1>6, <2>1
<1>. QED BY <1>1, <1>3, <1>4, <1>10, <1>11 DEF t

LEMMA CutEmpty == Cut(<<>>) = << <<>> >>
<1>. DEFINE s == <<>>
<1>1. s \in Seq({}) /\ DOMAIN s = {} /\ DOMAIN s = 1..0 /\ 0 \in Nat
  OBVIOUS
<1>. HIDE DEF s
<1>2. PICK f : Cuts(f, s) /\ Cut(s) = f[DOMAIN s]
  BY <1>1, CutIs
<1>3. f[1..0] = << <<>> >>
  <2>1. CutSteps(f, s, 0)
    BY <1>1, <1>2, CutsNext
  <2>. QED BY <2>1, Zenon DEF CutSteps
<1>. QED BY <1>1, <1>2, <1>3 DEF s

\* A text is cut into texts, one at least.
LEMMA CutTyped ==
    ASSUME NEW X, NEW s \in Seq(X)
    PROVE  Cut(s) \in Seq(Seq(X)) \ {<<>>}
<1>. DEFINE G == {n \in Nat : \A t \in Seq(X) : Len(t) = n => Cut(t) \in Seq(Seq(X)) \ {<<>>}}
<1>1. 0 \in G
  <2>1. ASSUME NEW t \in Seq(X), Len(t) = 0 PROVE Cut(t) \in Seq(Seq(X)) \ {<<>>}
    <3>1. t = <<>>
      BY <2>1
    <3>2. << <<>> >> \in Seq(Seq(X)) \ {<<>>}
      OBVIOUS
    <3>. QED BY <3>1, <3>2, CutEmpty
  <2>. QED BY <2>1
<1>2. ASSUME NEW n \in Nat, n \in G PROVE n + 1 \in G
  <2>1. ASSUME NEW t \in Seq(X), Len(t) = n + 1
        PROVE  Cut(t) \in Seq(Seq(X)) \ {<<>>}
    <3>. DEFINE u == SubSeq(t, 1, n)
                x == t[n + 1]
    <3>1. u \in Seq(X) /\ Len(u) = n /\ x \in X /\ t = Append(u, x)
      BY <2>1
    <3>. HIDE DEF u, x
    <3>2. Cut(u) \in Seq(Seq(X)) \ {<<>>}
      BY <1>2, <3>1
    <3>3. Cut(t) = CutToken(Cut(u), x)
      BY <3>1, CutAppend
    <3>. QED BY <3>1, <3>2, <3>3, TokenCut
  <2>. QED BY <2>1
<1>. HIDE DEF G
<1>3. Nat \subseteq G
  BY <1>1, <1>2, SetInduction
<1>4. Len(s) \in G
  BY <1>3
<1>. QED BY <1>4 DEF G

---------------------------------------------------------------------------
(* What the server sends                                                    *)

\* The lines of an event, cut off from the empty one.
Lines(n) == (IF n = 1 THEN <<Line("retry:", SentDelay), End>> ELSE <<>>)
            \o <<Line("id:", n), End, Line("data:", n)>>

\* What a connection is sent after the event e.
Block(e, m) == [n \in 1..m |-> Event(e + n)]
After(e) == FlattenSeq(Block(e, MaxEvents - e))

\* The parts of the first event, and of the others.
LEMMA EventParts ==
    ASSUME NEW n
    PROVE  /\ n = 1 => /\ Event(n) = <<Line("retry:", SentDelay), End, Line("id:", n), End,
                                       Line("data:", n), End, End>>
                       /\ Lines(n) = <<Line("retry:", SentDelay), End, Line("id:", n), End,
                                       Line("data:", n)>>
           /\ n # 1 => /\ Event(n) = <<Line("id:", n), End, Line("data:", n), End, End>>
                       /\ Lines(n) = <<Line("id:", n), End, Line("data:", n)>>
<1>1. CASE n = 1
  <2>. DEFINE a == Line("retry:", SentDelay)
              b == Line("id:", n)
              c == Line("data:", n)
              z == End
  <2>1. Event(n) = <<a, z>> \o <<b, z, c, z, z>> /\ Lines(n) = <<a, z>> \o <<b, z, c>>
    BY <1>1 DEF Event, Lines
  <2>. HIDE DEF a, b, c, z
  <2>2. <<a, z>> \o <<b, z, c, z, z>> = <<a, z, b, z, c, z, z>>
    <3>. DEFINE S == {a, b, c, z}
                s == <<a, z>> \o <<b, z, c, z, z>>
                t == <<a, z, b, z, c, z, z>>
    <3>1. s \in Seq(S) /\ t \in Seq(S) /\ Len(s) = 7 /\ Len(t) = 7
      OBVIOUS
    <3>2. ASSUME NEW i \in 1..7 PROVE s[i] = t[i]
      OBVIOUS
    <3>. HIDE DEF S, s, t
    <3>3. s = t
      BY <3>1, <3>2, SeqEqual
    <3>. QED BY <3>3 DEF s, t
  <2>3. <<a, z>> \o <<b, z, c>> = <<a, z, b, z, c>>
    <3>. DEFINE S == {a, b, c, z}
                s == <<a, z>> \o <<b, z, c>>
                t == <<a, z, b, z, c>>
    <3>1. s \in Seq(S) /\ t \in Seq(S) /\ Len(s) = 5 /\ Len(t) = 5
      OBVIOUS
    <3>2. ASSUME NEW i \in 1..5 PROVE s[i] = t[i]
      OBVIOUS
    <3>. HIDE DEF S, s, t
    <3>3. s = t
      BY <3>1, <3>2, SeqEqual
    <3>. QED BY <3>3 DEF s, t
  <2>. QED BY <1>1, <2>1, <2>2, <2>3 DEF a, b, c, z
<1>2. CASE n # 1
  <2>. DEFINE b == Line("id:", n)
              c == Line("data:", n)
              z == End
  <2>1. Event(n) = <<>> \o <<b, z, c, z, z>> /\ Lines(n) = <<>> \o <<b, z, c>>
    BY <1>2 DEF Event, Lines
  <2>. HIDE DEF b, c, z
  <2>2. <<>> \o <<b, z, c, z, z>> = <<b, z, c, z, z>> /\ <<>> \o <<b, z, c>> = <<b, z, c>>
    OBVIOUS
  <2>. QED BY <1>2, <2>1, <2>2 DEF b, c, z
<1>. QED BY <1>1, <1>2

\* The tokens are of three names.
LEMMA TokenNames ==
    ASSUME NEW n
    PROVE  /\ Line("retry:", SentDelay).line = "retry:" /\ Line("retry:", SentDelay).of = SentDelay
           /\ Line("id:", n).line = "id:" /\ Line("id:", n).of = n
           /\ Line("data:", n).line = "data:" /\ Line("data:", n).of = n
           /\ End.line = "end"
           /\ Line("retry:", SentDelay) # End /\ Line("id:", n) # End /\ Line("data:", n) # End
           /\ {Line("retry:", SentDelay), End} \subseteq Parts
           /\ n \in EventIds => {Line("id:", n), Line("data:", n)} \subseteq Parts
BY DEF Line, End, Parts

\* An event is its lines and two ends of a line, and has an empty line nowhere else.
LEMMA EventIs ==
    ASSUME NEW n \in EventIds
    PROVE  /\ Event(n) \in Seq(Parts) /\ Lines(n) \in Seq(Parts)
           /\ Len(Lines(n)) \in Nat /\ Len(Event(n)) = Len(Lines(n)) + 2
           /\ Lines(n) = SubSeq(Event(n), 1, Len(Lines(n)))
           /\ \A i \in 1..(Len(Event(n)) - 1) :
                 Event(n)[i] = End /\ Event(n)[i + 1] = End <=> i + 1 = Len(Event(n))
           /\ Event(n)[1] # End
<1>. DEFINE a == Line("retry:", SentDelay)
            b == Line("id:", n)
            c == Line("data:", n)
            z == End
<1>1. a # z /\ b # z /\ c # z /\ a \in Parts /\ b \in Parts /\ c \in Parts /\ z \in Parts
  BY TokenNames
<1>2. n = 1 => Event(n) = <<a, z, b, z, c, z, z>> /\ Lines(n) = <<a, z, b, z, c>>
  BY EventParts
<1>3. n # 1 => Event(n) = <<b, z, c, z, z>> /\ Lines(n) = <<b, z, c>>
  BY EventParts
<1>. HIDE DEF a, b, c, z
<1>4. CASE n = 1
  <2>. DEFINE e == <<a, z, b, z, c, z, z>>
              l == <<a, z, b, z, c>>
  <2>1. e \in Seq(Parts) /\ l \in Seq(Parts) /\ Len(l) = 5 /\ Len(e) = 7
    BY <1>1
  <2>2. l = SubSeq(e, 1, Len(l))
    <3>1. l = SubSeq(e, 1, 5)
      BY <2>1
    <3>. QED BY <2>1, <3>1
  <2>3. \A i \in 1..(Len(e) - 1) : e[i] = z /\ e[i + 1] = z <=> i + 1 = Len(e)
    <3>1. \A i \in 1..6 : e[i] = z /\ e[i + 1] = z <=> i + 1 = 7
      BY <1>1
    <3>. QED BY <2>1, <3>1
  <2>4. e[1] # z
    BY <1>1
  <2>5. Event(n) = e /\ Lines(n) = l
    BY <1>2, <1>4
  <2>. HIDE DEF e, l
  <2>6. Len(l) \in Nat /\ Len(e) = Len(l) + 2
    BY <2>1
  <2>. QED BY <2>1, <2>2, <2>3, <2>4, <2>5, <2>6, Zenon DEF z
<1>5. CASE n # 1
  <2>. DEFINE e == <<b, z, c, z, z>>
              l == <<b, z, c>>
  <2>1. e \in Seq(Parts) /\ l \in Seq(Parts) /\ Len(l) = 3 /\ Len(e) = 5
    BY <1>1
  <2>2. l = SubSeq(e, 1, Len(l))
    <3>1. l = SubSeq(e, 1, 3)
      BY <2>1
    <3>. QED BY <2>1, <3>1
  <2>3. \A i \in 1..(Len(e) - 1) : e[i] = z /\ e[i + 1] = z <=> i + 1 = Len(e)
    <3>1. \A i \in 1..4 : e[i] = z /\ e[i + 1] = z <=> i + 1 = 5
      BY <1>1
    <3>. QED BY <2>1, <3>1
  <2>4. e[1] # z
    BY <1>1
  <2>5. Event(n) = e /\ Lines(n) = l
    BY <1>3, <1>5
  <2>. HIDE DEF e, l
  <2>6. Len(l) \in Nat /\ Len(e) = Len(l) + 2
    BY <2>1
  <2>. QED BY <2>1, <2>2, <2>3, <2>4, <2>5, <2>6, Zenon DEF z
<1>. QED BY <1>4, <1>5

\* The greatest of one number.
LEMMA MaxOfOne ==
    ASSUME NEW n \in Nat, n > 0
    PROVE  Max({n}) = n
<1>1. {n} \in SUBSET (1..n) /\ {n} # {}
  OBVIOUS
<1>2. Max({n}) \in {n}
  BY <1>1, MaxIs
<1>. QED BY <1>2

\* One line of its name is the last.
LEMMA LastOfOne ==
    ASSUME NEW chunk, NEW name, NEW i \in Nat, i > 0, NEW otherwise,
           \A j \in DOMAIN chunk : chunk[j].line = name <=> j = i, i \in DOMAIN chunk
    PROVE  LastOf(chunk, name, otherwise) = chunk[i].of
<1>1. {j \in DOMAIN chunk : chunk[j].line = name} = {i}
  OBVIOUS
<1>2. Max({i}) = i
  BY MaxOfOne
<1>. QED BY <1>1, <1>2 DEF LastOf

\* What is read from the lines of an event.
LEMMA LinesSay ==
    ASSUME NEW n \in EventIds
    PROVE  /\ IdOf(Lines(n)) = n
           /\ DataOf(Lines(n)) = <<n>>
           /\ DelayOf(Lines(n)) \in {SentDelay, retryDelay}
<1>. DEFINE a == Line("retry:", SentDelay)
            b == Line("id:", n)
            c == Line("data:", n)
            z == End
<1>1. /\ a.line = "retry:" /\ a.of = SentDelay /\ b.line = "id:" /\ b.of = n
      /\ c.line = "data:" /\ c.of = n /\ z.line = "end"
  BY TokenNames
<1>2. n = 1 => Lines(n) = <<a, z, b, z, c>>
  BY EventParts
<1>3. n # 1 => Lines(n) = <<b, z, c>>
  BY EventParts
<1>. HIDE DEF a, b, c, z
<1>4. CASE n = 1
  <2>. DEFINE l == <<a, z, b, z, c>>
  <2>1. /\ \A j \in DOMAIN l : l[j].line = "id:" <=> j = 3
        /\ \A j \in DOMAIN l : l[j].line = "data:" <=> j = 5
        /\ \A j \in DOMAIN l : l[j].line = "retry:" <=> j = 1
        /\ l[3].of = n /\ l[5].of = n /\ l[1].of = SentDelay
        /\ {1, 3, 5} \subseteq DOMAIN l
    BY <1>1
  <2>2. Lines(n) = l
    BY <1>2, <1>4
  <2>. HIDE DEF l
  <2>3. LastOf(l, "id:", lastEventId) = l[3].of
    BY <2>1, LastOfOne
  <2>4. LastOf(l, "data:", 0) = l[5].of
    BY <2>1, LastOfOne
  <2>5. LastOf(l, "retry:", retryDelay) = l[1].of
    BY <2>1, LastOfOne
  <2>6. \E i \in DOMAIN l : l[i].line = "data:"
    BY <2>1
  <2>7. IdOf(l) = n /\ DelayOf(l) = SentDelay
    BY <2>1, <2>3, <2>5 DEF IdOf, DelayOf
  <2>8. DataOf(l) = <<n>>
    BY <2>1, <2>4, <2>6 DEF DataOf
  <2>. QED BY <2>2, <2>7, <2>8
<1>5. CASE n # 1
  <2>. DEFINE l == <<b, z, c>>
  <2>1. /\ \A j \in DOMAIN l : l[j].line = "id:" <=> j = 1
        /\ \A j \in DOMAIN l : l[j].line = "data:" <=> j = 3
        /\ \A j \in DOMAIN l : l[j].line # "retry:"
        /\ l[1].of = n /\ l[3].of = n
        /\ {1, 3} \subseteq DOMAIN l
    BY <1>1
  <2>2. Lines(n) = l
    BY <1>3, <1>5
  <2>. HIDE DEF l
  <2>3. LastOf(l, "id:", lastEventId) = l[1].of
    BY <2>1, LastOfOne
  <2>4. LastOf(l, "data:", 0) = l[3].of
    BY <2>1, LastOfOne
  <2>5. LastOf(l, "retry:", retryDelay) = retryDelay
    BY <2>1 DEF LastOf
  <2>6. \E i \in DOMAIN l : l[i].line = "data:"
    BY <2>1
  <2>7. IdOf(l) = n /\ DelayOf(l) = retryDelay
    BY <2>1, <2>3, <2>5 DEF IdOf, DelayOf
  <2>8. DataOf(l) = <<n>>
    BY <2>1, <2>4, <2>6 DEF DataOf
  <2>. QED BY <2>2, <2>7, <2>8
<1>. QED BY <1>4, <1>5

\* The last line of a name is one of the lines.
LEMMA LastIsOne ==
    ASSUME NEW X, NEW c \in Seq(X), NEW name, NEW otherwise
    PROVE  \/ LastOf(c, name, otherwise) = otherwise /\ \A i \in DOMAIN c : c[i].line # name
           \/ \E x \in X : x.line = name /\ LastOf(c, name, otherwise) = x.of
<1>. DEFINE lines == {i \in DOMAIN c : c[i].line = name}
            n == Len(c)
<1>1. n \in Nat /\ lines \in SUBSET (1..n) /\ \A i \in 1..n : c[i] \in X
  OBVIOUS
<1>2. LastOf(c, name, otherwise) = IF lines = {} THEN otherwise ELSE c[Max(lines)].of
  BY DEF LastOf
<1>3. \A i \in lines : c[i].line = name /\ i \in DOMAIN c
  OBVIOUS
<1>4. CASE lines = {}
  BY <1>2, <1>4
<1>5. CASE lines # {}
  <2>1. Max(lines) \in lines
    <3>. HIDE DEF lines, n
    <3>. QED BY <1>1, <1>5, MaxIs
  <2>. DEFINE x == c[Max(lines)]
  <2>2. x \in X /\ x.line = name
    BY <1>1, <1>3, <2>1
  <2>3. LastOf(c, name, otherwise) = x.of
    BY <1>2, <1>5
  <2>. HIDE DEF x
  <2>. QED BY <2>2, <2>3
<1>. QED BY <1>4, <1>5

\* What is read from any lines, also those of an event cut in two.
LEMMA LinesTyped ==
    ASSUME NEW c \in Seq(Parts)
    PROVE  /\ IdOf(c) \in EventIds \cup {lastEventId}
           /\ DelayOf(c) \in {SentDelay, retryDelay}
           /\ \/ DataOf(c) = <<>>
              \/ \E n \in EventIds : DataOf(c) = <<n>>
<1>1. ASSUME NEW p \in Parts
      PROVE  /\ p.line \in {"id:", "data:"} => p.of \in EventIds
             /\ p.line = "retry:" => p.of = SentDelay
  BY DEF Parts, Line, End
<1>2. IdOf(c) \in EventIds \cup {lastEventId}
  BY <1>1, LastIsOne DEF IdOf
<1>3. DelayOf(c) \in {SentDelay, retryDelay}
  BY <1>1, LastIsOne DEF DelayOf
<1>4. ASSUME \E i \in DOMAIN c : c[i].line = "data:"
      PROVE  LastOf(c, "data:", 0) \in EventIds
  BY <1>1, <1>4, LastIsOne
<1>. QED BY <1>2, <1>3, <1>4 DEF DataOf

\* The blocks of events are sequences of tokens.
LEMMA BlockTyped ==
    ASSUME NEW e \in Nat, NEW m \in Nat, e + m <= MaxEvents
    PROVE  /\ Block(e, m) \in Seq(Seq(Parts))
           /\ FlattenSeq(Block(e, m)) \in Seq(Parts)
<1>1. ASSUME NEW n \in 1..m PROVE Event(e + n) \in Seq(Parts)
  <2>1. e + n \in EventIds
    BY StreamBounds DEF EventIds
  <2>. QED BY <2>1, EventIs
<1>2. Block(e, m) \in Seq(Seq(Parts))
  BY <1>1 DEF Block
<1>3. <<>> \in Seq(Parts)
  OBVIOUS
<1>. QED BY <1>2, <1>3, FlattenAppend

\* One event more.
LEMMA BlockNext ==
    ASSUME NEW e \in Nat, NEW m \in Nat, e + m + 1 <= MaxEvents
    PROVE  FlattenSeq(Block(e, m + 1)) = FlattenSeq(Block(e, m)) \o Event(e + m + 1)
<1>. DEFINE s == Block(e, m)
            x == Event(e + m + 1)
            t == Block(e, m + 1)
<1>1. s \in Seq(Seq(Parts)) /\ t \in Seq(Seq(Parts))
  BY BlockTyped, StreamBounds
<1>2. x \in Seq(Parts)
  <2>1. e + m + 1 \in EventIds
    BY StreamBounds DEF EventIds
  <2>. QED BY <2>1, EventIs
<1>3. Len(s) = m /\ Len(t) = m + 1 /\ \A i \in 1..m : s[i] = Event(e + i)
  BY DEF Block
<1>4. ASSUME NEW i \in 1..(m + 1) PROVE t[i] = Event(e + i)
  BY DEF Block
<1>5. e + (m + 1) = e + m + 1
  OBVIOUS
<1>. HIDE DEF s, t
<1>6. Append(s, x) = t
  <2>. DEFINE u == Append(s, x)
              S == Seq(Parts)
  <2>1. u \in Seq(S) /\ Len(u) = m + 1 /\ \A i \in 1..m : u[i] = s[i]
    BY <1>1, <1>2, <1>3
  <2>2. u[m + 1] = x
    BY <1>1, <1>2, <1>3
  <2>3. t \in Seq(S)
    BY <1>1
  <2>4. ASSUME NEW i \in 1..(m + 1) PROVE u[i] = t[i]
    <3>1. CASE i = m + 1
      BY <1>4, <1>5, <2>2, <3>1
    <3>2. CASE i # m + 1
      <4>1. i \in 1..m
        BY <3>2
      <4>. QED BY <1>3, <1>4, <2>1, <4>1
    <3>. QED BY <3>1, <3>2
  <2>. HIDE DEF u, S
  <2>5. u = t
    BY <1>3, <2>1, <2>3, <2>4, SeqEqual
  <2>. QED BY <2>5 DEF u
<1>. HIDE DEF x
<1>7. FlattenSeq(Append(s, x)) = FlattenSeq(s) \o x
  BY <1>1, <1>2, FlattenAppend
<1>. QED BY <1>6, <1>7 DEF s, t, x

\* One event before.
LEMMA BlockFirst ==
    ASSUME NEW e \in Nat, NEW k \in Nat, e + k + 1 <= MaxEvents
    PROVE  FlattenSeq(Block(e, k + 1)) = Event(e + 1) \o FlattenSeq(Block(e + 1, k))
<1>. DEFINE P(a, m) == FlattenSeq(Block(a, m))
            G == {m \in Nat : e + m + 1 <= MaxEvents => P(e, m + 1) = Event(e + 1) \o P(e + 1, m)}
<1>1. \A a, m \in Nat : a + m <= MaxEvents => P(a, m) \in Seq(Parts)
  BY BlockTyped
<1>2. \A a, m \in Nat : a + m + 1 <= MaxEvents => P(a, m + 1) = P(a, m) \o Event(a + m + 1)
  BY BlockNext
<1>3. \A n \in EventIds : Event(n) \in Seq(Parts)
  BY EventIs
<1>4. \A a : P(a, 0) = <<>>
  <2>1. \A a : Block(a, 0) = <<>>
    BY DEF Block
  <2>. QED BY <2>1 DEF FlattenSeq
<1>5. \A s \in Seq(Parts) : <<>> \o s = s /\ s \o <<>> = s
  OBVIOUS
<1>6. e + 1 \in EventIds
  BY StreamBounds DEF EventIds
<1>. HIDE DEF P
<1>7. 0 \in G
  <2>1. e + 0 + 1 <= MaxEvents => P(e, 0 + 1) = P(e, 0) \o Event(e + 0 + 1)
    BY <1>2
  <2>2. e + 0 + 1 = e + 1 /\ 0 + 1 = 1
    OBVIOUS
  <2>. QED BY <1>3, <1>4, <1>5, <1>6, <2>1, <2>2
<1>8. ASSUME NEW m \in Nat, m \in G PROVE m + 1 \in G
  <2>1. SUFFICES ASSUME e + (m + 1) + 1 <= MaxEvents
                 PROVE  P(e, (m + 1) + 1) = Event(e + 1) \o P(e + 1, m + 1)
    OBVIOUS
  <2>. DEFINE x == Event(e + 1)
              y == Event(e + m + 2)
              p == P(e + 1, m)
  <2>2. P(e, m + 1) = x \o p
    <3>1. e + m + 1 <= MaxEvents
      BY <2>1, StreamBounds
    <3>. QED BY <1>8, <3>1
  <2>3. P(e, (m + 1) + 1) = P(e, m + 1) \o y
    <3>1. m + 1 \in Nat /\ e + (m + 1) + 1 = e + m + 2
      OBVIOUS
    <3>. QED BY <1>2, <2>1, <3>1
  <2>4. P(e + 1, m + 1) = p \o y
    <3>1. e + 1 \in Nat /\ (e + 1) + m + 1 <= MaxEvents /\ (e + 1) + m + 1 = e + m + 2
      BY <2>1
    <3>. QED BY <1>2, <3>1
  <2>5. x \in Seq(Parts) /\ y \in Seq(Parts) /\ p \in Seq(Parts)
    <3>1. e + m + 2 \in EventIds /\ e + 1 \in Nat /\ (e + 1) + m <= MaxEvents
      BY <2>1, StreamBounds DEF EventIds
    <3>. QED BY <1>1, <1>3, <1>6, <3>1
  <2>. HIDE DEF x, y, p
  <2>6. (x \o p) \o y = x \o (p \o y)
    BY <2>5, ConcatAssociative
  <2>. QED BY <2>2, <2>3, <2>4, <2>6 DEF x
<1>. HIDE DEF G
<1>9. Nat \subseteq G
  BY <1>7, <1>8, SetInduction
<1>. QED BY <1>9 DEF G, P

\* What is sent after an event begins with the next one.
LEMMA AfterIs ==
    ASSUME NEW e \in 0..MaxEvents
    PROVE  /\ After(e) \in Seq(Parts)
           /\ e = MaxEvents => After(e) = <<>>
           /\ e < MaxEvents => After(e) = Event(e + 1) \o After(e + 1)
<1>1. MaxEvents \in Nat /\ e \in Nat /\ MaxEvents - e \in Nat
  BY StreamBounds
<1>2. After(e) \in Seq(Parts)
  BY <1>1, BlockTyped DEF After
<1>3. ASSUME e = MaxEvents PROVE After(e) = <<>>
  <2>1. Block(e, MaxEvents - e) = <<>>
    BY <1>1, <1>3 DEF Block
  <2>. QED BY <2>1 DEF After, FlattenSeq
<1>4. ASSUME e < MaxEvents PROVE After(e) = Event(e + 1) \o After(e + 1)
  <2>. DEFINE k == MaxEvents - (e + 1)
  <2>1. k \in Nat /\ e + k + 1 <= MaxEvents /\ k + 1 = MaxEvents - e
    BY <1>1, <1>4
  <2>. HIDE DEF k
  <2>2. FlattenSeq(Block(e, k + 1)) = Event(e + 1) \o FlattenSeq(Block(e + 1, k))
    BY <1>1, <2>1, BlockFirst
  <2>. QED BY <2>1, <2>2 DEF After, k
<1>. QED BY <1>2, <1>3, <1>4

---------------------------------------------------------------------------
(* Cutting what the server sends                                            *)

\* parts are what was cut from the text after the event e, of which rest is left.
CutOk(e, parts, rest) ==
    /\ parts \in Seq(Seq(Parts)) /\ Len(parts) > 0
    /\ rest \in Seq(Parts)
    /\ e + Len(parts) - 1 <= MaxEvents
    /\ \A i \in 1..(Len(parts) - 1) : parts[i] = Lines(e + i)
    /\ parts[Len(parts)] \o rest = After(e + Len(parts) - 1)
    /\ e + Len(parts) - 1 < MaxEvents
          => Len(parts[Len(parts)]) < Len(Event(e + Len(parts)))

\* Moving the first token over.
LEMMA TokenMoved ==
    ASSUME NEW S, NEW l \in Seq(S), NEW rest \in Seq(S), rest # <<>>
    PROVE  /\ Append(l, Head(rest)) \in Seq(S) /\ Tail(rest) \in Seq(S)
           /\ Append(l, Head(rest)) \o Tail(rest) = l \o rest
<1>. DEFINE k == Len(l)
            r == Len(rest)
            p == Append(l, Head(rest))
            q == Tail(rest)
<1>1. /\ k \in Nat /\ r \in Nat /\ r > 0 /\ Head(rest) = rest[1] /\ Head(rest) \in S
      /\ q \in Seq(S) /\ Len(q) = r - 1 /\ \A i \in 1..(r - 1) : q[i] = rest[i + 1]
  OBVIOUS
<1>2. p \in Seq(S) /\ Len(p) = k + 1 /\ p[k + 1] = rest[1] /\ \A i \in 1..k : p[i] = l[i]
  BY <1>1
<1>. HIDE DEF p, q
<1>3. /\ p \o q \in Seq(S) /\ Len(p \o q) = k + 1 + (r - 1)
      /\ \A i \in 1..(k + 1 + (r - 1)) :
            (p \o q)[i] = IF i <= k + 1 THEN p[i] ELSE q[i - (k + 1)]
  <2>1. q \in Seq(S)
    BY <1>1
  <2>2. /\ p \o q \in Seq(S) /\ Len(p \o q) = Len(p) + Len(q)
        /\ \A i \in 1..(Len(p) + Len(q)) :
              (p \o q)[i] = IF i <= Len(p) THEN p[i] ELSE q[i - Len(p)]
    BY <1>2, <2>1, ConcatProperties
  <2>3. Len(p) = k + 1 /\ Len(q) = r - 1
    BY <1>1, <1>2
  <2>. HIDE DEF k, r
  <2>. QED BY <2>2, <2>3
<1>4. /\ l \o rest \in Seq(S) /\ Len(l \o rest) = k + r
      /\ \A i \in 1..(k + r) : (l \o rest)[i] = IF i <= k THEN l[i] ELSE rest[i - k]
  BY ConcatProperties
<1>. DEFINE u == p \o q
            v == l \o rest
<1>. HIDE DEF k, r, u, v
<1>5. ASSUME NEW i \in 1..(k + r) PROVE u[i] = v[i]
  <2>0. i \in Nat /\ i > 0 /\ i <= k + r /\ i \in 1..(k + 1 + (r - 1))
    BY <1>1
  <2>1. CASE i <= k
    <3>1. i \in 1..k /\ i <= k + 1
      BY <1>1, <2>0, <2>1
    <3>. QED BY <1>2, <1>3, <1>4, <2>0, <2>1, <3>1 DEF u, v
  <2>2. CASE i = k + 1
    <3>1. ~(i <= k) /\ i <= k + 1 /\ i - k = 1
      BY <1>1, <2>2
    <3>. QED BY <1>2, <1>3, <1>4, <2>0, <2>2, <3>1 DEF u, v
  <2>3. CASE i > k + 1
    <3>1. ~(i <= k) /\ ~(i <= k + 1) /\ i - (k + 1) \in 1..(r - 1) /\ i - (k + 1) + 1 = i - k
      BY <1>1, <2>0, <2>3
    <3>2. u[i] = q[i - (k + 1)] /\ v[i] = rest[i - k]
      BY <1>3, <1>4, <2>0, <3>1 DEF u, v
    <3>. QED BY <1>1, <3>1, <3>2
  <2>4. i <= k \/ i = k + 1 \/ i > k + 1
    BY <1>1, <2>0
  <2>. QED BY <2>1, <2>2, <2>3, <2>4
<1>6. u \in Seq(S) /\ v \in Seq(S) /\ Len(u) = k + r /\ Len(v) = k + r
  BY <1>1, <1>3, <1>4 DEF u, v
<1>7. u = v
  BY <1>5, <1>6, SeqEqual
<1>. QED BY <1>1, <1>2, <1>7 DEF u, v, p, q

\* Two ways to part a text in two.
LEMMA PartedTwice ==
    ASSUME NEW S, NEW l \in Seq(S), NEW rest \in Seq(S), NEW e \in Seq(S), NEW a \in Seq(S),
           l \o rest = e \o a, Len(l) < Len(e)
    PROVE  /\ rest # <<>> /\ Head(rest) = e[Len(l) + 1]
           /\ \A i \in 1..Len(l) : l[i] = e[i]
           /\ Len(l) + 1 = Len(e) => Tail(rest) = a
<1>. DEFINE w == l \o rest
            k == Len(l)
            r == Len(rest)
            m == Len(e)
            n == Len(a)
<1>1. k \in Nat /\ r \in Nat /\ m \in Nat /\ n \in Nat
  OBVIOUS
<1>2. /\ Len(w) = k + r
      /\ \A i \in 1..(k + r) : w[i] = IF i <= k THEN l[i] ELSE rest[i - k]
  BY ConcatProperties
<1>3. /\ Len(w) = m + n
      /\ \A i \in 1..(m + n) : w[i] = IF i <= m THEN e[i] ELSE a[i - m]
  BY ConcatProperties
<1>4. k < m
  OBVIOUS
<1>. HIDE DEF w, k, r, m, n
<1>5. k + r = m + n /\ r > 0
  BY <1>1, <1>2, <1>3, <1>4
<1>6. rest # <<>> /\ Head(rest) = rest[1]
  BY <1>5 DEF r
<1>7. rest[1] = e[k + 1]
  <2>. DEFINE j == k + 1
  <2>1. j \in 1..(k + r) /\ ~(j <= k) /\ j - k = 1
    BY <1>1, <1>5
  <2>2. j \in 1..(m + n) /\ j <= m
    BY <1>1, <1>4, <1>5
  <2>. HIDE DEF j
  <2>3. w[j] = rest[1]
    BY <1>2, <2>1
  <2>4. w[j] = e[j]
    BY <1>3, <2>2
  <2>. QED BY <2>3, <2>4 DEF j
<1>8. ASSUME NEW i \in 1..k PROVE l[i] = e[i]
  <2>1. i \in 1..(k + r) /\ i <= k /\ i \in 1..(m + n) /\ i <= m
    BY <1>1, <1>4, <1>5
  <2>. QED BY <1>2, <1>3, <2>1
<1>9. ASSUME k + 1 = m PROVE Tail(rest) = a
  <2>. DEFINE q == Tail(rest)
  <2>1. q \in Seq(S) /\ Len(q) = r - 1 /\ \A i \in 1..(r - 1) : q[i] = rest[i + 1]
    BY <1>6 DEF r
  <2>. HIDE DEF q
  <2>2. r - 1 = n
    BY <1>1, <1>5, <1>9
  <2>3. ASSUME NEW i \in 1..n PROVE q[i] = a[i]
    <3>0. i \in Nat /\ i > 0 /\ i <= n
      BY <1>1
    <3>. DEFINE j == m + i
    <3>1. j \in 1..(m + n) /\ ~(j <= m) /\ j - m = i
      BY <1>1, <3>0
    <3>2. j \in 1..(k + r) /\ ~(j <= k) /\ j - k = i + 1 /\ i \in 1..(r - 1)
      BY <1>1, <1>5, <1>9, <2>2, <3>0
    <3>. HIDE DEF j
    <3>3. w[j] = a[i]
      BY <1>3, <3>1
    <3>4. w[j] = rest[i + 1]
      BY <1>2, <3>2
    <3>. QED BY <2>1, <3>2, <3>3, <3>4
  <2>4. q = a
    BY <2>1, <2>2, <2>3, SeqEqual DEF n
  <2>. QED BY <2>4 DEF q
<1>. QED BY <1>6, <1>7, <1>8, <1>9 DEF k, m

\* A token ends an event, or is one more of it.
LEMMA TokenInEvent ==
    ASSUME NEW n \in EventIds, NEW a \in Seq(Parts), NEW l \in Seq(Parts),
           NEW rest \in Seq(Parts), l \o rest = Event(n) \o a, Len(l) < Len(Event(n))
    PROVE  /\ rest # <<>>
           /\ Len(l) + 1 < Len(Event(n))
                 => ~(Head(rest) = End /\ l # <<>> /\ l[Len(l)] = End)
           /\ Len(l) + 1 = Len(Event(n))
                 => /\ Head(rest) = End /\ l # <<>> /\ l[Len(l)] = End
                    /\ Front(l) = Lines(n)
                    /\ Tail(rest) = a
<1>. DEFINE e == Event(n)
            x == Lines(n)
            h == Head(rest)
            k == Len(l)
            L == Len(e)
<1>1. /\ e \in Seq(Parts) /\ x \in Seq(Parts)
      /\ Len(x) \in Nat /\ L = Len(x) + 2
      /\ x = SubSeq(e, 1, Len(x))
      /\ \A i \in 1..(L - 1) : e[i] = End /\ e[i + 1] = End <=> i + 1 = L
      /\ e[1] # End
  BY EventIs
<1>2. l \o rest = e \o a /\ k < L /\ k \in Nat
  OBVIOUS
<1>. HIDE DEF e, x
<1>3. /\ rest # <<>> /\ h = e[k + 1] /\ \A i \in 1..k : l[i] = e[i]
      /\ k + 1 = L => Tail(rest) = a
  <2>1. e \in Seq(Parts) /\ l \o rest = e \o a /\ Len(l) < Len(e)
    BY <1>1, <1>2
  <2>2. /\ rest # <<>> /\ Head(rest) = e[Len(l) + 1]
        /\ \A i \in 1..Len(l) : l[i] = e[i]
        /\ Len(l) + 1 = Len(e) => Tail(rest) = a
    BY <2>1, PartedTwice
  <2>. QED BY <2>2
<1>4. l # <<>> <=> k > 0
  OBVIOUS
<1>5. ASSUME k > 0
      PROVE  /\ Front(l) \in Seq(Parts) /\ Len(Front(l)) = k - 1
             /\ \A i \in 1..(k - 1) : Front(l)[i] = l[i]
  <2>. DEFINE m == k - 1
  <2>1. m \in Nat /\ \A i \in 1..m : l[i] \in Parts
    BY <1>2, <1>5
  <2>2. Front(l) = SubSeq(l, 1, m)
    BY DEF Front
  <2>. HIDE DEF m
  <2>3. SubSeq(l, 1, m) \in Seq(Parts) /\ Len(SubSeq(l, 1, m)) = m
        /\ \A i \in 1..m : SubSeq(l, 1, m)[i] = l[i]
    BY <2>1
  <2>. QED BY <2>2, <2>3 DEF m
<1>. HIDE DEF h, k, L
<1>6. ASSUME k > 0
      PROVE  h = End /\ l[k] = End <=> k + 1 = L
  <2>1. k \in 1..(L - 1) /\ k \in 1..k
    BY <1>1, <1>2, <1>6
  <2>. QED BY <1>1, <1>3, <2>1
<1>7. k + 1 < L => ~(h = End /\ l # <<>> /\ l[k] = End)
  BY <1>1, <1>2, <1>4, <1>6
<1>8. ASSUME k + 1 = L
      PROVE  h = End /\ l # <<>> /\ l[k] = End /\ Front(l) = x
  <2>1. k > 0
    BY <1>1, <1>2, <1>8
  <2>. DEFINE f == Front(l)
              m == Len(x)
  <2>2. k - 1 = m /\ m \in Nat /\ L = m + 2
    BY <1>1, <1>2, <1>8
  <2>3. \A i \in 1..m : x[i] = e[i]
    BY <1>1, <2>2 DEF L
  <2>4. f \in Seq(Parts) /\ Len(f) = m /\ \A i \in 1..m : f[i] = l[i]
    BY <1>5, <2>1, <2>2
  <2>5. \A i \in 1..m : i \in 1..k
    BY <1>2, <2>2
  <2>6. \A i \in 1..m : f[i] = x[i]
    BY <1>3, <2>3, <2>4, <2>5
  <2>. HIDE DEF f
  <2>7. f = x
    BY <1>1, <2>4, <2>6, SeqEqual
  <2>. QED BY <1>4, <1>6, <1>8, <2>1, <2>7 DEF f
<1>. QED BY <1>3, <1>7, <1>8 DEF k, L, e, x, h

\* Token by token, what is cut stays right.
LEMMA CutGoesOn ==
    ASSUME NEW e \in 0..MaxEvents, NEW parts, NEW rest, CutOk(e, parts, rest), rest # <<>>
    PROVE  CutOk(e, CutToken(parts, Head(rest)), Tail(rest))
<1>. DEFINE m == Len(parts)
            l == parts[m]
            k == Len(l)
            n == e + m
            h == Head(rest)
            q == CutToken(parts, h)
<1>1. /\ parts \in Seq(Seq(Parts)) /\ rest \in Seq(Parts)
      /\ m \in Nat /\ m > 0 /\ l \in Seq(Parts) /\ k \in Nat
      /\ e \in Nat /\ MaxEvents \in Nat /\ n \in Nat /\ n - 1 \in 0..MaxEvents
      /\ e + m - 1 = n - 1
  BY StreamBounds DEF CutOk
<1>2. /\ \A i \in 1..(m - 1) : parts[i] = Lines(e + i)
      /\ l \o rest = After(n - 1)
      /\ n - 1 < MaxEvents => k < Len(Event(n))
  BY <1>1 DEF CutOk
<1>. HIDE DEF m, l, k, n
<1>3. n - 1 < MaxEvents
  <2>1. SUFFICES ASSUME ~(n - 1 < MaxEvents) PROVE FALSE
    OBVIOUS
  <2>2. n - 1 = MaxEvents
    BY <1>1, <2>1
  <2>3. l \o rest = <<>>
    BY <1>1, <1>2, <2>2, AfterIs
  <2>4. Len(l \o rest) = Len(l) + Len(rest) /\ Len(l) \in Nat /\ Len(rest) \in Nat /\ Len(rest) > 0
    BY <1>1
  <2>. QED BY <2>3, <2>4
<1>4. n \in EventIds /\ n \in 0..MaxEvents /\ n > 0 /\ (n - 1) + 1 = n
  BY <1>1, <1>3 DEF EventIds
<1>5. /\ After(n - 1) = Event(n) \o After(n)
      /\ After(n) \in Seq(Parts)
  BY <1>1, <1>3, <1>4, AfterIs
<1>6. /\ k + 1 < Len(Event(n)) => ~(h = End /\ l # <<>> /\ l[k] = End)
      /\ k + 1 = Len(Event(n)) => /\ h = End /\ l # <<>> /\ l[k] = End
                                  /\ Front(l) = Lines(n) /\ Tail(rest) = After(n)
  <2>1. l \o rest = Event(n) \o After(n) /\ Len(l) < Len(Event(n))
    BY <1>2, <1>3, <1>5 DEF k
  <2>2. /\ Len(l) + 1 < Len(Event(n)) => ~(Head(rest) = End /\ l # <<>> /\ l[Len(l)] = End)
        /\ Len(l) + 1 = Len(Event(n)) => /\ Head(rest) = End /\ l # <<>> /\ l[Len(l)] = End
                                         /\ Front(l) = Lines(n) /\ Tail(rest) = After(n)
    BY <1>1, <1>4, <1>5, <2>1, TokenInEvent
  <2>. QED BY <2>2 DEF k
<1>7. h \in Parts /\ Tail(rest) \in Seq(Parts)
  BY <1>1
<1>8. Len(Event(n)) \in Nat /\ Lines(n) \in Seq(Parts)
  <2>1. Event(n) \in Seq(Parts) /\ Lines(n) \in Seq(Parts)
    BY <1>4, EventIs
  <2>. QED BY <2>1
<1>9. q = IF h = End /\ l # <<>> /\ l[k] = End
          THEN Append([parts EXCEPT ![m] = Front(l)], <<>>)
          ELSE [parts EXCEPT ![m] = Append(l, h)]
  BY DEF CutToken, Last, m, l, k
<1>. HIDE DEF h, q
<1>10. CASE k + 1 < Len(Event(n))
  <2>. DEFINE x == Append(l, h)
  <2>1. q = [parts EXCEPT ![m] = x]
    BY <1>6, <1>9, <1>10
  <2>2. x \in Seq(Parts) /\ Len(x) = k + 1
    BY <1>1, <1>7 DEF k
  <2>3. x \o Tail(rest) = After(n - 1)
    BY <1>1, <1>2, TokenMoved, ZenonT(30) DEF h
  <2>. HIDE DEF x
  <2>4. q \in Seq(Seq(Parts)) /\ Len(q) = m /\ q[m] = x /\ \A i \in 1..(m - 1) : q[i] = parts[i]
    BY <1>1, <2>1, <2>2, SMTT(30) DEF m
  <2>5. Len(q) > 0 /\ e + Len(q) - 1 = n - 1 /\ e + Len(q) = n
    BY <1>1, <2>4 DEF n
  <2>6. \A i \in 1..(Len(q) - 1) : q[i] = Lines(e + i)
    BY <1>2, <2>4
  <2>7. q[Len(q)] \o Tail(rest) = After(e + Len(q) - 1)
    BY <2>3, <2>4, <2>5
  <2>8. Len(q[Len(q)]) < Len(Event(e + Len(q)))
    BY <1>10, <2>2, <2>4, <2>5
  <2>9. e + Len(q) - 1 <= MaxEvents
    BY <1>1, <2>5
  <2>. QED BY <1>7, <2>4, <2>5, <2>6, <2>7, <2>8, <2>9 DEF CutOk, q, h
<1>11. CASE k + 1 = Len(Event(n))
  <2>. DEFINE p == [parts EXCEPT ![m] = Lines(n)]
              none == <<>>
  <2>1. q = Append(p, none)
    BY <1>6, <1>9, <1>11
  <2>2. p \in Seq(Seq(Parts)) /\ Len(p) = m /\ p[m] = Lines(n) /\ \A i \in 1..(m - 1) : p[i] = parts[i]
    BY <1>1, <1>8 DEF m
  <2>3. none \in Seq(Parts) /\ Len(none) = 0 /\ none \o After(n) = After(n)
    BY <1>5
  <2>. HIDE DEF p, none
  <2>4. /\ q \in Seq(Seq(Parts)) /\ Len(q) = m + 1 /\ q[m + 1] = none
        /\ \A i \in 1..m : q[i] = p[i]
    BY <1>1, <2>1, <2>2, <2>3
  <2>5. Len(q) > 0 /\ e + Len(q) - 1 = n /\ e + Len(q) = n + 1
    <3>1. Len(q) = m + 1 /\ m \in Nat /\ e \in Nat
      BY <1>1, <2>4
    <3>. DEFINE k1 == Len(q)
    <3>. HIDE DEF k1
    <3>2. k1 = m + 1
      BY <3>1 DEF k1
    <3>3. k1 > 0 /\ e + k1 - 1 = e + m /\ e + k1 = e + m + 1
      BY <3>1, <3>2
    <3>. QED BY <3>3 DEF k1, n
  <2>6. \A i \in 1..(Len(q) - 1) : q[i] = Lines(e + i)
    <3>1. ASSUME NEW i \in 1..m PROVE q[i] = Lines(e + i)
      <4>1. CASE i = m
        BY <1>1, <2>2, <2>4, <4>1 DEF n
      <4>2. CASE i # m
        <5>1. i \in 1..(m - 1)
          BY <1>1, <4>2
        <5>. QED BY <1>2, <2>2, <2>4, <5>1
      <4>. QED BY <4>1, <4>2
    <3>2. Len(q) - 1 = m
      BY <1>1, <2>4
    <3>. QED BY <3>1, <3>2
  <2>7. q[Len(q)] \o Tail(rest) = After(e + Len(q) - 1)
    BY <1>6, <1>11, <2>3, <2>4, <2>5
  <2>8. e + Len(q) - 1 < MaxEvents => Len(q[Len(q)]) < Len(Event(e + Len(q)))
    <3>1. SUFFICES ASSUME n < MaxEvents PROVE 0 < Len(Event(n + 1))
      BY <2>3, <2>4, <2>5
    <3>2. n + 1 \in EventIds
      BY <1>1, <3>1 DEF EventIds
    <3>3. Len(Lines(n + 1)) \in Nat /\ Len(Event(n + 1)) = Len(Lines(n + 1)) + 2
      BY <3>2, EventIs
    <3>. QED BY <3>3
  <2>9. e + Len(q) - 1 <= MaxEvents
    BY <1>4, <2>5
  <2>. QED BY <1>7, <2>4, <2>5, <2>6, <2>7, <2>8, <2>9 DEF CutOk, q, h
<1>. QED BY <1>1, <1>2, <1>3, <1>8, <1>10, <1>11

\* Nothing cut yet.
LEMMA CutStarts ==
    ASSUME NEW e \in 0..MaxEvents
    PROVE  CutOk(e, << <<>> >>, After(e))
<1>. DEFINE none == <<>>
            parts == <<none>>
<1>1. none \in Seq(Parts) /\ Len(none) = 0 /\ \A s \in Seq(Parts) : none \o s = s
  OBVIOUS
<1>2. After(e) \in Seq(Parts) /\ e \in Nat /\ e <= MaxEvents /\ MaxEvents \in Nat
  BY AfterIs, StreamBounds
<1>. HIDE DEF none
<1>3. parts \in Seq(Seq(Parts)) /\ Len(parts) = 1 /\ parts[1] = none
  BY <1>1
<1>. HIDE DEF parts
<1>4. e + Len(parts) - 1 = e /\ e + Len(parts) = e + 1 /\ 1..(Len(parts) - 1) = {}
  BY <1>2, <1>3
<1>5. parts[Len(parts)] \o After(e) = After(e + Len(parts) - 1)
  BY <1>1, <1>2, <1>3, <1>4
<1>6. e < MaxEvents => 0 < Len(Event(e + 1))
  <2>1. SUFFICES ASSUME e < MaxEvents PROVE 0 < Len(Event(e + 1))
    OBVIOUS
  <2>2. e + 1 \in EventIds
    BY <1>2, <2>1 DEF EventIds
  <2>3. Len(Lines(e + 1)) \in Nat /\ Len(Event(e + 1)) = Len(Lines(e + 1)) + 2
    BY <2>2, EventIs
  <2>. QED BY <2>3
<1>7. CutOk(e, parts, After(e))
  BY <1>1, <1>2, <1>3, <1>4, <1>5, <1>6 DEF CutOk
<1>. QED BY <1>7 DEF parts, none

\* The beginning of what is sent, cut.
LEMMA CutPrefix ==
    ASSUME NEW e \in 0..MaxEvents, NEW n \in 0..Len(After(e))
    PROVE  CutOk(e, Cut(SubSeq(After(e), 1, n)), SubSeq(After(e), n + 1, Len(After(e))))
<1>. DEFINE a == After(e)
            L == Len(a)
            head(m) == SubSeq(a, 1, m)
            rest(m) == SubSeq(a, m + 1, L)
            G == {m \in Nat : m <= L => CutOk(e, Cut(head(m)), rest(m))}
<1>1. a \in Seq(Parts) /\ L \in Nat
  BY AfterIs
<1>. HIDE DEF a
<1>2. 0 \in G
  <2>1. head(0) = <<>> /\ rest(0) = a
    BY <1>1
  <2>2. CutOk(e, << <<>> >>, a)
    BY CutStarts DEF a
  <2>3. CutOk(e, Cut(head(0)), rest(0))
    <3>. HIDE DEF head, rest
    <3>. QED BY <2>1, <2>2, CutEmpty
  <2>. HIDE DEF head, rest
  <2>. QED BY <2>3
<1>3. ASSUME NEW m \in Nat, m \in G PROVE m + 1 \in G
  <2>1. SUFFICES ASSUME m + 1 <= L PROVE CutOk(e, Cut(head(m + 1)), rest(m + 1))
    OBVIOUS
  <2>2. m <= L /\ m + 1 \in 1..L /\ m + 1 + 1 = m + 2
    BY <1>1, <2>1
  <2>3. CutOk(e, Cut(head(m)), rest(m))
    <3>. HIDE DEF head, rest
    <3>. QED BY <1>3, <2>2
  <2>4. head(m) \in Seq(Parts) /\ head(m + 1) = Append(head(m), a[m + 1]) /\ a[m + 1] \in Parts
    BY <1>1, <2>2
  <2>5. rest(m) # <<>> /\ Head(rest(m)) = a[m + 1] /\ Tail(rest(m)) = rest(m + 1)
    <3>1. L \in (m + 1)..L
      BY <1>1, <2>2
    <3>2. Head(rest(m)) = a[m + 1] /\ Tail(rest(m)) = rest(m + 1)
      BY <1>1, <2>2, <3>1, HeadTailOfSubSeq
    <3>3. Len(rest(m)) = L - m /\ L - m > 0
      BY <1>1, <2>1
    <3>4. rest(m) # <<>>
      <4>. HIDE DEF rest
      <4>1. Len(rest(m)) # 0
        BY <1>1, <2>1, <3>3
      <4>. QED BY <4>1
    <3>. QED BY <3>2, <3>4
  <2>. HIDE DEF head, rest
  <2>6. Cut(head(m + 1)) = CutToken(Cut(head(m)), a[m + 1])
    BY <2>4, CutAppend
  <2>7. CutOk(e, CutToken(Cut(head(m)), Head(rest(m))), Tail(rest(m)))
    BY <2>3, <2>5, CutGoesOn
  <2>. QED BY <2>5, <2>6, <2>7
<1>. HIDE DEF G
<1>4. Nat \subseteq G
  BY <1>2, <1>3, SetInduction
<1>5. n \in Nat /\ n <= L
  BY <1>1 DEF a
<1>. HIDE DEF head, rest
<1>6. CutOk(e, Cut(head(n)), rest(n))
  BY <1>4, <1>5 DEF G
<1>. QED BY <1>6 DEF head, rest, a

\* The beginning of a text that was parted.
LEMMA PartedPrefix ==
    ASSUME NEW S, NEW b \in Seq(S), NEW w \in Seq(S), NEW n \in 1..Len(w)
    PROVE  /\ Len(b) + n \in 0..Len(b \o w)
           /\ SubSeq(b \o w, 1, Len(b) + n) = b \o SubSeq(w, 1, n)
           /\ SubSeq(b \o w, Len(b) + n + 1, Len(b \o w)) = SubSeq(w, n + 1, Len(w))
<1>. DEFINE a == b \o w
            k == Len(b)
            r == Len(w)
            m == k + n
<1>1. k \in Nat /\ r \in Nat /\ n \in Nat /\ n > 0 /\ n <= r /\ m \in Nat
  OBVIOUS
<1>2. /\ a \in Seq(S) /\ Len(a) = k + r
      /\ \A i \in 1..(k + r) : a[i] = IF i <= k THEN b[i] ELSE w[i - k]
  BY ConcatProperties
<1>. DEFINE u == SubSeq(a, 1, m)
            x == SubSeq(w, 1, n)
            v == b \o x
            y == SubSeq(a, m + 1, Len(a))
            z == SubSeq(w, n + 1, Len(w))
<1>3. x \in Seq(S) /\ Len(x) = n /\ \A i \in 1..n : x[i] = w[i]
  BY <1>1
<1>. HIDE DEF x
<1>4. /\ v \in Seq(S) /\ Len(v) = k + n
      /\ \A i \in 1..(k + n) : v[i] = IF i <= k THEN b[i] ELSE x[i - k]
  BY <1>3, ConcatProperties
<1>. HIDE DEF a, v
<1>5. u \in Seq(S) /\ Len(u) = m /\ \A i \in 1..m : u[i] = a[i]
  BY <1>1, <1>2
<1>. HIDE DEF u
<1>6. y \in Seq(S) /\ Len(y) = (k + r) - m /\ \A i \in 1..((k + r) - m) : y[i] = a[m + i]
  <2>. DEFINE t == k + r
  <2>1. t \in Nat /\ Len(a) = t /\ m <= t
    BY <1>1, <1>2
  <2>. DEFINE p == m + 1
  <2>2. p \in 1..(t + 1) /\ t \in Int /\ p \in Int /\ t - p + 1 = t - m
    BY <1>1, <2>1
  <2>. HIDE DEF t, m, p
  <2>3. \A i \in p..t : a[i] \in S
    BY <1>2, <2>1, <2>2
  <2>4. y = SubSeq(a, p, t)
    BY <2>1 DEF p
  <2>. HIDE DEF y
  <2>5. /\ y \in Seq(S) /\ Len(y) = IF p <= t THEN t - p + 1 ELSE 0
        /\ \A i \in 1..(t - p + 1) : y[i] = a[p + i - 1]
    BY <2>2, <2>3, <2>4, SubSeqProperties
  <2>6. Len(y) = t - m
    BY <1>1, <2>1, <2>2, <2>5 DEF p
  <2>7. \A i \in 1..(t - m) : p + i - 1 = m + i
    BY <1>1, <2>1 DEF p
  <2>8. \A i \in 1..(t - m) : y[i] = a[m + i]
    BY <2>2, <2>5, <2>7
  <2>. QED BY <2>5, <2>6, <2>8 DEF t
<1>7. z \in Seq(S) /\ Len(z) = r - n /\ \A i \in 1..(r - n) : z[i] = w[n + i]
  BY <1>1
<1>. HIDE DEF y, z, k, r
<1>8. u = v
  <2>1. ASSUME NEW i \in 1..m PROVE u[i] = v[i]
    <3>0. i \in Nat /\ i > 0 /\ i <= k + n /\ i \in 1..(k + r) /\ i \in 1..(k + n)
      BY <1>1
    <3>1. CASE i <= k
      BY <1>2, <1>4, <1>5, <2>1, <3>0, <3>1
    <3>2. CASE ~(i <= k)
      <4>. DEFINE j == i - k
      <4>1. j \in 1..n
        BY <1>1, <3>0, <3>2
      <4>2. a[i] = w[j] /\ v[i] = x[j]
        BY <1>2, <1>4, <3>0, <3>2
      <4>. HIDE DEF j
      <4>. QED BY <1>3, <1>5, <2>1, <4>1, <4>2
    <3>. QED BY <3>1, <3>2
  <2>. HIDE DEF m
  <2>2. Len(v) = m
    BY <1>4 DEF m
  <2>. QED BY <1>4, <1>5, <2>1, <2>2, SeqEqual
<1>9. y = z
  <2>0. (k + r) - m = r - n /\ r - n \in Nat
    BY <1>1
  <2>1. ASSUME NEW i \in 1..(r - n) PROVE y[i] = z[i]
    <3>. DEFINE j == m + i
    <3>1. j \in 1..(k + r) /\ ~(j <= k) /\ j - k = n + i
      BY <1>1, <2>0
    <3>. HIDE DEF j
    <3>2. a[j] = w[n + i]
      BY <1>2, <3>1
    <3>3. y[i] = a[j]
      BY <1>6, <2>0 DEF j
    <3>. QED BY <1>7, <3>2, <3>3
  <2>2. Len(y) = r - n
    BY <1>6, <2>0
  <2>. QED BY <1>6, <1>7, <2>1, <2>2, SeqEqual
<1>10. m \in 0..Len(a)
  BY <1>1, <1>2
<1>. QED BY <1>8, <1>9, <1>10 DEF u, v, x, y, z, a, k, r

\* All but the last of a sequence.
LEMMA FrontOf ==
    ASSUME NEW S, NEW s \in Seq(S), Len(s) > 0
    PROVE  /\ Front(s) \in Seq(S) /\ Len(Front(s)) = Len(s) - 1
           /\ \A i \in 1..(Len(s) - 1) : Front(s)[i] = s[i]
<1>. DEFINE m == Len(s) - 1
<1>1. m \in Nat /\ \A i \in 1..m : s[i] \in S
  OBVIOUS
<1>2. Front(s) = SubSeq(s, 1, m)
  BY DEF Front
<1>. HIDE DEF m
<1>3. SubSeq(s, 1, m) \in Seq(S) /\ Len(SubSeq(s, 1, m)) = m
      /\ \A i \in 1..m : SubSeq(s, 1, m)[i] = s[i]
  BY <1>1
<1>. QED BY <1>2, <1>3 DEF m

---------------------------------------------------------------------------
(* The stream                                                               *)

\* What was yielded and what was refused make up the events noted.
Progress ==
    /\ lastEventId \in 0..MaxEvents
    /\ received \in Seq(EventIds) /\ refused \subseteq EventIds
    /\ \A i, j \in DOMAIN received : i < j => received[i] < received[j]
    /\ \A i \in DOMAIN received : received[i] <= lastEventId
    /\ \A n \in 1..lastEventId : Contains(received, n) \/ n \in refused

\* As long as no line's end was cut in two: what was cut off and not handled are the
\* events after the one noted, and the rest of what was read goes on with what is on
\* its way.
AsSent ==
    /\ wire \in Seq(Parts) /\ buffer \in Seq(Parts) /\ chunks \in Seq(Seq(Parts))
    /\ phase = "reading" => /\ lastEventId + Len(chunks) <= MaxEvents
                            /\ \A i \in 1..Len(chunks) : chunks[i] = Lines(lastEventId + i)
                            /\ buffer \o wire = After(lastEventId + Len(chunks))

\* Whatever was cut in two.
Typed ==
    /\ lastEventId \in 0..MaxEvents
    /\ received \in Seq(EventIds) /\ refused \subseteq EventIds
    /\ wire \in Seq(Parts \cup {Lf}) /\ buffer \in Seq(Parts) /\ chunks \in Seq(Seq(Parts))
    /\ phase # "reading" => wire = <<>> /\ buffer = <<>> /\ chunks = <<>>
    /\ torn \in BOOLEAN

\* Where the generator stands; a connection is an attempt.
Control ==
    /\ phase \in {"none", "starting", "connecting", "reading", "sleeping", "ended"}
    /\ aborted \in BOOLEAN
    /\ attempt \in 0..MaxAttempts
    /\ phase \in {"connecting", "reading"} => attempt > 0
    /\ sseMaxRetryAttempts \in RetryAttempts
    /\ retryDelay \in Nat
    /\ delay \in 0..MaxDelay

InOrder == Progress /\ AsSent
StreamInv == Typed /\ Control /\ (~torn => InOrder)

LEMMA StreamInvIsEnough ==
    StreamInv => StreamTypeOK /\ NoEventSkipped /\ (~torn => EventsOnceInOrder)
<1>1. StreamInv => StreamTypeOK
  BY DEF StreamInv, Typed, Control, StreamTypeOK
<1>2. StreamInv => NoEventSkipped /\ (~torn => EventsOnceInOrder)
  BY DEF StreamInv, InOrder, Progress, EventsOnceInOrder, NoEventSkipped
<1>. QED BY <1>1, <1>2

LEMMA StreamBegins == StreamInit => StreamInv
<1>. SUFFICES ASSUME StreamInit PROVE StreamInv
  OBVIOUS
<1>1. Progress
  <2>1. lastEventId = 0 /\ received = <<>> /\ refused = {}
    BY DEF StreamInit
  <2>2. <<>> \in Seq(EventIds) /\ DOMAIN <<>> = {} /\ 0 \in 0..MaxEvents /\ 1..0 = {}
    BY StreamBounds
  <2>. QED BY <2>1, <2>2 DEF Progress
<1>2. <<>> \in Seq(Parts) /\ <<>> \in Seq(Seq(Parts)) /\ <<>> \in Seq(Parts \cup {Lf})
  OBVIOUS
<1>3. AsSent
  BY <1>2 DEF AsSent, StreamInit
<1>4. Typed
  BY <1>1, <1>2 DEF Typed, Progress, StreamInit
<1>5. Control
  <2>1. DefaultDelay \in Nat /\ 0 \in 0..MaxDelay /\ 0 \in 0..MaxAttempts
    BY StreamBounds
  <2>2. /\ phase = "none" /\ aborted = FALSE /\ attempt = 0 /\ delay = 0
        /\ retryDelay = DefaultDelay /\ sseMaxRetryAttempts \in RetryAttempts
    BY DEF StreamInit
  <2>. QED BY <2>1, <2>2 DEF Control
<1>. QED BY <1>1, <1>3, <1>4, <1>5 DEF StreamInv, InOrder

\* The delay that is slept does not pass its cap.
LEMMA BackoffIsCapped ==
    ASSUME attempt \in Nat, attempt > 0, NEW base \in Nat
    PROVE  Backoff(base) \in 0..MaxDelay
<1>. DEFINE n == attempt - 1
            p == 2 ^ n
<1>1. n \in Nat
  OBVIOUS
<1>. HIDE DEF n
<1>2. p \in Nat
  <2>. DEFINE S == 1..n
  <2>1. IsFiniteSet(S) /\ Cardinality(S) = n
    BY <1>1, FS_Interval
  <2>. HIDE DEF S
  <2>2. IsFiniteSet(SUBSET S) /\ Cardinality(SUBSET S) = 2 ^ Cardinality(S)
    BY <2>1, FS_SUBSET
  <2>3. Cardinality(SUBSET S) \in Nat
    BY <2>2, FS_CardinalityType
  <2>. QED BY <2>1, <2>2, <2>3
<1>. HIDE DEF p
<1>3. base * p \in Nat
  BY <1>2
<1>4. Backoff(base) = IF base * p < MaxDelay THEN base * p ELSE MaxDelay
  BY DEF Backoff, n, p
<1>. DEFINE grown == base * p
<1>. HIDE DEF grown
<1>. QED BY <1>3, <1>4, StreamBounds DEF grown

\* Where the generator stands after a connection that failed.
LEMMA FailureControls ==
    ASSUME Control, phase \in {"connecting", "reading"}, NEW base \in Nat, Failed(base),
           UNCHANGED <<sseMaxRetryAttempts, aborted, attempt>>, retryDelay' \in Nat
    PROVE  Control' /\ phase' \in {"ended", "sleeping"}
<1>1. phase' \in {"ended", "sleeping"} /\ (delay' = delay \/ delay' = Backoff(base))
  BY DEF Failed
<1>2. Backoff(base) \in 0..MaxDelay
  <2>1. attempt \in Nat /\ attempt > 0
    BY DEF Control
  <2>. QED BY <2>1, BackoffIsCapped
<1>. QED BY <1>1, <1>2 DEF Control

\* The steps of the generator.
LEMMA ControlSteps ==
    ASSUME Typed, Control, StreamNext \/ UNCHANGED streamVars
    PROVE  Control'
<1>1. /\ attempt \in Nat /\ attempt <= MaxAttempts /\ MaxAttempts \in Nat /\ MaxAttempts > 0
      /\ 0 \in 0..MaxDelay
  BY StreamBounds DEF Control
<1>2. CASE Subscribe
  BY <1>2 DEF Subscribe, Control
<1>3. CASE Abort
  BY <1>3 DEF Abort, Control
<1>4. CASE Loop
  <2>1. /\ UNCHANGED <<sseMaxRetryAttempts, aborted, retryDelay, delay>>
        /\ \/ phase' = "ended" /\ attempt' = attempt
           \/ phase' = "connecting" /\ attempt' = IF attempt = MaxAttempts THEN attempt ELSE attempt + 1
    BY <1>4 DEF Loop
  <2>2. /\ attempt' \in 0..MaxAttempts /\ (phase' = "connecting" => attempt' > 0)
        /\ phase' \in {"connecting", "ended"}
    BY <1>1, <2>1
  <2>. QED BY <2>1, <2>2 DEF Control
<1>5. CASE Wake
  BY <1>1, <1>5 DEF Wake, Control
<1>6. CASE Connected
  BY <1>6 DEF Connected, Control
<1>7. ASSUME NEW n \in 1..Len(wire), NEW within \in BOOLEAN, Read(n, within) PROVE Control'
  BY <1>7 DEF Read, Control
<1>8. CASE Handle
  <2>1. phase = "reading"
    BY <1>8 DEF Handle, Typed
  <2>. DEFINE c == Head(chunks)
  <2>2. c \in Seq(Parts)
    BY <1>8 DEF Handle, Typed
  <2>3. retryDelay' = DelayOf(c) /\ UNCHANGED <<sseMaxRetryAttempts, aborted, attempt>>
        /\ (UNCHANGED <<phase, delay>> \/ Failed(DelayOf(c)))
    BY <1>8 DEF Handle
  <2>. HIDE DEF c
  <2>4. DelayOf(c) \in Nat
    <3>1. DelayOf(c) \in {SentDelay, retryDelay}
      BY <2>2, LinesTyped
    <3>. QED BY <3>1, StreamBounds DEF Control
  <2>5. CASE UNCHANGED <<phase, delay>>
    BY <2>3, <2>4, <2>5 DEF Control
  <2>6. CASE Failed(DelayOf(c))
    BY <2>1, <2>3, <2>4, <2>6, FailureControls
  <2>. QED BY <2>3, <2>5, <2>6
<1>9. CASE Break
  <2>1. /\ phase \in {"connecting", "reading"} /\ Failed(retryDelay)
        /\ UNCHANGED <<sseMaxRetryAttempts, aborted, attempt>> /\ retryDelay' \in Nat
        /\ retryDelay \in Nat
    BY <1>9 DEF Break, Control
  <2>. QED BY <2>1, FailureControls
<1>10. CASE Finish
  BY <1>10 DEF Finish, Control
<1>11. CASE UNCHANGED streamVars
  BY <1>11 DEF streamVars, Control
<1>. QED BY <1>2, <1>3, <1>4, <1>5, <1>6, <1>7, <1>8, <1>9, <1>10, <1>11 DEF StreamNext

\* The events there are after a connection that failed.
LEMMA ClosedTyped ==
    ASSUME Closed, lastEventId' \in 0..MaxEvents, received' \in Seq(EventIds),
           refused' \subseteq EventIds, torn' \in BOOLEAN
    PROVE  Typed'
<1>1. <<>> \in Seq(Parts) /\ <<>> \in Seq(Seq(Parts)) /\ <<>> \in Seq(Parts \cup {Lf})
  OBVIOUS
<1>. QED BY <1>1 DEF Closed, Typed

\* What was read is without the LF of a line's end cut in two.
LEMMA NormalisedTyped ==
    ASSUME NEW n \in 1..Len(wire), wire \in Seq(Parts \cup {Lf})
    PROVE  Normalised(SubSeq(wire, 1, n)) \in Seq(Parts)
<1>. DEFINE t == SubSeq(wire, 1, n)
<1>1. t \in Seq(Parts \cup {Lf})
  OBVIOUS
<1>. HIDE DEF t
<1>2. \A i \in DOMAIN t : t[i] \in Parts \cup {Lf}
  BY <1>1
<1>3. End \in Parts
  BY DEF Parts
<1>4. \A i \in DOMAIN t : (IF t[i] = Lf THEN End ELSE t[i]) \in Parts
  BY <1>2, <1>3
<1>5. Len(t) \in Nat /\ DOMAIN t = 1..Len(t)
  BY <1>1
<1>6. [i \in DOMAIN t |-> IF t[i] = Lf THEN End ELSE t[i]] \in Seq(Parts)
  BY <1>4, <1>5
<1>. QED BY <1>6 DEF Normalised, t

\* A sequence of texts is a last one and the ones before it.
LEMMA PartsTyped ==
    ASSUME NEW X, NEW parts \in Seq(X) \ {<<>>}
    PROVE  Front(parts) \in Seq(X) /\ Last(parts) \in X
<1>1. Len(parts) \in Nat /\ Len(parts) > 0
  <2>1. Len(parts) \in Nat /\ (Len(parts) = 0 => parts = <<>>)
    OBVIOUS
  <2>. QED BY <2>1
<1>2. Front(parts) \in Seq(X)
  BY <1>1, FrontOf
<1>. QED BY <1>1, <1>2 DEF Last

LEMMA TypedSteps ==
    ASSUME Typed, StreamNext \/ UNCHANGED streamVars
    PROVE  Typed'
<1>. DEFINE still == UNCHANGED <<lastEventId, received, refused, wire, buffer, chunks, torn>>
<1>1. CASE Subscribe \/ Abort \/ Loop \/ Wake \/ UNCHANGED streamVars
  <2>1. still /\ (phase' = "reading" <=> phase = "reading")
    BY <1>1 DEF Subscribe, Abort, Loop, Wake, streamVars
  <2>. QED BY <2>1 DEF Typed
<1>2. CASE Connected
  <2>1. lastEventId \in 0..MaxEvents /\ wire' = After(lastEventId) /\ phase' = "reading"
        /\ UNCHANGED <<lastEventId, received, refused, buffer, chunks, torn>>
    BY <1>2 DEF Connected, After, Block, Typed
  <2>2. After(lastEventId) \in Seq(Parts)
    BY <2>1, AfterIs
  <2>3. \A s \in Seq(Parts) : s \in Seq(Parts \cup {Lf})
    OBVIOUS
  <2>. QED BY <2>1, <2>2, <2>3 DEF Typed
<1>3. ASSUME NEW n \in 1..Len(wire), NEW within \in BOOLEAN, Read(n, within) PROVE Typed'
  <2>. DEFINE text == buffer \o Normalised(SubSeq(wire, 1, n))
              parts == Cut(text)
              rest == SubSeq(wire, n + 1, Len(wire))
              left == IF within THEN <<Lf>> ELSE <<>>
  <2>1. /\ phase = "reading" /\ phase' = phase /\ torn' = (torn \/ within)
        /\ chunks' = Front(parts) /\ buffer' = Last(parts) /\ wire' = left \o rest
        /\ UNCHANGED <<lastEventId, received, refused>>
    BY <1>3 DEF Read
  <2>2. text \in Seq(Parts)
    <3>1. Normalised(SubSeq(wire, 1, n)) \in Seq(Parts)
      BY NormalisedTyped DEF Typed
    <3>2. buffer \in Seq(Parts)
      BY DEF Typed
    <3>. QED BY <3>1, <3>2
  <2>. HIDE DEF text
  <2>3. parts \in Seq(Seq(Parts)) \ {<<>>}
    BY <2>2, CutTyped
  <2>. HIDE DEF parts
  <2>4. chunks' \in Seq(Seq(Parts)) /\ buffer' \in Seq(Parts)
    BY <2>1, <2>3, PartsTyped
  <2>5. wire' \in Seq(Parts \cup {Lf})
    <3>1. wire \in Seq(Parts \cup {Lf}) /\ n \in Nat
      BY DEF Typed
    <3>2. rest \in Seq(Parts \cup {Lf})
      BY <3>1
    <3>3. left \in Seq(Parts \cup {Lf})
      <4>1. \A x \in Parts \cup {Lf} : <<x>> \in Seq(Parts \cup {Lf})
        OBVIOUS
      <4>2. <<>> \in Seq(Parts \cup {Lf}) /\ Lf \in Parts \cup {Lf}
        OBVIOUS
      <4>. QED BY <4>1, <4>2
    <3>. HIDE DEF rest, left
    <3>. QED BY <2>1, <3>2, <3>3
  <2>6. torn' \in BOOLEAN
    BY <2>1 DEF Typed
  <2>. QED BY <2>1, <2>4, <2>5, <2>6 DEF Typed
<1>4. CASE Handle
  <2>. DEFINE c == Head(chunks)
  <2>1. phase = "reading" /\ c \in Seq(Parts) /\ Tail(chunks) \in Seq(Seq(Parts))
    BY <1>4 DEF Handle, Typed
  <2>2. /\ lastEventId' = IdOf(c) /\ torn' = torn
        /\ \/ /\ received' = received \o DataOf(c) /\ chunks' = Tail(chunks)
              /\ UNCHANGED <<phase, delay, wire, buffer, refused>>
           \/ /\ DataOf(c) # <<>> /\ refused' = refused \cup {DataOf(c)[1]}
              /\ Failed(DelayOf(c)) /\ received' = received
    BY <1>4 DEF Handle
  <2>. HIDE DEF c
  <2>3. /\ IdOf(c) \in 0..MaxEvents
        /\ DataOf(c) = <<>> \/ \E n \in EventIds : DataOf(c) = <<n>>
    <3>1. EventIds \subseteq 0..MaxEvents
      BY StreamBounds DEF EventIds
    <3>. QED BY <2>1, <3>1, LinesTyped DEF Typed
  <2>4. DataOf(c) \in Seq(EventIds) /\ (DataOf(c) # <<>> => DataOf(c)[1] \in EventIds)
    <3>1. \A n \in EventIds : <<n>> \in Seq(EventIds) /\ <<n>>[1] = n
      OBVIOUS
    <3>2. <<>> \in Seq(EventIds)
      OBVIOUS
    <3>3. CASE DataOf(c) = <<>>
      BY <3>2, <3>3
    <3>4. ASSUME NEW n \in EventIds, DataOf(c) = <<n>>
          PROVE  DataOf(c) \in Seq(EventIds) /\ DataOf(c)[1] \in EventIds
      BY <3>1, <3>4
    <3>. QED BY <2>3, <3>3, <3>4
  <2>5. CASE /\ received' = received \o DataOf(c) /\ chunks' = Tail(chunks)
             /\ UNCHANGED <<phase, delay, wire, buffer, refused>>
    <3>1. received' \in Seq(EventIds)
      BY <2>4, <2>5 DEF Typed
    <3>. QED BY <2>1, <2>2, <2>3, <2>5, <3>1 DEF Typed
  <2>6. CASE /\ DataOf(c) # <<>> /\ refused' = refused \cup {DataOf(c)[1]}
             /\ Failed(DelayOf(c)) /\ received' = received
    <3>1. Closed /\ refused' \subseteq EventIds /\ received' \in Seq(EventIds) /\ torn' \in BOOLEAN
      BY <2>2, <2>4, <2>6 DEF Failed, Typed
    <3>. QED BY <2>2, <2>3, <3>1, ClosedTyped
  <2>. QED BY <2>2, <2>5, <2>6
<1>5. CASE Break \/ Finish
  <2>1. Closed /\ UNCHANGED <<lastEventId, received, refused, torn>>
    BY <1>5 DEF Break, Finish, Failed
  <2>. QED BY <2>1, ClosedTyped DEF Typed
<1>. QED BY <1>1, <1>2, <1>3, <1>4, <1>5 DEF StreamNext

\* As long as nothing was cut in two: the steps that leave the events alone.
LEMMA QuietSteps ==
    ASSUME InOrder, Subscribe \/ Abort \/ Loop \/ Wake \/ UNCHANGED streamVars
    PROVE  InOrder'
<1>1. UNCHANGED <<lastEventId, received, refused, wire, buffer, chunks>>
      /\ (phase' = "reading" <=> phase = "reading")
  BY DEF Subscribe, Abort, Loop, Wake, streamVars
<1>2. Progress'
  BY <1>1 DEF InOrder, Progress
<1>3. AsSent'
  BY <1>1 DEF InOrder, AsSent
<1>. QED BY <1>2, <1>3 DEF InOrder

\* A connection that failed leaves nothing behind.
LEMMA ClosedAsSent ==
    ASSUME Closed, phase' # "reading"
    PROVE  AsSent'
<1>1. <<>> \in Seq(Parts) /\ <<>> \in Seq(Seq(Parts))
  OBVIOUS
<1>. QED BY <1>1 DEF Closed, AsSent

LEMMA EndingSteps ==
    ASSUME InOrder, Break \/ Finish
    PROVE  InOrder'
<1>1. UNCHANGED <<lastEventId, received, refused>> /\ Closed /\ phase' # "reading"
  BY DEF Break, Finish, Failed
<1>2. Progress'
  BY <1>1 DEF InOrder, Progress
<1>. QED BY <1>1, <1>2, ClosedAsSent DEF InOrder

\* A new connection is sent what comes after the event noted.
LEMMA ConnectedStep ==
    ASSUME Typed, InOrder, Connected
    PROVE  InOrder'
<1>1. /\ UNCHANGED <<sseMaxRetryAttempts, aborted, attempt, retryDelay, delay, lastEventId,
                     buffer, chunks, received, refused>>
      /\ phase = "connecting" /\ phase' = "reading"
      /\ wire' = After(lastEventId)
  BY DEF Connected, After, Block
<1>2. Progress'
  BY <1>1 DEF InOrder, Progress
<1>4. AsSent'
  <2>1. buffer = <<>> /\ chunks = <<>>
    BY <1>1 DEF Typed
  <2>2. lastEventId \in 0..MaxEvents /\ MaxEvents \in Nat
    BY StreamBounds DEF Typed
  <2>3. After(lastEventId) \in Seq(Parts)
    BY <2>2, AfterIs
  <2>. DEFINE none == <<>>
              a == After(lastEventId)
  <2>4. /\ none \in Seq(Parts) /\ none \in Seq(Seq(Parts)) /\ Len(none) = 0
        /\ none \o a = a /\ lastEventId + 0 = lastEventId /\ 1..0 = {}
    BY <2>2, <2>3
  <2>. HIDE DEF none
  <2>5. wire' = a /\ buffer' = none /\ chunks' = none /\ lastEventId' = lastEventId
    BY <1>1, <2>1 DEF none
  <2>6. After(lastEventId' + Len(chunks')) = a /\ lastEventId' + Len(chunks') = lastEventId
    BY <2>4, <2>5
  <2>. HIDE DEF a
  <2>7. wire' \in Seq(Parts)
    BY <2>3, <2>5 DEF a
  <2>8. \A i \in 1..Len(chunks') : chunks'[i] = Lines(lastEventId' + i)
    BY <2>4, <2>5
  <2>. QED BY <1>1, <2>2, <2>4, <2>5, <2>6, <2>7, <2>8 DEF AsSent
<1>. QED BY <1>2, <1>4 DEF InOrder

\* Where no end of a line was cut in two, what was read is as it is.
LEMMA WholeIsNormalised ==
    ASSUME NEW n \in 1..Len(wire), wire \in Seq(Parts)
    PROVE  Normalised(SubSeq(wire, 1, n)) = SubSeq(wire, 1, n)
<1>. DEFINE t == SubSeq(wire, 1, n)
<1>1. t \in Seq(Parts)
  OBVIOUS
<1>. HIDE DEF t
<1>2. Lf \notin Parts
  <2>1. ASSUME NEW p \in Parts PROVE p.line \in {"id:", "data:", "retry:", "end"}
    BY DEF Parts, Line, End
  <2>2. Lf.line = "LF"
    BY DEF Lf
  <2>. QED BY <2>1, <2>2
<1>3. \A i \in DOMAIN t : t[i] \in Parts
  BY <1>1
<1>4. \A i \in DOMAIN t : (IF t[i] = Lf THEN End ELSE t[i]) = t[i]
  BY <1>2, <1>3
<1>5. t = [i \in DOMAIN t |-> t[i]]
  BY <1>1
<1>. QED BY <1>4, <1>5 DEF Normalised, t

\* What is read is cut at the ends of events.
LEMMA ReadStep ==
    ASSUME InOrder, NEW n \in 1..Len(wire), Read(n, FALSE)
    PROVE  InOrder'
<1>. DEFINE e == lastEventId
            a == After(e)
            b == buffer
            k == Len(b)
            m == k + n
            parts == Cut(b \o SubSeq(wire, 1, n))
            rest == SubSeq(wire, n + 1, Len(wire))
<1>1. /\ UNCHANGED <<sseMaxRetryAttempts, phase, aborted, attempt, retryDelay, delay,
                     lastEventId, received, refused>>
      /\ phase = "reading" /\ chunks = <<>>
      /\ chunks' = Front(parts) /\ buffer' = Last(parts) /\ wire' = rest
  <2>1. Normalised(SubSeq(wire, 1, n)) = SubSeq(wire, 1, n)
    BY WholeIsNormalised DEF InOrder, AsSent
  <2>2. rest \in Seq(Parts) /\ <<>> \o rest = rest
    <3>1. rest \in Seq(Parts)
      BY DEF InOrder, AsSent
    <3>. HIDE DEF rest
    <3>. QED BY <3>1
  <2>. QED BY <2>1, <2>2 DEF Read
<1>2. Progress'
  BY <1>1 DEF InOrder, Progress
<1>4. e \in 0..MaxEvents /\ e \in Nat /\ MaxEvents \in Nat
  BY StreamBounds DEF InOrder, Progress
<1>5. b \in Seq(Parts) /\ wire \in Seq(Parts) /\ b \o wire = a /\ a \in Seq(Parts)
  <2>1. Len(chunks) = 0 /\ e + 0 = e
    BY <1>1, <1>4
  <2>2. buffer \o wire = After(lastEventId + Len(chunks))
    BY <1>1 DEF InOrder, AsSent
  <2>3. After(e) \in Seq(Parts)
    BY <1>4, AfterIs
  <2>. QED BY <2>1, <2>2, <2>3 DEF InOrder, AsSent
<1>6. /\ m \in 0..Len(a)
      /\ SubSeq(a, 1, m) = b \o SubSeq(wire, 1, n)
      /\ SubSeq(a, m + 1, Len(a)) = rest
  <2>. HIDE DEF a
  <2>1. /\ Len(b) + n \in 0..Len(b \o wire)
        /\ SubSeq(b \o wire, 1, Len(b) + n) = b \o SubSeq(wire, 1, n)
        /\ SubSeq(b \o wire, Len(b) + n + 1, Len(b \o wire)) = SubSeq(wire, n + 1, Len(wire))
    BY <1>5, PartedPrefix, ZenonT(30)
  <2>. QED BY <1>5, <2>1
<1>7. CutOk(e, parts, rest)
  <2>. HIDE DEF a, m, b
  <2>1. CutOk(e, Cut(SubSeq(After(e), 1, m)), SubSeq(After(e), m + 1, Len(After(e))))
    BY <1>4, <1>6, CutPrefix DEF a
  <2>. QED BY <1>6, <2>1 DEF a
<1>. DEFINE l == Len(parts)
            front == Front(parts)
<1>. HIDE DEF parts, rest
<1>8. /\ parts \in Seq(Seq(Parts)) /\ l \in Nat /\ l > 0 /\ rest \in Seq(Parts)
      /\ e + l - 1 <= MaxEvents
      /\ \A i \in 1..(l - 1) : parts[i] = Lines(e + i)
      /\ parts[l] \o rest = After(e + l - 1)
  BY <1>7 DEF CutOk
<1>9. /\ front \in Seq(Seq(Parts)) /\ Len(front) = l - 1
      /\ \A i \in 1..(l - 1) : front[i] = parts[i]
  BY <1>8, FrontOf
<1>10. Last(parts) = parts[l] /\ parts[l] \in Seq(Parts)
  BY <1>8 DEF Last
<1>. HIDE DEF front, l
<1>11. /\ lastEventId' + Len(chunks') <= MaxEvents
       /\ lastEventId' + Len(chunks') = e + l - 1
  <2>1. lastEventId' + Len(chunks') = e + (l - 1)
    BY <1>1, <1>9 DEF front
  <2>. QED BY <1>4, <1>8, <2>1
<1>12. \A i \in 1..Len(chunks') : chunks'[i] = Lines(lastEventId' + i)
  BY <1>1, <1>8, <1>9 DEF front
<1>13. buffer' \o wire' = After(lastEventId' + Len(chunks'))
  BY <1>1, <1>8, <1>10, <1>11
<1>14. AsSent'
  BY <1>1, <1>8, <1>9, <1>10, <1>11, <1>12, <1>13 DEF AsSent, front
<1>. QED BY <1>2, <1>14 DEF InOrder

\* An event noted is yielded or refused.
LEMMA ProgressMade ==
    ASSUME Progress, lastEventId + 1 <= MaxEvents, lastEventId' = lastEventId + 1,
           \/ received' = received \o <<lastEventId + 1>> /\ refused' = refused
           \/ received' = received /\ refused' = refused \cup {lastEventId + 1}
    PROVE  Progress'
<1>. DEFINE e == lastEventId
            n == e + 1
            l == Len(received)
<1>1. /\ e \in Nat /\ MaxEvents \in Nat /\ n \in 0..MaxEvents /\ n \in EventIds /\ n \in Nat
      /\ received \in Seq(EventIds) /\ l \in Nat /\ DOMAIN received = 1..l
      /\ lastEventId' = n
  BY StreamBounds DEF Progress, EventIds
<1>2. /\ \A i, j \in DOMAIN received : i < j => received[i] < received[j]
      /\ \A i \in DOMAIN received : received[i] <= e /\ received[i] \in Nat
  <2>1. \A i \in DOMAIN received : received[i] \in EventIds
    BY <1>1
  <2>2. EventIds \subseteq Nat
    BY <1>1 DEF EventIds
  <2>. QED BY <2>1, <2>2 DEF Progress
<1>3. \A m \in 1..e : (\E i \in 1..l : received[i] = m) \/ m \in refused
  BY DEF Progress, Contains
<1>4. \A m \in 1..n : m \in 1..e \/ m = n
  BY <1>1
<1>. HIDE DEF n, l, e
<1>5. CASE received' = received \o <<n>> /\ refused' = refused
  <2>. DEFINE r == received \o <<n>>
  <2>1. /\ r \in Seq(EventIds) /\ Len(r) = l + 1 /\ DOMAIN r = 1..(l + 1)
        /\ \A i \in 1..l : r[i] = received[i]
        /\ r[l + 1] = n
    BY <1>1 DEF l
  <2>. HIDE DEF r
  <2>2. \A i \in 1..(l + 1) : i \in 1..l \/ i = l + 1
    BY <1>1
  <2>3. \A i \in DOMAIN r : r[i] <= n /\ r[i] \in Nat
    <3>1. \A i \in 1..l : received[i] <= n /\ received[i] \in Nat
      BY <1>1, <1>2 DEF n
    <3>. QED BY <1>1, <2>1, <2>2, <3>1
  <2>4. ASSUME NEW i \in DOMAIN r, NEW j \in DOMAIN r, i < j
        PROVE  r[i] < r[j]
    <3>1. i \in 1..l
      BY <1>1, <2>1, <2>4
    <3>2. CASE j \in 1..l
      BY <1>1, <1>2, <2>1, <2>4, <3>1, <3>2
    <3>3. CASE j = l + 1
      <4>1. r[i] = received[i] /\ received[i] <= e /\ received[i] \in Nat /\ r[j] = n
        BY <1>1, <1>2, <2>1, <3>1, <3>3
      <4>. QED BY <1>1, <4>1 DEF n
    <3>. QED BY <2>1, <2>2, <3>2, <3>3
  <2>5. ASSUME NEW m \in 1..n
        PROVE  (\E i \in 1..Len(r) : r[i] = m) \/ m \in refused
    <3>1. CASE m = n
      <4>1. l + 1 \in 1..Len(r)
        BY <1>1, <2>1
      <4>. QED BY <2>1, <3>1, <4>1
    <3>2. CASE m \in 1..e
      <4>1. \A i \in 1..l : i \in 1..Len(r)
        BY <1>1, <2>1
      <4>. QED BY <1>3, <2>1, <3>2, <4>1
    <3>. QED BY <1>4, <3>1, <3>2
  <2>6. refused \subseteq EventIds
    BY DEF Progress
  <2>. QED BY <1>1, <1>5, <2>1, <2>3, <2>4, <2>5, <2>6 DEF Progress, Contains, r
<1>6. CASE received' = received /\ refused' = refused \cup {n}
  <2>1. refused' \subseteq EventIds
    BY <1>1, <1>6 DEF Progress
  <2>2. \A i \in DOMAIN received : received[i] <= n
    BY <1>1, <1>2 DEF n
  <2>3. \A m \in 1..n : (\E i \in 1..Len(received) : received[i] = m) \/ m \in refused'
    BY <1>3, <1>4, <1>6 DEF l
  <2>. QED BY <1>1, <1>2, <1>6, <2>1, <2>2, <2>3 DEF Progress, Contains
<1>. QED BY <1>5, <1>6 DEF n, e

\* The first event cut off is the one after the one noted.
LEMMA HandleStep ==
    ASSUME Typed, InOrder, Handle
    PROVE  InOrder'
<1>. DEFINE e == lastEventId
            n == e + 1
            k == Len(chunks)
            c == Head(chunks)
            rest == Tail(chunks)
<1>1. /\ phase = "reading" /\ chunks # <<>>
      /\ chunks \in Seq(Seq(Parts)) /\ e \in Nat /\ MaxEvents \in Nat
      /\ k \in Nat /\ k > 0
  BY StreamBounds DEF Handle, Typed
<1>2. /\ e + k <= MaxEvents
      /\ \A i \in 1..k : chunks[i] = Lines(e + i)
      /\ buffer \o wire = After(e + k)
      /\ wire \in Seq(Parts) /\ buffer \in Seq(Parts)
  BY <1>1 DEF InOrder, AsSent
<1>3. /\ rest \in Seq(Seq(Parts)) /\ Len(rest) = k - 1
      /\ \A i \in 1..(k - 1) : rest[i] = chunks[i + 1]
      /\ c = chunks[1]
  BY <1>1
<1>. HIDE DEF k, rest, c
<1>4. n \in EventIds /\ n <= MaxEvents /\ c = Lines(n)
  <2>1. 1 \in 1..k
    BY <1>1
  <2>. QED BY <1>1, <1>2, <1>3, <2>1 DEF EventIds
<1>. HIDE DEF n
<1>5. IdOf(c) = n /\ DataOf(c) = <<n>> /\ DelayOf(c) \in {SentDelay, retryDelay}
  BY <1>4, LinesSay
<1>7. /\ lastEventId' = n
      /\ \/ /\ received' = received \o DataOf(c) /\ chunks' = rest
            /\ UNCHANGED <<phase, delay, wire, buffer, refused>>
         \/ /\ refused' = refused \cup {DataOf(c)[1]}
            /\ Failed(DelayOf(c)) /\ received' = received
  BY <1>5 DEF Handle, c, rest
<1>8. CASE /\ received' = received \o DataOf(c) /\ chunks' = rest
           /\ UNCHANGED <<phase, delay, wire, buffer, refused>>
  <2>1. Progress'
    <3>1. received' = received \o <<n>> /\ refused' = refused
      BY <1>5, <1>8
    <3>. QED BY <1>4, <1>7, <3>1, ProgressMade DEF InOrder, n
  <2>2. n + Len(rest) = e + k /\ e + k <= MaxEvents
    BY <1>1, <1>2, <1>3 DEF n
  <2>3. \A i \in 1..Len(rest) : rest[i] = Lines(n + i)
    <3>1. ASSUME NEW i \in 1..(k - 1) PROVE rest[i] = Lines(n + i)
      <4>1. i \in Nat /\ i + 1 \in 1..k /\ e + (i + 1) = n + i
        BY <1>1 DEF n
      <4>2. rest[i] = chunks[i + 1] /\ chunks[i + 1] = Lines(e + (i + 1))
        BY <1>2, <1>3, <4>1
      <4>. QED BY <4>1, <4>2
    <3>. QED BY <1>3, <3>1
  <2>4. buffer \o wire = After(n + Len(rest))
    BY <1>2, <2>2
  <2>5. lastEventId' = n /\ wire' = wire /\ buffer' = buffer /\ chunks' = rest /\ phase' = "reading"
    BY <1>1, <1>7, <1>8
  <2>6. AsSent'
    BY <1>2, <1>3, <2>2, <2>3, <2>4, <2>5 DEF AsSent
  <2>. QED BY <2>1, <2>6 DEF InOrder
<1>9. CASE /\ refused' = refused \cup {DataOf(c)[1]}
           /\ Failed(DelayOf(c)) /\ received' = received
  <2>1. Progress'
    <3>1. DataOf(c)[1] = n
      BY <1>5
    <3>2. received' = received /\ refused' = refused \cup {n}
      BY <1>9, <3>1
    <3>. QED BY <1>4, <1>7, <3>2, ProgressMade DEF InOrder, n
  <2>2. AsSent'
    BY <1>9, ClosedAsSent DEF Failed
  <2>. QED BY <2>1, <2>2 DEF InOrder
<1>. QED BY <1>7, <1>8, <1>9

LEMMA StreamSteps ==
    ASSUME StreamInv, StreamNext \/ UNCHANGED streamVars
    PROVE  StreamInv'
<1>1. Typed' /\ Control'
  BY TypedSteps, ControlSteps DEF StreamInv
<1>2. ASSUME ~torn' PROVE InOrder'
  <2>1. torn => torn'
    <3>1. CASE UNCHANGED streamVars
      BY <3>1 DEF streamVars
    <3>2. CASE StreamNext
      BY <3>2 DEF StreamNext, Subscribe, Abort, Loop, Connected, Read, Handle, Break, Finish, Wake
    <3>. QED BY <3>1, <3>2
  <2>2. Typed /\ InOrder
    BY <1>2, <2>1 DEF StreamInv
  <2>3. CASE Subscribe \/ Abort \/ Loop \/ Wake \/ UNCHANGED streamVars
    BY <2>2, <2>3, QuietSteps
  <2>4. CASE Connected
    BY <2>2, <2>4, ConnectedStep
  <2>5. ASSUME NEW n \in 1..Len(wire), NEW within \in BOOLEAN, Read(n, within) PROVE InOrder'
    <3>1. within = FALSE
      BY <1>2, <2>5 DEF Read
    <3>. QED BY <2>2, <2>5, <3>1, ReadStep
  <2>6. CASE Handle
    BY <2>2, <2>6, HandleStep
  <2>7. CASE Break \/ Finish
    BY <2>2, <2>7, EndingSteps
  <2>. QED BY <2>3, <2>4, <2>5, <2>6, <2>7 DEF StreamNext
<1>. QED BY <1>1, <1>2 DEF StreamInv

LEMMA StreamInvariance == Spec => []StreamInv
<1>1. Init => StreamInv
  BY StreamBegins DEF Init
<1>2. StreamInv /\ [Next]_vars => StreamInv'
  <2>. SUFFICES ASSUME StreamInv, [Next]_vars PROVE StreamInv'
    OBVIOUS
  <2>1. StreamNext \/ UNCHANGED streamVars
    BY DEF Next, vars
  <2>. QED BY <2>1, StreamSteps
<1>. QED BY <1>1, <1>2, PTL DEF Spec

\* As long as no read ends between the CR and the LF of a line's end: events are yielded
\* once each and in order over all connections, and every event the next connection
\* will not ask for was yielded or refused, wherever connections break and texts are
\* cut (serverSentEvents.gen.ts:114-116, 157-161, 173-174).
THEOREM EventsComeOnce == Spec => [](NoEventSkipped /\ (~torn => EventsOnceInOrder))
<1>1. Spec => []StreamInv
  BY StreamInvariance
<1>2. StreamInv => NoEventSkipped /\ (~torn => EventsOnceInOrder)
  BY StreamInvIsEnough
<1>. QED BY <1>1, <1>2, PTL

---------------------------------------------------------------------------
(* Texts and their parts                                                    *)

\* f[T] is what is made of the tokens at the positions T.
Splits(f, s, separator) == f = [T \in SUBSET DOMAIN s |->
                      IF T = {} THEN << <<>> >> ELSE SplitAt(f[T \ {Max(T)}], s[Max(T)], separator)]

\* One token more leaves parts of texts, one at least.
LEMMA TokenSplit ==
    ASSUME NEW X, NEW separator, NEW parts \in Seq(Seq(X)) \ {<<>>}, NEW x \in X
    PROVE  SplitAt(parts, x, separator) \in Seq(Seq(X)) \ {<<>>}
<1>. DEFINE l == Len(parts)
            t == parts[l]
<1>1. l \in Nat /\ l \in 1..l /\ t \in Seq(X)
  OBVIOUS
<1>2. Append(t, x) \in Seq(X)
  BY <1>1
<1>3. [parts EXCEPT ![l] = Append(t, x)] \in Seq(Seq(X)) \ {<<>>}
  <2>. DEFINE p == [parts EXCEPT ![l] = Append(t, x)]
  <2>1. p \in Seq(Seq(X)) /\ Len(p) = l
    BY <1>1, <1>2
  <2>. HIDE DEF p
  <2>. QED BY <1>1, <2>1
<1>4. Append(parts, <<>>) \in Seq(Seq(X)) \ {<<>>}
  <2>1. <<>> \in Seq(X)
    OBVIOUS
  <2>2. Append(parts, <<>>) \in Seq(Seq(X)) /\ Len(Append(parts, <<>>)) = l + 1
    BY <2>1
  <2>. QED BY <1>1, <2>2
<1>. QED BY <1>3, <1>4 DEF SplitAt

\* A text is split by such a function.
LEMMA SplitIs ==
    ASSUME NEW X, NEW s \in Seq(X), NEW separator
    PROVE  \E f : Splits(f, s, separator) /\ Split(s, separator) = f[DOMAIN s]
<1>. DEFINE S == Seq(Seq(X)) \ {<<>>}
            step == [p \in S \X X |-> SplitAt(p[1], p[2], separator)]
            n == Len(s)
<1>1. n \in Nat /\ DOMAIN s = 1..n /\ \A i \in 1..n : s[i] \in X
  OBVIOUS
<1>2. << <<>> >> \in S
  OBVIOUS
<1>3. step \in [S \X X -> S]
  <2>1. ASSUME NEW p \in S \X X PROVE SplitAt(p[1], p[2], separator) \in S
    BY TokenSplit
  <2>. HIDE DEF S
  <2>. QED BY <2>1
<1>4. \A a \in S, x \in X : step[<<a, x>>] = SplitAt(a, x, separator)
  OBVIOUS
<1>. HIDE DEF S, step, n
<1>. DEFINE none == << <<>> >>
<1>. HIDE DEF none
<1>5. PICK f : Folded(f, S, step, none, s, n)
  <2>1. none \in S
    BY <1>2 DEF none
  <2>. QED BY <1>1, <1>3, <2>1, FoldExists
<1>6. ASSUME NEW T \in SUBSET (1..n)
      PROVE  f[T] = IF T = {} THEN << <<>> >> ELSE SplitAt(f[T \ {Max(T)}], s[Max(T)], separator)
  <2>1. ASSUME T # {} PROVE f[T \ {Max(T)}] \in S /\ s[Max(T)] \in X
    <3>1. Max(T) \in 1..n
      BY <1>1, <2>1, MaxIs
    <3>2. T \ {Max(T)} \in SUBSET (1..n)
      OBVIOUS
    <3>. QED BY <1>1, <1>5, <3>1, <3>2 DEF Folded
  <2>. QED BY <1>4, <1>5, <2>1 DEF none, Folded
<1>7. Splits(f, s, separator)
  <2>1. f = [T \in SUBSET (1..n) |->
                IF T = {} THEN << <<>> >> ELSE SplitAt(f[T \ {Max(T)}], s[Max(T)], separator)]
    BY <1>5, <1>6 DEF Folded
  <2>. QED BY <1>1, <2>1 DEF Splits
<1>. DEFINE g == CHOOSE g : g = [T \in SUBSET DOMAIN s |->
                      IF T = {} THEN << <<>> >> ELSE SplitAt(g[T \ {Max(T)}], s[Max(T)], separator)]
<1>8. \E h : h = [T \in SUBSET DOMAIN s |->
                      IF T = {} THEN << <<>> >> ELSE SplitAt(h[T \ {Max(T)}], s[Max(T)], separator)]
  BY <1>7 DEF Splits
<1>9. g = [T \in SUBSET DOMAIN s |->
                      IF T = {} THEN << <<>> >> ELSE SplitAt(g[T \ {Max(T)}], s[Max(T)], separator)]
  BY <1>8, Zenon
<1>10. Split(s, separator) = g[DOMAIN s]
  BY DEF Split, FoldLeft, MapThenFoldSet
<1>. QED BY <1>9, <1>10 DEF Splits

\* Such a function takes the first n tokens of s one after the other.
SplitSteps(f, s, n, separator) ==
    /\ f[1..0] = << <<>> >>
    /\ \A k \in Nat : k < n => f[1..(k + 1)] = SplitAt(f[1..k], s[k + 1], separator)

\* Token after token.
LEMMA SplitsNext ==
    ASSUME NEW s, NEW n \in Nat, DOMAIN s = 1..n, NEW f, NEW separator, Splits(f, s, separator)
    PROVE  SplitSteps(f, s, n, separator)
<1>1. ASSUME NEW T \in SUBSET (1..n)
      PROVE  f[T] = IF T = {} THEN << <<>> >> ELSE SplitAt(f[T \ {Max(T)}], s[Max(T)], separator)
  BY DEF Splits
<1>2. f[1..0] = << <<>> >>
  <2>1. 1..0 = {} /\ 1..0 \in SUBSET (1..n)
    OBVIOUS
  <2>. QED BY <1>1, <2>1
<1>3. ASSUME NEW k \in Nat, k < n
      PROVE  f[1..(k + 1)] = SplitAt(f[1..k], s[k + 1], separator)
  <2>. DEFINE T == 1..(k + 1)
  <2>1. T \in SUBSET (1..n)
    BY <1>3
  <2>2. T # {} /\ Max(T) = k + 1 /\ T \ {k + 1} = 1..k
    BY MaxOfFirst
  <2>. HIDE DEF T
  <2>3. f[T] = SplitAt(f[T \ {Max(T)}], s[Max(T)], separator)
    BY <1>1, <2>1, <2>2
  <2>4. f[T] = SplitAt(f[1..k], s[k + 1], separator)
    BY <2>2, <2>3
  <2>. QED BY <2>4 DEF T
<1>. QED BY <1>2, <1>3, Zenon DEF SplitSteps

\* No token cuts nothing, and one token more is one step more.
LEMMA SplitAppend ==
    ASSUME NEW X, NEW s \in Seq(X), NEW x \in X, NEW separator
    PROVE  Split(Append(s, x), separator) = SplitAt(Split(s, separator), x, separator)
<1>. DEFINE n == Len(s)
            t == Append(s, x)
<1>1. /\ n \in Nat /\ DOMAIN s = 1..n /\ t \in Seq(X) /\ DOMAIN t = 1..(n + 1)
      /\ t[n + 1] = x /\ n + 1 \in Nat
  OBVIOUS
<1>2. \A k \in Nat : k < n => t[k + 1] = s[k + 1]
  OBVIOUS
<1>. HIDE DEF n, t
<1>3. PICK f : Splits(f, s, separator) /\ Split(s, separator) = f[DOMAIN s]
  BY SplitIs
<1>4. PICK g : Splits(g, t, separator) /\ Split(t, separator) = g[DOMAIN t]
  BY <1>1, SplitIs
<1>5. /\ f[1..0] = << <<>> >>
      /\ \A k \in Nat : k < n => f[1..(k + 1)] = SplitAt(f[1..k], s[k + 1], separator)
  <2>1. SplitSteps(f, s, n, separator)
    BY <1>1, <1>3, SplitsNext
  <2>. QED BY <2>1, Zenon DEF SplitSteps
<1>6. /\ g[1..0] = << <<>> >>
      /\ \A k \in Nat : k < n + 1 => g[1..(k + 1)] = SplitAt(g[1..k], t[k + 1], separator)
  <2>1. SplitSteps(g, t, n + 1, separator)
    BY <1>1, <1>4, SplitsNext
  <2>. QED BY <2>1, Zenon DEF SplitSteps
<1>. DEFINE G == {k \in Nat : k <= n => g[1..k] = f[1..k]}
<1>7. 0 \in G
  BY <1>5, <1>6
<1>8. ASSUME NEW k \in Nat, k \in G PROVE k + 1 \in G
  <2>1. SUFFICES ASSUME k + 1 <= n PROVE g[1..(k + 1)] = f[1..(k + 1)]
    OBVIOUS
  <2>2. k < n /\ k < n + 1 /\ g[1..k] = f[1..k]
    BY <1>1, <1>8, <2>1
  <2>3. /\ f[1..(k + 1)] = SplitAt(f[1..k], s[k + 1], separator)
        /\ g[1..(k + 1)] = SplitAt(g[1..k], t[k + 1], separator)
    BY <1>5, <1>6, <2>2
  <2>. QED BY <1>2, <2>2, <2>3
<1>. HIDE DEF G
<1>9. Nat \subseteq G
  BY <1>7, <1>8, SetInduction
<1>10. g[1..n] = f[1..n]
  BY <1>1, <1>9 DEF G
<1>11. g[1..(n + 1)] = SplitAt(g[1..n], t[n + 1], separator)
  <2>1. n < n + 1
    BY <1>1
  <2>. QED BY <1>1, <1>6, <2>1
<1>. QED BY <1>1, <1>3, <1>4, <1>10, <1>11 DEF t

\* The empty text has one part, the empty one.
LEMMA SplitEmpty ==
    ASSUME NEW separator
    PROVE  Split(<<>>, separator) = << <<>> >>
<1>. DEFINE s == <<>>
<1>1. s \in Seq({}) /\ DOMAIN s = {} /\ DOMAIN s = 1..0 /\ 0 \in Nat
  OBVIOUS
<1>. HIDE DEF s
<1>2. PICK f : Splits(f, s, separator) /\ Split(s, separator) = f[DOMAIN s]
  BY <1>1, SplitIs
<1>3. f[1..0] = << <<>> >>
  <2>1. SplitSteps(f, s, 0, separator)
    BY <1>1, <1>2, SplitsNext
  <2>. QED BY <2>1, Zenon DEF SplitSteps
<1>. QED BY <1>1, <1>2, <1>3 DEF s

\* A text is split into texts, one at least.
LEMMA SplitTyped ==
    ASSUME NEW X, NEW s \in Seq(X), NEW separator
    PROVE  Split(s, separator) \in Seq(Seq(X)) \ {<<>>}
<1>. DEFINE G == {n \in Nat : \A t \in Seq(X) : Len(t) = n =>
                                 Split(t, separator) \in Seq(Seq(X)) \ {<<>>}}
<1>1. 0 \in G
  <2>1. ASSUME NEW t \in Seq(X), Len(t) = 0 PROVE Split(t, separator) \in Seq(Seq(X)) \ {<<>>}
    <3>1. t = <<>>
      BY <2>1
    <3>2. << <<>> >> \in Seq(Seq(X)) \ {<<>>}
      OBVIOUS
    <3>. QED BY <3>1, <3>2, SplitEmpty
  <2>. QED BY <2>1
<1>2. ASSUME NEW n \in Nat, n \in G PROVE n + 1 \in G
  <2>1. ASSUME NEW t \in Seq(X), Len(t) = n + 1
        PROVE  Split(t, separator) \in Seq(Seq(X)) \ {<<>>}
    <3>. DEFINE u == SubSeq(t, 1, n)
                x == t[n + 1]
    <3>1. u \in Seq(X) /\ Len(u) = n /\ x \in X /\ t = Append(u, x)
      BY <2>1
    <3>. HIDE DEF u, x
    <3>2. Split(u, separator) \in Seq(Seq(X)) \ {<<>>}
      BY <1>2, <3>1
    <3>3. Split(t, separator) = SplitAt(Split(u, separator), x, separator)
      BY <3>1, SplitAppend
    <3>. QED BY <3>1, <3>2, <3>3, TokenSplit
  <2>. QED BY <2>1
<1>. HIDE DEF G
<1>3. Nat \subseteq G
  BY <1>1, <1>2, SetInduction
<1>4. Len(s) \in G
  BY <1>3
<1>. QED BY <1>4 DEF G

\* The parts with t at the end of the last.
Onto(parts, t) == [parts EXCEPT ![Len(parts)] = parts[Len(parts)] \o t]

\* Parts whose last, the l-th, is another.
IsOnto(new, X, parts, last, l) ==
    /\ new \in Seq(Seq(X)) /\ Len(new) = l /\ new[l] = last
    /\ \A i \in 1..l : i # l => new[i] = parts[i]

\* Only the last part is another.
LEMMA OntoTyped ==
    ASSUME NEW X, NEW parts \in Seq(Seq(X)) \ {<<>>}, NEW t \in Seq(X),
           NEW l, l = Len(parts)
    PROVE  IsOnto(Onto(parts, t), X, parts, parts[l] \o t, l)
<1>. DEFINE w == parts[l] \o t
<1>1. l \in Nat /\ l \in 1..l /\ w \in Seq(X) /\ DOMAIN parts = 1..l
  OBVIOUS
<1>. HIDE DEF w
<1>2. Onto(parts, t) = [parts EXCEPT ![l] = w]
  BY DEF Onto, w
<1>3. [parts EXCEPT ![l] = w] \in Seq(Seq(X)) /\ Len([parts EXCEPT ![l] = w]) = l
  BY <1>1
<1>4. [parts EXCEPT ![l] = w][l] = w /\ \A i \in 1..l : i # l => [parts EXCEPT ![l] = w][i] = parts[i]
  BY <1>1
<1>. QED BY <1>2, <1>3, <1>4 DEF w, IsOnto

\* Put at the end of the last part: nothing, one token more, or all of a new part.
LEMMA OntoNothing ==
    ASSUME NEW X, NEW p \in Seq(Seq(X)) \ {<<>>}
    PROVE  Onto(p, <<>>) = p
<1>. DEFINE l == Len(p)
            w == p[l]
<1>1. l \in Nat /\ l > 0 /\ w \in Seq(X) /\ p \in Seq(Seq(X))
  OBVIOUS
<1>2. w \o <<>> = w
  BY <1>1
<1>3. Onto(p, <<>>) = [p EXCEPT ![l] = w]
  BY <1>2 DEF Onto
<1>. HIDE DEF w
<1>4. \A i \in 1..l : i # l => p[i] = p[i]
  OBVIOUS
<1>5. Len(p) = l /\ p[l] = w
  BY DEF w
<1>. HIDE DEF l
<1>6. [p EXCEPT ![l] = w] = p
  BY <1>1, <1>4, <1>5, LastReplaced
<1>. QED BY <1>3, <1>6

\* A token that does not separate goes to the end of what is put onto the last part.
LEMMA OntoNext ==
    ASSUME NEW X, NEW p \in Seq(Seq(X)) \ {<<>>}, NEW v \in Seq(X), NEW x \in X,
           NEW separator, x # separator
    PROVE  SplitAt(Onto(p, v), x, separator) = Onto(p, Append(v, x))
<1>. DEFINE l == Len(p)
            y == p[l]
            u == Append(v, x)
            w == y \o u
            a == Onto(p, v)
            b == Onto(p, u)
<1>1. l \in Nat /\ l > 0 /\ l = Len(p) /\ y \in Seq(X) /\ u \in Seq(X)
  OBVIOUS
<1>2. w \in Seq(X) /\ w = Append(y \o v, x)
  <2>. HIDE DEF y
  <2>. QED BY <1>1, AppendConcat
<1>. HIDE DEF l, u
<1>3. IsOnto(b, X, p, w, l) /\ IsOnto(a, X, p, y \o v, l)
  BY <1>1, OntoTyped
<1>. HIDE DEF y, w, a, b
<1>4. a \in Seq(Seq(X)) /\ Len(a) = l /\ a[l] = y \o v
  BY <1>3 DEF IsOnto
<1>5. SplitAt(a, x, separator) = [a EXCEPT ![l] = w]
  BY <1>2, <1>4 DEF SplitAt
<1>6. b \in Seq(Seq(X)) /\ Len(b) = l /\ b[l] = w /\ w \in Seq(X)
  BY <1>2, <1>3 DEF IsOnto
<1>7. \A i \in 1..l : i # l => a[i] = b[i]
  BY <1>3 DEF IsOnto
<1>8. l \in Nat /\ l > 0
  BY <1>1
<1>. DEFINE S == Seq(X)
<1>. HIDE DEF S
<1>9. a \in Seq(S) /\ b \in Seq(S) /\ w \in S
  BY <1>4, <1>6 DEF S
<1>10. [a EXCEPT ![l] = w] = b
  BY <1>4, <1>6, <1>7, <1>8, <1>9, LastReplaced
<1>. QED BY <1>5, <1>10 DEF a, b, u

\* What is put onto an empty last part is that part.
LEMMA OntoNew ==
    ASSUME NEW X, NEW p \in Seq(Seq(X)), NEW t \in Seq(X)
    PROVE  Onto(Append(p, <<>>), t) = Append(p, t)
<1>. DEFINE l == Len(p)
            k == l + 1
            e == <<>>
            q == Append(p, e)
            a == Onto(q, t)
            b == Append(p, t)
<1>1. l \in Nat /\ k \in Nat /\ k > 0 /\ e \in Seq(X) /\ e \o t = t
  OBVIOUS
<1>. HIDE DEF e
<1>2. /\ q \in Seq(Seq(X)) /\ Len(q) = k /\ q[k] = e
      /\ \A i \in 1..l : q[i] = p[i]
  BY <1>1
<1>3. q # <<>>
  <2>1. Len(q) # 0 /\ Len(<<>>) = 0
    BY <1>1, <1>2
  <2>. QED BY <2>1
<1>4. b \in Seq(Seq(X)) /\ Len(b) = k /\ b[k] = t /\ \A i \in 1..l : b[i] = p[i]
  BY <1>1
<1>. HIDE DEF q, b
<1>5. /\ a \in Seq(Seq(X)) /\ Len(a) = k /\ a[k] = q[k] \o t
      /\ \A i \in 1..k : i # k => a[i] = q[i]
  <2>1. q \in Seq(Seq(X)) \ {<<>>} /\ k = Len(q)
    BY <1>2, <1>3
  <2>. HIDE DEF k, q
  <2>2. IsOnto(a, X, q, q[k] \o t, k)
    BY <2>1, OntoTyped
  <2>. QED BY <2>2 DEF IsOnto
<1>6. \A i \in 1..k : i # k => i \in 1..l
  BY <1>1
<1>. HIDE DEF a
<1>7. a[k] = b[k]
  BY <1>1, <1>2, <1>4, <1>5
<1>8. \A i \in 1..k : a[i] = b[i]
  BY <1>2, <1>4, <1>5, <1>6, <1>7
<1>. HIDE DEF k
<1>9. a = b
  BY <1>4, <1>5, <1>8, SeqEqual
<1>. QED BY <1>9 DEF a, b, q, e

\* Tokens that do not separate go to the last part.
LEMMA SplitOn ==
    ASSUME NEW X, NEW s \in Seq(X), NEW t \in Seq(X), NEW separator, Free(t, separator)
    PROVE  Split(s \o t, separator) = Onto(Split(s, separator), t)
<1>. DEFINE p == Split(s, separator)
            G == {n \in Nat : \A u \in Seq(X) :
                     Len(u) = n /\ Free(u, separator) => Split(s \o u, separator) = Onto(p, u)}
<1>1. p \in Seq(Seq(X)) \ {<<>>}
  BY SplitTyped
<1>. HIDE DEF p
<1>2. 0 \in G
  <2>1. ASSUME NEW u \in Seq(X), Len(u) = 0 PROVE Split(s \o u, separator) = Onto(p, u)
    <3>1. u = <<>> /\ s \o u = s
      BY <2>1
    <3>2. Onto(p, <<>>) = p
      BY <1>1, OntoNothing
    <3>. QED BY <3>1, <3>2 DEF p
  <2>. QED BY <2>1
<1>3. ASSUME NEW n \in Nat, n \in G PROVE n + 1 \in G
  <2>1. ASSUME NEW u \in Seq(X), Len(u) = n + 1, Free(u, separator)
        PROVE  Split(s \o u, separator) = Onto(p, u)
    <3>. DEFINE v == SubSeq(u, 1, n)
                x == u[n + 1]
    <3>1. v \in Seq(X) /\ Len(v) = n /\ x \in X /\ u = Append(v, x)
      BY <2>1
    <3>2. Free(v, separator) /\ x # separator
      BY <2>1 DEF Free
    <3>. HIDE DEF v, x
    <3>3. Split(s \o v, separator) = Onto(p, v)
      BY <1>3, <3>1, <3>2
    <3>4. s \o u = Append(s \o v, x) /\ s \o v \in Seq(X)
      BY <3>1, AppendConcat
    <3>5. Split(s \o u, separator) = SplitAt(Onto(p, v), x, separator)
      BY <3>1, <3>3, <3>4, SplitAppend
    <3>6. SplitAt(Onto(p, v), x, separator) = Onto(p, Append(v, x))
      BY <1>1, <3>1, <3>2, OntoNext
    <3>. QED BY <3>1, <3>5, <3>6
  <2>. QED BY <2>1
<1>. HIDE DEF G
<1>4. Nat \subseteq G
  BY <1>2, <1>3, SetInduction
<1>5. Len(t) \in G
  BY <1>4
<1>. QED BY <1>5 DEF G, p

\* What follows a separator is a part of its own.
LEMMA SplitBehind ==
    ASSUME NEW X, NEW s \in Seq(X), NEW t \in Seq(X), NEW separator \in X, Free(t, separator)
    PROVE  Split((s \o <<separator>>) \o t, separator) = Append(Split(s, separator), t)
<1>. DEFINE p == Split(s, separator)
            u == s \o <<separator>>
<1>1. p \in Seq(Seq(X))
  BY SplitTyped
<1>2. u = Append(s, separator) /\ u \in Seq(X)
  OBVIOUS
<1>3. Split(u, separator) = Append(p, <<>>)
  <2>1. Split(Append(s, separator), separator) = SplitAt(p, separator, separator)
    BY SplitAppend
  <2>. QED BY <1>2, <2>1 DEF SplitAt
<1>. HIDE DEF p, u
<1>4. Split(u \o t, separator) = Onto(Split(u, separator), t)
  BY <1>2, SplitOn
<1>5. Onto(Append(p, <<>>), t) = Append(p, t)
  BY <1>1, OntoNew
<1>. QED BY <1>3, <1>4, <1>5 DEF p, u

\* A text without a separator is one part.
LEMMA SplitFree ==
    ASSUME NEW X, NEW t \in Seq(X), NEW separator, Free(t, separator)
    PROVE  Split(t, separator) = <<t>>
<1>. DEFINE e == <<>>
<1>1. e \in Seq(X) /\ e \o t = t
  OBVIOUS
<1>2. Split(e, separator) = << <<>> >>
  BY SplitEmpty
<1>3. Onto(<< <<>> >>, t) = <<t>>
  BY <1>1 DEF Onto
<1>. HIDE DEF e
<1>4. Split(e \o t, separator) = Onto(Split(e, separator), t)
  BY <1>1, SplitOn
<1>. QED BY <1>1, <1>2, <1>3, <1>4

\* A text with one separator is two parts.
LEMMA SplitTwo ==
    ASSUME NEW X, NEW s \in Seq(X), NEW t \in Seq(X), NEW separator \in X,
           Free(s, separator), Free(t, separator)
    PROVE  Split((s \o <<separator>>) \o t, separator) = <<s, t>>
<1>1. Split((s \o <<separator>>) \o t, separator) = Append(Split(s, separator), t)
  BY SplitBehind
<1>2. Split(s, separator) = <<s>>
  BY SplitFree
<1>3. Append(<<s>>, t) = <<s, t>>
  BY AppendToOne
<1>. QED BY <1>1, <1>2, <1>3

\* The parts, with the separator in front of all but the first.
Separated(parts, separator) ==
    [i \in DOMAIN parts |-> IF i = 1 THEN parts[i] ELSE <<separator>> \o parts[i]]

\* Parts with their separators are texts.
LEMMA SeparatedTyped ==
    ASSUME NEW X, NEW separator \in X, NEW parts \in Seq(Seq(X))
    PROVE  Separated(parts, separator) \in Seq(Seq(X))
           /\ Len(Separated(parts, separator)) = Len(parts)
<1>1. ASSUME NEW i \in DOMAIN parts
      PROVE  (IF i = 1 THEN parts[i] ELSE <<separator>> \o parts[i]) \in Seq(X)
  OBVIOUS
<1>. DEFINE f(i) == IF i = 1 THEN parts[i] ELSE <<separator>> \o parts[i]
            n == Len(parts)
<1>2. n \in Nat /\ DOMAIN parts = 1..n
  OBVIOUS
<1>3. \A i \in 1..n : f(i) \in Seq(X)
  BY <1>1, <1>2
<1>4. Separated(parts, separator) = [i \in 1..n |-> f(i)]
  BY <1>2 DEF Separated
<1>. HIDE DEF f, n
<1>5. [i \in 1..n |-> f(i)] \in Seq(Seq(X)) /\ Len([i \in 1..n |-> f(i)]) = n
  BY <1>2, <1>3
<1>. QED BY <1>4, <1>5 DEF n

\* One part more comes with its separator, unless it is the first.
LEMMA SeparatedAppend ==
    ASSUME NEW X, NEW separator \in X, NEW parts \in Seq(Seq(X)), NEW x \in Seq(X)
    PROVE  Separated(Append(parts, x), separator) =
             Append(Separated(parts, separator), IF parts = <<>> THEN x ELSE <<separator>> \o x)
<1>. DEFINE p == Append(parts, x)
            n == Len(parts)
            a == Separated(p, separator)
            s == Separated(parts, separator)
            y == IF parts = <<>> THEN x ELSE <<separator>> \o x
            b == Append(s, y)
<1>1. /\ p \in Seq(Seq(X)) /\ Len(p) = n + 1 /\ n \in Nat /\ p[n + 1] = x
      /\ \A i \in 1..n : p[i] = parts[i]
  OBVIOUS
<1>2. DOMAIN p = 1..(n + 1) /\ DOMAIN parts = 1..n
  OBVIOUS
<1>3. parts = <<>> <=> n = 0
  OBVIOUS
<1>4. y \in Seq(X)
  OBVIOUS
<1>5. s \in Seq(Seq(X)) /\ Len(s) = n
  BY SeparatedTyped
<1>6. a \in Seq(Seq(X)) /\ Len(a) = n + 1
  BY <1>1, SeparatedTyped
<1>. HIDE DEF p, n
<1>7. ASSUME NEW i \in 1..n PROVE a[i] = s[i]
  BY <1>1, <1>2 DEF Separated
<1>8. a[n + 1] = y
  BY <1>1, <1>2, <1>3 DEF Separated
<1>. HIDE DEF a, s, y
<1>9. b \in Seq(Seq(X)) /\ Len(b) = n + 1 /\ b[n + 1] = y /\ \A i \in 1..n : b[i] = s[i]
  BY <1>1, <1>4, <1>5
<1>. HIDE DEF b
<1>10. ASSUME NEW i \in 1..(n + 1) PROVE a[i] = b[i]
  <2>1. i \in 1..n \/ i = n + 1
    BY <1>1
  <2>. QED BY <1>7, <1>8, <1>9, <2>1
<1>11. a = b
  BY <1>6, <1>9, <1>10, SeqEqual
<1>. QED BY <1>11 DEF a, b, p, s, y

\* One part more is joined behind a separator, unless it is the first.
LEMMA JoinedAppend ==
    ASSUME NEW X, NEW separator \in X, NEW parts \in Seq(Seq(X)), NEW x \in Seq(X)
    PROVE  /\ Joined(parts, separator) \in Seq(X)
           /\ Joined(Append(parts, x), separator) =
                IF parts = <<>> THEN x ELSE (Joined(parts, separator) \o <<separator>>) \o x
<1>. DEFINE s == Separated(parts, separator)
            y == IF parts = <<>> THEN x ELSE <<separator>> \o x
<1>1. s \in Seq(Seq(X))
  BY SeparatedTyped
<1>2. y \in Seq(X)
  OBVIOUS
<1>3. Joined(parts, separator) = FlattenSeq(s)
  BY DEF Joined, Separated
<1>4. Joined(Append(parts, x), separator) = FlattenSeq(Separated(Append(parts, x), separator))
  BY DEF Joined, Separated
<1>5. Separated(Append(parts, x), separator) = Append(s, y)
  BY SeparatedAppend
<1>6. parts = <<>> => FlattenSeq(s) = <<>>
  <2>1. parts = <<>> => s = <<>>
    BY DEF Separated
  <2>2. FlattenSeq(<<>>) = <<>>
    BY DEF FlattenSeq
  <2>. HIDE DEF s
  <2>. QED BY <2>1, <2>2
<1>. HIDE DEF s, y
<1>7. FlattenSeq(s) \in Seq(X) /\ FlattenSeq(Append(s, y)) = FlattenSeq(s) \o y
  BY <1>1, <1>2, FlattenAppend
<1>. DEFINE j == FlattenSeq(s)
<1>8. j \in Seq(X)
  BY <1>7
<1>. HIDE DEF j
<1>9. j \o (<<separator>> \o x) = (j \o <<separator>>) \o x /\ <<>> \o x = x
  BY <1>8
<1>10. parts = <<>> => j \o y = x
  BY <1>6, <1>9 DEF y, j
<1>11. parts # <<>> => j \o y = (j \o <<separator>>) \o x
  BY <1>9 DEF y
<1>. QED BY <1>3, <1>4, <1>5, <1>7, <1>10, <1>11 DEF j

\* The same, as an operator that is expanded only where that is needed.
JoinedGrows(X, parts, x, separator) ==
    /\ Joined(parts, separator) \in Seq(X)
    /\ Joined(Append(parts, x), separator) =
         IF parts = <<>> THEN x ELSE (Joined(parts, separator) \o <<separator>>) \o x

\* Joined with one part more.
LEMMA JoinedNext ==
    ASSUME NEW X, NEW separator \in X, NEW parts \in Seq(Seq(X)), NEW x \in Seq(X)
    PROVE  JoinedGrows(X, parts, x, separator)
<1>1. Joined(parts, separator) \in Seq(X)
  BY JoinedAppend
<1>2. Joined(Append(parts, x), separator) =
         IF parts = <<>> THEN x ELSE (Joined(parts, separator) \o <<separator>>) \o x
  BY JoinedAppend, ZenonT(30)
<1>. QED BY <1>1, <1>2, Zenon DEF JoinedGrows

\* Texts joined are a text.
LEMMA JoinedTyped ==
    ASSUME NEW X, NEW separator \in X, NEW parts \in Seq(Seq(X))
    PROVE  Joined(parts, separator) \in Seq(X)
<1>1. <<>> \in Seq(X)
  OBVIOUS
<1>. QED BY <1>1, JoinedAppend

\* What is joined is split into what it was joined of.
LEMMA SplitJoined ==
    ASSUME NEW X, NEW separator \in X, NEW parts \in Seq(Seq(X)), parts # <<>>,
           \A i \in DOMAIN parts : Free(parts[i], separator)
    PROVE  Split(Joined(parts, separator), separator) = parts
<1>. DEFINE Ok(p) == \A i \in DOMAIN p : Free(p[i], separator)
            G == {n \in Nat : \A p \in Seq(Seq(X)) : Len(p) = n + 1 /\ Ok(p) =>
                                 Split(Joined(p, separator), separator) = p}
<1>1. ASSUME NEW n \in Nat, NEW p \in Seq(Seq(X)), Len(p) = n + 1, Ok(p)
      PROVE  \E q \in Seq(Seq(X)), x \in Seq(X) :
                p = Append(q, x) /\ Len(q) = n /\ Ok(q) /\ Free(x, separator)
  <2>. DEFINE q == SubSeq(p, 1, n)
              x == p[n + 1]
  <2>1. q \in Seq(Seq(X)) /\ x \in Seq(X) /\ p = Append(q, x) /\ Len(q) = n
    BY <1>1
  <2>2. Free(x, separator) /\ \A i \in DOMAIN q : q[i] = p[i] /\ i \in DOMAIN p
    BY <1>1
  <2>. HIDE DEF q, x
  <2>. QED BY <1>1, <2>1, <2>2
<1>2. 0 \in G
  <2>1. ASSUME NEW p \in Seq(Seq(X)), Len(p) = 0 + 1, Ok(p)
        PROVE  Split(Joined(p, separator), separator) = p
    <3>1. PICK q \in Seq(Seq(X)), x \in Seq(X) :
             p = Append(q, x) /\ Len(q) = 0 /\ Ok(q) /\ Free(x, separator)
      BY <1>1, <2>1
    <3>2. q = <<>> /\ Append(q, x) = <<x>>
      BY <3>1
    <3>3. Joined(p, separator) = x
      BY <3>1, <3>2, JoinedAppend
    <3>4. Split(x, separator) = <<x>>
      BY <3>1, SplitFree
    <3>. QED BY <3>1, <3>2, <3>3, <3>4
  <2>. HIDE DEF Ok
  <2>. QED BY <2>1
<1>3. ASSUME NEW n \in Nat, n \in G PROVE n + 1 \in G
  <2>1. ASSUME NEW p \in Seq(Seq(X)), Len(p) = (n + 1) + 1, Ok(p)
        PROVE  Split(Joined(p, separator), separator) = p
    <3>1. PICK q \in Seq(Seq(X)), x \in Seq(X) :
             p = Append(q, x) /\ Len(q) = n + 1 /\ Ok(q) /\ Free(x, separator)
      <4>. DEFINE k == n + 1
      <4>1. k \in Nat /\ Len(p) = k + 1 /\ Ok(p)
        BY <2>1
      <4>. HIDE DEF k, Ok
      <4>2. \E q \in Seq(Seq(X)), x \in Seq(X) :
               p = Append(q, x) /\ Len(q) = k /\ Ok(q) /\ Free(x, separator)
        BY <1>1, <4>1
      <4>. QED BY <4>2 DEF k
    <3>2. q # <<>>
      BY <3>1
    <3>. DEFINE j == Joined(q, separator)
    <3>3. Split(j, separator) = q
      BY <1>3, <3>1
    <3>4. j \in Seq(X) /\ Joined(p, separator) = (j \o <<separator>>) \o x
      BY <3>1, <3>2, JoinedAppend
    <3>. HIDE DEF j
    <3>5. Split((j \o <<separator>>) \o x, separator) = Append(Split(j, separator), x)
      BY <3>1, <3>4, SplitBehind
    <3>. QED BY <3>1, <3>3, <3>4, <3>5
  <2>. HIDE DEF Ok
  <2>. QED BY <2>1
<1>. HIDE DEF G
<1>4. Nat \subseteq G
  BY <1>2, <1>3, SetInduction
<1>5. Len(parts) \in Nat /\ Len(parts) # 0
  OBVIOUS
<1>6. Len(parts) - 1 \in G
  BY <1>4, <1>5
<1>7. (Len(parts) - 1) + 1 = Len(parts)
  BY <1>5
<1>. QED BY <1>6, <1>7 DEF G

---------------------------------------------------------------------------
(* Characters and their codes                                               *)

\* All tokens.  Those the client writes itself are strings, too, which is not known
\* of a literal to the provers.
Escaped == {"/", "?", "&", "=", "%", ",", ";", "|", " ", "[", "{import_id}"}
Codes == {"%2F", "%3F", "%26", "%3D", "%25", "%2C", "%3B", "%7C", "%20", "%5B", "%7Bimport_id%7D"}
Names == {"p", "k", "l", "cursor", "limit", "50", "q", "action", "outcome", "invalid",
          "errors", "username", "password", ".", "]"}
UrlNames == {"api", "v1", "login", "access-token", "users", "{user_id}", "me", "temporary-password",
             "imports", "preview", "mapping", "validate", "confirm", "cancel", "retry", "rows",
             "reports", "{report_name}", "jobs", "{job_id}", "attempts", "dashboard", "contacts",
             "audit-events", "health", "live", "ready", "version"}
AllTokens == STRING \cup Escaped \cup Codes \cup Names \cup UrlNames
Characters == AllTokens \ Escapes

\* Escapes are tokens of their own, each of one character.
LEMMA EscapeTable ==
    /\ DOMAIN Escape \subseteq Characters
    /\ Escapes \subseteq AllTokens /\ Names \subseteq Characters
    /\ \A c, d \in DOMAIN Escape : Escape[c] = Escape[d] => c = d
    /\ {"/", "?", "&", "=", ",", ";", "|", " "} \subseteq DOMAIN Escape
    /\ Escape[" "] = "%20"
    /\ {".", "%20"} \cap DOMAIN Escape = {} /\ "." \notin Escapes
<1>. DEFINE R == Escaped
            V == Codes
            Back(v) == CASE v = "%2F" -> "/" [] v = "%3F" -> "?" [] v = "%26" -> "&" [] v = "%3D" -> "="
                         [] v = "%25" -> "%" [] v = "%2C" -> "," [] v = "%3B" -> ";" [] v = "%7C" -> "|"
                         [] v = "%20" -> " " [] v = "%5B" -> "[" [] v = "%7Bimport_id%7D" -> "{import_id}"
<1>0. DOMAIN Escape = R
  BY DEF Escape, Escaped
<1>1. /\ R \subseteq AllTokens /\ V \subseteq AllTokens /\ Names \subseteq AllTokens
      /\ \A c \in R \cup Names : c \notin V
  <2>1. R \subseteq AllTokens /\ V \subseteq AllTokens /\ Names \subseteq AllTokens
    BY DEF AllTokens
  <2>2. \A c \in R : c \notin V
    BY DEF Escaped, Codes
  <2>3. \A c \in Names : c \notin V
    BY DEF Names, Codes
  <2>. QED BY <2>1, <2>2, <2>3
<1>2. /\ Escape["/"] = "%2F" /\ Escape["?"] = "%3F" /\ Escape["&"] = "%26" /\ Escape["="] = "%3D"
      /\ Escape["%"] = "%25" /\ Escape[","] = "%2C" /\ Escape[";"] = "%3B" /\ Escape["|"] = "%7C"
      /\ Escape[" "] = "%20" /\ Escape["["] = "%5B" /\ Escape["{import_id}"] = "%7Bimport_id%7D"
  BY DEF Escape, Escaped
<1>3. \A c \in R : Escape[c] \in V
  BY <1>2 DEF Escaped, Codes
<1>4. Escapes \subseteq V
  <2>. HIDE DEF R, V
  <2>. QED BY <1>0, <1>3 DEF Escapes
<1>5. \A c, d \in R : Escape[c] = Escape[d] => c = d
  <2>1. \A c \in R : Back(Escape[c]) = c
    BY <1>2 DEF Escaped
  <2>. HIDE DEF R, Back
  <2>. QED BY <2>1
<1>6. /\ {"/", "?", "&", "=", ",", ";", "|", " "} \subseteq R
      /\ {".", "%20"} \cap R = {} /\ "." \notin V
  BY DEF Escaped, Codes
<1>. HIDE DEF R, V
<1>. QED BY <1>0, <1>1, <1>2, <1>4, <1>5, <1>6 DEF Characters

\* What is written before it is encoded is of characters.
LEMMA CharactersOf == PlainTexts \subseteq Seq(Characters)
<1>1. STRING \ Escapes \subseteq Characters
  BY DEF Characters, AllTokens
<1>2. \A S, T : S \subseteq T => Seq(S) \subseteq Seq(T)
  OBVIOUS
<1>. QED BY <1>1, <1>2 DEF PlainTexts

\* A character encoded, and what a reader takes it for.
Code(c) == IF c \in DOMAIN Escape THEN Escape[c] ELSE c
Meant(c) == IF \E d \in DOMAIN Escape : Escape[d] = c
            THEN CHOOSE d \in DOMAIN Escape : Escape[d] = c ELSE c

\* Every character is meant by its code, and by nothing else.
LEMMA CodeIsMeant ==
    ASSUME NEW c \in Characters
    PROVE  /\ Code(c) \in AllTokens /\ Meant(Code(c)) = c /\ Meant(c) = c
           /\ Code(c) \notin DOMAIN Escape
           /\ \A d \in Characters : c # d => Code(c) # d
           /\ c # " " => Code(c) # "%20"
<1>. USE DEF Characters
<1>0. c \in AllTokens /\ c \notin Escapes /\ \A d \in DOMAIN Escape : Escape[d] # c
  BY DEF Escapes
<1>. HIDE DEF Characters
<1>9. Meant(c) = c
  BY <1>0 DEF Meant
<1>1. CASE c \in DOMAIN Escape
  <2>1. Code(c) = Escape[c] /\ Escape[c] \in Escapes
    BY <1>1 DEF Code, Escapes
  <2>2. \A d \in DOMAIN Escape : Escape[d] = Escape[c] => d = c
    BY <1>1, EscapeTable
  <2>3. (CHOOSE d \in DOMAIN Escape : Escape[d] = Escape[c]) = c
    BY <1>1, <2>2
  <2>4. Meant(Escape[c]) = c
    BY <1>1, <2>3 DEF Meant
  <2>5. c # " " => Escape[c] # "%20"
    BY <1>1, EscapeTable
  <2>6. Escape[c] \in AllTokens /\ Escape[c] \notin DOMAIN Escape /\ \A d \in Characters : Escape[c] # d
    BY <1>1, <2>1, EscapeTable DEF Characters
  <2>. QED BY <1>9, <2>1, <2>4, <2>5, <2>6
<1>2. CASE c \notin DOMAIN Escape
  <2>1. Code(c) = c
    BY <1>2 DEF Code
  <2>2. c # "%20"
    BY <1>0, EscapeTable
  <2>. QED BY <1>0, <1>2, <1>9, <2>1, <2>2
<1>. QED BY <1>1, <1>2

\* A text is read as it was before it was encoded; so is one that never was.
LEMMA EncodedIsDecoded ==
    ASSUME NEW text \in Seq(Characters)
    PROVE  /\ text \in Seq(AllTokens) /\ Encoded(text) \in Seq(AllTokens)
           /\ Decoded(Encoded(text)) = text
           /\ Decoded(text) = text
<1>. DEFINE n == Len(text)
            e == Encoded(text)
            d == Decoded(e)
            f == Decoded(text)
<1>1. text \in Seq(Characters) /\ n \in Nat /\ DOMAIN text = 1..n
      /\ \A i \in 1..n : text[i] \in Characters
  OBVIOUS
<1>2. text \in Seq(AllTokens)
  BY DEF Characters
<1>3. e = [i \in 1..n |-> Code(text[i])]
  BY <1>1 DEF Encoded, Code
<1>4. \A i \in 1..n : Code(text[i]) \in AllTokens
  BY <1>1, CodeIsMeant
<1>5. [i \in 1..n |-> Code(text[i])] \in Seq(AllTokens)
  BY <1>1, <1>4
<1>6. DOMAIN e = 1..n /\ \A i \in 1..n : e[i] = Code(text[i])
  BY <1>3
<1>. HIDE DEF e, n
<1>7. d = [i \in 1..n |-> Meant(e[i])] /\ f = [i \in 1..n |-> Meant(text[i])]
  BY <1>1, <1>6 DEF Decoded, Meant
<1>8. \A i \in 1..n : Meant(e[i]) = text[i] /\ Meant(text[i]) = text[i]
  BY <1>1, <1>6, CodeIsMeant
<1>9. text = [i \in 1..n |-> text[i]]
  BY <1>1
<1>. QED BY <1>2, <1>3, <1>5, <1>7, <1>8, <1>9 DEF e

\* No character that is encoded is left, none comes in, and "%20" stands for a blank.
LEMMA EncodedFree ==
    ASSUME NEW text \in Seq(Characters)
    PROVE  /\ \A c \in DOMAIN Escape : Free(Encoded(text), c)
           /\ \A c \in Characters : Free(text, c) => Free(Encoded(text), c)
           /\ Free(text, " ") => Free(Encoded(text), "%20")
<1>. DEFINE n == Len(text)
            e == Encoded(text)
<1>1. /\ DOMAIN text = 1..n /\ DOMAIN e = 1..n
      /\ \A i \in 1..n : text[i] \in Characters /\ e[i] = Code(text[i])
  <2>1. DOMAIN text = 1..n /\ \A i \in 1..n : text[i] \in Characters
    OBVIOUS
  <2>2. e = [i \in 1..n |-> Code(text[i])]
    BY <2>1 DEF Encoded, Code
  <2>. QED BY <2>1, <2>2
<1>. HIDE DEF n, e
<1>2. ASSUME NEW i \in 1..n
      PROVE  /\ e[i] \notin DOMAIN Escape
             /\ \A d \in Characters : text[i] # d => e[i] # d
             /\ text[i] # " " => e[i] # "%20"
  <2>. DEFINE c == text[i]
  <2>1. c \in Characters /\ e[i] = Code(c)
    BY <1>1
  <2>. HIDE DEF c
  <2>2. /\ Code(c) \notin DOMAIN Escape
        /\ \A d \in Characters : c # d => Code(c) # d
        /\ c # " " => Code(c) # "%20"
    BY <2>1, CodeIsMeant
  <2>. QED BY <2>1, <2>2 DEF c
<1>. QED BY <1>1, <1>2 DEF Free, e

\* A token that is in none of the parts and does not separate them is not in
\* what is joined of them.
LEMMA JoinedFree ==
    ASSUME NEW X, NEW separator \in X, NEW parts \in Seq(Seq(X)), NEW c, separator # c,
           \A i \in DOMAIN parts : Free(parts[i], c)
    PROVE  Free(Joined(parts, separator), c)
<1>. DEFINE Ok(p) == \A i \in DOMAIN p : Free(p[i], c)
            G == {n \in Nat : \A p \in Seq(Seq(X)) : Len(p) = n /\ Ok(p) => Free(Joined(p, separator), c)}
<1>1. 0 \in G
  <2>1. Joined(<<>>, separator) = <<>>
    BY DEF Joined, FlattenSeq
  <2>2. Free(<<>>, c)
    BY DEF Free
  <2>3. \A p \in Seq(Seq(X)) : Len(p) = 0 => p = <<>>
    OBVIOUS
  <2>. HIDE DEF Ok
  <2>. QED BY <2>1, <2>2, <2>3
<1>2. ASSUME NEW n \in Nat, n \in G PROVE n + 1 \in G
  <2>1. ASSUME NEW p \in Seq(Seq(X)), Len(p) = n + 1, Ok(p)
        PROVE  Free(Joined(p, separator), c)
    <3>1. PICK q \in Seq(Seq(X)), x \in Seq(X) :
              /\ p = Append(q, x) /\ Len(q) = n /\ x = p[n + 1] /\ n + 1 \in DOMAIN p
              /\ \A i \in DOMAIN q : q[i] = p[i] /\ i \in DOMAIN p
      <4>. DEFINE S == Seq(X)
      <4>1. p \in Seq(S)
        OBVIOUS
      <4>. HIDE DEF S, Ok
      <4>2. \E q \in Seq(S), x \in S :
              /\ p = Append(q, x) /\ Len(q) = n /\ x = p[n + 1] /\ n + 1 \in DOMAIN p
              /\ \A i \in DOMAIN q : q[i] = p[i] /\ i \in DOMAIN p
        BY <2>1, <4>1, LastText
      <4>. QED BY <4>2 DEF S
    <3>2. Free(x, c) /\ Ok(q)
      BY <2>1, <3>1
    <3>. DEFINE j == Joined(q, separator)
    <3>3. Free(j, c)
      BY <1>2, <3>1, <3>2
    <3>4. j \in Seq(X) /\ Joined(p, separator) = IF q = <<>> THEN x ELSE (j \o <<separator>>) \o x
      <4>1. JoinedGrows(X, q, x, separator)
        BY <3>1, JoinedNext
      <4>. QED BY <3>1, <4>1, Zenon DEF JoinedGrows
    <3>. HIDE DEF j
    <3>5. Free(j \o <<separator>>, c) /\ j \o <<separator>> \in Seq(X)
      <4>1. Free(<<separator>>, c) /\ <<separator>> \in Seq(X)
        BY FreeOne
      <4>2. Free(j \o <<separator>>, c)
        BY <3>3, <3>4, <4>1, FreeConcat
      <4>. QED BY <3>4, <4>1, <4>2
    <3>6. Free((j \o <<separator>>) \o x, c)
      <4>. DEFINE k == j \o <<separator>>
      <4>. HIDE DEF k
      <4>1. Free(k, c) /\ k \in Seq(X)
        BY <3>5 DEF k
      <4>2. Free(k \o x, c)
        BY <3>2, <4>1, FreeConcat
      <4>. QED BY <4>2 DEF k
    <3>. QED BY <3>2, <3>4, <3>6
  <2>. HIDE DEF Ok
  <2>. QED BY <2>1
<1>. HIDE DEF G
<1>3. Nat \subseteq G
  BY <1>1, <1>2, SetInduction
<1>4. Len(parts) \in G
  BY <1>3
<1>. QED BY <1>4 DEF G

\* A single part joined is that part.
LEMMA JoinedOne ==
    ASSUME NEW X, NEW separator \in X, NEW x \in Seq(X)
    PROVE  Joined(<<x>>, separator) = x
<1>1. <<>> \in Seq(Seq(X)) /\ Append(<<>>, x) = <<x>>
  OBVIOUS
<1>. DEFINE e == <<>>
<1>. HIDE DEF e
<1>2. Joined(Append(e, x), separator) = x
  BY <1>1, JoinedAppend DEF e
<1>. QED BY <1>1, <1>2 DEF e

\* A name that is no syntax.
IsName(name) == name \in Seq(Characters) /\ Free(name, "=") /\ Free(name, "&") /\ Free(name, ";")
                /\ Free(name, ",") /\ Free(name, ".") /\ Free(name, "?")

\* name=value is read as that name and that value.
LEMMA PrimitiveRead ==
    ASSUME NEW name \in Seq(Characters), Free(name, "="), NEW value \in Seq(Characters)
    PROVE  /\ serializePrimitiveParam(name, value) \in Seq(AllTokens)
           /\ PairRead(serializePrimitiveParam(name, value)) = [name |-> name, value |-> value]
           /\ \A c : Free(name, c) /\ c # "=" /\ Free(Encoded(value), c)
                     => Free(serializePrimitiveParam(name, value), c)
<1>. DEFINE e == Encoded(value)
            t == (name \o <<"=">>) \o e
            parts == <<name, e>>
<1>1. name \in Seq(AllTokens) /\ e \in Seq(AllTokens) /\ Decoded(e) = value /\ Decoded(name) = name
  BY EncodedIsDecoded
<1>2. Free(e, "=") /\ "=" \in AllTokens
  <2>1. "=" \in DOMAIN Escape
    BY EscapeTable
  <2>. QED BY <2>1, EscapeTable, EncodedFree DEF Characters
<1>3. serializePrimitiveParam(name, value) = t
  BY DEF serializePrimitiveParam
<1>. HIDE DEF e
<1>4. Split(t, "=") = parts
  BY <1>1, <1>2, SplitTwo
<1>5. Head(parts) = name /\ Tail(parts) = <<e>>
  BY <1>1
<1>6. Joined(<<e>>, "=") = e
  BY <1>1, <1>2, JoinedOne
<1>. HIDE DEF parts, t
<1>7. PairRead(t) = [name |-> name, value |-> value]
  BY <1>1, <1>4, <1>5, <1>6 DEF PairRead
<1>8. <<"=">> \in Seq(AllTokens) /\ name \o <<"=">> \in Seq(AllTokens)
  BY <1>1, <1>2
<1>9. t \in Seq(AllTokens)
  BY <1>1, <1>8 DEF t
<1>10. ASSUME NEW c, Free(name, c), c # "=", Free(e, c) PROVE Free(t, c)
  <2>1. Free(<<"=">>, c)
    BY <1>10, FreeOne
  <2>. DEFINE u == name \o <<"=">>
  <2>2. Free(u, c)
    BY <1>1, <1>8, <1>10, <2>1, FreeConcat
  <2>. HIDE DEF u
  <2>3. u \in Seq(AllTokens)
    BY <1>8 DEF u
  <2>4. Free(u \o e, c)
    BY <1>1, <1>10, <2>2, <2>3, FreeConcat
  <2>. QED BY <2>4 DEF t, u
<1>. QED BY <1>3, <1>7, <1>9, <1>10 DEF e

---------------------------------------------------------------------------
(* Arrays                                                                   *)

\* The elements of an array, encoded, are decoded to what they were.
LEMMA EncodedElements ==
    ASSUME NEW value \in Seq(Seq(Characters)) \ {<<>>}
    PROVE  /\ [i \in DOMAIN value |-> Encoded(value[i])] \in Seq(Seq(AllTokens)) \ {<<>>}
           /\ value = [i \in DOMAIN value |-> Decoded(Encoded(value[i]))]
           /\ \A i \in DOMAIN value : \A c \in DOMAIN Escape : Free(Encoded(value[i]), c)
<1>. DEFINE n == Len(value)
            e(i) == Encoded(value[i])
<1>1. n \in Nat /\ n > 0 /\ DOMAIN value = 1..n /\ \A i \in 1..n : value[i] \in Seq(Characters)
  OBVIOUS
<1>2. \A i \in 1..n : /\ Encoded(value[i]) \in Seq(AllTokens)
                      /\ Decoded(Encoded(value[i])) = value[i]
                      /\ \A c \in DOMAIN Escape : Free(Encoded(value[i]), c)
  BY <1>1, EncodedIsDecoded, EncodedFree
<1>3. value = [i \in 1..n |-> value[i]]
  BY <1>1
<1>4. value = [i \in 1..n |-> Decoded(e(i))]
  BY <1>2, <1>3
<1>5. \A i \in 1..n : e(i) \in Seq(AllTokens)
  BY <1>2
<1>. HIDE DEF n, e
<1>. DEFINE w == [i \in 1..n |-> e(i)]
<1>6. w \in Seq(Seq(AllTokens)) /\ Len(w) = n
  BY <1>1, <1>5
<1>. HIDE DEF w
<1>7. w # <<>>
  BY <1>1, <1>6
<1>. QED BY <1>1, <1>2, <1>4, <1>6, <1>7 DEF e, w

\* What separates the name=value parts of an array, and what is read of one.
PartSeparators == {"&", ";", ","}
ValueRead(part) == PairRead(part).value
NamedParts(name, value) == [i \in DOMAIN value |-> serializePrimitiveParam(name, value[i])]

\* The elements of an array, each with the name, are read back.
LEMMA NamedElements ==
    ASSUME NEW name, IsName(name), NEW value \in Seq(Seq(Characters)) \ {<<>>}
    PROVE  /\ NamedParts(name, value) \in Seq(Seq(AllTokens)) \ {<<>>}
           /\ DOMAIN NamedParts(name, value) = DOMAIN value
           /\ value = [i \in DOMAIN value |-> ValueRead(NamedParts(name, value)[i])]
           /\ \A i \in DOMAIN value : \A c \in PartSeparators : Free(NamedParts(name, value)[i], c)
<1>. DEFINE n == Len(value)
            e(i) == serializePrimitiveParam(name, value[i])
            r(i) == ValueRead(e(i))
<1>1. n \in Nat /\ n > 0 /\ DOMAIN value = 1..n /\ \A i \in 1..n : value[i] \in Seq(Characters)
  OBVIOUS
<1>2. ASSUME NEW i \in 1..n
      PROVE  /\ e(i) \in Seq(AllTokens) /\ r(i) = value[i]
             /\ \A c \in PartSeparators : Free(e(i), c)
  <2>. DEFINE v == value[i]
              s == serializePrimitiveParam(name, v)
  <2>1. v \in Seq(Characters)
    BY <1>1
  <2>. HIDE DEF v
  <2>2. /\ s \in Seq(AllTokens) /\ PairRead(s) = [name |-> name, value |-> v]
        /\ \A c : Free(name, c) /\ c # "=" /\ Free(Encoded(v), c) => Free(s, c)
    BY <2>1, PrimitiveRead DEF IsName
  <2>3. \A c \in PartSeparators : Free(name, c) /\ c # "=" /\ Free(Encoded(v), c)
    <3>1. \A c \in PartSeparators : c \in DOMAIN Escape
      BY EscapeTable DEF PartSeparators
    <3>2. \A c \in PartSeparators : Free(name, c) /\ c # "="
      BY DEF IsName, PartSeparators
    <3>. QED BY <2>1, <3>1, <3>2, EncodedFree
  <2>. HIDE DEF s
  <2>4. ValueRead(s) = v
    BY <2>2 DEF ValueRead
  <2>5. \A c \in PartSeparators : Free(s, c)
    BY <2>2, <2>3
  <2>. QED BY <2>2, <2>4, <2>5 DEF s, v
<1>3. value = [i \in 1..n |-> value[i]]
  BY <1>1
<1>4. \A i \in 1..n : value[i] = r(i)
  BY <1>2
<1>. HIDE DEF n, e, r
<1>5. value = [i \in 1..n |-> r(i)]
  BY <1>3, <1>4
<1>. DEFINE w == [i \in 1..n |-> e(i)]
<1>6. w \in Seq(Seq(AllTokens)) /\ Len(w) = n
  <2>1. n \in Nat /\ \A i \in 1..n : e(i) \in Seq(AllTokens)
    BY <1>1, <1>2
  <2>. QED BY <2>1
<1>. HIDE DEF w
<1>7. w # <<>>
  BY <1>1, <1>6
<1>8. NamedParts(name, value) = w
  BY <1>1 DEF NamedParts, w, e
<1>9. \A i \in 1..n : w[i] = e(i) /\ r(i) = ValueRead(w[i])
  BY DEF w, r
<1>10. DOMAIN w = 1..n
  BY DEF w
<1>11. value = [i \in 1..n |-> ValueRead(w[i])]
  BY <1>5, <1>9
<1>12. \A i \in 1..n : \A c \in PartSeparators : Free(w[i], c)
  BY <1>2, <1>9
<1>. QED BY <1>1, <1>6, <1>7, <1>8, <1>10, <1>11, <1>12

\* A text that fits its style is free of what the style cannot tell from it.
LEMMA FitsFree ==
    ASSUME NEW style, NEW text, Fits([style |-> style], text)
    PROVE  /\ style = "label" => Free(text, ".")
           /\ style = "spaceDelimited" => Free(text, " ")
<1>1. \A c : c \notin ToSet(text) => Free(text, c)
  BY DEF ToSet, Free
<1>. QED BY <1>1 DEF Fits

\* Texts before they are encoded are texts of tokens.
LEMMA TextsAreTokens == Seq(Characters) \subseteq Seq(AllTokens)
BY EncodedIsDecoded

\* The tokens of the styles.
LEMMA StyleTokens ==
    /\ {".", ";", ",", "&", "=", "|", "%20", "?", "/"} \subseteq AllTokens
    /\ {";", ",", "&", "=", "|", "?", "/"} \subseteq DOMAIN Escape
BY EscapeTable DEF AllTokens, Names, Escaped, Codes

\* The body of a parameter whose name and value are separated by "=".
LEMMA BehindName ==
    ASSUME NEW name \in Seq(AllTokens), Free(name, "="), NEW s \in Seq(AllTokens), Free(s, "=")
    PROVE  /\ Tail(Split((name \o <<"=">>) \o s, "="))[1] = s
           /\ Tail(Split(((<<";">> \o name) \o <<"=">>) \o s, "="))[1] = s
<1>1. ASSUME NEW t \in Seq(AllTokens), Free(t, "=")
      PROVE  Tail(Split((t \o <<"=">>) \o s, "="))[1] = s
  <2>1. Split((t \o <<"=">>) \o s, "=") = <<t, s>>
    BY <1>1, StyleTokens, SplitTwo
  <2>2. Tail(<<t, s>>)[1] = s
    OBVIOUS
  <2>. QED BY <2>1, <2>2
<1>. DEFINE u == <<";">> \o name
<1>. HIDE DEF u
<1>2. <<";">> \in Seq(AllTokens) /\ u \in Seq(AllTokens) /\ Free(<<";">>, "=")
  <2>1. ";" \in AllTokens /\ ";" # "="
    BY StyleTokens
  <2>. DEFINE semicolon == ";"
              v == <<semicolon>>
  <2>. HIDE DEF semicolon
  <2>2. v \in Seq(AllTokens) /\ v \o name \in Seq(AllTokens)
    BY <2>1, TailOfPrefixed DEF semicolon
  <2>3. Free(v, "=")
    BY <2>1, FreeOne DEF semicolon
  <2>. QED BY <2>2, <2>3 DEF u, semicolon
<1>3. Free(u, "=")
  BY <1>2, FreeConcat DEF u
<1>4. Tail(Split((u \o <<"=">>) \o s, "="))[1] = s
  BY <1>1, <1>2, <1>3
<1>. QED BY <1>1, <1>4 DEF u

\* Arrays of any length are read back from every style as they were written
\* (serializeArrayParam, core/pathSerializer.gen.ts:67-107).
THEOREM ArraysAreReadBack ==
    ASSUME NEW style \in Styles, NEW explode \in BOOLEAN, NEW name, IsName(name),
           NEW value \in Seq(Seq(Characters)) \ {<<>>},
           \A i \in DOMAIN value : Fits([style |-> style], value[i])
    PROVE  ArrayRead(style, explode, serializeArrayParam(style, explode, name, value)) = value
<1>. DEFINE E == [i \in DOMAIN value |-> Encoded(value[i])]
            P == NamedParts(name, value)
            text == serializeArrayParam(style, explode, name, value)
<1>1. /\ E \in Seq(Seq(AllTokens)) /\ E # <<>> /\ DOMAIN E = DOMAIN value
      /\ value = [i \in DOMAIN value |-> Decoded(E[i])]
      /\ \A i \in DOMAIN E : \A c \in DOMAIN Escape : Free(E[i], c)
  BY EncodedElements
<1>2. /\ P \in Seq(Seq(AllTokens)) /\ P # <<>> /\ DOMAIN P = DOMAIN value
      /\ value = [i \in DOMAIN value |-> ValueRead(P[i])]
      /\ \A i \in DOMAIN P : \A c \in PartSeparators : Free(P[i], c)
  BY NamedElements
<1>3. style = "label" => \A i \in DOMAIN E : Free(E[i], ".")
  <2>1. ASSUME style = "label", NEW i \in DOMAIN value PROVE Free(Encoded(value[i]), ".")
    <3>1. value[i] \in Seq(Characters) /\ Fits([style |-> style], value[i])
      BY <2>1
    <3>2. Free(value[i], ".")
      BY <2>1, <3>1, FitsFree
    <3>3. "." \in Characters
      BY EscapeTable DEF Names
    <3>. QED BY <3>1, <3>2, <3>3, EncodedFree
  <2>. QED BY <2>1
<1>4. style = "spaceDelimited" => \A i \in DOMAIN E : Free(E[i], "%20")
  <2>1. ASSUME style = "spaceDelimited", NEW i \in DOMAIN value PROVE Free(Encoded(value[i]), "%20")
    <3>1. value[i] \in Seq(Characters) /\ Fits([style |-> style], value[i])
      BY <2>1
    <3>2. Free(value[i], " ")
      BY <2>1, <3>1, FitsFree
    <3>. QED BY <3>1, <3>2, EncodedFree
  <2>. QED BY <2>1
<1>. HIDE DEF E, P
<1>5. ASSUME NEW c \in AllTokens, \A i \in DOMAIN E : Free(E[i], c)
      PROVE  /\ Split(Joined(E, c), c) = E
             /\ Joined(E, c) \in Seq(AllTokens)
             /\ c # "=" => Free(Joined(E, c), "=")
  <2>1. Joined(E, c) \in Seq(AllTokens)
    BY <1>1, JoinedTyped
  <2>2. "=" \in DOMAIN Escape
    BY StyleTokens
  <2>. QED BY <1>1, <1>5, <2>1, <2>2, SplitJoined, JoinedFree
<1>6. ASSUME NEW c \in {"&", ";"}
      PROVE  Split(Joined(P, c), c) = P /\ Joined(P, c) \in Seq(AllTokens)
  <2>1. c \in AllTokens
    BY StyleTokens
  <2>2. \A i \in DOMAIN P : Free(P[i], c)
    BY <1>2 DEF PartSeparators
  <2>3. Split(Joined(P, c), c) = P
    BY <1>2, <2>1, <2>2, SplitJoined
  <2>. QED BY <1>2, <2>1, <2>3, JoinedTyped
<1>7. \A c \in {",", "|"} : c \in AllTokens /\ \A i \in DOMAIN E : Free(E[i], c)
  BY <1>1, StyleTokens
<1>8. name \in Seq(AllTokens) /\ Free(name, "=")
  BY TextsAreTokens DEF IsName
<1>9. \A s \in Seq(AllTokens) : Tail(<<".">> \o s) = s /\ Tail(<<";">> \o s) = s
  BY TailOfPrefixed, StyleTokens
<1>10. ASSUME explode PROVE ArrayRead(style, explode, text) = value
  <2>1. CASE style = "label"
    <3>1. text = <<".">> \o Joined(E, ".")
      BY <1>10, <2>1 DEF serializeArrayParam, separatorExplode, Prefixed, E
    <3>2. Split(Joined(E, "."), ".") = E /\ Joined(E, ".") \in Seq(AllTokens)
      BY <1>3, <1>5, <2>1, StyleTokens
    <3>3. Body(style, explode, text) = Joined(E, ".")
      BY <1>9, <2>1, <3>1, <3>2 DEF Body
    <3>4. ArrayRead(style, explode, text) = [i \in DOMAIN E |-> Decoded(E[i])]
      BY <1>10, <2>1, <3>2, <3>3 DEF ArrayRead
    <3>. QED BY <1>1, <3>4
  <2>2. CASE style = "simple"
    <3>1. text = Joined(E, ",")
      BY <1>10, <2>2 DEF serializeArrayParam, separatorExplode, Prefixed, E
    <3>2. Split(Joined(E, ","), ",") = E
      BY <1>5, <1>7
    <3>3. Body(style, explode, text) = Joined(E, ",")
      BY <2>2, <3>1 DEF Body
    <3>4. ArrayRead(style, explode, text) = [i \in DOMAIN E |-> Decoded(E[i])]
      BY <1>10, <2>2, <3>2, <3>3 DEF ArrayRead
    <3>. QED BY <1>1, <3>4
  <2>3. CASE style = "matrix"
    <3>1. text = <<";">> \o Joined(P, ";")
      BY <1>10, <2>3 DEF serializeArrayParam, separatorExplode, Prefixed, P, NamedParts
    <3>2. Split(Joined(P, ";"), ";") = P /\ Joined(P, ";") \in Seq(AllTokens)
      BY <1>6
    <3>3. Body(style, explode, text) = Joined(P, ";")
      BY <1>9, <1>10, <2>3, <3>1, <3>2 DEF Body
    <3>4. ArrayRead(style, explode, text) = [i \in DOMAIN P |-> ValueRead(P[i])]
      BY <1>10, <2>3, <3>2, <3>3 DEF ArrayRead, ValueRead
    <3>. QED BY <1>2, <3>4
  <2>4. CASE style \in {"form", "spaceDelimited", "pipeDelimited"}
    <3>1. text = Joined(P, "&")
      BY <1>10, <2>4 DEF serializeArrayParam, separatorExplode, Prefixed, P, NamedParts
    <3>2. Split(Joined(P, "&"), "&") = P
      BY <1>6
    <3>3. Body(style, explode, text) = Joined(P, "&")
      BY <1>10, <2>4, <3>1 DEF Body
    <3>4. ArrayRead(style, explode, text) = [i \in DOMAIN P |-> ValueRead(P[i])]
      BY <1>10, <2>4, <3>2, <3>3 DEF ArrayRead, ValueRead
    <3>. QED BY <1>2, <3>4
  <2>. QED BY <2>1, <2>2, <2>3, <2>4 DEF Styles
<1>11. ASSUME ~explode PROVE ArrayRead(style, explode, text) = value
  <2>. DEFINE c == separatorArrayNoExplode(style)
              j == Joined(E, c)
  <2>1. /\ style = "pipeDelimited" => c = "|"
        /\ style = "spaceDelimited" => c = "%20"
        /\ style \notin {"pipeDelimited", "spaceDelimited"} => c = ","
    BY DEF separatorArrayNoExplode
  <2>2. c \in AllTokens /\ c # "=" /\ \A i \in DOMAIN E : Free(E[i], c)
    BY <1>4, <1>7, <2>1, StyleTokens
  <2>3. Split(j, c) = E /\ j \in Seq(AllTokens) /\ Free(j, "=")
    BY <1>5, <2>2
  <2>4. /\ style = "label" => text = <<".">> \o j
        /\ style = "matrix" => text = ((<<";">> \o name) \o <<"=">>) \o j
        /\ style = "simple" => text = j
        /\ style \in {"form", "spaceDelimited", "pipeDelimited"} => text = (name \o <<"=">>) \o j
    BY <1>11 DEF serializeArrayParam, E
  <2>. HIDE DEF c, j, text
  <2>5. Body(style, explode, text) = j
    <3>1. /\ Tail(Split((name \o <<"=">>) \o j, "="))[1] = j
          /\ Tail(Split(((<<";">> \o name) \o <<"=">>) \o j, "="))[1] = j
      BY <1>8, <2>3, BehindName
    <3>2. CASE style = "label"
      BY <1>9, <2>3, <2>4, <3>2 DEF Body
    <3>3. CASE style = "matrix"
      BY <1>11, <2>4, <3>1, <3>3 DEF Body
    <3>4. CASE style = "simple"
      BY <2>4, <3>4 DEF Body
    <3>5. CASE style \in {"form", "spaceDelimited", "pipeDelimited"}
      BY <1>11, <2>4, <3>1, <3>5 DEF Body
    <3>. QED BY <3>2, <3>3, <3>4, <3>5 DEF Styles
  <2>6. ArrayRead(style, explode, text) = [i \in DOMAIN E |-> Decoded(E[i])]
    <3>1. \/ style = "pipeDelimited" /\ c = "|"
          \/ style = "spaceDelimited" /\ c = "%20"
          \/ style \notin {"pipeDelimited", "spaceDelimited"} /\ c = ","
      BY <2>1
    <3>. QED BY <1>11, <2>3, <2>5, <3>1 DEF ArrayRead
  <2>. QED BY <1>1, <2>6 DEF text
<1>. QED BY <1>10, <1>11

---------------------------------------------------------------------------
(* Objects                                                                  *)

\* name=value, for each.
PairParts(names, texts) == [i \in DOMAIN names |-> serializePrimitiveParam(names[i], texts[i])]
PairIs(part, name, text) == PairRead(part) = [name |-> name, value |-> text]

\* Pairs joined are cut into the same pairs.
LEMMA PairElements ==
    ASSUME NEW names \in Seq(Seq(Characters)), NEW texts \in Seq(Seq(Characters)),
           names # <<>>, DOMAIN names = DOMAIN texts, NEW c \in AllTokens, c # "=",
           \A i \in DOMAIN names :
              Free(names[i], "=") /\ Free(names[i], c) /\ Free(Encoded(texts[i]), c)
    PROVE  /\ Split(Joined(PairParts(names, texts), c), c) = PairParts(names, texts)
           /\ Joined(PairParts(names, texts), c) \in Seq(AllTokens)
           /\ DOMAIN PairParts(names, texts) = DOMAIN names
           /\ \A i \in DOMAIN names : PairIs(PairParts(names, texts)[i], names[i], texts[i])
<1>. DEFINE n == Len(names)
            e(i) == serializePrimitiveParam(names[i], texts[i])
            w == [i \in 1..n |-> e(i)]
<1>1. n \in Nat /\ n > 0 /\ DOMAIN names = 1..n /\ DOMAIN texts = 1..n
      /\ \A i \in 1..n : names[i] \in Seq(Characters) /\ texts[i] \in Seq(Characters)
  OBVIOUS
<1>2. PairParts(names, texts) = w
  BY <1>1 DEF PairParts
<1>3. ASSUME NEW i \in 1..n
      PROVE  e(i) \in Seq(AllTokens) /\ Free(e(i), c) /\ PairIs(e(i), names[i], texts[i])
  <2>. DEFINE k == names[i]
              t == texts[i]
  <2>1. k \in Seq(Characters) /\ t \in Seq(Characters)
    BY <1>1
  <2>2. Free(k, "=") /\ Free(k, c) /\ Free(Encoded(t), c)
    BY <1>1
  <2>. HIDE DEF k, t
  <2>3. /\ serializePrimitiveParam(k, t) \in Seq(AllTokens)
        /\ PairRead(serializePrimitiveParam(k, t)) = [name |-> k, value |-> t]
        /\ \A d : Free(k, d) /\ d # "=" /\ Free(Encoded(t), d) => Free(serializePrimitiveParam(k, t), d)
    BY <2>1, <2>2, PrimitiveRead
  <2>. DEFINE s == serializePrimitiveParam(k, t)
  <2>4. Free(s, c) /\ s \in Seq(AllTokens) /\ PairIs(s, k, t)
    BY <2>2, <2>3 DEF PairIs
  <2>. QED BY <2>4 DEF k, t
<1>. HIDE DEF e, n
<1>4. w \in Seq(Seq(AllTokens)) /\ Len(w) = n /\ DOMAIN w = 1..n
  <2>1. n \in Nat /\ \A i \in 1..n : e(i) \in Seq(AllTokens)
    BY <1>1, <1>3
  <2>. QED BY <2>1
<1>5. \A i \in 1..n : w[i] = e(i)
  OBVIOUS
<1>. HIDE DEF w
<1>6. w # <<>>
  BY <1>1, <1>4
<1>7. \A i \in DOMAIN w : Free(w[i], c)
  BY <1>3, <1>4, <1>5
<1>8. Split(Joined(w, c), c) = w /\ Joined(w, c) \in Seq(AllTokens)
  BY <1>4, <1>6, <1>7, SplitJoined, JoinedTyped
<1>9. \A i \in 1..n : PairIs(w[i], names[i], texts[i])
  BY <1>3, <1>5
<1>. QED BY <1>1, <1>2, <1>4, <1>8, <1>9

\* Keys and values in turn.
TurnParts(names, texts) == [i \in DOMAIN names |-> (names[i] \o <<",">>) \o Encoded(texts[i])]
InTurn(parts, names, texts) ==
    /\ parts \in Seq(Seq(AllTokens)) /\ Len(parts) = 2 * Len(names)
    /\ \A i \in DOMAIN names : parts[2 * i - 1] = names[i] /\ parts[2 * i] = Encoded(texts[i])

\* A name and a text more at the end.
LEMMA InTurnNext ==
    ASSUME NEW names \in Seq(Seq(Characters)), NEW texts \in Seq(Seq(Characters)),
           Len(names) = Len(texts), NEW k \in Seq(Characters), NEW t \in Seq(Characters),
           NEW parts, InTurn(parts, names, texts)
    PROVE  InTurn(Append(Append(parts, k), Encoded(t)), Append(names, k), Append(texts, t))
<1>. DEFINE n == Len(names)
            e == Encoded(t)
            q == Append(Append(parts, k), e)
            N == Append(names, k)
            T == Append(texts, t)
            S == Seq(AllTokens)
<1>1. parts \in Seq(S) /\ Len(parts) = 2 * n /\ k \in S /\ e \in S /\ n \in Nat
  BY EncodedIsDecoded, TextsAreTokens DEF InTurn
<1>2. \A i \in 1..n : parts[2 * i - 1] = names[i] /\ parts[2 * i] = Encoded(texts[i])
  <2>1. DOMAIN names = 1..n
    OBVIOUS
  <2>. QED BY <2>1 DEF InTurn
<1>3. /\ DOMAIN N = 1..(n + 1) /\ Len(N) = n + 1 /\ N[n + 1] = k /\ T[n + 1] = t
      /\ \A i \in 1..n : N[i] = names[i] /\ T[i] = texts[i]
  OBVIOUS
<1>. HIDE DEF S, e, n
<1>4. /\ q \in Seq(S) /\ Len(q) = 2 * n + 2 /\ q[2 * n + 1] = k /\ q[2 * n + 2] = e
      /\ \A i \in 1..(2 * n) : q[i] = parts[i]
  BY <1>1
<1>. HIDE DEF q, N, T
<1>5. ASSUME NEW i \in 1..(n + 1)
      PROVE  q[2 * i - 1] = N[i] /\ q[2 * i] = Encoded(T[i])
  <2>1. CASE i = n + 1
    <3>1. 2 * i - 1 = 2 * n + 1 /\ 2 * i = 2 * n + 2
      BY <1>1, <2>1
    <3>. QED BY <1>3, <1>4, <2>1, <3>1 DEF e
  <2>2. CASE i \in 1..n
    <3>1. 2 * i - 1 \in 1..(2 * n) /\ 2 * i \in 1..(2 * n)
      BY <1>1, <2>2
    <3>2. N[i] = names[i] /\ T[i] = texts[i]
      BY <1>3, <2>2
    <3>3. q[2 * i - 1] = parts[2 * i - 1] /\ q[2 * i] = parts[2 * i]
      BY <1>4, <3>1
    <3>. QED BY <1>2, <2>2, <3>2, <3>3
  <2>. QED BY <1>1, <2>1, <2>2
<1>6. Len(q) = 2 * Len(N)
  BY <1>1, <1>3, <1>4
<1>7. InTurn(q, N, T)
  BY <1>3, <1>4, <1>5, <1>6 DEF InTurn, S
<1>. QED BY <1>7 DEF q, N, T, e

\* A name without a comma.
CommaFree(text) == Free(text, ",")

\* Names and texts in turn are texts of tokens.
LEMMA TurnTyped ==
    ASSUME NEW names \in Seq(Seq(Characters)), NEW texts \in Seq(Seq(Characters)),
           Len(names) = Len(texts)
    PROVE  TurnParts(names, texts) \in Seq(Seq(AllTokens))
           /\ Len(TurnParts(names, texts)) = Len(names)
<1>. DEFINE n == Len(names)
            f(i) == (names[i] \o <<",">>) \o Encoded(texts[i])
            w == [i \in 1..n |-> f(i)]
<1>1. /\ n \in Nat /\ DOMAIN names = 1..n
      /\ \A i \in 1..n : names[i] \in Seq(Characters) /\ texts[i] \in Seq(Characters)
  OBVIOUS
<1>2. ASSUME NEW i \in 1..n PROVE f(i) \in Seq(AllTokens)
  <2>1. names[i] \in Seq(AllTokens) /\ Encoded(texts[i]) \in Seq(AllTokens) /\ "," \in AllTokens
    BY <1>1, EncodedIsDecoded, StyleTokens
  <2>. DEFINE a == names[i]
              b == Encoded(texts[i])
              c == ","
  <2>. HIDE DEF a, b, c
  <2>2. (a \o <<c>>) \o b \in Seq(AllTokens)
    <3>1. a \in Seq(AllTokens) /\ b \in Seq(AllTokens) /\ c \in AllTokens
      BY <2>1 DEF a, b, c
    <3>2. <<c>> \in Seq(AllTokens)
      BY <3>1
    <3>3. a \o <<c>> \in Seq(AllTokens)
      BY <3>1, <3>2
    <3>. QED BY <3>1, <3>3
  <2>. QED BY <2>2 DEF a, b, c
<1>. HIDE DEF f
<1>3. TurnParts(names, texts) = w
  BY <1>1 DEF TurnParts, f
<1>. HIDE DEF n
<1>4. w \in Seq(Seq(AllTokens)) /\ Len(w) = n
  BY <1>1, <1>2
<1>. QED BY <1>3, <1>4 DEF n

\* One name and text more are one part more.
LEMMA TurnAppend ==
    ASSUME NEW names \in Seq(Seq(Characters)), NEW texts \in Seq(Seq(Characters)),
           Len(names) = Len(texts), NEW k \in Seq(Characters), NEW t \in Seq(Characters)
    PROVE  TurnParts(Append(names, k), Append(texts, t)) =
             Append(TurnParts(names, texts), (k \o <<",">>) \o Encoded(t))
<1>. DEFINE n == Len(names)
            N == Append(names, k)
            T == Append(texts, t)
            x == (k \o <<",">>) \o Encoded(t)
            p == TurnParts(names, texts)
            a == TurnParts(N, T)
            b == Append(p, x)
            S == Seq(AllTokens)
            C == Seq(Characters)
<1>1. /\ n \in Nat /\ DOMAIN names = 1..n /\ DOMAIN N = 1..(n + 1)
      /\ N \in Seq(C) /\ T \in Seq(C) /\ Len(N) = n + 1 /\ Len(T) = n + 1
      /\ N[n + 1] = k /\ T[n + 1] = t
      /\ \A i \in 1..n : N[i] = names[i] /\ T[i] = texts[i]
  <2>. HIDE DEF C
  <2>1. names \in Seq(C) /\ texts \in Seq(C) /\ k \in C /\ t \in C
    BY DEF C
  <2>. QED BY <2>1
<1>2. p \in Seq(S) /\ Len(p) = n
  BY TurnTyped
<1>. HIDE DEF N, T
<1>3. a \in Seq(S) /\ Len(a) = n + 1
  BY <1>1, TurnTyped
<1>4. a[n + 1] = x
  <2>1. n + 1 \in DOMAIN N
    BY <1>1
  <2>. QED BY <1>1, <2>1 DEF TurnParts
<1>5. \A i \in 1..n : a[i] = p[i]
  <2>1. ASSUME NEW i \in 1..n PROVE a[i] = p[i]
    <3>1. i \in DOMAIN N /\ i \in DOMAIN names /\ N[i] = names[i] /\ T[i] = texts[i]
      BY <1>1
    <3>. HIDE DEF n
    <3>. QED BY <3>1 DEF TurnParts
  <2>. QED BY <2>1
<1>6. x \in S
  <2>1. n + 1 \in DOMAIN a
    BY <1>1, <1>3
  <2>. HIDE DEF a, x, S
  <2>. QED BY <1>3, <1>4, <2>1
<1>. HIDE DEF p, a, x, S, n
<1>0. n \in Nat
  BY <1>1
<1>7. b \in Seq(S) /\ Len(b) = n + 1 /\ b[n + 1] = x /\ \A i \in 1..n : b[i] = p[i]
  BY <1>0, <1>2, <1>6
<1>. HIDE DEF b
<1>8. ASSUME NEW i \in 1..(n + 1) PROVE a[i] = b[i]
  <2>1. i \in 1..n \/ i = n + 1
    BY <1>1
  <2>. QED BY <1>4, <1>5, <1>7, <2>1
<1>9. a = b
  BY <1>1, <1>3, <1>7, <1>8, SeqEqual
<1>. QED BY <1>9 DEF a, b, p, x, N, T

\* What is written in turn, and what it is split into.
TurnText(names, texts) == Joined(TurnParts(names, texts), ",")
TurnSplit(names, texts) == Split(TurnText(names, texts), ",")

\* One name and text more are two parts more.
LEMMA TurnNext ==
    ASSUME NEW names \in Seq(Seq(Characters)) \ {<<>>}, NEW texts \in Seq(Seq(Characters)),
           Len(names) = Len(texts), NEW k \in Seq(Characters), NEW t \in Seq(Characters),
           CommaFree(k)
    PROVE  TurnSplit(Append(names, k), Append(texts, t)) =
             Append(Append(TurnSplit(names, texts), k), Encoded(t))
<1>. DEFINE c == ","
            e == Encoded(t)
            p == TurnParts(names, texts)
            j == Joined(p, c)
            S == Seq(AllTokens)
<1>1. c \in AllTokens /\ k \in S /\ e \in S /\ Free(e, c) /\ Free(k, c)
  <2>1. "," \in AllTokens /\ "," \in DOMAIN Escape
    BY StyleTokens
  <2>. QED BY <2>1, EncodedIsDecoded, EncodedFree DEF CommaFree
<1>2. p \in Seq(S) /\ p # <<>>
  <2>1. p \in Seq(S) /\ Len(p) = Len(names)
    BY TurnTyped
  <2>2. Len(names) # 0
    OBVIOUS
  <2>. HIDE DEF p, S
  <2>. QED BY <2>1, <2>2
<1>3. TurnParts(Append(names, k), Append(texts, t)) = Append(p, (k \o <<c>>) \o e)
  BY TurnAppend
<1>. HIDE DEF c, e, p
<1>4. (k \o <<c>>) \o e \in S
  <2>1. <<c>> \in S
    BY <1>1
  <2>2. k \o <<c>> \in S
    BY <1>1, <2>1
  <2>. QED BY <1>1, <2>2
<1>5. j \in S /\ Joined(Append(p, (k \o <<c>>) \o e), c) = (j \o <<c>>) \o ((k \o <<c>>) \o e)
  <2>. DEFINE x == (k \o <<c>>) \o e
  <2>1. x \in Seq(AllTokens) /\ p \in Seq(Seq(AllTokens)) /\ p # <<>>
    BY <1>2, <1>4
  <2>. HIDE DEF x
  <2>2. /\ j \in Seq(AllTokens)
        /\ Joined(Append(p, x), c) = IF p = <<>> THEN x ELSE (j \o <<c>>) \o x
    <3>1. c \in AllTokens
      BY <1>1
    <3>2. JoinedGrows(AllTokens, p, x, c)
      BY <2>1, <3>1, JoinedNext
    <3>. QED BY <2>1, <3>2, Zenon DEF JoinedGrows
  <2>. QED BY <2>1, <2>2 DEF x
<1>. HIDE DEF j
<1>6. (j \o <<c>>) \o ((k \o <<c>>) \o e) = ((((j \o <<c>>) \o k) \o <<c>>) \o e)
  <2>1. j \in Seq(AllTokens) /\ k \in Seq(AllTokens) /\ e \in Seq(AllTokens)
    BY <1>1, <1>5
  <2>2. Rearranged(j, k, e, c)
    BY <1>1, <2>1, InARow
  <2>. QED BY <2>2, Zenon DEF Rearranged
<1>7. Split((j \o <<c>>) \o k, c) = Append(Split(j, c), k)
  BY <1>1, <1>5, SplitBehind
<1>. DEFINE m == (j \o <<c>>) \o k
<1>8. m \in S
  BY <1>1, <1>5
<1>. HIDE DEF m
<1>9. Split((m \o <<c>>) \o e, c) = Append(Split(m, c), e)
  BY <1>1, <1>8, SplitBehind
<1>. QED BY <1>3, <1>5, <1>6, <1>7, <1>9 DEF TurnSplit, TurnText, m, e, p, c, j

\* A name and a text are two parts.
LEMMA TurnOne ==
    ASSUME NEW k \in Seq(Characters), NEW t \in Seq(Characters), CommaFree(k)
    PROVE  InTurn(TurnSplit(<<k>>, <<t>>), <<k>>, <<t>>)
<1>. DEFINE c == ","
            e == Encoded(t)
            p == TurnParts(<<k>>, <<t>>)
            x == (k \o <<c>>) \o e
            S == Seq(AllTokens)
<1>1. c \in AllTokens /\ k \in S /\ e \in S /\ Free(e, c) /\ Free(k, c)
  <2>1. "," \in AllTokens /\ "," \in DOMAIN Escape
    BY StyleTokens
  <2>. QED BY <2>1, EncodedIsDecoded, EncodedFree DEF CommaFree
<1>2. p = <<x>>
  <2>1. DOMAIN <<k>> = {1} /\ <<k>>[1] = k /\ <<t>>[1] = t
    OBVIOUS
  <2>2. p = [i \in {1} |-> x]
    BY <2>1 DEF TurnParts
  <2>. HIDE DEF x
  <2>. QED BY <2>2
<1>. HIDE DEF c, e, p
<1>3. x \in S
  <2>1. <<c>> \in S
    BY <1>1
  <2>2. k \o <<c>> \in S
    BY <1>1, <2>1
  <2>. QED BY <1>1, <2>2
<1>4. Joined(<<x>>, c) = x
  <2>. HIDE DEF x
  <2>. QED BY <1>1, <1>3, JoinedOne
<1>5. Split(x, c) = <<k, e>>
  BY <1>1, SplitTwo
<1>. DEFINE q == <<k, e>>
<1>6. q \in Seq(S) /\ Len(q) = 2 /\ q[1] = k /\ q[2] = e
  BY <1>1
<1>. HIDE DEF q
<1>7. Len(<<k>>) = 1 /\ DOMAIN <<k>> = {1} /\ <<k>>[1] = k /\ <<t>>[1] = t
  OBVIOUS
<1>. DEFINE N == <<k>>
            T == <<t>>
<1>. HIDE DEF N, T, x
<1>8. Len(N) = 1 /\ DOMAIN N = {1} /\ N[1] = k /\ T[1] = t
  BY <1>7 DEF N, T
<1>9. q[2 * 1 - 1] = N[1] /\ q[2 * 1] = Encoded(T[1])
  BY <1>6, <1>8 DEF e
<1>10. InTurn(q, N, T)
  BY <1>6, <1>8, <1>9 DEF InTurn
<1>11. TurnSplit(N, T) = q
  BY <1>2, <1>4, <1>5 DEF TurnSplit, TurnText, q, N, T, p, c
<1>. QED BY <1>10, <1>11 DEF N, T

\* The last of each, and those before them.
EndsOf(n, p, q) ==
    \E a, b \in Seq(Seq(Characters)), k, t \in Seq(Characters) :
        /\ p = Append(a, k) /\ q = Append(b, t) /\ Len(a) = n /\ Len(b) = n
        /\ CommaFree(k) /\ \A i \in DOMAIN a : CommaFree(a[i])

\* Names and texts joined in turn are cut into names and texts in turn.
LEMMA TurnRead ==
    ASSUME NEW names \in Seq(Seq(Characters)), NEW texts \in Seq(Seq(Characters)),
           names # <<>>, Len(names) = Len(texts), \A i \in DOMAIN names : CommaFree(names[i])
    PROVE  InTurn(TurnSplit(names, texts), names, texts)
<1>. DEFINE Ok(p) == \A i \in DOMAIN p : CommaFree(p[i])
            C == Seq(Characters)
            G == {n \in Nat : \A p, q \in Seq(C) :
                     Len(p) = n + 1 /\ Len(q) = n + 1 /\ Ok(p) => InTurn(TurnSplit(p, q), p, q)}
<1>1. ASSUME NEW n \in Nat, NEW p \in Seq(C), NEW q \in Seq(C), Len(p) = n + 1, Len(q) = n + 1, Ok(p)
      PROVE  EndsOf(n, p, q)
  <2>. HIDE DEF C
  <2>1. PICK a \in Seq(C), k \in C :
           /\ p = Append(a, k) /\ Len(a) = n /\ k = p[n + 1] /\ n + 1 \in DOMAIN p
           /\ \A i \in DOMAIN a : a[i] = p[i] /\ i \in DOMAIN p
    BY <1>1, LastText
  <2>2. PICK b \in Seq(C), t \in C :
           /\ q = Append(b, t) /\ Len(b) = n /\ t = q[n + 1] /\ n + 1 \in DOMAIN q
           /\ \A i \in DOMAIN b : b[i] = q[i] /\ i \in DOMAIN q
    BY <1>1, LastText
  <2>3. CommaFree(k) /\ \A i \in DOMAIN a : CommaFree(a[i])
    BY <1>1, <2>1
  <2>4. p = Append(a, k) /\ q = Append(b, t) /\ Len(a) = n /\ Len(b) = n
    BY <2>1, <2>2
  <2>. QED BY <2>3, <2>4 DEF EndsOf, C
<1>2. 0 \in G
  <2>1. ASSUME NEW p \in Seq(C), NEW q \in Seq(C), Len(p) = 0 + 1, Len(q) = 0 + 1, Ok(p)
        PROVE  InTurn(TurnSplit(p, q), p, q)
    <3>0. EndsOf(0, p, q)
      <4>. HIDE DEF C, Ok
      <4>. QED BY <1>1, <2>1
    <3>1. PICK a \in Seq(C), b \in Seq(C), k \in C, t \in C :
             p = Append(a, k) /\ q = Append(b, t) /\ Len(a) = 0 /\ Len(b) = 0 /\ CommaFree(k)
      BY <3>0 DEF EndsOf
    <3>2. p = <<k>> /\ q = <<t>>
      <4>. HIDE DEF C
      <4>. QED BY <3>1
    <3>. QED BY <3>1, <3>2, TurnOne
  <2>. HIDE DEF Ok, C
  <2>. QED BY <2>1
<1>3. ASSUME NEW n \in Nat, n \in G PROVE n + 1 \in G
  <2>1. ASSUME NEW p \in Seq(C), NEW q \in Seq(C), Len(p) = (n + 1) + 1, Len(q) = (n + 1) + 1, Ok(p)
        PROVE  InTurn(TurnSplit(p, q), p, q)
    <3>. DEFINE m == n + 1
    <3>0. m \in Nat /\ Len(p) = m + 1 /\ Len(q) = m + 1 /\ m # 0
      BY <2>1
    <3>1. EndsOf(m, p, q)
      <4>. HIDE DEF m, C, Ok
      <4>. QED BY <1>1, <2>1, <3>0
    <3>2. PICK a \in Seq(C), b \in Seq(C), k \in C, t \in C :
             /\ p = Append(a, k) /\ q = Append(b, t) /\ Len(a) = m /\ Len(b) = m
             /\ CommaFree(k) /\ Ok(a)
      BY <3>1 DEF EndsOf
    <3>. HIDE DEF Ok
    <3>3. InTurn(TurnSplit(a, b), a, b)
      BY <1>3, <3>2
    <3>4. a # <<>>
      <4>. HIDE DEF C
      <4>. QED BY <3>0, <3>2
    <3>. HIDE DEF m, G
    <3>5. TurnSplit(p, q) = Append(Append(TurnSplit(a, b), k), Encoded(t))
      <4>1. a \in Seq(Seq(Characters)) \ {<<>>} /\ b \in Seq(Seq(Characters))
        BY <3>4
      <4>2. Len(a) = Len(b)
        BY <3>2
      <4>3. TurnSplit(Append(a, k), Append(b, t)) = Append(Append(TurnSplit(a, b), k), Encoded(t))
        BY <3>2, <4>1, <4>2, TurnNext, ZenonT(30)
      <4>. QED BY <3>2, <4>3
    <3>6. InTurn(Append(Append(TurnSplit(a, b), k), Encoded(t)), p, q)
      BY <3>2, <3>3, InTurnNext
    <3>. QED BY <3>5, <3>6
  <2>. HIDE DEF Ok, C
  <2>. QED BY <2>1
<1>. HIDE DEF G
<1>4. Nat \subseteq G
  BY <1>2, <1>3, SetInduction
<1>5. Len(names) \in Nat /\ Len(names) # 0
  OBVIOUS
<1>6. Len(names) - 1 \in G
  BY <1>4, <1>5
<1>7. (Len(names) - 1) + 1 = Len(names)
  BY <1>5
<1>. QED BY <1>6, <1>7 DEF G

\* The pairs of an object, their keys and their values.
Pairs == [key : Seq(Characters), value : Seq(Characters)]
KeysOf(value) == [i \in DOMAIN value |-> value[i].key]
ValuesOf(value) == [i \in DOMAIN value |-> value[i].value]
PairAt(value, i, key, text) == value[i] = [key |-> key, value |-> text]

\* The keys and the values of pairs.
LEMMA PairsSplit ==
    ASSUME NEW value \in Seq(Pairs) \ {<<>>}
    PROVE  /\ KeysOf(value) \in Seq(Seq(Characters)) /\ ValuesOf(value) \in Seq(Seq(Characters))
           /\ KeysOf(value) # <<>> /\ Len(KeysOf(value)) = Len(ValuesOf(value))
           /\ DOMAIN KeysOf(value) = DOMAIN value /\ DOMAIN ValuesOf(value) = DOMAIN value
           /\ \A i \in DOMAIN value :
                 /\ PairAt(value, i, KeysOf(value)[i], ValuesOf(value)[i])
                 /\ KeysOf(value)[i] = value[i].key /\ ValuesOf(value)[i] = value[i].value
<1>. DEFINE n == Len(value)
            k(i) == value[i].key
            v(i) == value[i].value
            K == [i \in 1..n |-> k(i)]
            V == [i \in 1..n |-> v(i)]
            C == Seq(Characters)
<1>1. n \in Nat /\ n > 0 /\ DOMAIN value = 1..n /\ \A i \in 1..n : value[i] \in Pairs
  OBVIOUS
<1>2. ASSUME NEW i \in 1..n
      PROVE  k(i) \in C /\ v(i) \in C /\ value[i] = [key |-> k(i), value |-> v(i)]
  <2>1. value[i] \in [key : C, value : C]
    BY <1>1 DEF Pairs
  <2>. DEFINE p == value[i]
  <2>. HIDE DEF p, C
  <2>2. p \in [key : C, value : C]
    BY <2>1 DEF p
  <2>3. p.key \in C /\ p.value \in C /\ p = [key |-> p.key, value |-> p.value]
    BY <2>2
  <2>. QED BY <2>3 DEF p
<1>3. KeysOf(value) = K /\ ValuesOf(value) = V
  BY <1>1 DEF KeysOf, ValuesOf
<1>. HIDE DEF k, v, C, n
<1>4. K \in Seq(C) /\ V \in Seq(C) /\ Len(K) = n /\ Len(V) = n
  BY <1>1, <1>2
<1>5. DOMAIN K = 1..n /\ DOMAIN V = 1..n /\ \A i \in 1..n : K[i] = k(i) /\ V[i] = v(i)
  OBVIOUS
<1>. HIDE DEF K, V
<1>6. K # <<>>
  BY <1>1, <1>4
<1>7. \A i \in 1..n : PairAt(value, i, K[i], V[i]) /\ K[i] = value[i].key /\ V[i] = value[i].value
  <2>1. \A i \in 1..n : PairAt(value, i, k(i), v(i)) /\ k(i) = value[i].key /\ v(i) = value[i].value
    BY <1>2 DEF PairAt, k, v
  <2>. QED BY <1>5, <2>1
<1>. QED BY <1>1, <1>3, <1>4, <1>5, <1>6, <1>7 DEF C

\* name[key]
DeepName(name, key) == name \o <<"[">> \o key \o <<"]">>
DeepKey(name, deep) == SubSeq(deep, Len(name) + 2, Len(deep) - 1)

\* The key is what is between the brackets.
LEMMA BetweenBrackets ==
    ASSUME NEW X, NEW a \in X, NEW b \in X, NEW name \in Seq(X), NEW key \in Seq(X)
    PROVE  /\ ((name \o <<a>>) \o key) \o <<b>> \in Seq(X)
           /\ DeepKey(name, ((name \o <<a>>) \o key) \o <<b>>) = key
<1>. DEFINE m == Len(name)
            l == Len(key)
            u == name \o <<a>>
            w == u \o key
            s == w \o <<b>>
            d == SubSeq(s, m + 2, (m + l + 2) - 1)
<1>1. m \in Nat /\ l \in Nat /\ m = Len(name) /\ l = Len(key)
  OBVIOUS
<1>2. u \in Seq(X) /\ Len(u) = m + 1
  OBVIOUS
<1>. HIDE DEF u, m, l
<1>3. w \in Seq(X) /\ Len(w) = m + l + 1 /\ \A i \in 1..l : w[i + (m + 1)] = key[i]
  BY <1>1, <1>2
<1>. HIDE DEF w
<1>4. s \in Seq(X) /\ Len(s) = m + l + 2 /\ \A i \in 1..(m + l + 1) : s[i] = w[i]
  <2>. DEFINE r == m + l + 1
  <2>1. r \in Nat /\ w \in Seq(X) /\ Len(w) = r
    BY <1>1, <1>3
  <2>. HIDE DEF r
  <2>2. s \in Seq(X) /\ Len(s) = r + 1 /\ \A i \in 1..r : s[i] = w[i]
    BY <2>1
  <2>3. r + 1 = m + l + 2 /\ r = m + l + 1
    BY <1>1 DEF r
  <2>. HIDE DEF s
  <2>. QED BY <2>2, <2>3
<1>. HIDE DEF s
<1>5. d \in Seq(X) /\ Len(d) = l /\ \A i \in 1..l : d[i] = s[i + (m + 1)]
  BY <1>1, <1>4
<1>6. \A i \in 1..l : i + (m + 1) \in 1..(m + l + 1)
  BY <1>1
<1>. HIDE DEF d
<1>7. \A i \in 1..l : d[i] = key[i]
  BY <1>3, <1>4, <1>5, <1>6
<1>8. d = key
  BY <1>1, <1>5, <1>7, SeqEqual
<1>9. DeepKey(name, s) = d
  BY <1>1, <1>4 DEF DeepKey, d
<1>. QED BY <1>4, <1>8, <1>9 DEF s, w, u

\* name[key] is a name of which the key is read.
LEMMA DeepNameRead ==
    ASSUME NEW name, IsName(name), NEW key, IsName(key)
    PROVE  /\ DeepName(name, key) \in Seq(Characters) /\ DeepKey(name, DeepName(name, key)) = key
           /\ Free(DeepName(name, key), "=") /\ Free(DeepName(name, key), "&")
<1>. DEFINE a == "["
            b == "]"
            u == name \o <<a>>
            w == u \o key
            s == w \o <<b>>
<1>1. a \in Characters /\ b \in Characters
  <2>1. "[" \in Escaped /\ "]" \in Names /\ DOMAIN Escape = Escaped
    BY DEF Names, Escaped, Escape
  <2>. QED BY <2>1, EscapeTable
<1>2. a # "=" /\ a # "&" /\ b # "=" /\ b # "&"
  OBVIOUS
<1>3. /\ name \in Seq(Characters) /\ key \in Seq(Characters)
      /\ Free(name, "=") /\ Free(name, "&") /\ Free(key, "=") /\ Free(key, "&")
  BY DEF IsName
<1>. HIDE DEF a, b
<1>4. s \in Seq(Characters) /\ DeepKey(name, s) = key
  BY <1>1, <1>3, BetweenBrackets
<1>5. /\ <<a>> \in Seq(Characters) /\ <<b>> \in Seq(Characters)
      /\ u \in Seq(Characters) /\ w \in Seq(Characters)
  <2>1. <<a>> \in Seq(Characters) /\ <<b>> \in Seq(Characters)
    BY <1>1
  <2>2. u \in Seq(Characters)
    BY <1>3, <2>1
  <2>. HIDE DEF u
  <2>. QED BY <1>3, <2>1, <2>2
<1>6. ASSUME NEW c, a # c, b # c, Free(name, c), Free(key, c) PROVE Free(s, c)
  <2>1. Free(<<a>>, c) /\ Free(<<b>>, c)
    BY <1>6, FreeOne
  <2>2. Free(u, c)
    BY <1>3, <1>5, <1>6, <2>1, FreeConcat
  <2>. HIDE DEF u
  <2>3. Free(w, c)
    BY <1>3, <1>5, <1>6, <2>2, FreeConcat
  <2>. HIDE DEF w
  <2>. QED BY <1>5, <2>1, <2>3, FreeConcat
<1>7. Free(s, "=") /\ Free(s, "&")
  BY <1>2, <1>3, <1>6
<1>. QED BY <1>4, <1>7 DEF DeepName, a, b

\* OpenAPI's styles of an object.
ObjectStyles == {"label", "matrix", "simple", "form", "deepObject"}

\* The pairs read out of parts: key=value, or name[key]=value.
KeyOf(deep, name, read) == IF deep THEN DeepKey(name, read) ELSE read
PairsOf(deep, name, parts) ==
    [i \in DOMAIN parts |-> [key |-> KeyOf(deep, name, PairRead(parts[i]).name),
                             value |-> PairRead(parts[i]).value]]
PairOf(deep, name, part) ==
    [key |-> KeyOf(deep, name, PairRead(part).name), value |-> PairRead(part).value]

\* A pair read of its part.
LEMMA PairOfIs ==
    ASSUME NEW deep, NEW name, NEW part, NEW read, NEW text, PairIs(part, read, text)
    PROVE  PairOf(deep, name, part) = [key |-> KeyOf(deep, name, read), value |-> text]
<1>. DEFINE p == PairRead(part)
<1>1. p = [name |-> read, value |-> text]
  BY DEF PairIs
<1>2. PairOf(deep, name, part) = [key |-> KeyOf(deep, name, p.name), value |-> p.value]
  BY DEF PairOf
<1>. HIDE DEF p
<1>3. p.name = read /\ p.value = text
  BY <1>1
<1>. QED BY <1>2, <1>3

\* The pairs are read of the parts they were written in.
PairsBack(deep, name, names, value, c) ==
    PairsOf(deep, name, Split(Joined(PairParts(names, ValuesOf(value)), c), c)) = value

\* Pairs written as name=value, between separators, are read back.
LEMMA PairsAreReadBack ==
    ASSUME NEW deep, NEW name, NEW value \in Seq(Pairs) \ {<<>>},
           NEW names \in Seq(Seq(Characters)), DOMAIN names = DOMAIN value,
           NEW c \in AllTokens, c # "=",
           \A i \in DOMAIN names :
              /\ Free(names[i], "=") /\ Free(names[i], c) /\ Free(Encoded(ValuesOf(value)[i]), c)
              /\ KeyOf(deep, name, names[i]) = KeysOf(value)[i]
    PROVE  /\ PairsBack(deep, name, names, value, c)
           /\ Joined(PairParts(names, ValuesOf(value)), c) \in Seq(AllTokens)
<1>. DEFINE n == Len(value)
            K == KeysOf(value)
            V == ValuesOf(value)
            P == PairParts(names, V)
            r(i) == PairOf(deep, name, P[i])
<1>1. n \in Nat /\ n > 0 /\ DOMAIN value = 1..n
  OBVIOUS
<1>2. V \in Seq(Seq(Characters)) /\ DOMAIN V = 1..n /\ \A i \in 1..n : PairAt(value, i, K[i], V[i])
  BY <1>1, PairsSplit
<1>3. DOMAIN names = DOMAIN V /\ DOMAIN names = 1..n
  BY <1>1, <1>2
<1>. HIDE DEF K, V, n
<1>4. names # <<>>
  BY <1>1, <1>3
<1>5. /\ Split(Joined(P, c), c) = P /\ Joined(P, c) \in Seq(AllTokens) /\ DOMAIN P = DOMAIN names
      /\ \A i \in DOMAIN names : PairIs(P[i], names[i], V[i])
  <2>1. \A i \in DOMAIN names : Free(names[i], "=") /\ Free(names[i], c) /\ Free(Encoded(V[i]), c)
    BY DEF V
  <2>. QED BY <1>2, <1>3, <1>4, <2>1, PairElements, Zenon
<1>. HIDE DEF P
<1>6. ASSUME NEW i \in 1..n PROVE r(i) = value[i]
  <2>1. r(i) = [key |-> KeyOf(deep, name, names[i]), value |-> V[i]]
    BY <1>3, <1>5, PairOfIs
  <2>2. KeyOf(deep, name, names[i]) = K[i]
    BY <1>3 DEF K
  <2>3. value[i] = [key |-> K[i], value |-> V[i]]
    BY <1>2 DEF PairAt
  <2>. QED BY <2>1, <2>2, <2>3
<1>7. PairsOf(deep, name, P) = [i \in 1..n |-> r(i)]
  BY <1>3, <1>5 DEF PairsOf, PairOf
<1>8. value = [i \in 1..n |-> value[i]]
  BY <1>1
<1>. HIDE DEF r
<1>9. [i \in 1..n |-> r(i)] = [i \in 1..n |-> value[i]]
  BY <1>6
<1>10. PairsOf(deep, name, P) = value
  BY <1>7, <1>8, <1>9, Zenon
<1>11. PairsOf(deep, name, Split(Joined(P, c), c)) = value
  BY <1>5, <1>10, Zenon
<1>. QED BY <1>5, <1>11, Zenon DEF PairsBack, P, V

\* The pairs read out of keys and values in turn.
InTurnOf(parts) ==
    [i \in 1..(Len(parts) \div 2) |->
        [key |-> Decoded(parts[2 * i - 1]), value |-> Decoded(parts[2 * i])]]
TurnBack(value) == InTurnOf(TurnSplit(KeysOf(value), ValuesOf(value))) = value

\* Pairs written in turn are read back.
LEMMA TurnIsReadBack ==
    ASSUME NEW value \in Seq(Pairs) \ {<<>>}, \A i \in DOMAIN value : CommaFree(KeysOf(value)[i])
    PROVE  TurnBack(value)
<1>. DEFINE n == Len(value)
            K == KeysOf(value)
            V == ValuesOf(value)
            P == TurnSplit(K, V)
            r(i) == [key |-> Decoded(P[2 * i - 1]), value |-> Decoded(P[2 * i])]
<1>1. n \in Nat /\ n > 0 /\ DOMAIN value = 1..n
  OBVIOUS
<1>2. /\ K \in Seq(Seq(Characters)) /\ V \in Seq(Seq(Characters)) /\ Len(K) = Len(V) /\ K # <<>>
      /\ DOMAIN K = 1..n /\ DOMAIN V = 1..n /\ \A i \in 1..n : PairAt(value, i, K[i], V[i])
  BY <1>1, PairsSplit
<1>3. \A i \in DOMAIN K : CommaFree(K[i])
  BY <1>1, <1>2
<1>. HIDE DEF K, V
<1>4. InTurn(P, K, V)
  BY <1>2, <1>3, TurnRead
<1>5. Len(K) = n
  <2>1. DOMAIN K = 1..Len(K) /\ Len(K) \in Nat
    BY <1>2
  <2>. HIDE DEF n
  <2>. QED BY <1>1, <1>2, <2>1
<1>. HIDE DEF P, n
<1>6. Len(P) = 2 * n /\ \A i \in 1..n : P[2 * i - 1] = K[i] /\ P[2 * i] = Encoded(V[i])
  BY <1>2, <1>4, <1>5 DEF InTurn
<1>7. Len(P) \div 2 = n
  BY <1>1, <1>6
<1>8. ASSUME NEW i \in 1..n PROVE r(i) = value[i]
  <2>1. K[i] \in Seq(Characters) /\ V[i] \in Seq(Characters)
    <3>. DEFINE C == Seq(Characters)
    <3>. HIDE DEF C
    <3>1. K \in Seq(C) /\ V \in Seq(C) /\ i \in DOMAIN K /\ i \in DOMAIN V
      BY <1>2 DEF C
    <3>2. K[i] \in C /\ V[i] \in C
      BY <3>1
    <3>. QED BY <3>2 DEF C
  <2>2. Decoded(K[i]) = K[i] /\ Decoded(Encoded(V[i])) = V[i]
    BY <2>1, EncodedIsDecoded, Zenon
  <2>3. r(i) = [key |-> K[i], value |-> V[i]]
    BY <1>6, <2>2, Zenon
  <2>4. value[i] = [key |-> K[i], value |-> V[i]]
    BY <1>2 DEF PairAt
  <2>. QED BY <2>3, <2>4, Zenon
<1>9. InTurnOf(P) = [i \in 1..n |-> r(i)]
  BY <1>7 DEF InTurnOf
<1>10. value = [i \in 1..n |-> value[i]]
  BY <1>1
<1>. HIDE DEF r
<1>11. [i \in 1..n |-> r(i)] = [i \in 1..n |-> value[i]]
  BY <1>8
<1>12. InTurnOf(P) = value
  BY <1>9, <1>10, <1>11, Zenon
<1>. QED BY <1>12, Zenon DEF TurnBack, P, K, V

\* Objects of any number of pairs are read back from every style as they were written
\* (serializeObjectParam, core/pathSerializer.gen.ts:127-171).
THEOREM ObjectsAreReadBack ==
    ASSUME NEW style \in ObjectStyles, NEW explode \in BOOLEAN, NEW name, IsName(name),
           NEW value \in Seq(Pairs) \ {<<>>},
           \A i \in DOMAIN value : IsName(value[i].key) /\ Fits([style |-> style], value[i].value)
    PROVE  ObjectRead(style, explode, name, serializeObjectParam(style, explode, name, value)) = value
<1>. DEFINE K == KeysOf(value)
            V == ValuesOf(value)
            D == [i \in DOMAIN value |-> DeepName(name, value[i].key)]
            text == serializeObjectParam(style, explode, name, value)
            keys(c) == Joined(PairParts(K, V), c)
            deeps(c) == Joined(PairParts(D, V), c)
            turns == TurnText(K, V)
<1>1. /\ K \in Seq(Seq(Characters)) /\ V \in Seq(Seq(Characters)) /\ K # <<>> /\ Len(K) = Len(V)
      /\ DOMAIN K = DOMAIN value /\ DOMAIN V = DOMAIN value
      /\ \A i \in DOMAIN value : K[i] = value[i].key /\ V[i] = value[i].value
  BY PairsSplit
<1>2. ASSUME NEW i \in DOMAIN value
      PROVE  /\ IsName(K[i]) /\ V[i] \in Seq(Characters) /\ Fits([style |-> style], V[i])
  <2>1. IsName(value[i].key) /\ Fits([style |-> style], value[i].value)
    OBVIOUS
  <2>2. value[i].value \in Seq(Characters)
    <3>. DEFINE p == value[i]
                C == Seq(Characters)
    <3>0. p \in Pairs
      OBVIOUS
    <3>1. p \in [key : C, value : C]
      BY <3>0 DEF Pairs
    <3>. HIDE DEF p, C
    <3>2. p.value \in C
      BY <3>1
    <3>. QED BY <3>2 DEF p, C
  <2>. QED BY <1>1, <2>1, <2>2
<1>. HIDE DEF K, V
<1>3. ASSUME NEW i \in DOMAIN value
      PROVE  /\ \A c \in PartSeparators : Free(K[i], c) /\ Free(Encoded(V[i]), c)
             /\ Free(K[i], "=") /\ Free(K[i], ".") /\ Free(Encoded(V[i]), "=")
             /\ style = "label" => Free(Encoded(V[i]), ".")
  <2>1. \A c \in PartSeparators : c \in DOMAIN Escape /\ Free(K[i], c)
    <3>1. \A c \in PartSeparators : c \in DOMAIN Escape
      BY EscapeTable DEF PartSeparators
    <3>. QED BY <1>2, <3>1 DEF IsName, PartSeparators
  <2>2. \A c \in DOMAIN Escape : Free(Encoded(V[i]), c)
    BY <1>2, EncodedFree
  <2>3. Free(K[i], "=") /\ Free(K[i], ".")
    BY <1>2 DEF IsName
  <2>4. style = "label" => Free(Encoded(V[i]), ".")
    <3>1. style = "label" => Free(V[i], ".")
      BY <1>2, FitsFree
    <3>2. "." \in Characters
      BY EscapeTable DEF Names
    <3>. QED BY <1>2, <3>1, <3>2, EncodedFree
  <2>5. Free(Encoded(V[i]), "=")
    BY <2>2, StyleTokens
  <2>. QED BY <2>1, <2>2, <2>3, <2>4, <2>5
<1>4. D \in Seq(Seq(Characters)) /\ DOMAIN D = DOMAIN value
      /\ \A i \in DOMAIN value : /\ DeepKey(name, D[i]) = K[i]
                                 /\ Free(D[i], "=") /\ Free(D[i], "&")
  <2>. DEFINE n == Len(value)
              d(i) == DeepName(name, K[i])
              w == [i \in 1..n |-> d(i)]
  <2>1. n \in Nat /\ DOMAIN value = 1..n
    OBVIOUS
  <2>2. \A i \in 1..n : /\ d(i) \in Seq(Characters) /\ DeepKey(name, d(i)) = K[i]
                        /\ Free(d(i), "=") /\ Free(d(i), "&")
    BY <1>2, <2>1, DeepNameRead
  <2>3. D = w
    <3>1. D = [i \in 1..n |-> DeepName(name, value[i].key)]
      BY <2>1
    <3>2. \A i \in 1..n : value[i].key = K[i]
      BY <1>1, <2>1
    <3>. QED BY <3>1, <3>2
  <2>. HIDE DEF n, d
  <2>4. w \in Seq(Seq(Characters)) /\ DOMAIN w = 1..n
    BY <2>1, <2>2
  <2>5. \A i \in 1..n : w[i] = d(i)
    OBVIOUS
  <2>. HIDE DEF w
  <2>. QED BY <2>1, <2>2, <2>3, <2>4, <2>5
<1>9. PairParts(D, V) = [i \in DOMAIN value |->
                           serializePrimitiveParam(DeepName(name, value[i].key), value[i].value)]
  BY <1>1 DEF PairParts
<1>10. PairParts(K, V) = [i \in DOMAIN value |->
                            serializePrimitiveParam(value[i].key, value[i].value)]
  BY <1>1 DEF PairParts
<1>11. TurnParts(K, V) = [i \in DOMAIN value |->
                            (value[i].key \o <<",">>) \o Encoded(value[i].value)]
  BY <1>1 DEF TurnParts
<1>. HIDE DEF D
<1>5. ASSUME NEW c \in AllTokens, c # "=",
             \A i \in DOMAIN value : Free(K[i], c) /\ Free(Encoded(V[i]), c)
      PROVE  PairsBack(FALSE, name, K, value, c) /\ keys(c) \in Seq(AllTokens)
  <2>1. \A i \in DOMAIN K :
           /\ Free(K[i], "=") /\ Free(K[i], c) /\ Free(Encoded(ValuesOf(value)[i]), c)
           /\ KeyOf(FALSE, name, K[i]) = KeysOf(value)[i]
    BY <1>1, <1>3, <1>5 DEF KeyOf, K, V
  <2>. QED BY <1>1, <1>5, <2>1, PairsAreReadBack, Zenon DEF V
<1>6. PairsBack(TRUE, name, D, value, "&")
  <2>1. \A i \in DOMAIN D : /\ Free(D[i], "=") /\ Free(D[i], "&") /\ Free(Encoded(ValuesOf(value)[i]), "&")
                            /\ KeyOf(TRUE, name, D[i]) = KeysOf(value)[i]
    BY <1>3, <1>4 DEF KeyOf, K, V, PartSeparators
  <2>2. "&" \in AllTokens /\ "&" # "="
    BY StyleTokens
  <2>. QED BY <1>4, <2>1, <2>2, PairsAreReadBack, Zenon
<1>7. TurnBack(value)
  BY <1>1, <1>3, TurnIsReadBack DEF PartSeparators, CommaFree, K
<1>8. turns \in Seq(AllTokens) /\ Free(turns, "=")
  <2>. DEFINE T == TurnParts(K, V)
  <2>1. T \in Seq(Seq(AllTokens)) /\ DOMAIN T = DOMAIN value
    <3>1. T \in Seq(Seq(AllTokens))
      BY <1>1, TurnTyped
    <3>. QED BY <1>1, <3>1 DEF TurnParts
  <2>2. ASSUME NEW i \in DOMAIN value PROVE Free(T[i], "=")
    <3>. DEFINE k == K[i]
                e == Encoded(V[i])
                c == ","
    <3>1. k \in Seq(AllTokens) /\ e \in Seq(AllTokens) /\ c \in AllTokens /\ c # "="
          /\ Free(k, "=") /\ Free(e, "=")
      BY <1>2, <1>3, EncodedIsDecoded, StyleTokens DEF IsName
    <3>2. T[i] = (k \o <<c>>) \o e
      BY <1>1 DEF TurnParts
    <3>. HIDE DEF k, e, c, T
    <3>3. Free(<<c>>, "=") /\ <<c>> \in Seq(AllTokens) /\ k \o <<c>> \in Seq(AllTokens)
      BY <3>1, FreeOne
    <3>4. Free(k \o <<c>>, "=")
      BY <3>1, <3>3, FreeConcat
    <3>5. Free((k \o <<c>>) \o e, "=")
      BY <3>1, <3>3, <3>4, FreeConcat
    <3>. QED BY <3>2, <3>5, Zenon
  <2>. HIDE DEF T
  <2>3. "," \in AllTokens /\ "," # "="
    BY StyleTokens
  <2>4. \A i \in DOMAIN T : Free(T[i], "=")
    BY <2>1, <2>2
  <2>5. Joined(T, ",") \in Seq(AllTokens)
    BY <2>1, <2>3, JoinedTyped
  <2>6. Free(Joined(T, ","), "=")
    BY <2>1, <2>3, <2>4, JoinedFree
  <2>. QED BY <2>5, <2>6 DEF TurnText, T
<1>12. \A s \in Seq(AllTokens) : Tail(<<".">> \o s) = s /\ Tail(<<";">> \o s) = s
  BY TailOfPrefixed, StyleTokens
<1>13. name \in Seq(AllTokens) /\ Free(name, "=")
  BY TextsAreTokens DEF IsName
<1>14. CASE style = "deepObject"
  <2>1. text = deeps("&")
    BY <1>9, <1>14, Zenon DEF serializeObjectParam, separatorExplode, Prefixed, DeepName
  <2>. HIDE DEF text
  <2>2. ObjectRead(style, explode, name, text) = PairsOf(TRUE, name, Split(text, "&"))
    BY <1>14 DEF ObjectRead, Body, PairsOf, KeyOf, DeepKey
  <2>. QED BY <1>6, <2>1, <2>2, Zenon DEF PairsBack, V, text
<1>15. CASE style # "deepObject" /\ explode
  <2>. DEFINE c == separatorExplode(style)
  <2>1. /\ style = "label" => c = "."
        /\ style = "matrix" => c = ";"
        /\ style = "simple" => c = ","
        /\ style = "form" => c = "&"
    BY DEF separatorExplode
  <2>2. style \in {"label", "matrix", "simple", "form"}
    BY <1>15 DEF ObjectStyles
  <2>3. c \in AllTokens /\ c # "=" /\ \A i \in DOMAIN value : Free(K[i], c) /\ Free(Encoded(V[i]), c)
    <3>1. CASE style = "label"
      BY <1>3, <2>1, <3>1, StyleTokens
    <3>2. CASE style # "label"
      <4>1. c \in PartSeparators
        BY <2>1, <2>2, <3>2 DEF PartSeparators
      <4>2. c \in AllTokens /\ c # "="
        BY <4>1, StyleTokens DEF PartSeparators
      <4>. QED BY <1>3, <4>1, <4>2
    <3>. QED BY <3>1, <3>2
  <2>4. PairsBack(FALSE, name, K, value, c) /\ keys(c) \in Seq(AllTokens)
    BY <1>5, <2>3
  <2>5. text = Prefixed(style, c, keys(c))
    BY <1>10, <1>15, Zenon DEF serializeObjectParam
  <2>. HIDE DEF c, text, keys
  <2>6. Body(style, TRUE, text) = keys(c)
    BY <1>12, <2>1, <2>2, <2>4, <2>5 DEF Body, Prefixed
  <2>7. ObjectRead(style, explode, name, text) = PairsOf(FALSE, name, Split(keys(c), c))
    BY <1>15, <2>1, <2>2, <2>6 DEF ObjectRead, PairsOf, KeyOf
  <2>. QED BY <2>4, <2>7, Zenon DEF PairsBack, V, text, keys
<1>16. CASE style # "deepObject" /\ ~explode
  <2>1. /\ style = "label" => text = <<".">> \o turns
        /\ style = "matrix" => text = ((<<";">> \o name) \o <<"=">>) \o turns
        /\ style = "simple" => text = turns
        /\ style = "form" => text = (name \o <<"=">>) \o turns
    BY <1>11, <1>16 DEF serializeObjectParam, TurnText
  <2>2. style \in {"label", "matrix", "simple", "form"}
    BY <1>16 DEF ObjectStyles
  <2>. HIDE DEF text, turns
  <2>3. Body(style, FALSE, text) = turns
    <3>1. /\ Tail(Split((name \o <<"=">>) \o turns, "="))[1] = turns
          /\ Tail(Split(((<<";">> \o name) \o <<"=">>) \o turns, "="))[1] = turns
      BY <1>8, <1>13, BehindName
    <3>2. CASE style = "label"
      BY <1>8, <1>12, <2>1, <3>2 DEF Body
    <3>3. CASE style = "matrix"
      BY <2>1, <3>1, <3>3 DEF Body
    <3>4. CASE style = "simple"
      BY <2>1, <3>4 DEF Body
    <3>5. CASE style = "form"
      BY <2>1, <3>1, <3>5 DEF Body
    <3>. QED BY <2>2, <3>2, <3>3, <3>4, <3>5
  <2>4. ObjectRead(style, explode, name, text) = InTurnOf(Split(turns, ","))
    BY <1>16, <2>3 DEF ObjectRead, InTurnOf
  <2>. QED BY <1>7, <2>4, Zenon DEF TurnBack, TurnSplit, K, V, turns, text
<1>. QED BY <1>14, <1>15, <1>16

---------------------------------------------------------------------------
(* Samples                                                                  *)

\* The names of the samples are no syntax.
LEMMA SampleNames ==
    ASSUME NEW x \in {"p", "k", "l"}
    PROVE  IsName(<<x>>)
<1>1. x \in Characters
  BY EscapeTable DEF Names
<1>2. <<x>> \in Seq(Characters)
  BY <1>1
<1>3. x # "=" /\ x # "&" /\ x # ";" /\ x # "," /\ x # "." /\ x # "?"
  OBVIOUS
<1>. QED BY <1>2, <1>3, FreeOne DEF IsName

\* Whether a text fits is a matter of the style alone.
LEMMA FitsStyle ==
    ASSUME NEW s, NEW text, Fits(s, text)
    PROVE  Fits([style |-> s.style], text)
<1>. DEFINE style == s.style
            r == [style |-> style]
<1>. HIDE DEF style
<1>1. r.style = style
  OBVIOUS
<1>. HIDE DEF r
<1>2. Fits(r, text)
  BY <1>1 DEF Fits, style
<1>. QED BY <1>2 DEF r, style

\* Every sample is an array or an object of texts.
LEMMA AnySampleIsReadBack ==
    ASSUME sample \in Samples
    PROVE  SamplesAreReadBack
<1>. DEFINE name == <<"p">>
            C == Seq(Characters)
<1>1. IsName(name) /\ IsName(<<"k">>) /\ IsName(<<"l">>)
  BY SampleNames
<1>2. Texts \subseteq C
  BY SamplesAreNotEncoded, CharactersOf
<1>. HIDE DEF name
<1>3. CASE sample \in Sample("array", Styles, {<<a, b>> : a, b \in Texts} \cup {<<a>> : a \in Texts})
           /\ \A i \in DOMAIN sample.value : Fits(sample, sample.value[i])
  <2>. DEFINE Two == {<<a, b>> : a, b \in Texts}
              One == {<<a>> : a \in Texts}
  <2>1. sample.type = "array" /\ sample.style \in Styles /\ sample.explode \in BOOLEAN
        /\ sample.value \in Two \cup One
    BY <1>3 DEF Sample
  <2>2. sample.value \in Seq(C) \ {<<>>}
    <3>. DEFINE value == sample.value
    <3>. HIDE DEF C, value
    <3>1. CASE value \in Two
      <4>1. PICK a \in Texts, b \in Texts : value = <<a, b>>
        BY <3>1
      <4>2. <<a, b>> \in Seq(C) \ {<<>>}
        BY <1>2
      <4>. QED BY <4>1, <4>2, Zenon DEF value
    <3>2. CASE value \in One
      <4>1. PICK a \in Texts : value = <<a>>
        BY <3>2
      <4>2. <<a>> \in Seq(C) \ {<<>>}
        BY <1>2
      <4>. QED BY <4>1, <4>2, Zenon DEF value
    <3>. HIDE DEF Two, One
    <3>. QED BY <2>1, <3>1, <3>2, Zenon DEF value
  <2>3. \A i \in DOMAIN sample.value : Fits([style |-> sample.style], sample.value[i])
    BY <1>3, FitsStyle
  <2>. DEFINE style == sample.style
              explode == sample.explode
              value == sample.value
  <2>9. /\ style \in Styles /\ explode \in BOOLEAN /\ value \in Seq(Seq(Characters)) \ {<<>>}
        /\ \A i \in DOMAIN value : Fits([style |-> style], value[i])
    <3>. HIDE DEF Two, One
    <3>. QED BY <2>1, <2>2, <2>3, Zenon
  <2>. HIDE DEF style, explode, value
  <2>4. ArrayRead(style, explode, serializeArrayParam(style, explode, name, value)) = value
    BY <1>1, <2>9, ArraysAreReadBack, Zenon
  <2>. QED BY <2>1, <2>4, Zenon DEF SamplesAreReadBack, name, style, explode, value
<1>4. CASE sample \in Sample("object", {"label", "matrix", "simple", "form", "deepObject"},
                  {<<[key |-> <<"k">>, value |-> a], [key |-> <<"l">>, value |-> b]>> :
                        a, b \in Texts})
           /\ \A i \in DOMAIN sample.value : Fits(sample, sample.value[i].value)
  <2>. DEFINE k == <<"k">>
              l == <<"l">>
              Values == {<<[key |-> k, value |-> a], [key |-> l, value |-> b]>> : a, b \in Texts}
  <2>1. sample.type = "object" /\ sample.style \in ObjectStyles /\ sample.explode \in BOOLEAN
        /\ sample.value \in Values
    BY <1>4 DEF Sample, ObjectStyles
  <2>2. IsName(k) /\ IsName(l) /\ k \in C /\ l \in C
    BY <1>1 DEF IsName
  <2>. HIDE DEF k, l
  <2>3. PICK a \in Texts, b \in Texts : sample.value = <<[key |-> k, value |-> a], [key |-> l, value |-> b]>>
    BY <2>1
  <2>. DEFINE r == [key |-> k, value |-> a]
              s == [key |-> l, value |-> b]
  <2>4. r \in Pairs /\ s \in Pairs /\ r.key = k /\ s.key = l
    BY <1>2, <2>2 DEF Pairs
  <2>5. \A i \in DOMAIN sample.value : Fits([style |-> sample.style], sample.value[i].value)
    BY <1>4, FitsStyle
  <2>. HIDE DEF r, s
  <2>6. <<r, s>> \in Seq(Pairs) \ {<<>>}
    BY <2>4
  <2>7. \A i \in DOMAIN <<r, s>> : IsName(<<r, s>>[i].key)
    <3>1. DOMAIN <<r, s>> = {1, 2} /\ <<r, s>>[1] = r /\ <<r, s>>[2] = s
      OBVIOUS
    <3>. QED BY <2>2, <2>4, <3>1
  <2>8. sample.value = <<r, s>>
    BY <2>3, Zenon DEF r, s
  <2>. DEFINE style == sample.style
              explode == sample.explode
              value == sample.value
  <2>9. /\ style \in ObjectStyles /\ explode \in BOOLEAN /\ value \in Seq(Pairs) \ {<<>>}
        /\ \A i \in DOMAIN value : IsName(value[i].key) /\ Fits([style |-> style], value[i].value)
    <3>1. value \in Seq(Pairs) \ {<<>>} /\ \A i \in DOMAIN value : IsName(value[i].key)
      BY <2>6, <2>7, <2>8, Zenon
    <3>. HIDE DEF Values
    <3>. QED BY <2>1, <2>5, <3>1, Zenon
  <2>. HIDE DEF style, explode, value
  <2>10. ObjectRead(style, explode, name, serializeObjectParam(style, explode, name, value)) = value
    BY <1>1, <2>9, ObjectsAreReadBack, Zenon
  <2>. QED BY <2>1, <2>10 DEF SamplesAreReadBack, name, style, explode, value
<1>5. \/ sample \in Sample("array", Styles, {<<a, b>> : a, b \in Texts} \cup {<<a>> : a \in Texts})
           /\ \A i \in DOMAIN sample.value : Fits(sample, sample.value[i])
      \/ sample \in Sample("object", {"label", "matrix", "simple", "form", "deepObject"},
                  {<<[key |-> <<"k">>, value |-> a], [key |-> <<"l">>, value |-> b]>> :
                        a, b \in Texts})
           /\ \A i \in DOMAIN sample.value : Fits(sample, sample.value[i].value)
  BY DEF Samples
<1>. QED BY <1>3, <1>4, <1>5

\* Arrays and objects are read back from every style as they were written, whatever
\* texts they hold (core/pathSerializer.gen.ts:67-171).
THEOREM SamplesComeBack == Spec => []SamplesAreReadBack
<1>1. Init => sample \in Samples
  BY DEF Init
<1>2. sample \in Samples /\ [Next]_vars => (sample \in Samples)'
  BY DEF Next, vars
<1>3. sample \in Samples => SamplesAreReadBack
  BY AnySampleIsReadBack
<1>. QED BY <1>1, <1>2, <1>3, PTL DEF Spec

---------------------------------------------------------------------------
(* Paths                                                                    *)

\* The parameters of paths, and what may be put in for them.
Parameters == {"{user_id}", "{import_id}", "{job_id}", "{report_name}"}
PathOk(path) == DOMAIN path \subseteq Parameters
                /\ \A p \in DOMAIN path : path[p] \in Seq(Characters)

\* What a token of a URL is replaced by.
Replaced(path) == [x \in AllTokens |-> IF x \in DOMAIN path THEN Encoded(path[x]) ELSE <<x>>]

\* What is put in is of tokens, brings no slash and no question mark, and is the encoded value.
LEMMA ReplacedTyped ==
    ASSUME NEW path, PathOk(path)
    PROVE  /\ Replaced(path) \in [AllTokens -> Seq(AllTokens)]
           /\ \A x \in AllTokens : x # "/" => Free(Replaced(path)[x], "/")
           /\ \A x \in AllTokens : x # "?" => Free(Replaced(path)[x], "?")
           /\ \A x \in AllTokens : x \notin DOMAIN path => Replaced(path)[x] = <<x>>
           /\ \A x \in AllTokens : x \in DOMAIN path => Replaced(path)[x] = Encoded(path[x])
<1>1. ASSUME NEW x \in AllTokens
      PROVE  /\ Replaced(path)[x] \in Seq(AllTokens)
             /\ x # "/" => Free(Replaced(path)[x], "/")
             /\ x # "?" => Free(Replaced(path)[x], "?")
             /\ x \notin DOMAIN path => Replaced(path)[x] = <<x>>
             /\ x \in DOMAIN path => Replaced(path)[x] = Encoded(path[x])
  <2>1. CASE x \in DOMAIN path
    <3>. DEFINE t == path[x]
    <3>1. Replaced(path)[x] = Encoded(t)
      BY <2>1 DEF Replaced
    <3>2. t \in Seq(Characters)
      BY <2>1 DEF PathOk
    <3>3. "/" \in DOMAIN Escape /\ "?" \in DOMAIN Escape
      BY StyleTokens
    <3>. HIDE DEF t
    <3>4. Encoded(t) \in Seq(AllTokens) /\ Free(Encoded(t), "/") /\ Free(Encoded(t), "?")
      BY <3>2, <3>3, EncodedIsDecoded, EncodedFree
    <3>. QED BY <2>1, <3>1, <3>4, Zenon DEF t
  <2>2. CASE x \notin DOMAIN path
    <3>1. Replaced(path)[x] = <<x>>
      BY <2>2 DEF Replaced
    <3>2. <<x>> \in Seq(AllTokens)
      OBVIOUS
    <3>3. \A c : x # c => Free(<<x>>, c)
      BY FreeOne
    <3>. QED BY <2>2, <3>1, <3>2, <3>3, Zenon
  <2>. QED BY <2>1, <2>2
<1>2. Replaced(path) \in [AllTokens -> Seq(AllTokens)]
  <2>. DEFINE r(x) == IF x \in DOMAIN path THEN Encoded(path[x]) ELSE <<x>>
              f == Replaced(path)
  <2>1. f = [x \in AllTokens |-> r(x)]
    BY DEF Replaced
  <2>2. \A x \in AllTokens : f[x] \in Seq(AllTokens)
    BY <1>1
  <2>. HIDE DEF f, r
  <2>3. f \in [AllTokens -> Seq(AllTokens)]
    BY <2>1, <2>2
  <2>. QED BY <2>3 DEF f
<1>. QED BY <1>1, <1>2

\* A path with its parameters in is what its tokens are replaced by, in a row.
LEMMA PathSerialized ==
    ASSUME NEW path, NEW url \in Seq(AllTokens)
    PROVE  defaultPathSerializer(path, url) = Flat(Replaced(path), url)
<1>. DEFINE a == [i \in DOMAIN url |-> IF url[i] \in DOMAIN path THEN Encoded(path[url[i]])
                                       ELSE <<url[i]>>]
            b == Mapped(Replaced(path), url)
<1>1. \A i \in DOMAIN url : url[i] \in AllTokens
  OBVIOUS
<1>2. b = a
  BY <1>1 DEF Mapped, Replaced
<1>3. defaultPathSerializer(path, url) = FlattenSeq(a)
  BY DEF defaultPathSerializer
<1>. HIDE DEF a, b
<1>. QED BY <1>2, <1>3, Zenon DEF Flat, b

\* Each part of a path with its parameters in.
SegmentsOf(path, parts) == [i \in DOMAIN parts |-> defaultPathSerializer(path, parts[i])]

\* A part of a url with its parameters in.
Segments(path) == [t \in Seq(AllTokens) |-> Flat(Replaced(path), t)]

\* The parts of a path are the parts of the url with their parameters in.
LEMMA SegmentsMapped ==
    ASSUME NEW path, PathOk(path)
    PROVE  /\ Segments(path) \in [Seq(AllTokens) -> Seq(AllTokens)]
           /\ \A t \in Seq(AllTokens) : Segments(path)[t] = Flat(Replaced(path), t)
           /\ \A parts \in Seq(Seq(AllTokens)) : SegmentsOf(path, parts) = Mapped(Segments(path), parts)
<1>. DEFINE S == Seq(AllTokens)
            f == Segments(path)
            r(t) == Flat(Replaced(path), t)
<1>1. \A t \in S : r(t) \in S
  BY ReplacedTyped, FlatTyped
<1>2. f = [t \in S |-> r(t)]
  BY DEF Segments
<1>3. \A t \in S : r(t) = defaultPathSerializer(path, t)
  BY PathSerialized
<1>. HIDE DEF f, r, S
<1>4. f \in [S -> S] /\ \A t \in S : f[t] = r(t)
  BY <1>1, <1>2
<1>5. ASSUME NEW parts \in Seq(S) PROVE SegmentsOf(path, parts) = Mapped(f, parts)
  <2>1. \A i \in DOMAIN parts : parts[i] \in S
    OBVIOUS
  <2>2. \A i \in DOMAIN parts : f[parts[i]] = defaultPathSerializer(path, parts[i])
    BY <1>3, <1>4, <2>1
  <2>. QED BY <2>2 DEF SegmentsOf, Mapped
<1>. QED BY <1>4, <1>5 DEF f, r, S

\* A path is cut where its url is.
PathSplits(path, url) ==
    Split(Flat(Replaced(path), url), "/") = Mapped(Segments(path), Split(url, "/"))

\* One token more in the last part.
Grown(new, parts, x) == new = [parts EXCEPT ![Len(parts)] = Append(@, x)]

\* A token more in the last part of a url adds to the last part of the path.
LEMMA LastGrows ==
    ASSUME NEW path, PathOk(path), NEW p \in Seq(Seq(AllTokens)) \ {<<>>}, NEW x \in AllTokens,
           NEW q, Grown(q, p, x)
    PROVE  Mapped(Segments(path), q) = Onto(Mapped(Segments(path), p), Replaced(path)[x])
<1>. DEFINE S == Seq(AllTokens)
            f == Segments(path)
            g == Replaced(path)
            l == Len(p)
            y == p[l]
            e == g[x]
            a == Mapped(f, p)
            b == Mapped(f, q)
            o == Onto(a, e)
<1>1. f \in [S -> S] /\ g \in [AllTokens -> S] /\ \A t \in S : f[t] = Flat(g, t)
  BY ReplacedTyped, SegmentsMapped
<1>2. l \in Nat /\ l > 0 /\ l \in 1..l /\ y \in S /\ DOMAIN p = 1..l /\ p \in Seq(S) /\ Append(y, x) \in S
  OBVIOUS
<1>3. q = [p EXCEPT ![l] = Append(y, x)]
  BY DEF Grown
<1>4. f[Append(y, x)] = f[y] \o e
  <2>. HIDE DEF y
  <2>1. Flat(g, Append(y, x)) = Flat(g, y) \o g[x]
    <3>. HIDE DEF g
    <3>1. FlatGrows(g, y, x)
      BY <1>1, <1>2, FlatAppend
    <3>. QED BY <3>1, Zenon DEF FlatGrows
  <2>. HIDE DEF f, g
  <2>. QED BY <1>1, <1>2, <2>1, Zenon DEF S
<1>5. e \in S
  BY <1>1
<1>0. l = Len(p)
  OBVIOUS
<1>. HIDE DEF S, f, g, l, y, e
<1>6. /\ q \in Seq(S) /\ Len(q) = l /\ DOMAIN q = 1..l /\ q[l] = Append(y, x)
      /\ \A i \in 1..l : i # l => q[i] = p[i]
  <2>. DEFINE w == Append(y, x)
  <2>. HIDE DEF w
  <2>1. q = [p EXCEPT ![l] = w] /\ w \in S /\ l \in 1..l /\ p \in Seq(S) /\ l = Len(p)
    BY <1>0, <1>2, <1>3, Zenon DEF w
  <2>. DEFINE r == [p EXCEPT ![l] = w]
  <2>2. r \in Seq(S) /\ Len(r) = l
    BY <2>1
  <2>3. r[l] = w /\ \A i \in 1..l : i # l => r[i] = p[i]
    BY <1>2, <2>1
  <2>. HIDE DEF r
  <2>4. DOMAIN r = 1..l
    BY <2>2
  <2>5. q = r
    BY <2>1 DEF r
  <2>. QED BY <2>2, <2>3, <2>4, <2>5 DEF w
<1>7. a \in Seq(S) /\ Len(a) = l
  <2>1. f \in [S -> S] /\ p \in Seq(S)
    BY <1>1, <1>2
  <2>. QED BY <1>0, <2>1, MappedTyped
<1>8. b \in Seq(S) /\ Len(b) = l
  <2>1. f \in [S -> S] /\ q \in Seq(S) /\ Len(q) = l
    BY <1>1, <1>6
  <2>. QED BY <2>1, MappedTyped
<1>9. \A i \in 1..l : a[i] = f[p[i]] /\ b[i] = f[q[i]]
  BY <1>2, <1>6 DEF Mapped
<1>10. a[l] = f[y] /\ b[l] = f[y] \o e
  BY <1>2, <1>4, <1>6, <1>9 DEF y
<1>11. a # <<>>
  BY <1>2, <1>7 DEF a
<1>. HIDE DEF a, b
<1>12. IsOnto(o, AllTokens, a, a[l] \o e, l)
  <2>1. a \in Seq(Seq(AllTokens)) \ {<<>>} /\ e \in Seq(AllTokens) /\ l = Len(a)
    BY <1>5, <1>7, <1>11 DEF S
  <2>. QED BY <2>1, OntoTyped
<1>13. o \in Seq(S) /\ Len(o) = l /\ o[l] = a[l] \o e /\ \A i \in 1..l : i # l => o[i] = a[i]
  BY <1>12 DEF IsOnto, S
<1>. HIDE DEF o
<1>14. ASSUME NEW i \in 1..l PROVE b[i] = o[i]
  <2>1. CASE i = l
    BY <1>10, <1>13, <2>1, Zenon
  <2>2. CASE i # l
    <3>1. q[i] = p[i] /\ o[i] = a[i]
      BY <1>6, <1>13, <2>2
    <3>2. a[i] = f[p[i]] /\ b[i] = f[q[i]]
      BY <1>9
    <3>. QED BY <3>1, <3>2, Zenon
  <2>. QED BY <2>1, <2>2
<1>15. b = o
  BY <1>2, <1>8, <1>13, <1>14, SeqEqual
<1>. QED BY <1>15, Zenon DEF b, o, a, f, e, g

\* A path is cut at its slashes, whatever is put in for its parameters.
LEMMA PathIsSplit ==
    ASSUME NEW path, PathOk(path), NEW url \in Seq(AllTokens)
    PROVE  PathSplits(path, url)
<1>. DEFINE S == Seq(AllTokens)
            f == Segments(path)
            g == Replaced(path)
            G == {n \in Nat : \A u \in S : Len(u) = n => PathSplits(path, u)}
<1>1. f \in [S -> S] /\ g \in [AllTokens -> S] /\ \A t \in S : f[t] = Flat(g, t)
  BY ReplacedTyped, SegmentsMapped
<1>2. /\ \A x \in AllTokens : x # "/" => Free(g[x], "/")
      /\ "/" \notin DOMAIN path /\ "/" \in AllTokens
      /\ g["/"] = <<"/">>
  <2>1. "/" \notin DOMAIN path
    <3>1. "/" \notin Parameters
      BY DEF Parameters
    <3>. QED BY <3>1 DEF PathOk
  <2>. QED BY <2>1, ReplacedTyped, StyleTokens
<1>3. 0 \in G
  <2>1. ASSUME NEW u \in S, Len(u) = 0 PROVE PathSplits(path, u)
    <3>. DEFINE none == <<>>
    <3>1. u = <<>> /\ <<>> \in S
      BY <2>1
    <3>2. Flat(g, none) = none
      BY FlatEmpty
    <3>3. f[none] = none
      BY <1>1, <3>1, <3>2
    <3>4. Split(none, "/") = <<none>>
      BY SplitEmpty
    <3>5. Mapped(f, <<none>>) = <<f[none]>>
      <4>. HIDE DEF none, f
      <4>. QED BY DEF Mapped
    <3>. HIDE DEF none, f, g
    <3>6. Split(Flat(g, none), "/") = Mapped(f, Split(none, "/"))
      BY <3>2, <3>3, <3>4, <3>5, Zenon
    <3>. QED BY <3>1, <3>6, Zenon DEF PathSplits, none, f, g
  <2>. HIDE DEF f, g
  <2>. QED BY <2>1
<1>4. ASSUME NEW n \in Nat, n \in G PROVE n + 1 \in G
  <2>1. ASSUME NEW u \in S, Len(u) = n + 1 PROVE PathSplits(path, u)
    <3>1. PICK v \in Seq(AllTokens), x \in AllTokens :
             /\ u = Append(v, x) /\ Len(v) = n /\ x = u[n + 1] /\ n + 1 \in DOMAIN u
             /\ \A i \in DOMAIN v : v[i] = u[i] /\ i \in DOMAIN u
      <4>. HIDE DEF f, g, G
      <4>1. u \in Seq(AllTokens)
        OBVIOUS
      <4>. QED BY <2>1, <4>1, LastText
    <3>. DEFINE p == Split(v, "/")
                j == Flat(g, v)
                m == Mapped(f, p)
    <3>2. Split(j, "/") = m
      BY <1>4, <3>1, Zenon DEF PathSplits
    <3>3. p \in Seq(S) \ {<<>>} /\ j \in S
      <4>1. p \in Seq(S) \ {<<>>}
        BY SplitTyped
      <4>. HIDE DEF p
      <4>2. j \in S
        <5>. HIDE DEF g
        <5>. QED BY <1>1, FlatTyped
      <4>. QED BY <4>1, <4>2
    <3>4. Flat(g, u) = j \o g[x]
      <4>1. FlatGrows(g, v, x)
        <5>. HIDE DEF g
        <5>. QED BY <1>1, FlatAppend
      <4>. QED BY <3>1, <4>1, Zenon DEF FlatGrows
    <3>5. Split(u, "/") = SplitAt(p, x, "/")
      BY <3>1, SplitAppend
    <3>6. CASE x = "/"
      <4>. DEFINE none == <<>>
      <4>1. Split(u, "/") = Append(p, none)
        BY <3>5, <3>6 DEF SplitAt
      <4>2. Mapped(f, Append(p, none)) = Append(m, f[none])
        <5>. HIDE DEF f, p
        <5>1. none \in S /\ p \in Seq(S) /\ f \in [S -> S]
          BY <1>1, <3>3
        <5>. HIDE DEF none, S
        <5>2. MappedGrows(f, p, none)
          BY <5>1, MappedNext
        <5>. QED BY <5>2, Zenon DEF MappedGrows
      <4>3. f[none] = none
        <5>1. none \in S
          OBVIOUS
        <5>2. Flat(g, none) = none
          BY FlatEmpty
        <5>. HIDE DEF none, f, g
        <5>. QED BY <1>1, <5>1, <5>2, Zenon
      <4>4. Flat(g, u) = Append(j, "/")
        <5>1. j \o <<"/">> = Append(j, "/")
          <6>. HIDE DEF j
          <6>. QED BY <3>3
        <5>. HIDE DEF j, g
        <5>. QED BY <1>2, <3>4, <3>6, <5>1, Zenon
      <4>5. Split(Append(j, "/"), "/") = Append(Split(j, "/"), none)
        <5>. HIDE DEF j
        <5>1. Split(Append(j, "/"), "/") = SplitAt(Split(j, "/"), "/", "/")
          BY <1>2, <3>3, SplitAppend
        <5>. QED BY <5>1 DEF SplitAt
      <4>. HIDE DEF none, f, g, p, j, m
      <4>6. Split(Flat(g, u), "/") = Mapped(f, Split(u, "/"))
        BY <3>2, <4>1, <4>2, <4>3, <4>4, <4>5, Zenon
      <4>. QED BY <4>6, Zenon DEF PathSplits, f, g
    <3>7. CASE x # "/"
      <4>. DEFINE q == Split(u, "/")
                  e == g[x]
      <4>1. Grown(q, p, x)
        BY <3>5, <3>7 DEF SplitAt, Grown
      <4>2. Mapped(f, q) = Onto(m, e)
        <5>. HIDE DEF q, p
        <5>. QED BY <3>3, <4>1, LastGrows, Zenon DEF S
      <4>3. e \in S /\ Free(e, "/")
        BY <1>1, <1>2, <3>7
      <4>4. Split(j \o e, "/") = Onto(Split(j, "/"), e)
        <5>. HIDE DEF j, e
        <5>. QED BY <3>3, <4>3, SplitOn
      <4>. HIDE DEF f, g, p, j, m, q, e
      <4>5. Split(Flat(g, u), "/") = Mapped(f, q)
        BY <3>2, <3>4, <4>2, <4>4, Zenon DEF e
      <4>. QED BY <4>5, Zenon DEF PathSplits, f, g, q
    <3>. QED BY <3>6, <3>7
  <2>. HIDE DEF f, g
  <2>. QED BY <2>1
<1>. HIDE DEF G
<1>5. Nat \subseteq G
  BY <1>3, <1>4, SetInduction
<1>6. Len(url) \in G
  BY <1>5
<1>. QED BY <1>6 DEF G

---------------------------------------------------------------------------
(* Forms and queries                                                        *)

\* Fields as they are written, and as they are read.
FieldOk(p) == IsName(p.name) /\ p.value \in Seq(Characters)
NamesIn(fields) == [k \in DOMAIN fields |-> fields[k].name]
TextsIn(fields) == [k \in DOMAIN fields |-> fields[k].value]
PartsOf(fields) == [k \in DOMAIN fields |-> serializePrimitiveParam(fields[k].name, fields[k].value)]
ReadAs(fields) == [k \in DOMAIN fields |-> [name |-> fields[k].name, value |-> fields[k].value]]

\* The text of some fields, and that they are read of it.
FieldsText(fields) == Joined(PartsOf(fields), "&")
FieldsBack(fields) == PairsRead(FieldsText(fields)) = ReadAs(fields)

\* The names and the texts of some fields.
LEMMA FieldsSplit ==
    ASSUME NEW X, NEW m \in Seq(X) \ {<<>>}, \A k \in DOMAIN m : FieldOk(m[k])
    PROVE  /\ NamesIn(m) \in Seq(Seq(Characters)) /\ TextsIn(m) \in Seq(Seq(Characters))
           /\ NamesIn(m) # <<>> /\ DOMAIN NamesIn(m) = DOMAIN m /\ DOMAIN TextsIn(m) = DOMAIN m
           /\ PartsOf(m) = PairParts(NamesIn(m), TextsIn(m))
           /\ \A k \in DOMAIN m : IsName(NamesIn(m)[k])
<1>. DEFINE n == Len(m)
            a(k) == m[k].name
            b(k) == m[k].value
            N == [k \in 1..n |-> a(k)]
            T == [k \in 1..n |-> b(k)]
            C == Seq(Characters)
<1>1. n \in Nat /\ n > 0 /\ DOMAIN m = 1..n
  OBVIOUS
<1>2. \A k \in 1..n : a(k) \in C /\ b(k) \in C /\ IsName(a(k))
  BY <1>1 DEF FieldOk, IsName
<1>3. NamesIn(m) = N /\ TextsIn(m) = T
  BY <1>1 DEF NamesIn, TextsIn
<1>4. PartsOf(m) = PairParts(N, T)
  BY <1>1 DEF PartsOf, PairParts
<1>. HIDE DEF a, b, C, n
<1>5. N \in Seq(C) /\ T \in Seq(C) /\ Len(N) = n
  BY <1>1, <1>2
<1>6. DOMAIN N = 1..n /\ DOMAIN T = 1..n /\ \A k \in 1..n : IsName(N[k])
  BY <1>2
<1>. HIDE DEF N, T
<1>7. N # <<>>
  BY <1>1, <1>5
<1>. QED BY <1>1, <1>3, <1>4, <1>5, <1>6, <1>7, Zenon DEF C

\* Texts joined of texts that are not empty are not.
LEMMA JoinedSome ==
    ASSUME NEW X, NEW separator \in X, NEW parts \in Seq(Seq(X)) \ {<<>>},
           \A i \in DOMAIN parts : parts[i] # <<>>
    PROVE  Joined(parts, separator) # <<>>
<1>. DEFINE S == Seq(X)
<1>. HIDE DEF S
<1>1. parts \in Seq(S) \ {<<>>}
  BY DEF S
<1>2. PICK q \in Seq(S), x \in S : LastIs(parts, q, x)
  BY <1>1, SomeLast, Zenon
<1>3. x # <<>> /\ x \in Seq(X) /\ q \in Seq(Seq(X))
  BY <1>2 DEF S, LastIs
<1>. DEFINE j == Joined(q, separator)
<1>4. j \in Seq(X) /\ Joined(Append(q, x), separator) = IF q = <<>> THEN x ELSE (j \o <<separator>>) \o x
  <2>1. JoinedGrows(X, q, x, separator)
    BY <1>3, JoinedNext
  <2>. QED BY <2>1, Zenon DEF JoinedGrows
<1>. HIDE DEF j
<1>5. (j \o <<separator>>) \o x # <<>>
  <2>1. Len((j \o <<separator>>) \o x) = (Len(j) + 1) + Len(x) /\ Len(j) \in Nat /\ Len(x) \in Nat
    BY <1>3, <1>4
  <2>2. Len((j \o <<separator>>) \o x) # 0
    BY <2>1
  <2>. DEFINE y == (j \o <<separator>>) \o x
  <2>. HIDE DEF y
  <2>3. y # <<>>
    BY <2>2 DEF y
  <2>. QED BY <2>3 DEF y
<1>6. Joined(Append(q, x), separator) # <<>>
  BY <1>3, <1>4, <1>5, Zenon
<1>. QED BY <1>2, <1>6, Zenon DEF LastIs

\* name=value is never empty.
LEMMA PrimitiveSome ==
    ASSUME NEW name \in Seq(Characters), NEW value \in Seq(Characters)
    PROVE  serializePrimitiveParam(name, value) # <<>>
<1>. DEFINE e == Encoded(value)
            c == "="
            y == (name \o <<c>>) \o e
<1>1. e \in Seq(AllTokens) /\ name \in Seq(AllTokens) /\ c \in AllTokens
  BY EncodedIsDecoded, StyleTokens
<1>2. serializePrimitiveParam(name, value) = y
  BY DEF serializePrimitiveParam
<1>. HIDE DEF e, c
<1>3. Len(y) = (Len(name) + 1) + Len(e) /\ Len(name) \in Nat /\ Len(e) \in Nat
  BY <1>1
<1>. HIDE DEF y
<1>4. y # <<>>
  BY <1>3
<1>. QED BY <1>2, <1>4

\* A form or a query is read as the fields it was written of.
LEMMA FieldsAreReadBack ==
    ASSUME NEW X, NEW m \in Seq(X) \ {<<>>}, \A k \in DOMAIN m : FieldOk(m[k])
    PROVE  /\ FieldsBack(m)
           /\ FieldsText(m) \in Seq(AllTokens) /\ FieldsText(m) # <<>> /\ Free(FieldsText(m), "?")
<1>. DEFINE N == NamesIn(m)
            T == TextsIn(m)
            P == PairParts(N, T)
            J == Joined(P, "&")
<1>1. /\ N \in Seq(Seq(Characters)) /\ T \in Seq(Seq(Characters)) /\ N # <<>>
      /\ DOMAIN N = DOMAIN m /\ DOMAIN T = DOMAIN m /\ PartsOf(m) = P
      /\ \A k \in DOMAIN m : IsName(N[k])
  BY FieldsSplit
<1>2. \A k \in DOMAIN m : N[k] = m[k].name /\ T[k] = m[k].value
  BY DEF NamesIn, TextsIn
<1>. HIDE DEF N, T
<1>3. "&" \in AllTokens /\ "&" # "=" /\ "&" # "?" /\ "=" # "?" /\ "&" \in DOMAIN Escape /\ "?" \in DOMAIN Escape
  BY StyleTokens
<1>4. ASSUME NEW k \in DOMAIN m
      PROVE  /\ N[k] \in Seq(Characters) /\ T[k] \in Seq(Characters)
             /\ Free(N[k], "=") /\ Free(N[k], "&") /\ Free(N[k], "?")
             /\ Free(Encoded(T[k]), "&") /\ Free(Encoded(T[k]), "?")
  <2>1. N[k] \in Seq(Characters) /\ Free(N[k], "=") /\ Free(N[k], "&") /\ Free(N[k], "?")
    BY <1>1 DEF IsName
  <2>2. T[k] \in Seq(Characters)
    BY <1>1
  <2>3. Free(Encoded(T[k]), "&") /\ Free(Encoded(T[k]), "?")
    BY <1>3, <2>2, EncodedFree
  <2>. QED BY <2>1, <2>2, <2>3
<1>5. /\ Split(J, "&") = P /\ J \in Seq(AllTokens) /\ DOMAIN P = DOMAIN m
      /\ \A k \in DOMAIN m : PairIs(P[k], N[k], T[k])
  <2>1. \A k \in DOMAIN N : Free(N[k], "=") /\ Free(N[k], "&") /\ Free(Encoded(T[k]), "&")
    BY <1>1, <1>4
  <2>2. DOMAIN N = DOMAIN T
    BY <1>1
  <2>3. /\ Split(Joined(PairParts(N, T), "&"), "&") = PairParts(N, T)
        /\ Joined(PairParts(N, T), "&") \in Seq(AllTokens)
        /\ DOMAIN PairParts(N, T) = DOMAIN N
        /\ \A i \in DOMAIN N : PairIs(PairParts(N, T)[i], N[i], T[i])
    BY <1>1, <1>3, <2>1, <2>2, PairElements, Zenon
  <2>. QED BY <1>1, <2>3, Zenon
<1>6. \A k \in DOMAIN m : P[k] = serializePrimitiveParam(N[k], T[k])
  BY <1>1 DEF PairParts
<1>7. P \in Seq(Seq(AllTokens)) \ {<<>>}
  <2>1. P # <<>>
    <3>1. DOMAIN P # {}
      <4>1. DOMAIN m # {}
        OBVIOUS
      <4>. QED BY <1>5, <4>1
    <3>. HIDE DEF P
    <3>. QED BY <3>1
  <2>2. P \in Seq(Seq(AllTokens))
    <3>. DEFINE n == Len(m)
                e(k) == serializePrimitiveParam(N[k], T[k])
    <3>1. n \in Nat /\ DOMAIN m = 1..n
      OBVIOUS
    <3>2. \A k \in 1..n : e(k) \in Seq(AllTokens)
      BY <1>4, <3>1, PrimitiveRead
    <3>3. P = [k \in 1..n |-> e(k)]
      BY <1>1, <3>1 DEF PairParts
    <3>. HIDE DEF e, P, n
    <3>. QED BY <3>1, <3>2, <3>3
  <2>. QED BY <2>1, <2>2
<1>8. ASSUME NEW k \in DOMAIN m PROVE P[k] # <<>> /\ Free(P[k], "?")
  <2>. DEFINE x == N[k]
              t == T[k]
  <2>1. /\ x \in Seq(Characters) /\ t \in Seq(Characters) /\ Free(x, "=") /\ Free(x, "?")
        /\ Free(Encoded(t), "?")
    BY <1>4
  <2>2. P[k] = serializePrimitiveParam(x, t)
    BY <1>6
  <2>. HIDE DEF x, t, P
  <2>3. serializePrimitiveParam(x, t) # <<>> /\ Free(serializePrimitiveParam(x, t), "?")
    <3>1. \A c : Free(x, c) /\ c # "=" /\ Free(Encoded(t), c) => Free(serializePrimitiveParam(x, t), c)
      BY <2>1, PrimitiveRead
    <3>. QED BY <1>3, <2>1, <3>1, PrimitiveSome
  <2>. QED BY <2>2, <2>3, Zenon
<1>. HIDE DEF P
<1>9. J # <<>> /\ Free(J, "?")
  BY <1>3, <1>5, <1>7, <1>8, JoinedSome, JoinedFree
<1>10. PairsRead(J) = [k \in DOMAIN m |-> PairRead(P[k])]
  BY <1>5, <1>9, Zenon DEF PairsRead
<1>11. \A k \in DOMAIN m : PairRead(P[k]) = [name |-> m[k].name, value |-> m[k].value]
  BY <1>2, <1>5, Zenon DEF PairIs
<1>12. PairsRead(J) = ReadAs(m)
  <2>. DEFINE a(k) == PairRead(P[k])
              b(k) == [name |-> m[k].name, value |-> m[k].value]
  <2>1. \A k \in DOMAIN m : a(k) = b(k)
    BY <1>11
  <2>2. ReadAs(m) = [k \in DOMAIN m |-> b(k)] /\ PairsRead(J) = [k \in DOMAIN m |-> a(k)]
    BY <1>10 DEF ReadAs
  <2>. HIDE DEF a, b
  <2>3. [k \in DOMAIN m |-> a(k)] = [k \in DOMAIN m |-> b(k)]
    BY <2>1
  <2>. QED BY <2>2, <2>3, Zenon
<1>13. FieldsText(m) = J
  BY <1>1, Zenon DEF FieldsText
<1>. HIDE DEF J
<1>. QED BY <1>5, <1>9, <1>12, <1>13, Zenon DEF FieldsBack

\* A parameter of a query that is a text, or absent.
ParamOk(p) == /\ IsName(p.name) /\ p.type = "text"
              /\ p.value = Absent \/ p.value \in Seq(Characters)
Absentee(p) == p.value = Absent
TextOf(p) == serializePrimitiveParam(p.name, p.value)

\* An absent parameter is not written, any other is, as a field.
LEMMA ParameterWritten ==
    ASSUME NEW p, ParamOk(p)
    PROVE  /\ Absentee(p) => Pushed(QueryPart(p)) = <<>>
           /\ ~Absentee(p) => /\ Pushed(QueryPart(p)) = <<TextOf(p)>>
                              /\ TextOf(p) \in Seq(AllTokens)
                              /\ FieldOk(p)
<1>. DEFINE x == p.name
            v == p.value
<1>1. ASSUME ~Absentee(p)
      PROVE  /\ QueryPart(p) = TextOf(p) /\ TextOf(p) \in Seq(AllTokens) /\ TextOf(p) # <<>>
             /\ FieldOk(p)
  <2>1. p.type = "text" /\ v # Absent /\ v \in Seq(Characters) /\ IsName(x)
    BY <1>1 DEF Absentee, ParamOk
  <2>2. QueryPart(p) = TextOf(p)
    BY <2>1 DEF QueryPart, TextOf
  <2>3. FieldOk(p)
    BY <2>1 DEF FieldOk
  <2>. HIDE DEF x, v
  <2>4. serializePrimitiveParam(x, v) \in Seq(AllTokens) /\ serializePrimitiveParam(x, v) # <<>>
    <3>1. x \in Seq(Characters) /\ Free(x, "=")
      BY <2>1 DEF IsName
    <3>. QED BY <2>1, <3>1, PrimitiveRead, PrimitiveSome
  <2>. QED BY <2>2, <2>3, <2>4, Zenon DEF TextOf, x, v
<1>2. Absentee(p) => QueryPart(p) = <<>>
  BY DEF Absentee, QueryPart
<1>3. Pushed(<<>>) = <<>> /\ \A t : t # <<>> => Pushed(t) = <<t>>
  BY DEF Pushed
<1>. QED BY <1>1, <1>2, <1>3, Zenon

\* What is kept of a query, and what is written of it.
Kept(S) == [p \in S |-> IF p.value \in {Absent} THEN <<>> ELSE <<p>>]
Written(S) == [p \in S |-> Pushed(QueryPart(p))]
Present(S) == {p \in S : ~Absentee(p)}
TextsOf(S) == [p \in Present(S) |-> TextOf(p)]

\* What is kept and what is written of each parameter.
LEMMA KeptAndWritten ==
    ASSUME NEW S, \A p \in S : ParamOk(p)
    PROVE  /\ Kept(S) \in [S -> Seq(Present(S))]
           /\ Written(S) \in [S -> Seq(Seq(AllTokens))]
           /\ TextsOf(S) \in [Present(S) -> Seq(AllTokens)]
           /\ \A p \in S : Absentee(p) => Kept(S)[p] = <<>> /\ Written(S)[p] = <<>>
           /\ \A p \in S : ~Absentee(p) => /\ p \in Present(S) /\ Kept(S)[p] = <<p>>
                                           /\ Written(S)[p] = <<TextsOf(S)[p]>>
           /\ \A p \in Present(S) : TextsOf(S)[p] = TextOf(p)
<1>. DEFINE K == Kept(S)
            W == Written(S)
            T == TextsOf(S)
            Q == Present(S)
            A == Seq(AllTokens)
<1>1. \A p : p \in Q <=> p \in S /\ ~Absentee(p)
  BY DEF Present
<1>2. \A p \in Q : T[p] = TextOf(p)
  BY DEF TextsOf
<1>3. \A p \in S : W[p] = Pushed(QueryPart(p))
  BY DEF Written
<1>4. \A p \in S : K[p] = IF Absentee(p) THEN <<>> ELSE <<p>>
  BY DEF Kept, Absentee
<1>5. /\ \A p \in S : Absentee(p) => Pushed(QueryPart(p)) = <<>>
      /\ \A p \in S : ~Absentee(p) => Pushed(QueryPart(p)) = <<TextOf(p)>> /\ TextOf(p) \in A
  BY ParameterWritten
<1>6. DOMAIN K = S /\ DOMAIN W = S /\ DOMAIN T = Q
  BY DEF Kept, Written, TextsOf
<1>7. K = [p \in S |-> K[p]] /\ W = [p \in S |-> W[p]] /\ T = [p \in Q |-> T[p]]
  BY <1>6 DEF Kept, Written, TextsOf
<1>. HIDE DEF K, W, T, Q, A
<1>8. ASSUME NEW p \in S PROVE K[p] \in Seq(Q) /\ W[p] \in Seq(A)
  <2>1. CASE Absentee(p)
    <3>1. K[p] = <<>> /\ W[p] = <<>>
      BY <1>3, <1>4, <1>5, <2>1, Zenon
    <3>. QED BY <3>1
  <2>2. CASE ~Absentee(p)
    <3>. DEFINE t == TextOf(p)
    <3>1. K[p] = <<p>> /\ W[p] = <<t>> /\ p \in Q /\ t \in A
      BY <1>1, <1>3, <1>4, <1>5, <2>2, Zenon
    <3>. HIDE DEF t
    <3>. QED BY <3>1
  <2>. QED BY <2>1, <2>2
<1>9. \A p \in Q : T[p] \in A
  BY <1>1, <1>2, <1>5
<1>10. K \in [S -> Seq(Q)] /\ W \in [S -> Seq(A)] /\ T \in [Q -> A]
  BY <1>7, <1>8, <1>9
<1>11. \A p \in S : Absentee(p) => K[p] = <<>> /\ W[p] = <<>>
  BY <1>3, <1>4, <1>5
<1>12. \A p \in S : ~Absentee(p) => p \in Q /\ K[p] = <<p>> /\ W[p] = <<T[p]>>
  BY <1>1, <1>2, <1>3, <1>4, <1>5
<1>. QED BY <1>2, <1>10, <1>11, <1>12, Zenon DEF K, W, T, Q, A

\* What is written of a query is the texts of what is kept of it.
QueryIs(S, q) == Flat(Written(S), q) = Mapped(TextsOf(S), Flat(Kept(S), q))

\* What is written of a query is written of what is kept of it.
LEMMA QueryWritten ==
    ASSUME NEW S, \A p \in S : ParamOk(p), NEW query \in Seq(S)
    PROVE  QueryIs(S, query)
<1>. DEFINE K == Kept(S)
            W == Written(S)
            T == TextsOf(S)
            Q == Present(S)
            A == Seq(AllTokens)
            G == {n \in Nat : \A q \in Seq(S) : Len(q) = n => QueryIs(S, q)}
<1>1. K \in [S -> Seq(Q)] /\ W \in [S -> Seq(A)] /\ T \in [Q -> A]
  BY KeptAndWritten, Zenon
<1>2. \A p \in S : Absentee(p) => K[p] = <<>> /\ W[p] = <<>>
  BY KeptAndWritten, Zenon
<1>3. \A p \in S : ~Absentee(p) => p \in Q /\ K[p] = <<p>> /\ W[p] = <<T[p]>>
  BY KeptAndWritten, Zenon
<1>4. 0 \in G
  <2>1. QueryIs(S, <<>>)
    <3>1. Flat(W, <<>>) = <<>> /\ Flat(K, <<>>) = <<>>
      BY FlatEmpty
    <3>2. Mapped(T, <<>>) = <<>>
      BY DEF Mapped
    <3>. HIDE DEF W, T, K
    <3>3. Flat(W, <<>>) = Mapped(T, Flat(K, <<>>))
      BY <3>1, <3>2
    <3>. QED BY <3>3, Zenon DEF QueryIs, W, T, K
  <2>2. \A q \in Seq(S) : Len(q) = 0 => q = <<>>
    OBVIOUS
  <2>. QED BY <2>1, <2>2
<1>5. ASSUME NEW n \in Nat, n \in G PROVE n + 1 \in G
  <2>1. ASSUME NEW q \in Seq(S), Len(q) = n + 1 PROVE QueryIs(S, q)
    <3>1. PICK v \in Seq(S), x \in S :
             /\ q = Append(v, x) /\ Len(v) = n /\ x = q[n + 1] /\ n + 1 \in DOMAIN q
             /\ \A i \in DOMAIN v : v[i] = q[i] /\ i \in DOMAIN q
      <4>. HIDE DEF G
      <4>. QED BY <2>1, LastText
    <3>. DEFINE k == Flat(K, v)
                w == Flat(W, v)
                m == Mapped(T, k)
    <3>2. w = m
      BY <1>5, <3>1, Zenon DEF QueryIs
    <3>3. Flat(W, q) = w \o W[x] /\ Flat(K, q) = k \o K[x] /\ k \in Seq(Q) /\ w \in Seq(A)
      <4>. HIDE DEF W, K, Q, A
      <4>1. FlatGrows(W, v, x) /\ FlatGrows(K, v, x)
        BY <1>1, FlatAppend
      <4>2. k \in Seq(Q) /\ w \in Seq(A)
        BY <1>1, FlatTyped
      <4>. QED BY <3>1, <4>1, <4>2, Zenon DEF FlatGrows
    <3>. HIDE DEF K, W, T, Q, A, G, k, w
    <3>4. CASE Absentee(x)
      <4>1. Flat(W, q) = w \o <<>> /\ Flat(K, q) = k \o <<>>
        BY <1>2, <3>3, <3>4, Zenon
      <4>2. w \o <<>> = w /\ k \o <<>> = k
        BY <3>3, NothingMore
      <4>3. Flat(W, q) = Mapped(T, Flat(K, q))
        BY <3>2, <4>1, <4>2, Zenon
      <4>. QED BY <4>3, Zenon DEF QueryIs, W, T, K
    <3>5. CASE ~Absentee(x)
      <4>. DEFINE t == T[x]
      <4>1. x \in Q /\ K[x] = <<x>> /\ W[x] = <<t>> /\ t \in A
        BY <1>1, <1>3, <3>5
      <4>. HIDE DEF t
      <4>2. w \o <<t>> = Append(w, t) /\ k \o <<x>> = Append(k, x)
        BY <3>3, <4>1, OneMore
      <4>3. Mapped(T, Append(k, x)) = Append(m, t)
        <5>1. MappedGrows(T, k, x)
          BY <1>1, <3>3, <4>1, MappedNext
        <5>. QED BY <5>1, Zenon DEF MappedGrows, t
      <4>. HIDE DEF m
      <4>4. Flat(W, q) = Append(w, t) /\ Flat(K, q) = Append(k, x)
        BY <3>3, <4>1, <4>2, Zenon
      <4>5. Flat(W, q) = Mapped(T, Flat(K, q))
        BY <3>2, <4>3, <4>4, Zenon
      <4>. QED BY <4>5, Zenon DEF QueryIs, W, T, K
    <3>. QED BY <3>4, <3>5
  <2>. HIDE DEF K, W, T, Q, A
  <2>. QED BY <2>1
<1>. HIDE DEF G
<1>6. Nat \subseteq G
  BY <1>4, <1>5, SetInduction
<1>7. Len(query) \in G
  BY <1>6
<1>. QED BY <1>7 DEF G

\* The parameters that are meant, and the text of a query.
LEMMA QueryMeant ==
    ASSUME NEW S, \A p \in S : ParamOk(p), NEW query \in Seq(S)
    PROVE  /\ Without(query, {Absent}) = Flat(Kept(S), query)
           /\ Flat(Kept(S), query) \in Seq(Present(S))
           /\ querySerializer(query) = FieldsText(Flat(Kept(S), query))
<1>. DEFINE K == Kept(S)
            W == Written(S)
            T == TextsOf(S)
            Q == Present(S)
            k == Flat(K, query)
            a == [i \in DOMAIN query |-> IF query[i].value \in {Absent} THEN <<>> ELSE <<query[i]>>]
            b == [i \in DOMAIN query |-> Pushed(QueryPart(query[i]))]
<1>1. \A i \in DOMAIN query : query[i] \in S
  OBVIOUS
<1>2. a = Mapped(K, query)
  BY <1>1 DEF Kept, Mapped
<1>3. b = Mapped(W, query)
  BY <1>1 DEF Written, Mapped
<1>4. Without(query, {Absent}) = FlattenSeq(a)
  BY Zenon DEF Without
<1>5. querySerializer(query) = Joined(FlattenSeq(b), "&")
  BY Zenon DEF querySerializer
<1>6. k \in Seq(Q)
  BY KeptAndWritten, FlatTyped
<1>7. Flat(W, query) = Mapped(T, k)
  BY QueryWritten, Zenon DEF QueryIs
<1>. HIDE DEF k
<1>8. Mapped(T, k) = PartsOf(k)
  <2>1. \A i \in DOMAIN k : k[i] \in Q
    BY <1>6
  <2>. DEFINE t(i) == T[k[i]]
              u(i) == serializePrimitiveParam(k[i].name, k[i].value)
  <2>2. \A i \in DOMAIN k : t(i) = u(i)
    BY <2>1 DEF TextsOf, TextOf
  <2>3. Mapped(T, k) = [i \in DOMAIN k |-> t(i)] /\ PartsOf(k) = [i \in DOMAIN k |-> u(i)]
    BY DEF Mapped, PartsOf
  <2>. HIDE DEF t, u
  <2>. QED BY <2>2, <2>3
<1>. HIDE DEF K, W, T, Q, a, b
<1>9. FlattenSeq(b) = PartsOf(k)
  BY <1>3, <1>7, <1>8, Zenon DEF Flat
<1>10. querySerializer(query) = FieldsText(k)
  BY <1>5, <1>9, Zenon DEF FieldsText
<1>11. Without(query, {Absent}) = k
  BY <1>2, <1>4, Zenon DEF Flat, k
<1>. QED BY <1>6, <1>10, <1>11, Zenon DEF k, K, Q

---------------------------------------------------------------------------
(* Operations                                                               *)

\* Urls whose parts are single tokens, and not a dot.
Single(part) == Len(part) <= 1 /\ part # <<".">>

Slashed(u) == /\ u \in Seq(AllTokens) /\ Free(u, "?")
              /\ \A i \in DOMAIN Split(u, "/") : Single(Split(u, "/")[i])

\* What can be put at the end of such a url.
Piece(p) == p \in Seq(AllTokens) /\ \A u : Slashed(u) => Slashed(u \o p)

\* Two pieces make a piece.
LEMMA PieceOfPieces ==
    ASSUME NEW p, NEW q, Piece(p), Piece(q)
    PROVE  Piece(p \o q)
<1>1. p \in Seq(AllTokens) /\ q \in Seq(AllTokens)
  BY DEF Piece
<1>2. p \o q \in Seq(AllTokens)
  BY <1>1
<1>3. ASSUME NEW u, Slashed(u) PROVE Slashed(u \o (p \o q))
  <2>1. Slashed((u \o p) \o q)
    BY <1>3, Zenon DEF Piece
  <2>2. u \in Seq(AllTokens)
    BY <1>3 DEF Slashed
  <2>3. u \o (p \o q) = (u \o p) \o q
    BY <1>1, <2>2, Associative
  <2>. QED BY <2>1, <2>3, Zenon
<1>. QED BY <1>2, <1>3, Zenon DEF Piece

\* A slash and a token are a piece.
LEMMA PieceOfOne ==
    ASSUME NEW x \in AllTokens, x # "/", x # "?", x # "."
    PROVE  Piece(<<"/", x>>)
<1>. DEFINE c == "/"
            p == <<c, x>>
<1>1. c \in AllTokens /\ c # "?"
  BY StyleTokens
<1>2. p \in Seq(AllTokens)
  BY <1>1
<1>3. ASSUME NEW u, Slashed(u) PROVE Slashed(u \o p)
  <2>. DEFINE t == <<x>>
              v == u \o <<c>>
              P == Split(u, c)
  <2>1. u \in Seq(AllTokens) /\ Free(u, "?") /\ \A i \in DOMAIN P : Single(P[i])
    BY <1>3 DEF Slashed
  <2>2. t \in Seq(AllTokens) /\ Free(t, c) /\ Free(t, "?") /\ Single(t)
    <3>1. Single(t)
      BY DEF Single
    <3>. QED BY <3>1, FreeOne
  <2>3. Free(v, "?") /\ v \in Seq(AllTokens)
    <3>1. Free(<<c>>, "?")
      BY FreeOne
    <3>2. <<c>> \in Seq(AllTokens)
      BY <1>1
    <3>. HIDE DEF c
    <3>3. Free(v, "?")
      BY <2>1, <3>1, <3>2, FreeConcat
    <3>. QED BY <2>1, <3>2, <3>3
  <2>4. P \in Seq(Seq(AllTokens))
    BY <2>1, SplitTyped
  <2>5. Split(v \o t, c) = Append(P, t)
    BY <1>1, <2>1, <2>2, SplitBehind
  <2>6. v \o t = u \o p
    <3>. HIDE DEF c
    <3>1. <<c>> \in Seq(AllTokens) /\ <<c>> \o t = p
      <4>1. <<c>> \in Seq(AllTokens)
        BY <1>1
      <4>. QED BY <1>1, <4>1, OneAndOne
    <3>. HIDE DEF t, p
    <3>2. u \o (<<c>> \o t) = (u \o <<c>>) \o t
      BY <2>1, <2>2, <3>1, Associative
    <3>. QED BY <3>1, <3>2, Zenon DEF v
  <2>. HIDE DEF v, t, P, c
  <2>7. v \o t \in Seq(AllTokens) /\ Free(v \o t, "?")
    <3>1. Free(v \o t, "?")
      BY <2>2, <2>3, FreeConcat
    <3>. QED BY <2>2, <2>3, <3>1
  <2>8. \A i \in DOMAIN Append(P, t) : Single(Append(P, t)[i])
    <3>. DEFINE l == Len(P)
    <3>1. l \in Nat /\ DOMAIN P = 1..l /\ DOMAIN Append(P, t) = 1..(l + 1)
          /\ Append(P, t)[l + 1] = t /\ \A i \in 1..l : Append(P, t)[i] = P[i]
      BY <2>4
    <3>. HIDE DEF l
    <3>2. ASSUME NEW i \in 1..(l + 1) PROVE Single(Append(P, t)[i])
      <4>1. i \in 1..l \/ i = l + 1
        BY <3>1
      <4>2. CASE i \in 1..l
        <5>1. Append(P, t)[i] = P[i] /\ i \in DOMAIN P
          BY <3>1, <4>2
        <5>. QED BY <2>1, <5>1, Zenon
      <4>3. CASE i = l + 1
        <5>1. Append(P, t)[i] = t
          BY <3>1, <4>3, Zenon
        <5>. QED BY <2>2, <5>1, Zenon
      <4>. QED BY <4>1, <4>2, <4>3
    <3>. QED BY <3>1, <3>2
  <2>9. Slashed(v \o t)
    <3>. DEFINE w == v \o t
    <3>1. w \in Seq(AllTokens) /\ Free(w, "?") /\ \A i \in DOMAIN Split(w, c) : Single(Split(w, c)[i])
      BY <2>5, <2>7, <2>8, Zenon
    <3>. HIDE DEF w
    <3>. QED BY <3>1, Zenon DEF Slashed, c, w
  <2>. QED BY <2>6, <2>9, Zenon
<1>. HIDE DEF p
<1>4. Piece(p)
  BY <1>2, <1>3, Zenon DEF Piece
<1>. QED BY <1>4, Zenon DEF p, c

\* Nothing is a piece, and a url to begin with.
LEMMA NoPiece == Piece(<<>>) /\ Slashed(<<>>)
<1>. DEFINE e == <<>>
<1>1. e \in Seq(AllTokens) /\ \A u \in Seq(AllTokens) : u \o e = u
  OBVIOUS
<1>2. Split(e, "/") = <<e>>
  BY SplitEmpty
<1>3. Free(e, "?")
  BY DEF Free
<1>4. \A i \in DOMAIN <<e>> : Single(<<e>>[i])
  BY DEF Single
<1>. HIDE DEF e
<1>5. Slashed(e)
  BY <1>1, <1>2, <1>3, <1>4, Zenon DEF Slashed
<1>6. Piece(e)
  <2>1. \A u : Slashed(u) => u \in Seq(AllTokens)
    BY Zenon DEF Slashed
  <2>2. \A u : Slashed(u) => Slashed(u \o e)
    BY <1>1, <2>1, Zenon
  <2>. QED BY <1>1, <2>2, Zenon DEF Piece
<1>. QED BY <1>5, <1>6, Zenon DEF e

\* An operation whose url is cut into single tokens, and that takes no form.
OpOk(o) == Slashed(o.url) /\ o.body # "form"
OpsOk(ops) == \A n \in DOMAIN ops : OpOk(ops[n])

\* The url of an operation is cut into single tokens if its path is made of pieces.
LEMMA OperationOk ==
    ASSUME NEW method, NEW path, Piece(path), NEW secured, NEW body
    PROVE  /\ Slashed(Operation(method, path, secured, body).url)
           /\ Operation(method, path, secured, body).body = body
           /\ body # "form" => OpOk(Operation(method, path, secured, body))
<1>. DEFINE r == <<"/", "api", "/", "v1">>
            o == Operation(method, path, secured, body)
<1>1. \A x \in {"api", "v1"} : x \in AllTokens /\ x # "/" /\ x # "?" /\ x # "."
  BY DEF AllTokens, UrlNames
<1>2. Piece(<<"/", "api">>) /\ Piece(<<"/", "v1">>)
  BY <1>1, PieceOfOne
<1>3. r = (<<>> \o <<"/", "api">>) \o <<"/", "v1">>
  OBVIOUS
<1>. DEFINE e == <<>>
            a == <<"/", "api">>
            b == <<"/", "v1">>
<1>4. Slashed(r)
  <2>1. Slashed(e)
    BY NoPiece
  <2>. HIDE DEF e, a, b, r
  <2>2. Slashed((e \o a) \o b)
    BY <1>2, <2>1, Zenon DEF Piece, a, b
  <2>. QED BY <1>3, <2>2, Zenon DEF e, a, b
<1>5. o.url = r \o path /\ o.body = body
  BY DEF Operation
<1>. HIDE DEF r, o
<1>6. Slashed(o.url)
  BY <1>4, <1>5, Zenon DEF Piece
<1>. QED BY <1>5, <1>6, Zenon DEF OpOk, o

\* Such are the operations that take no form.
LEMMA GetOk ==
    ASSUME NEW path, Piece(path)
    PROVE  OpOk(Get(path)) /\ \A body : body # "form" => OpOk(Post(path, body))
<1>1. "none" # "form"
  OBVIOUS
<1>. QED BY <1>1, OperationOk, Zenon DEF Get, Post

\* One or two steps of a path.
LEMMA Steps ==
    /\ \A x \in UrlNames \cup {"{import_id}", "password"} : Piece(<<"/", x>>)
    /\ \A x, y \in UrlNames \cup {"{import_id}", "password"} : Piece(<<"/", x, "/", y>>)
<1>. DEFINE N == UrlNames \cup {"{import_id}", "password"}
            c == "/"
<1>1. ASSUME NEW x \in N PROVE x \in AllTokens /\ x # c /\ x # "?" /\ x # "."
  BY DEF AllTokens, UrlNames, Escaped, Names
<1>2. \A x \in N : Piece(<<c, x>>)
  BY <1>1, PieceOfOne
<1>3. c \in AllTokens
  BY StyleTokens
<1>. HIDE DEF c
<1>4. ASSUME NEW x \in N, NEW y \in N PROVE Piece(<<c, x, c, y>>)
  <2>. DEFINE a == <<c, x>>
              b == <<c, y>>
  <2>1. Piece(a) /\ Piece(b)
    BY <1>2
  <2>2. a \o b = <<c, x, c, y>>
    <3>1. x \in AllTokens /\ y \in AllTokens
      BY <1>1
    <3>. QED BY <1>3, <3>1, TwoAndTwo, ZenonT(30)
  <2>. HIDE DEF a, b
  <2>3. Piece(a \o b)
    BY <2>1, PieceOfPieces
  <2>. QED BY <2>2, <2>3
<1>. QED BY <1>2, <1>4 DEF c

\* What has only such operations has them with others of the kind.
LEMMA OverOk ==
    ASSUME NEW a, NEW b, OpsOk(a), OpsOk(b)
    PROVE  OpsOk(Over(a, b))
BY DEF OpsOk, Over

\* The operations on users.
LEMMA UsersOk == OpsOk(UsersService)
<1>1. Piece(UsersPath) /\ Piece(UserPath)
  <2>1. Piece(<<"/", "users">>) /\ Piece(<<"/", "{user_id}">>)
    BY Steps DEF UrlNames
  <2>. QED BY <2>1, PieceOfPieces, Zenon DEF UsersPath, UserPath
<1>2. /\ Piece(<<"/", "me">>) /\ Piece(<<"/", "me", "/", "password">>)
      /\ Piece(<<"/", "temporary-password">>)
  BY Steps DEF UrlNames
<1>. DEFINE o1 == Get(UsersPath)
            o2 == Post(UsersPath, "json")
            o3 == Get(UsersPath \o <<"/", "me">>)
            o4 == Post(UsersPath \o <<"/", "me", "/", "password">>, "json")
            o5 == Get(UserPath)
            o6 == Operation("PATCH", UserPath, TRUE, "json")
            o7 == Post(UserPath \o <<"/", "temporary-password">>, "none")
<1>3. /\ Piece(UsersPath \o <<"/", "me">>) /\ Piece(UsersPath \o <<"/", "me", "/", "password">>)
      /\ Piece(UserPath \o <<"/", "temporary-password">>)
  BY <1>1, <1>2, PieceOfPieces, Zenon
<1>4. "json" # "form" /\ "none" # "form"
  OBVIOUS
<1>5. OpOk(o1) /\ OpOk(o2) /\ OpOk(o3) /\ OpOk(o4) /\ OpOk(o5) /\ OpOk(o6) /\ OpOk(o7)
  BY <1>1, <1>3, <1>4, GetOk, OperationOk, Zenon
<1>6. UsersService = [listUsers |-> o1, createUser |-> o2, readUserMe |-> o3, changePassword |-> o4,
                      readUser |-> o5, updateUser |-> o6, issueTemporaryPassword |-> o7]
  BY Zenon DEF UsersService
<1>. HIDE DEF o1, o2, o3, o4, o5, o6, o7
<1>. QED BY <1>5, <1>6 DEF OpsOk

\* The operations on imports.
LEMMA ImportsOk == OpsOk(ImportsService)
<1>1. Piece(ImportsPath) /\ \A end : Piece(end) => Piece(ImportPath(end))
  <2>1. Piece(<<"/", "imports">>) /\ Piece(<<"/", "{import_id}">>)
    BY Steps DEF UrlNames
  <2>2. \A end : Piece(end) => Piece((ImportsPath \o <<"/", "{import_id}">>) \o end)
    BY <2>1, PieceOfPieces, Zenon DEF ImportsPath
  <2>. QED BY <2>1, <2>2, Zenon DEF ImportsPath, ImportPath
<1>2. /\ Piece(<<"/", "preview">>) /\ Piece(<<"/", "mapping">>) /\ Piece(<<"/", "validate">>)
      /\ Piece(<<"/", "confirm">>) /\ Piece(<<"/", "cancel">>) /\ Piece(<<"/", "retry">>)
      /\ Piece(<<"/", "rows">>) /\ Piece(<<"/", "reports", "/", "{report_name}">>) /\ Piece(<<>>)
  BY Steps, NoPiece DEF UrlNames
<1>. DEFINE o1 == Get(ImportsPath)
            o2 == Post(ImportsPath, "multipart")
            o3 == Get(ImportPath(<<>>))
            o4 == Get(ImportPath(<<"/", "preview">>))
            o5 == Operation("PUT", ImportPath(<<"/", "mapping">>), TRUE, "json")
            o6 == Post(ImportPath(<<"/", "validate">>), "none")
            o7 == Post(ImportPath(<<"/", "confirm">>), "none")
            o8 == Post(ImportPath(<<"/", "cancel">>), "none")
            o9 == Post(ImportPath(<<"/", "retry">>), "none")
            o10 == Get(ImportPath(<<"/", "rows">>))
            o11 == Get(ImportPath(<<"/", "reports", "/", "{report_name}">>))
<1>4. "json" # "form" /\ "none" # "form" /\ "multipart" # "form"
  OBVIOUS
<1>5. /\ OpOk(o1) /\ OpOk(o2) /\ OpOk(o3) /\ OpOk(o4) /\ OpOk(o5) /\ OpOk(o6)
      /\ OpOk(o7) /\ OpOk(o8) /\ OpOk(o9) /\ OpOk(o10) /\ OpOk(o11)
  BY <1>1, <1>2, <1>4, GetOk, OperationOk, Zenon
<1>6. ImportsService =
         [listImports |-> o1, uploadImport |-> o2, getImport |-> o3, previewImport |-> o4,
          setMapping |-> o5, validateImport |-> o6, confirmImport |-> o7, cancelImport |-> o8,
          retryImport |-> o9, listValidationRows |-> o10, downloadReport |-> o11]
  BY Zenon DEF ImportsService
<1>. HIDE DEF o1, o2, o3, o4, o5, o6, o7, o8, o9, o10, o11
<1>. QED BY <1>5, <1>6 DEF OpsOk

\* The operations on jobs, on the lists and on the state of the system.
LEMMA OthersOk ==
    /\ OpsOk(JobsService) /\ OpsOk(DashboardService) /\ OpsOk(ContactsService)
    /\ OpsOk(AuditService) /\ OpsOk(OperationsService)
<1>1. /\ Piece(<<"/", "jobs", "/", "{job_id}">>) /\ Piece(<<"/", "attempts">>)
      /\ Piece(<<"/", "dashboard">>) /\ Piece(<<"/", "contacts">>) /\ Piece(<<"/", "audit-events">>)
      /\ Piece(<<"/", "health", "/", "live">>) /\ Piece(<<"/", "health", "/", "ready">>)
      /\ Piece(<<"/", "version">>)
  BY Steps DEF UrlNames
<1>2. Piece(JobPath) /\ Piece(JobPath \o <<"/", "attempts">>)
  BY <1>1, PieceOfPieces, Zenon DEF JobPath
<1>. DEFINE o1 == Get(JobPath)
            o2 == Get(JobPath \o <<"/", "attempts">>)
            o3 == Get(<<"/", "dashboard">>)
            o4 == Get(<<"/", "contacts">>)
            o5 == Get(<<"/", "audit-events">>)
            o6 == Operation("GET", <<"/", "health", "/", "live">>, FALSE, "none")
            o7 == Operation("GET", <<"/", "health", "/", "ready">>, FALSE, "none")
            o8 == Operation("GET", <<"/", "version">>, FALSE, "none")
<1>3. "none" # "form"
  OBVIOUS
<1>4. /\ OpOk(o1) /\ OpOk(o2) /\ OpOk(o3) /\ OpOk(o4) /\ OpOk(o5) /\ OpOk(o6)
      /\ OpOk(o7) /\ OpOk(o8)
  BY <1>1, <1>2, <1>3, GetOk, OperationOk, Zenon
<1>5. /\ JobsService = [getJob |-> o1, listAttempts |-> o2]
      /\ DashboardService = [dashboard |-> o3] /\ ContactsService = [listContacts |-> o4]
      /\ AuditService = [listAuditEvents |-> o5]
      /\ OperationsService = [liveness |-> o6, readiness |-> o7, version |-> o8]
  BY Zenon DEF JobsService, DashboardService, ContactsService, AuditService, OperationsService
<1>. HIDE DEF o1, o2, o3, o4, o5, o6, o7, o8
<1>6. OpsOk(JobsService) /\ OpsOk(OperationsService)
  BY <1>4, <1>5 DEF OpsOk
<1>7. OpsOk(DashboardService) /\ OpsOk(ContactsService) /\ OpsOk(AuditService)
  BY <1>4, <1>5 DEF OpsOk
<1>. QED BY <1>6, <1>7

\* Every operation's url is cut into single tokens, and only signing in takes a form.
LEMMA OperationsOk ==
    ASSUME NEW n \in DOMAIN Operations
    PROVE  /\ Slashed(Operations[n].url)
           /\ n # "loginAccessToken" => Operations[n].body # "form"
<1>. DEFINE rest == Over(UsersService, Over(ImportsService, Over(JobsService,
                       Over(DashboardService, Over(ContactsService, Over(AuditService, OperationsService))))))
            o == Operation("POST", <<"/", "login", "/", "access-token">>, FALSE, "form")
<1>1. OpsOk(rest)
  BY UsersOk, ImportsOk, OthersOk, OverOk, Zenon
<1>2. Operations = Over(LoginService, rest)
  BY Zenon DEF Operations
<1>. HIDE DEF rest
<1>3. LoginService = [loginAccessToken |-> o]
  BY Zenon DEF LoginService
<1>4. Slashed(o.url)
  <2>1. Piece(<<"/", "login", "/", "access-token">>)
    BY Steps DEF UrlNames
  <2>. QED BY <2>1, OperationOk, Zenon
<1>. HIDE DEF o
<1>5. \/ n = "loginAccessToken" /\ Operations[n] = o
      \/ n \in DOMAIN rest /\ Operations[n] = rest[n]
  BY <1>2, <1>3 DEF Over
<1>. QED BY <1>1, <1>4, <1>5, Zenon DEF OpsOk, OpOk

---------------------------------------------------------------------------
(* Requests                                                                 *)

CallFields == {"request", "state", "held", "headers", "url", "body", "ok"}
CallStates == {"prepared", "sent", "resolved", "rejected"}

\* The url and the body are those of the request.
IsWritten(call) ==
    /\ call.url = getUrl(Operations[call.request.name].url, call.request.path, call.request.query)
    /\ call.body = SerializedBody(call.request)

\* A call that waits for its authorization has none yet, and one that was sent has
\* what its operation and the token it was made with ask for.
CallOk(call) ==
    /\ DOMAIN call = CallFields
    /\ call.request \in Requests
    /\ call.state \in CallStates
    /\ call.state = "prepared" => "Authorization" \notin DOMAIN call.headers
    /\ call.state # "prepared" =>
          IF Operations[call.request.name].secured /\ call.held # None
          THEN "Authorization" \in DOMAIN call.headers
               /\ call.headers["Authorization"] = call.held
          ELSE "Authorization" \notin DOMAIN call.headers
    /\ call.state = "sent" => IsWritten(call)

\* The configuration, which every call copies, holds nobody's token.
ConfigOk ==
    /\ DOMAIN config = {"throwOnError", "auth", "headers"}
    /\ config.auth = TRUE
    /\ "Authorization" \notin DOMAIN config.headers

ApiInv ==
    /\ ConfigOk
    /\ token \in Tokens \cup {None}
    /\ calls \in Seq(ToSet(calls)) /\ Len(calls) <= MaxCalls
    /\ \A i \in DOMAIN calls : CallOk(calls[i])

LEMMA ApiInvIsEnough ==
    ASSUME ApiInv
    PROVE  /\ TokenWhereDeclared
           /\ StreamTypeOK => TypeOK
<1>1. \A i \in DOMAIN calls : CallOk(calls[i])
  BY DEF ApiInv
<1>2. TokenWhereDeclared
  BY <1>1 DEF TokenWhereDeclared, CallOk
<1>3. StreamTypeOK => TypeOK
  BY <1>1 DEF TypeOK, ApiInv, ConfigOk, CallOk, CallStates
<1>. QED BY <1>2, <1>3

\* Headers merged are headers of one or the other.
LEMMA MergedHeaders ==
    ASSUME NEW a, NEW b
    PROVE  DOMAIN mergeHeaders(a, b) \subseteq DOMAIN a \cup DOMAIN b
BY DEF mergeHeaders, Restrict, Over

\* A caller sets no authorization.
CallersHeaders(r) == r.headers = NoHeaders \/ r.headers = Header("Idempotency-Key", "key")

\* A query is of parameters that can be written.
QueryOk(query) == \E S : query \in Seq(S) /\ \A p \in S : ParamOk(p)

\* What a user signs in with.
Credentials(body) ==
    \E q \in Words \ {Absent} : body = <<Field("username", q), Field("password", q)>>

\* A request that can be written and read back.
RequestOk(r) ==
    /\ CallersHeaders(r) /\ PathOk(r.path) /\ QueryOk(r.query)
    /\ r.name \in DOMAIN Operations
    /\ r.name = "loginAccessToken" => Credentials(r.body)

\* The operations called with no more than they need.
CalledNames ==
    {"listImports", "listUsers", "listContacts", "listAuditEvents", "getImport", "previewImport",
     "validateImport", "retryImport", "cancelImport", "confirmImport", "setMapping",
     "listValidationRows", "downloadReport", "uploadImport", "getJob", "listAttempts", "createUser",
     "updateUser", "issueTemporaryPassword", "changePassword", "dashboard", "readUserMe"}

\* The operations that are called exist.
LEMMA OperationNames ==
    /\ CalledNames \subseteq DOMAIN Operations /\ "loginAccessToken" \notin CalledNames
    /\ "loginAccessToken" \in DOMAIN Operations
<1>. DEFINE a == Over(AuditService, OperationsService)
            b == Over(ContactsService, a)
            c == Over(DashboardService, b)
            d == Over(JobsService, c)
            e == Over(ImportsService, d)
            f == Over(UsersService, e)
            D == DOMAIN LoginService \cup (DOMAIN UsersService \cup (DOMAIN ImportsService \cup
                 (DOMAIN JobsService \cup (DOMAIN DashboardService \cup (DOMAIN ContactsService \cup DOMAIN a)))))
<1>0. DOMAIN a = DOMAIN AuditService \cup DOMAIN OperationsService
  BY DEF Over
<1>1. DOMAIN Operations = D
  <2>1. \A g, h : DOMAIN Over(g, h) = DOMAIN g \cup DOMAIN h
    BY DEF Over
  <2>2. Operations = Over(LoginService, f)
    BY Zenon DEF Operations
  <2>3. /\ DOMAIN Operations = DOMAIN LoginService \cup DOMAIN f
        /\ DOMAIN f = DOMAIN UsersService \cup DOMAIN e /\ DOMAIN e = DOMAIN ImportsService \cup DOMAIN d
        /\ DOMAIN d = DOMAIN JobsService \cup DOMAIN c /\ DOMAIN c = DOMAIN DashboardService \cup DOMAIN b
        /\ DOMAIN b = DOMAIN ContactsService \cup DOMAIN a
    BY <2>1, <2>2, Zenon
  <2>. HIDE DEF a, b, c, d, e, f
  <2>. QED BY <2>3, Zenon
<1>. HIDE DEF a
<1>2. /\ DOMAIN LoginService = {"loginAccessToken"}
      /\ DOMAIN UsersService = {"listUsers", "createUser", "readUserMe", "changePassword", "readUser",
                                "updateUser", "issueTemporaryPassword"}
      /\ DOMAIN ImportsService = {"listImports", "uploadImport", "getImport", "previewImport", "setMapping",
                                  "validateImport", "confirmImport", "cancelImport", "retryImport",
                                  "listValidationRows", "downloadReport"}
  BY DEF LoginService, UsersService, ImportsService
<1>3. /\ DOMAIN JobsService = {"getJob", "listAttempts"} /\ DOMAIN DashboardService = {"dashboard"}
      /\ DOMAIN ContactsService = {"listContacts"} /\ DOMAIN AuditService = {"listAuditEvents"}
  BY DEF JobsService, DashboardService, ContactsService, AuditService
<1>4. CalledNames \subseteq D /\ "loginAccessToken" \in D
  BY <1>0, <1>2, <1>3 DEF CalledNames
<1>5. "loginAccessToken" \notin CalledNames
  BY DEF CalledNames
<1>. QED BY <1>1, <1>4, <1>5

\* Requests are made so.
LEMMA RequestMade ==
    ASSUME NEW name \in CalledNames, NEW path, PathOk(path), NEW query, QueryOk(query), NEW body
    PROVE  /\ RequestOk(Request(name, path, query, body, NoHeaders))
           /\ RequestOk(Request(name, path, query, body, Header("Idempotency-Key", "key")))
<1>1. name \in DOMAIN Operations /\ name # "loginAccessToken"
  BY OperationNames
<1>2. ASSUME NEW headers, headers = NoHeaders \/ headers = Header("Idempotency-Key", "key")
      PROVE  RequestOk(Request(name, path, query, body, headers))
  <2>. DEFINE r == Request(name, path, query, body, headers)
  <2>1. r.name = name /\ r.path = path /\ r.query = query /\ r.headers = headers
    BY DEF Request
  <2>. HIDE DEF r
  <2>2. CallersHeaders(r)
    BY <1>2, <2>1, Zenon DEF CallersHeaders
  <2>3. RequestOk(r)
    BY <1>1, <2>1, <2>2, Zenon DEF RequestOk
  <2>. QED BY <2>3, Zenon DEF r
<1>. QED BY <1>2, Zenon

\* What is put into a request.
Values == PlainTexts \cup {Absent, <<"50">>, <<"invalid">>}

\* The parameters of queries are named by no syntax, their values texts or absent.
LEMMA TextOk ==
    ASSUME NEW n \in {"cursor", "limit", "q", "action", "outcome"}, NEW v \in Values
    PROVE  ParamOk(Text(n, v))
<1>1. IsName(<<n>>)
  <2>1. n \in Characters
    BY EscapeTable DEF Names
  <2>2. <<n>> \in Seq(Characters)
    BY <2>1
  <2>3. n # "=" /\ n # "&" /\ n # ";" /\ n # "," /\ n # "." /\ n # "?"
    OBVIOUS
  <2>. QED BY <2>2, <2>3, FreeOne DEF IsName
<1>2. v = Absent \/ v \in Seq(Characters)
  <2>1. "50" \in Characters /\ "invalid" \in Characters
    BY EscapeTable DEF Names
  <2>2. <<"50">> \in Seq(Characters) /\ <<"invalid">> \in Seq(Characters)
    BY <2>1
  <2>. QED BY <2>2, CharactersOf DEF Values
<1>. DEFINE p == Text(n, v)
            x == <<n>>
<1>3. p.name = x /\ p.type = "text" /\ p.value = v
  BY DEF Text
<1>. HIDE DEF p, x
<1>4. ParamOk(p)
  BY <1>1, <1>2, <1>3, Zenon DEF ParamOk, x
<1>. QED BY <1>4, Zenon DEF p

\* A query has up to three of them.
LEMMA QueryOf ==
    ASSUME NEW a, NEW b, NEW c, ParamOk(a), ParamOk(b), ParamOk(c)
    PROVE  QueryOk(<<>>) /\ QueryOk(<<a>>) /\ QueryOk(<<a, b>>) /\ QueryOk(<<a, b, c>>)
<1>. DEFINE S == {a, b, c}
<1>1. \A p \in S : ParamOk(p)
  OBVIOUS
<1>2. a \in S /\ b \in S /\ c \in S
  OBVIOUS
<1>. HIDE DEF S
<1>3. <<>> \in Seq(S) /\ <<a>> \in Seq(S) /\ <<a, b>> \in Seq(S) /\ <<a, b, c>> \in Seq(S)
  BY <1>2
<1>. QED BY <1>1, <1>3, Zenon DEF QueryOk

\* The paths of requests have identifiers for their parameters.
LEMMA PathOf ==
    /\ PathOk(NoPath)
    /\ \A id \in Ids : /\ \A p \in Parameters : PathOk(Path(p, id))
                       /\ PathOk(Over(Path("{import_id}", id), Path("{report_name}", <<"errors">>)))
<1>1. PathOk(NoPath)
  BY DEF PathOk, NoPath
<1>2. ASSUME NEW id \in Ids
      PROVE  /\ \A p \in Parameters : PathOk(Path(p, id))
             /\ PathOk(Over(Path("{import_id}", id), Path("{report_name}", <<"errors">>)))
  <2>1. id \in Seq(Characters)
    BY TextsAreNotEncoded, CharactersOf
  <2>2. \A p \in Parameters : PathOk(Path(p, id))
    BY <2>1 DEF PathOk, Path
  <2>3. PathOk(Over(Path("{import_id}", id), Path("{report_name}", <<"errors">>)))
    <3>. DEFINE e == <<"errors">>
                i == "{import_id}"
                r == "{report_name}"
                a == Path(i, id)
                b == Path(r, e)
    <3>1. "errors" \in Characters
      BY EscapeTable DEF Names
    <3>2. e \in Seq(Characters)
      BY <3>1
    <3>3. i \in Parameters /\ r \in Parameters
      BY DEF Parameters
    <3>. HIDE DEF e, i, r
    <3>4. DOMAIN a = {i} /\ a[i] = id /\ DOMAIN b = {r} /\ b[r] = e
      BY DEF Path
    <3>. HIDE DEF a, b
    <3>5. PathOk(Over(a, b))
      BY <2>1, <3>2, <3>3, <3>4 DEF PathOk, Over
    <3>. QED BY <3>5, Zenon DEF a, b, e, i, r
  <2>. QED BY <2>2, <2>3
<1>. QED BY <1>1, <1>2

\* Every call the application makes is one that can be written and read back.
LEMMA RequestsOk ==
    ASSUME NEW request \in Requests
    PROVE  RequestOk(request)
<1>1. \A name \in CalledNames : \A path, query, body :
         PathOk(path) /\ QueryOk(query) =>
           /\ RequestOk(Request(name, path, query, body, NoHeaders))
           /\ RequestOk(Request(name, path, query, body, Header("Idempotency-Key", "key")))
  BY RequestMade
<1>2. \A n \in {"cursor", "limit", "q", "action", "outcome"}, v \in Values : ParamOk(Text(n, v))
  BY TextOk
<1>3. Words \subseteq Values /\ Cursors \subseteq Values /\ Absent \in Values
      /\ <<"50">> \in Values /\ <<"invalid">> \in Values
  BY TextsAreNotEncoded DEF Values
<1>4. ParamOk(Limit) /\ QueryOk(<<>>)
  <2>1. ParamOk(Limit)
    BY <1>2, <1>3 DEF Limit
  <2>. QED BY <2>1, QueryOf
<1>5. \A n, m \in {"cursor", "q", "action", "outcome"} : \A v, w \in Values :
         /\ QueryOk(<<Limit>>) /\ QueryOk(<<Text(n, v), Limit>>)
         /\ QueryOk(<<Text(n, v), Limit, Text(m, w)>>)
         /\ QueryOk(<<Text(n, v), Text(m, w), Limit>>)
  <2>1. \A n \in {"cursor", "q", "action", "outcome"} : \A v \in Values : ParamOk(Text(n, v))
    BY <1>2
  <2>. QED BY <1>4, <2>1, QueryOf, Zenon
<1>6. ASSUME request \in ListCalls PROVE RequestOk(request)
  <2>. DEFINE Both == {"listImports", "listUsers"}
              Pages(name, c) == Request(name, NoPath, <<Text("cursor", c), Limit>>, None, NoHeaders)
              Found(c, q) == Request("listContacts", NoPath,
                                     <<Text("cursor", c), Limit, Text("q", q)>>, None, NoHeaders)
              Events(c, q) == Request("listAuditEvents", NoPath,
                                      <<Text("action", q), Text("cursor", c), Limit>>,
                                      None, NoHeaders)
              F == {Found(c, q) : c \in Cursors, q \in Words}
              E == {Events(c, q) : c \in Cursors, q \in Words}
              P == {Pages(name, c) : name \in Both, c \in Cursors}
  <2>1. ListCalls = P \cup F \cup E
    BY DEF ListCalls
  <2>2. \A name \in Both : name \in CalledNames
    BY DEF CalledNames
  <2>3. "listContacts" \in CalledNames /\ "listAuditEvents" \in CalledNames
    BY DEF CalledNames
  <2>. HIDE DEF Both, F, E, P
  <2>4. \A c \in Cursors, q \in Words : RequestOk(Found(c, q)) /\ RequestOk(Events(c, q))
    <3>1. \A c \in Cursors, q \in Words : /\ QueryOk(<<Text("cursor", c), Limit, Text("q", q)>>)
                                          /\ QueryOk(<<Text("action", q), Text("cursor", c), Limit>>)
      BY <1>3, <1>5
    <3>. QED BY <1>1, <2>3, <3>1, PathOf, Zenon
  <2>5. \A name \in Both, c \in Cursors : RequestOk(Pages(name, c))
    <3>1. \A c \in Cursors : QueryOk(<<Text("cursor", c), Limit>>)
      BY <1>3, <1>5
    <3>. QED BY <1>1, <2>2, <3>1, PathOf, Zenon
  <2>. HIDE DEF Pages, Found, Events
  <2>6. ASSUME NEW r \in F \cup E PROVE RequestOk(r)
    BY <2>4 DEF F, E
  <2>7. ASSUME NEW r \in P PROVE RequestOk(r)
    BY <2>5 DEF P
  <2>. QED BY <1>6, <2>1, <2>6, <2>7
<1>7. ASSUME request \in ImportCalls PROVE RequestOk(request)
  <2>. DEFINE Named == {"getImport", "previewImport", "validateImport", "retryImport", "cancelImport"}
              One(name, id) == Of(name, "{import_id}", id)
              Confirm(id) == Request("confirmImport", Path("{import_id}", id), <<>>, None,
                                     Header("Idempotency-Key", "key"))
              Map(id, q) == Request("setMapping", Path("{import_id}", id), <<>>,
                                    <<Field("mapping", q)>>, NoHeaders)
              Rows(id, o) == Request("listValidationRows", Path("{import_id}", id),
                                     <<Text("cursor", Absent), Limit, Text("outcome", o)>>,
                                     None, NoHeaders)
              Report(id) == Request("downloadReport",
                                    Over(Path("{import_id}", id), Path("{report_name}", <<"errors">>)),
                                    <<>>, None, NoHeaders)
              Upload == Request("uploadImport", NoPath, <<>>, <<Field("file", <<"csv">>)>>, NoHeaders)
              Outcomes == {Absent, <<"invalid">>}
              Searches == Words \ {Absent}
              Ones == {One(name, id) : name \in Named, id \in Ids}
              Maps == {Map(id, q) : id \in Ids, q \in Searches}
              Listings == {Rows(id, o) : id \in Ids, o \in Outcomes}
              Others == {Confirm(id) : id \in Ids}
              Reports == {Report(id) : id \in Ids}
  <2>1. ImportCalls = Ones \cup Others \cup Maps \cup Listings \cup Reports \cup {Upload}
    BY DEF ImportCalls
  <2>2. Outcomes \subseteq Values
    BY <1>3
  <2>3. \A name \in Named : name \in CalledNames
    BY DEF CalledNames
  <2>4. /\ "confirmImport" \in CalledNames /\ "setMapping" \in CalledNames
        /\ "listValidationRows" \in CalledNames /\ "downloadReport" \in CalledNames
        /\ "uploadImport" \in CalledNames
    BY DEF CalledNames
  <2>. HIDE DEF Ones, Maps, Listings, Others, Reports, Named, Outcomes, Searches
  <2>5. \A id \in Ids : PathOk(Path("{import_id}", id))
    BY PathOf DEF Parameters
  <2>6. \A id \in Ids, o \in Outcomes : RequestOk(Rows(id, o))
    <3>1. \A o \in Outcomes : QueryOk(<<Text("cursor", Absent), Limit, Text("outcome", o)>>)
      BY <1>3, <1>5, <2>2
    <3>. QED BY <1>1, <2>4, <2>5, <3>1, Zenon
  <2>7. \A id \in Ids : RequestOk(Confirm(id)) /\ \A q : RequestOk(Map(id, q))
    BY <1>1, <1>4, <2>4, <2>5, Zenon
  <2>8. \A id \in Ids : RequestOk(Report(id)) /\ \A name \in Named : RequestOk(One(name, id))
    BY <1>1, <1>4, <2>3, <2>4, <2>5, PathOf, Zenon DEF Of
  <2>9. RequestOk(Upload)
    BY <1>1, <1>4, <2>4, PathOf, Zenon
  <2>. HIDE DEF One, Confirm, Map, Rows, Report, Upload
  <2>10. \A r \in Ones : RequestOk(r)
    BY <2>8 DEF Ones
  <2>11. \A r \in Maps : RequestOk(r)
    BY <2>7 DEF Maps
  <2>12. \A r \in Listings : RequestOk(r)
    BY <2>6 DEF Listings
  <2>13. \A r \in Others \cup Reports : RequestOk(r)
    BY <2>7, <2>8 DEF Others, Reports
  <2>. QED BY <1>7, <2>1, <2>9, <2>10, <2>11, <2>12, <2>13
<1>8. ASSUME request \in JobCalls PROVE RequestOk(request)
  <2>1. "getJob" \in CalledNames /\ "listAttempts" \in CalledNames /\ "{job_id}" \in Parameters
    BY DEF CalledNames, Parameters
  <2>2. QueryOk(<<Limit>>)
    BY <1>3, <1>5
  <2>. QED BY <1>1, <1>4, <1>8, <2>1, <2>2, PathOf, Zenon DEF JobCalls, Of
<1>9. ASSUME request \in UserCalls PROVE RequestOk(request)
  <2>1. /\ "createUser" \in CalledNames /\ "updateUser" \in CalledNames
        /\ "issueTemporaryPassword" \in CalledNames /\ "{user_id}" \in Parameters
    BY DEF CalledNames, Parameters
  <2>. QED BY <1>1, <1>4, <1>9, <2>1, PathOf, Zenon DEF UserCalls, Of
<1>10. ASSUME request \in SessionCalls PROVE RequestOk(request)
  <2>1. "changePassword" \in CalledNames
    BY DEF CalledNames
  <2>2. ASSUME NEW q \in Words \ {Absent}
        PROVE  RequestOk(Request("loginAccessToken", NoPath, <<>>,
                                 <<Field("username", q), Field("password", q)>>, NoHeaders))
    <3>. DEFINE body == <<Field("username", q), Field("password", q)>>
                r == Request("loginAccessToken", NoPath, <<>>, body, NoHeaders)
    <3>1. Credentials(body)
      BY Zenon DEF Credentials
    <3>. HIDE DEF body
    <3>2. r.name = "loginAccessToken" /\ r.path = NoPath /\ r.query = <<>> /\ r.headers = NoHeaders
          /\ r.body = body
      BY DEF Request
    <3>. HIDE DEF r
    <3>3. RequestOk(r)
      BY <1>4, <3>1, <3>2, PathOf, OperationNames, Zenon DEF RequestOk, CallersHeaders
    <3>. QED BY <3>3, Zenon DEF r, body
  <2>. QED BY <1>1, <1>4, <1>10, <2>1, <2>2, PathOf, Zenon DEF SessionCalls
<1>11. RequestOk(Plain("dashboard")) /\ RequestOk(Plain("readUserMe"))
  <2>1. "dashboard" \in CalledNames /\ "readUserMe" \in CalledNames
    BY DEF CalledNames
  <2>. QED BY <1>1, <1>4, <2>1, PathOf, Zenon DEF Plain
<1>. QED BY <1>6, <1>7, <1>8, <1>9, <1>10, <1>11 DEF Requests

\* A caller sets no authorization.
LEMMA RequestHeaders ==
    ASSUME NEW request \in Requests
    PROVE  "Authorization" \notin DOMAIN request.headers
<1>1. CallersHeaders(request)
  BY RequestsOk, Zenon DEF RequestOk
<1>2. \A value : "Authorization" \notin DOMAIN Header("Idempotency-Key", value)
  BY DEF Header
<1>3. "Authorization" \notin DOMAIN NoHeaders
  BY DEF NoHeaders
<1>. QED BY <1>1, <1>2, <1>3 DEF CallersHeaders

\* A part of a path with its parameters in.
SegmentOk(path, part, segment) ==
    \/ segment = part /\ \A x \in DOMAIN path : part # <<x>>
    \/ \E x \in DOMAIN path : part = <<x>> /\ segment = Encoded(path[x])

\* A part of a url is a parameter and replaced by its value, encoded, or left as it is.
LEMMA SegmentRead ==
    ASSUME NEW path, PathOk(path), NEW part \in Seq(AllTokens), Len(part) <= 1
    PROVE  SegmentOk(path, part, Segments(path)[part])
<1>. DEFINE g == Replaced(path)
            s == Segments(path)[part]
<1>1. s = Flat(g, part)
  BY SegmentsMapped
<1>2. g \in [AllTokens -> Seq(AllTokens)]
  BY ReplacedTyped
<1>3. CASE part = <<>>
  <2>1. s = <<>>
    BY <1>1, <1>3, FlatEmpty, Zenon
  <2>2. \A x : part # <<x>>
    BY <1>3
  <2>. HIDE DEF s
  <2>. QED BY <1>3, <2>1, <2>2, Zenon DEF SegmentOk, s
<1>4. CASE part # <<>>
  <2>. DEFINE y == part[1]
              e == <<>>
              z == g[y]
  <2>1. y \in AllTokens /\ part = <<y>> /\ e \in Seq(AllTokens) /\ Append(e, y) = <<y>>
    BY <1>4
  <2>2. z \in Seq(AllTokens)
    BY <1>2, <2>1
  <2>. HIDE DEF y, e
  <2>3. FlatGrows(g, e, y)
    BY <1>2, <2>1, FlatAppend
  <2>4. Flat(g, e) = e
    BY FlatEmpty, Zenon DEF e
  <2>5. e \o z = z
    <3>. HIDE DEF z
    <3>. QED BY <2>2 DEF e
  <2>6. s = z
    BY <1>1, <2>1, <2>3, <2>4, <2>5, Zenon DEF FlatGrows
  <2>7. /\ y \notin DOMAIN path => z = <<y>>
        /\ y \in DOMAIN path => z = Encoded(path[y])
    BY <2>1, ReplacedTyped, Zenon
  <2>8. \A x : part = <<x>> => x = y
    BY <2>1
  <2>. HIDE DEF s, z
  <2>9. SegmentOk(path, part, s)
    BY <2>1, <2>6, <2>7, <2>8, Zenon DEF SegmentOk
  <2>. QED BY <2>9, Zenon DEF s
<1>. QED BY <1>3, <1>4

\* Escapes are no dots, nor is what they stand for.
LEMMA DotsAreNotMade ==
    ASSUME NEW t \in Seq(Characters), t \notin DotSegments
    PROVE  Encoded(t) \notin DotSegments
<1>. DEFINE e == Encoded(t)
            n == Len(t)
<1>1. n \in Nat /\ DOMAIN t = 1..n /\ t = [i \in 1..n |-> t[i]]
  OBVIOUS
<1>2. /\ DOMAIN e = 1..n
      /\ \A i \in 1..n : e[i] = IF t[i] \in DOMAIN Escape THEN Escape[t[i]] ELSE t[i]
  BY <1>1 DEF Encoded
<1>3. \A c \in DOMAIN Escape : Escape[c] # "."
  BY DEF Escape
<1>4. \A i \in 1..n : e[i] = "." => t[i] = "."
  BY <1>2, <1>3
<1>. HIDE DEF e, n
<1>5. e # <<".">>
  <2>. SUFFICES ASSUME e = <<".">> PROVE FALSE
    OBVIOUS
  <2>1. n = 1 /\ t[1] = "."
    BY <1>1, <1>2, <1>4
  <2>2. t = <<".">>
    BY <1>1, <2>1
  <2>. QED BY <2>2 DEF DotSegments
<1>6. e # <<".", ".">>
  <2>. SUFFICES ASSUME e = <<".", ".">> PROVE FALSE
    OBVIOUS
  <2>1. n = 2 /\ t[1] = "." /\ t[2] = "."
    BY <1>1, <1>2, <1>4
  <2>2. t = <<".", ".">>
    BY <1>1, <2>1
  <2>. QED BY <2>2 DEF DotSegments
<1>. QED BY <1>5, <1>6 DEF DotSegments, e

\* f[T] is what is kept of the segments of s at the positions T.
Resolves(f, s) ==
    f = [T \in SUBSET DOMAIN s |->
            IF T = {} THEN <<>> ELSE ResolveSegment(f[T \ {Max(T)}], s[Max(T)])]

\* A path without dot segments is what it was.
LEMMA NothingResolved ==
    ASSUME NEW s \in Seq(Seq(AllTokens)), s # <<>>,
           \A i \in DOMAIN s : s[i] \notin DotSegments
    PROVE  Resolved(s) = s
<1>. DEFINE X == Seq(AllTokens)
            S == Seq(X)
            n == Len(s)
            none == <<>>
            step == [p \in S \X X |-> ResolveSegment(p[1], p[2])]
<1>1. /\ n \in Nat /\ DOMAIN s = 1..n /\ \A i \in 1..n : s[i] \in X
      /\ n > 0 /\ s = [i \in 1..n |-> s[i]]
  OBVIOUS
<1>2. none \in S
  OBVIOUS
<1>3. ASSUME NEW kept \in S, NEW x \in X PROVE ResolveSegment(kept, x) \in S
  <2>. HIDE DEF X
  <2>1. Len(kept) > 1 => Front(kept) \in S
    BY DEF Front
  <2>2. Append(kept, x) \in S
    OBVIOUS
  <2>. HIDE DEF S
  <2>. QED BY <2>1, <2>2 DEF ResolveSegment
<1>4. step \in [S \X X -> S]
  <2>1. ASSUME NEW p \in S \X X PROVE ResolveSegment(p[1], p[2]) \in S
    BY <1>3
  <2>. HIDE DEF S, X
  <2>. QED BY <2>1
<1>5. \A a \in S, x \in X : step[<<a, x>>] = ResolveSegment(a, x)
  OBVIOUS
<1>6. ASSUME NEW i \in 1..n PROVE s[i] # <<".">> /\ s[i] # <<".", ".">>
  <2>. DEFINE t == s[i]
  <2>1. t \notin DotSegments
    BY <1>1
  <2>. HIDE DEF t
  <2>2. t # <<".">> /\ t # <<".", ".">>
    BY <2>1, Zenon DEF DotSegments
  <2>. QED BY <2>2 DEF t
<1>. HIDE DEF S, X, step, n, none
<1>7. PICK h : Folded(h, S, step, none, s, n)
  BY <1>1, <1>2, <1>4, FoldExists
<1>8. ASSUME NEW T \in SUBSET (1..n)
      PROVE  h[T] = IF T = {} THEN <<>> ELSE ResolveSegment(h[T \ {Max(T)}], s[Max(T)])
  <2>1. ASSUME T # {} PROVE h[T \ {Max(T)}] \in S /\ s[Max(T)] \in X
    <3>1. Max(T) \in 1..n
      BY <1>1, <2>1, MaxIs
    <3>2. T \ {Max(T)} \in SUBSET (1..n)
      OBVIOUS
    <3>. QED BY <1>1, <1>7, <3>1, <3>2 DEF Folded
  <2>. QED BY <1>5, <1>7, <2>1 DEF none, Folded
<1>9. Resolves(h, s)
  <2>1. h = [T \in SUBSET (1..n) |->
                IF T = {} THEN <<>> ELSE ResolveSegment(h[T \ {Max(T)}], s[Max(T)])]
    BY <1>7, <1>8 DEF Folded
  <2>. QED BY <1>1, <2>1 DEF Resolves
<1>. DEFINE g == CHOOSE g : g = [T \in SUBSET DOMAIN s |->
                      IF T = {} THEN <<>> ELSE ResolveSegment(g[T \ {Max(T)}], s[Max(T)])]
            kept == FoldLeft(ResolveSegment, <<>>, s)
<1>10. \E f : f = [T \in SUBSET DOMAIN s |->
                      IF T = {} THEN <<>> ELSE ResolveSegment(f[T \ {Max(T)}], s[Max(T)])]
  BY <1>9 DEF Resolves
<1>11. g = [T \in SUBSET DOMAIN s |->
                      IF T = {} THEN <<>> ELSE ResolveSegment(g[T \ {Max(T)}], s[Max(T)])]
  BY <1>10, Zenon
<1>12. kept = g[DOMAIN s]
  BY DEF FoldLeft, MapThenFoldSet
<1>. HIDE DEF g, kept
<1>13. g[{}] = <<>>
  BY <1>11
<1>14. ASSUME NEW k \in Nat, k < n
       PROVE  g[1..(k + 1)] = ResolveSegment(g[1..k], s[k + 1])
  <2>. DEFINE T == 1..(k + 1)
  <2>1. T \in SUBSET DOMAIN s
    BY <1>1, <1>14
  <2>2. T # {} /\ Max(T) = k + 1 /\ T \ {k + 1} = 1..k
    BY MaxOfFirst
  <2>. HIDE DEF T
  <2>3. g[T] = ResolveSegment(g[T \ {Max(T)}], s[Max(T)])
    BY <1>11, <2>1, <2>2
  <2>4. g[T] = ResolveSegment(g[1..k], s[k + 1])
    BY <2>2, <2>3
  <2>. QED BY <2>4 DEF T
<1>. DEFINE First(k) == [i \in 1..k |-> s[i]]
            G == {k \in Nat : k <= n => g[1..k] = First(k)}
<1>15. 0 \in G
  <2>1. 1..0 = {} /\ First(0) = <<>>
    OBVIOUS
  <2>. HIDE DEF First
  <2>. QED BY <1>13, <2>1
<1>16. ASSUME NEW k \in Nat, k \in G PROVE k + 1 \in G
  <2>. SUFFICES ASSUME k + 1 <= n PROVE g[1..(k + 1)] = First(k + 1)
    OBVIOUS
  <2>1. k < n /\ k + 1 \in 1..n /\ g[1..k] = First(k)
    BY <1>1, <1>16
  <2>2. Append(First(k), s[k + 1]) = First(k + 1)
    <3>1. \A i \in 1..(k + 1) : s[i] \in X
      BY <1>1, <2>1
    <3>2. First(k) \in Seq(X) /\ Len(First(k)) = k
      BY <3>1
    <3>. QED BY <3>1, <3>2
  <2>. HIDE DEF First
  <2>3. g[1..(k + 1)] = Append(First(k), s[k + 1])
    BY <1>6, <1>14, <2>1 DEF ResolveSegment
  <2>. QED BY <2>2, <2>3
<1>. HIDE DEF G
<1>17. Nat \subseteq G
  BY <1>15, <1>16, SetInduction
<1>18. kept = s
  <2>1. n \in G
    BY <1>1, <1>17
  <2>2. g[1..n] = First(n)
    <3>. HIDE DEF First
    <3>. QED BY <1>1, <2>1 DEF G
  <2>3. s = First(n)
    BY <1>1
  <2>. HIDE DEF First
  <2>. QED BY <1>1, <1>12, <2>2, <2>3
<1>19. Last(s) \notin DotSegments
  BY <1>1 DEF Last, n
<1>. QED BY <1>18, <1>19, Zenon DEF Resolved, kept

\* The path of a request as the server reads it.
LEMMA PathIsRead ==
    ASSUME NEW path, PathOk(path), NEW u, Slashed(u)
    PROVE  /\ defaultPathSerializer(path, u) \in Seq(AllTokens)
           /\ (\A x \in DOMAIN path : path[x] \notin DotSegments) =>
                 Resolved(Split(defaultPathSerializer(path, u), "/"))
                 = Split(defaultPathSerializer(path, u), "/")
           /\ Free(defaultPathSerializer(path, u), "?")
           /\ PathRead(Split(u, "/"), Split(defaultPathSerializer(path, u), "/"))
           /\ \A k \in DOMAIN Split(u, "/") : \A x \in DOMAIN path :
                 Split(u, "/")[k] = <<x>> =>
                    Decoded(Split(defaultPathSerializer(path, u), "/")[k]) = path[x]
<1>. DEFINE g == Replaced(path)
            f == Segments(path)
            P == defaultPathSerializer(path, u)
            a == Split(u, "/")
            b == Split(P, "/")
            A == Seq(AllTokens)
<1>1. u \in A /\ Free(u, "?") /\ \A i \in DOMAIN a : Single(a[i])
  BY DEF Slashed
<1>2. P = Flat(g, u)
  BY <1>1, PathSerialized
<1>3. /\ g \in [AllTokens -> A] /\ f \in [A -> A]
      /\ \A x \in AllTokens : x # "?" => Free(g[x], "?")
  BY ReplacedTyped, SegmentsMapped
<1>4. P \in A
  BY <1>1, <1>2, <1>3, FlatTyped
<1>5. Free(P, "?")
  <2>1. \A i \in DOMAIN u : u[i] \in AllTokens /\ u[i] # "?"
    BY <1>1 DEF Free
  <2>2. \A i \in DOMAIN u : Free(g[u[i]], "?")
    BY <1>3, <2>1
  <2>. HIDE DEF g, P
  <2>3. FlatIsFree(g, u, "?")
    BY <1>1, <1>3, FlatFree
  <2>. QED BY <1>2, <2>2, <2>3, Zenon DEF FlatIsFree
<1>6. a \in Seq(A)
  BY <1>1, SplitTyped
<1>7. b = Mapped(f, a)
  <2>1. PathSplits(path, u)
    BY <1>1, PathIsSplit
  <2>. QED BY <1>2, <2>1, Zenon DEF PathSplits
<1>. HIDE DEF g, f, P, a, b
<1>8. DOMAIN b = DOMAIN a /\ Len(b) = Len(a) /\ \A i \in DOMAIN a : b[i] = f[a[i]]
  <2>1. Len(Mapped(f, a)) = Len(a)
    <3>. HIDE DEF A
    <3>. QED BY <1>3, <1>6, MappedTyped
  <2>. QED BY <1>7, <2>1 DEF Mapped
<1>9. ASSUME NEW i \in DOMAIN a PROVE SegmentOk(path, a[i], b[i])
  <2>. DEFINE t == a[i]
  <2>1. t \in A /\ Len(t) <= 1
    BY <1>1, <1>6 DEF Single
  <2>. HIDE DEF t
  <2>2. SegmentOk(path, t, Segments(path)[t])
    BY <2>1, SegmentRead
  <2>. QED BY <1>8, <2>2, Zenon DEF t, f
<1>10. ASSUME NEW i \in DOMAIN a
       PROVE  a[i] = b[i] \/ \E x \in Parameters : a[i] = <<x>>
  BY <1>9, Zenon DEF SegmentOk, PathOk
<1>11. PathRead(a, b)
  <2>1. ASSUME NEW i \in DOMAIN a
        PROVE  \/ a[i] \in {<<"{user_id}">>, <<"{import_id}">>, <<"{job_id}">>, <<"{report_name}">>}
               \/ a[i] = b[i]
    <3>. DEFINE t == a[i]
                w == b[i]
    <3>1. t = w \/ \E x \in Parameters : t = <<x>>
      BY <1>10
    <3>. HIDE DEF t, w
    <3>2. ASSUME NEW x \in Parameters, t = <<x>>
          PROVE  t \in {<<"{user_id}">>, <<"{import_id}">>, <<"{job_id}">>, <<"{report_name}">>}
      <4>1. x = "{user_id}" \/ x = "{import_id}" \/ x = "{job_id}" \/ x = "{report_name}"
        BY DEF Parameters
      <4>. QED BY <3>2, <4>1, Zenon
    <3>3. t \in {<<"{user_id}">>, <<"{import_id}">>, <<"{job_id}">>, <<"{report_name}">>} \/ t = w
      BY <3>1, <3>2, Zenon
    <3>. QED BY <3>3 DEF t, w
  <2>. QED BY <1>8, <2>1, Zenon DEF PathRead
<1>12. ASSUME NEW i \in DOMAIN a, NEW x \in DOMAIN path, a[i] = <<x>>
       PROVE  Decoded(b[i]) = path[x]
  <2>1. PICK y \in DOMAIN path : a[i] = <<y>> /\ b[i] = Encoded(path[y])
    BY <1>9, <1>12, Zenon DEF SegmentOk
  <2>2. x = y
    <3>1. <<x>> = <<y>>
      BY <1>12, <2>1, Zenon
    <3>. QED BY <3>1
  <2>. DEFINE t == path[x]
  <2>3. t \in Seq(Characters)
    BY DEF PathOk
  <2>. HIDE DEF t
  <2>4. Decoded(Encoded(t)) = t
    BY <2>3, EncodedIsDecoded
  <2>. QED BY <2>1, <2>2, <2>4, Zenon DEF t
<1>13. ASSUME \A x \in DOMAIN path : path[x] \notin DotSegments
       PROVE  Resolved(b) = b
  <2>1. ASSUME NEW i \in DOMAIN a PROVE b[i] \notin DotSegments
    <3>1. CASE b[i] = a[i]
      <4>. DEFINE t == a[i]
      <4>1. Single(t)
        BY <1>1
      <4>. HIDE DEF t
      <4>2. t \notin DotSegments
        BY <4>1 DEF Single, DotSegments
      <4>. QED BY <3>1, <4>2 DEF t
    <3>2. ASSUME NEW x \in DOMAIN path, b[i] = Encoded(path[x])
          PROVE  b[i] \notin DotSegments
      <4>. DEFINE t == path[x]
      <4>1. t \in Seq(Characters) /\ t \notin DotSegments
        BY <1>13 DEF PathOk
      <4>. HIDE DEF t
      <4>2. Encoded(t) \notin DotSegments
        BY <4>1, DotsAreNotMade
      <4>. QED BY <3>2, <4>2, Zenon DEF t
    <3>. QED BY <1>9, <3>1, <3>2, Zenon DEF SegmentOk
  <2>2. b \in Seq(A) /\ b # <<>>
    BY <1>4, SplitTyped DEF b
  <2>. QED BY <1>8, <2>1, <2>2, NothingResolved
<1>. QED BY <1>4, <1>5, <1>11, <1>12, <1>13 DEF a, b, P

\* The fields read out of a url cut at its question mark.
FieldsRead(parts) == IF Len(parts) = 1 THEN <<>> ELSE PairsRead(parts[2])

\* What the server reads of a url and a query.
UrlRead(u, path, query, parts) ==
    /\ Len(parts) <= 2
    /\ parts[1] = defaultPathSerializer(path, u)
    /\ FieldsRead(parts) = ReadAs(Without(query, {Absent}))

LEMMA UrlIsRead ==
    ASSUME NEW path, PathOk(path), NEW query, QueryOk(query), NEW u, Slashed(u),
           NEW parts, parts = Split(getUrl(u, path, query), "?")
    PROVE  UrlRead(u, path, query, parts)
<1>. DEFINE P == defaultPathSerializer(path, u)
            m == Without(query, {Absent})
            q == querySerializer(query)
            c == "?"
<1>1. P \in Seq(AllTokens) /\ Free(P, c) /\ c \in AllTokens
  BY PathIsRead, StyleTokens
<1>2. PICK S : query \in Seq(S) /\ \A p \in S : ParamOk(p)
  BY Zenon DEF QueryOk
<1>3. m \in Seq(Present(S)) /\ q = FieldsText(m)
  BY <1>2, QueryMeant, Zenon
<1>4. \A p \in Present(S) : FieldOk(p)
  BY <1>2, ParameterWritten DEF Present
<1>5. getUrl(u, path, query) = P \o (IF q = <<>> THEN <<>> ELSE <<c>> \o q)
  BY Zenon DEF getUrl
<1>. HIDE DEF P, m, q, c
<1>6. CASE m = <<>>
  <2>1. q = <<>>
    <3>1. PartsOf(<<>>) = <<>>
      BY DEF PartsOf
    <3>2. Joined(<<>>, "&") = <<>>
      BY DEF Joined, FlattenSeq
    <3>. QED BY <1>3, <1>6, <3>1, <3>2, Zenon DEF FieldsText
  <2>2. P \o <<>> = P
    BY <1>1, NothingMore
  <2>3. getUrl(u, path, query) = P
    BY <1>5, <2>1, <2>2, Zenon
  <2>4. parts = <<P>>
    <3>1. Split(P, c) = <<P>>
      BY <1>1, SplitFree
    <3>. QED BY <2>3, <3>1, Zenon DEF c
  <2>5. Len(parts) = 1 /\ parts[1] = P
    BY <2>4
  <2>6. ReadAs(m) = <<>>
    BY <1>6 DEF ReadAs
  <2>7. FieldsRead(parts) = <<>>
    BY <2>5, Zenon DEF FieldsRead
  <2>8. Len(parts) <= 2
    BY <2>5
  <2>. QED BY <2>5, <2>6, <2>7, <2>8, Zenon DEF UrlRead, P, m
<1>7. CASE m # <<>>
  <2>1. m \in Seq(Present(S)) \ {<<>>}
    BY <1>3, <1>7
  <2>2. \A k \in DOMAIN m : FieldOk(m[k])
    BY <1>3, <1>4
  <2>3. /\ FieldsBack(m) /\ FieldsText(m) \in Seq(AllTokens) /\ FieldsText(m) # <<>>
        /\ Free(FieldsText(m), "?")
    BY <2>1, <2>2, FieldsAreReadBack, Zenon
  <2>4. q \in Seq(AllTokens) /\ q # <<>> /\ Free(q, c) /\ PairsRead(q) = ReadAs(m)
    BY <1>3, <2>3, Zenon DEF FieldsBack, c
  <2>5. P \o (<<c>> \o q) = (P \o <<c>>) \o q
    <3>1. <<c>> \in Seq(AllTokens)
      BY <1>1
    <3>. QED BY <1>1, <2>4, <3>1, Associative
  <2>6. getUrl(u, path, query) = (P \o <<c>>) \o q
    BY <1>5, <2>4, <2>5, Zenon
  <2>7. parts = <<P, q>>
    <3>1. Split((P \o <<c>>) \o q, c) = <<P, q>>
      BY <1>1, <2>4, SplitTwo
    <3>. QED BY <2>6, <3>1, Zenon DEF c
  <2>8. Len(parts) = 2 /\ parts[1] = P /\ parts[2] = q
    BY <2>7
  <2>9. FieldsRead(parts) = ReadAs(m)
    <3>1. Len(parts) # 1
      BY <2>8
    <3>. QED BY <2>4, <2>8, <3>1, Zenon DEF FieldsRead
  <2>10. Len(parts) <= 2
    BY <2>8
  <2>. QED BY <2>8, <2>9, <2>10, Zenon DEF UrlRead, P, m
<1>. QED BY <1>6, <1>7

\* Two fields that are neither absent nor null are both sent.
LEMMA BothAreSent ==
    ASSUME NEW a, NEW b, NEW V, a.value \notin V, b.value \notin V
    PROVE  Without(<<a, b>>, V) = <<a, b>>
<1>. DEFINE s == <<a, b>>
            f(x) == IF x.value \in V THEN <<>> ELSE <<x>>
            X == {a, b}
            one == <<a>>
            two == <<b>>
            e == <<>>
<1>1. DOMAIN s = {1, 2} /\ s[1] = a /\ s[2] = b
  OBVIOUS
<1>2. f(a) = one /\ f(b) = two
  OBVIOUS
<1>3. one \in Seq(X) /\ two \in Seq(X) /\ e \in Seq(X) /\ a \in X /\ b \in X
  OBVIOUS
<1>4. Without(s, V) = FlattenSeq([i \in DOMAIN s |-> f(s[i])])
  BY Zenon DEF Without
<1>. HIDE DEF f, s, X
<1>5. [i \in DOMAIN s |-> f(s[i])] = <<one, two>>
  <2>. HIDE DEF one, two
  <2>1. [i \in DOMAIN s |-> f(s[i])] = [i \in {1, 2} |-> f(s[i])]
    BY <1>1
  <2>. QED BY <1>1, <1>2, <2>1
<1>6. <<one, two>> = Append(Append(e, one), two)
  <2>. HIDE DEF one, two
  <2>. QED BY DEF e
<1>7. FlattenSeq(Append(Append(e, one), two)) = (e \o one) \o two
  <2>. DEFINE p == Append(e, one)
              W == Seq(X)
  <2>0. e \in Seq(W) /\ FlattenSeq(e) = e
    BY DEF FlattenSeq
  <2>. HIDE DEF one, two, e
  <2>1. p \in Seq(W)
    BY <1>3, <2>0
  <2>2. FlattenSeq(p) = FlattenSeq(e) \o one
    BY <1>3, <2>0, FlattenAppend
  <2>. HIDE DEF p
  <2>3. FlattenSeq(Append(p, two)) = FlattenSeq(p) \o two
    BY <1>3, <2>1, FlattenAppend
  <2>. QED BY <2>0, <2>2, <2>3, Zenon DEF p
<1>8. e \o one = one
  BY <1>3
<1>9. one \o two = s
  BY <1>3, OneAndOne DEF s
<1>. HIDE DEF one, two, e
<1>10. Without(s, V) = s
  BY <1>4, <1>5, <1>6, <1>7, <1>8, <1>9, Zenon
<1>. QED BY <1>10, Zenon DEF s

\* What a user signs in with is read as it was typed.
LEMMA FormIsRead ==
    ASSUME NEW request, Credentials(request.body), Operations[request.name].body = "form"
    PROVE  PairsRead(SerializedBody(request)) = request.body
<1>1. PICK w \in Words \ {Absent} : request.body = <<Field("username", w), Field("password", w)>>
  BY Zenon DEF Credentials
<1>. DEFINE a == Field("username", w)
            b == Field("password", w)
            s == <<a, b>>
            r == Request("loginAccessToken", NoPath, <<>>, s, NoHeaders)
            V == {Absent, None}
<1>2. w \in Seq(Characters) /\ w \notin V
  BY TextsAreNotEncoded, CharactersOf
<1>3. s # None
  <2>1. r \in SessionCalls
    BY DEF SessionCalls
  <2>2. r.body = s
    BY DEF Request
  <2>. HIDE DEF r, s
  <2>. QED BY <2>1, <2>2, NoBodyIsNone
<1>4. a.value = w /\ b.value = w /\ a.name = <<"username">> /\ b.name = <<"password">>
      /\ a = [name |-> a.name, value |-> a.value] /\ b = [name |-> b.name, value |-> b.value]
  BY DEF Field
<1>5. IsName(a.name) /\ IsName(b.name)
  <2>1. ASSUME NEW x \in {"username", "password"} PROVE IsName(<<x>>)
    <3>1. x \in Characters
      BY EscapeTable DEF Names
    <3>2. <<x>> \in Seq(Characters)
      BY <3>1
    <3>3. x # "=" /\ x # "&" /\ x # ";" /\ x # "," /\ x # "." /\ x # "?"
      OBVIOUS
    <3>. QED BY <3>2, <3>3, FreeOne DEF IsName
  <2>. QED BY <1>4, <2>1
<1>. HIDE DEF a, b, V
<1>6. Without(s, V) = s
  <2>1. a.value \notin V /\ b.value \notin V
    BY <1>2, <1>4
  <2>. QED BY <2>1, BothAreSent
<1>7. FieldOk(a) /\ FieldOk(b)
  BY <1>2, <1>4, <1>5 DEF FieldOk
<1>8. s \in Seq({a, b}) \ {<<>>} /\ \A k \in DOMAIN s : FieldOk(s[k])
  <2>1. s \in Seq({a, b}) \ {<<>>} /\ DOMAIN s = {1, 2} /\ s[1] = a /\ s[2] = b
    OBVIOUS
  <2>. HIDE DEF s
  <2>. QED BY <1>7, <2>1
<1>9. ReadAs(s) = s
  <2>1. DOMAIN s = {1, 2} /\ s[1] = a /\ s[2] = b
    OBVIOUS
  <2>. DEFINE f(k) == [name |-> s[k].name, value |-> s[k].value]
  <2>2. f(1) = a /\ f(2) = b
    BY <1>4, <2>1, Zenon
  <2>3. ReadAs(s) = [k \in DOMAIN s |-> f(k)]
    BY DEF ReadAs
  <2>. HIDE DEF f
  <2>4. [k \in {1, 2} |-> f(k)] = <<a, b>>
    BY <2>2
  <2>. QED BY <2>1, <2>3, <2>4
<1>10. PairsRead(FieldsText(s)) = s
  <2>. HIDE DEF s
  <2>1. FieldsBack(s)
    BY <1>8, FieldsAreReadBack
  <2>. QED BY <1>9, <2>1, Zenon DEF FieldsBack
<1>11. SerializedBody(request) = FieldsText(s)
  <2>1. request.body = s
    BY <1>1, Zenon DEF a, b
  <2>. DEFINE t == Without(request.body, {Absent, None})
              j == Joined([i \in DOMAIN t |-> serializePrimitiveParam(t[i].name, t[i].value)], "&")
  <2>2. SerializedBody(request) = j
    <3>1. request.body # None
      BY <1>3, <2>1, Zenon
    <3>. QED BY <3>1 DEF SerializedBody
  <2>3. t = s
    BY <1>6, <2>1, Zenon DEF V
  <2>. HIDE DEF t, s
  <2>4. j = FieldsText(t)
    BY Zenon DEF FieldsText, PartsOf
  <2>. QED BY <2>2, <2>3, <2>4, Zenon
<1>12. request.body = s
  BY <1>1, Zenon DEF a, b
<1>. HIDE DEF s
<1>. QED BY <1>10, <1>11, <1>12, Zenon

\* A request that is written as it was meant is read so.
LEMMA CallIsRead ==
    ASSUME NEW call, call.request \in Requests, IsWritten(call), ~Dotted(call.request)
    PROVE  ReadAsMeant(call)
<1>. DEFINE r == call.request
            o == Operations[r.name]
            u == o.url
            P == defaultPathSerializer(r.path, u)
            parts == Split(call.url, "?")
            m == Without(r.query, {Absent})
<1>1. RequestOk(r)
  BY RequestsOk
<1>2. PathOk(r.path) /\ QueryOk(r.query) /\ r.name \in DOMAIN Operations
      /\ (r.name = "loginAccessToken" => Credentials(r.body))
  BY <1>1, Zenon DEF RequestOk
<1>3. Slashed(u) /\ (o.body = "form" => r.name = "loginAccessToken")
  BY <1>2, OperationsOk, Zenon
<1>4. parts = Split(getUrl(u, r.path, r.query), "?")
  BY Zenon DEF IsWritten
<1>5. Len(parts) <= 2 /\ parts[1] = P /\ FieldsRead(parts) = ReadAs(m)
  <2>. DEFINE path == r.path
              query == r.query
  <2>1. PathOk(path) /\ QueryOk(query) /\ parts = Split(getUrl(u, path, query), "?")
    BY <1>2, <1>4
  <2>. HIDE DEF path, query, u, parts
  <2>2. UrlRead(u, path, query, parts)
    BY <1>3, <2>1, UrlIsRead
  <2>. QED BY <2>2, Zenon DEF UrlRead, path, query
<1>6. /\ Resolved(Split(P, "/")) = Split(P, "/")
      /\ PathRead(Split(u, "/"), Split(P, "/"))
      /\ \A k \in DOMAIN Split(u, "/") : \A x \in DOMAIN r.path :
            Split(u, "/")[k] = <<x>> => Decoded(Split(P, "/")[k]) = r.path[x]
  <2>. DEFINE path == r.path
  <2>1. \A x \in DOMAIN path : path[x] \notin DotSegments
    BY DEF Dotted
  <2>. HIDE DEF u, path
  <2>2. PathOk(path)
    BY <1>2 DEF path
  <2>3. /\ Resolved(Split(defaultPathSerializer(path, u), "/"))
           = Split(defaultPathSerializer(path, u), "/")
        /\ PathRead(Split(u, "/"), Split(defaultPathSerializer(path, u), "/"))
        /\ \A k \in DOMAIN Split(u, "/") : \A x \in DOMAIN path :
              Split(u, "/")[k] = <<x>> =>
                 Decoded(Split(defaultPathSerializer(path, u), "/")[k]) = path[x]
    BY <1>3, <2>1, <2>2, PathIsRead, ZenonT(30)
  <2>. QED BY <2>3, Zenon DEF path
<1>7. o.body = "form" => PairsRead(call.body) = r.body
  <2>. SUFFICES ASSUME o.body = "form" PROVE PairsRead(call.body) = r.body
    OBVIOUS
  <2>1. PairsRead(SerializedBody(r)) = r.body
    BY <1>2, <1>3, FormIsRead, Zenon
  <2>. QED BY <2>1, Zenon DEF IsWritten
<1>. HIDE DEF P
<1>. QED BY <1>5, <1>6, <1>7, Zenon DEF ReadAsMeant, FieldsRead, ReadAs

\* Nor does the type of a body.
LEMMA ContentHeaders ==
    ASSUME NEW body
    PROVE  "Authorization" \notin DOMAIN ContentType(body)
BY DEF ContentType, NoHeaders, Header

\* A sequence is one of its members.
LEMMA OfItsMembers ==
    ASSUME NEW S, NEW s \in Seq(S)
    PROVE  s \in Seq(ToSet(s))
<1>. DEFINE T == ToSet(s)
<1>1. Len(s) \in Nat /\ DOMAIN s = 1..Len(s) /\ s = [i \in 1..Len(s) |-> s[i]]
  OBVIOUS
<1>2. \A i \in 1..Len(s) : s[i] \in T
  BY <1>1 DEF ToSet
<1>. HIDE DEF T
<1>3. [i \in 1..Len(s) |-> s[i]] \in Seq(T)
  BY <1>1, <1>2
<1>4. s \in Seq(T)
  BY <1>1, <1>3
<1>. QED BY <1>4 DEF T

LEMMA ApiBegins == ApiInit => ApiInv
<1>. SUFFICES ASSUME ApiInit PROVE ApiInv
  OBVIOUS
<1>. DEFINE first == [throwOnError |-> TRUE, auth |-> FALSE, headers |-> NoHeaders]
            own == [auth |-> TRUE, headers |-> NoHeaders]
            merged == mergeHeaders(NoHeaders, NoHeaders)
<1>1. config = [first EXCEPT !.auth = TRUE, !.headers = merged]
  BY DEF ApiInit, mergeConfigs
<1>2. "Authorization" \notin DOMAIN merged
  <2>1. "Authorization" \notin DOMAIN NoHeaders
    BY DEF NoHeaders
  <2>. QED BY <2>1, MergedHeaders
<1>. HIDE DEF merged
<1>3. ConfigOk
  BY <1>1, <1>2 DEF ConfigOk
<1>4. calls = <<>> /\ calls \in Seq(ToSet(calls)) /\ Len(calls) <= MaxCalls
  <2>1. <<>> \in Seq({})
    OBVIOUS
  <2>2. calls = <<>>
    BY DEF ApiInit
  <2>. QED BY <2>1, <2>2, OfItsMembers, CallBound
<1>. QED BY <1>3, <1>4 DEF ApiInv, ApiInit

\* A call takes the configuration's headers, its own and its body's.
LEMMA CallStep ==
    ASSUME ApiInv, NEW request \in Requests, Call(request)
    PROVE  ApiInv'
<1>. DEFINE h == mergeHeaders(config.headers,
                      Over(request.headers, ContentType(Operations[request.name].body)))
            c == [request |-> request, state |-> "prepared", held |-> token,
                  headers |-> h, url |-> <<>>, body |-> None, ok |-> FALSE]
            S == ToSet(calls)
            l == Len(calls)
<1>1. calls' = Append(calls, c) /\ UNCHANGED <<config, token>> /\ l < MaxCalls
  BY DEF Call
<1>2. "Authorization" \notin DOMAIN h
  <2>. DEFINE a == request.headers
              b == ContentType(Operations[request.name].body)
  <2>1. "Authorization" \notin DOMAIN a /\ "Authorization" \notin DOMAIN b
    BY RequestHeaders, ContentHeaders
  <2>. HIDE DEF a, b
  <2>2. "Authorization" \notin DOMAIN Over(a, b)
    BY <2>1 DEF Over
  <2>3. "Authorization" \notin DOMAIN config.headers
    BY DEF ApiInv, ConfigOk
  <2>4. DOMAIN mergeHeaders(config.headers, Over(a, b)) \subseteq DOMAIN config.headers \cup DOMAIN Over(a, b)
    BY MergedHeaders
  <2>. QED BY <2>2, <2>3, <2>4 DEF a, b
<1>. HIDE DEF h
<1>3. CallOk(c)
  BY <1>2 DEF CallOk, CallFields, CallStates
<1>. HIDE DEF c
<1>4. calls \in Seq(S) /\ l \in Nat /\ DOMAIN calls = 1..l
  BY DEF ApiInv
<1>. HIDE DEF S, l
<1>5. /\ Append(calls, c) \in Seq(S \cup {c}) /\ Len(Append(calls, c)) = l + 1
      /\ DOMAIN Append(calls, c) = 1..(l + 1)
      /\ Append(calls, c)[l + 1] = c
      /\ \A i \in 1..l : Append(calls, c)[i] = calls[i]
  <2>1. calls \in Seq(S \cup {c})
    BY <1>4
  <2>. QED BY <1>4, <2>1 DEF l
<1>6. calls' \in Seq(ToSet(calls')) /\ Len(calls') <= MaxCalls
  <2>1. calls' \in Seq(S \cup {c})
    BY <1>1, <1>5
  <2>2. l + 1 <= MaxCalls
    BY <1>1, <1>4, CallBound
  <2>. QED BY <1>1, <1>5, <2>1, <2>2, OfItsMembers
<1>7. ASSUME NEW i \in DOMAIN calls' PROVE CallOk(calls'[i])
  <2>1. i \in 1..l \/ i = l + 1
    BY <1>1, <1>4, <1>5
  <2>2. i \in 1..l => CallOk(calls[i])
    BY <1>4 DEF ApiInv
  <2>. QED BY <1>1, <1>3, <1>5, <2>1, <2>2
<1>. QED BY <1>1, <1>6, <1>7 DEF ApiInv, ConfigOk

\* One call changes, to one that is well-formed.
LEMMA CallChanges ==
    ASSUME ApiInv, NEW i \in DOMAIN calls, NEW c, CallOk(c),
           calls' = [calls EXCEPT ![i] = c], UNCHANGED <<config, token>>
    PROVE  ApiInv'
<1>. DEFINE S == ToSet(calls)
            l == Len(calls)
<1>1. calls \in Seq(S) /\ l \in Nat /\ DOMAIN calls = 1..l /\ l <= MaxCalls
      /\ \A j \in 1..l : CallOk(calls[j])
  BY DEF ApiInv
<1>. HIDE DEF S
<1>2. /\ calls' \in Seq(S \cup {c}) /\ Len(calls') = l /\ DOMAIN calls' = 1..l
      /\ \A j \in 1..l : calls'[j] = IF j = i THEN c ELSE calls[j]
  <2>1. calls \in Seq(S \cup {c})
    BY <1>1
  <2>. QED BY <1>1, <2>1
<1>3. calls' \in Seq(ToSet(calls'))
  BY <1>2, OfItsMembers
<1>4. \A j \in DOMAIN calls' : CallOk(calls'[j])
  BY <1>1, <1>2
<1>. QED BY <1>1, <1>2, <1>3, <1>4 DEF ApiInv, ConfigOk

\* A call that is sent carries what it was made with.
LEMMA SendStep ==
    ASSUME ApiInv, NEW i \in DOMAIN calls, Send(i)
    PROVE  ApiInv'
<1>. DEFINE c == calls[i]
            h == Over(Authorization(c), c.headers)
            u == getUrl(Operations[c.request.name].url, c.request.path, c.request.query)
            b == SerializedBody(c.request)
            p == Prepared(c)
<1>1. calls' = [calls EXCEPT ![i] = p] /\ UNCHANGED <<config, token>> /\ c.state = "prepared"
  BY DEF Send
<1>2. CallOk(c) /\ config.auth = TRUE
  BY DEF ApiInv, ConfigOk
<1>3. p = [c EXCEPT !.state = "sent", !.headers = h, !.url = u, !.body = b]
  BY DEF Prepared
<1>. DEFINE wanted == Operations[c.request.name].secured /\ c.held # None
<1>4. /\ wanted => "Authorization" \in DOMAIN h /\ h["Authorization"] = c.held
      /\ ~wanted => "Authorization" \notin DOMAIN h
  <2>1. "Authorization" \notin DOMAIN c.headers
    BY <1>1, <1>2 DEF CallOk
  <2>2. wanted => Authorization(c) = Header("Authorization", c.held)
    BY <1>2 DEF Authorization
  <2>3. ~wanted => Authorization(c) = NoHeaders
    BY <1>2 DEF Authorization
  <2>4. \A x, f : "Authorization" \in DOMAIN Over(Header("Authorization", x), f)
                  /\ Over(Header("Authorization", x), f)["Authorization"] = x
    BY DEF Header, Over
  <2>5. \A f : DOMAIN Over(NoHeaders, f) = DOMAIN f
    BY DEF NoHeaders, Over
  <2>. HIDE DEF wanted
  <2>. QED BY <2>1, <2>2, <2>3, <2>4, <2>5
<1>. HIDE DEF c, h, u, b, p
<1>5. /\ DOMAIN p = DOMAIN c /\ p.request = c.request /\ p.held = c.held
      /\ p.state = "sent" /\ p.headers = h /\ p.url = u /\ p.body = b
  BY <1>2, <1>3 DEF CallOk, CallFields
<1>6. IsWritten(p)
  BY <1>5, Zenon DEF IsWritten, u, b
<1>7. CallOk(p)
  BY <1>2, <1>4, <1>5, <1>6 DEF CallOk, CallStates
<1>. QED BY <1>1, <1>7, CallChanges

\* An answer changes nothing of the request.
LEMMA SettleStep ==
    ASSUME ApiInv, NEW i \in DOMAIN calls, Settle(i)
    PROVE  ApiInv'
<1>. DEFINE c == calls[i]
<1>1. PICK ok \in BOOLEAN :
         calls' = [calls EXCEPT ![i].ok = ok,
                                ![i].state = IF ok \/ ~config.throwOnError
                                             THEN "resolved" ELSE "rejected"]
  BY DEF Settle
<1>. DEFINE s == IF ok \/ ~config.throwOnError THEN "resolved" ELSE "rejected"
            d == [c EXCEPT !.ok = ok, !.state = s]
<1>2. s \in {"resolved", "rejected"}
  OBVIOUS
<1>3. calls' = [calls EXCEPT ![i] = d] /\ UNCHANGED <<config, token>> /\ c.state = "sent"
  BY <1>1 DEF Settle
<1>4. CallOk(c)
  BY DEF ApiInv
<1>. HIDE DEF s, c
<1>5. /\ DOMAIN d = DOMAIN c /\ d.request = c.request /\ d.held = c.held
      /\ d.state = s /\ d.headers = c.headers
  BY <1>4 DEF CallOk, CallFields
<1>. HIDE DEF d
<1>6. CallOk(d)
  BY <1>2, <1>3, <1>4, <1>5 DEF CallOk, CallStates
<1>. QED BY <1>3, <1>6, CallChanges

LEMMA ApiSteps ==
    ASSUME ApiInv, ApiNext \/ UNCHANGED apiVars
    PROVE  ApiInv'
<1>1. ASSUME NEW request \in Requests, Call(request) PROVE ApiInv'
  BY <1>1, CallStep
<1>2. ASSUME NEW i \in DOMAIN calls, Send(i) PROVE ApiInv'
  BY <1>2, SendStep
<1>3. ASSUME NEW i \in DOMAIN calls, Settle(i) PROVE ApiInv'
  BY <1>3, SettleStep
<1>4. CASE TokenChanges
  BY <1>4 DEF TokenChanges, ApiInv, ConfigOk
<1>5. CASE UNCHANGED apiVars
  BY <1>5 DEF apiVars, ApiInv, ConfigOk
<1>. QED BY <1>1, <1>2, <1>3, <1>4, <1>5 DEF ApiNext

LEMMA ApiInvariance == Spec => []ApiInv
<1>1. Init => ApiInv
  BY ApiBegins DEF Init
<1>2. ApiInv /\ [Next]_vars => ApiInv'
  <2>. SUFFICES ASSUME ApiInv, [Next]_vars PROVE ApiInv'
    OBVIOUS
  <2>1. ApiNext \/ UNCHANGED apiVars
    BY DEF Next, vars
  <2>. QED BY <2>1, ApiSteps
<1>. QED BY <1>1, <1>2, PTL DEF Spec

\* A request carries the token there was when it was made if its operation
\* declares the bearer scheme, and none otherwise, however requests and sign-ins
\* overlap (client.gen.ts:45-54, utils.gen.ts:86-125).
THEOREM TokensWhereDeclared == Spec => []TokenWhereDeclared
<1>1. Spec => []ApiInv
  BY ApiInvariance
<1>2. ApiInv => TokenWhereDeclared
  BY ApiInvIsEnough
<1>. QED BY <1>1, <1>2, PTL

\* Whatever is searched for or typed in, other than "." or ".." for an id, the URL
\* and the form say, by RFC 3986 and the browser's URL parser, what was meant
\* (core/utils.gen.ts:18-111, client/utils.gen.ts:13-62).
THEOREM WhatWasMeantIsRead == Spec => []UrlsSayWhatWasMeant
<1>1. Spec => []ApiInv
  BY ApiInvariance
<1>2. ApiInv => UrlsSayWhatWasMeant
  <2>. SUFFICES ASSUME ApiInv, NEW i \in DOMAIN calls, calls[i].state = "sent",
                       ~Dotted(calls[i].request)
                PROVE  ReadAsMeant(calls[i])
    BY DEF UrlsSayWhatWasMeant
  <2>. DEFINE c == calls[i]
  <2>1. CallOk(c) /\ c.state = "sent" /\ ~Dotted(c.request)
    BY DEF ApiInv
  <2>. HIDE DEF c
  <2>2. c.request \in Requests /\ IsWritten(c)
    BY <2>1, Zenon DEF CallOk
  <2>3. ReadAsMeant(c)
    BY <2>1, <2>2, CallIsRead
  <2>. QED BY <2>3 DEF c
<1>. QED BY <1>1, <1>2, PTL

\* Configuration, calls and the stream are typed, the delays of reconnections
\* within their cap.
THEOREM ClientTypes == Spec => []TypeOK
<1>1. Spec => []StreamInv
  BY StreamInvariance
<1>2. Spec => []ApiInv
  BY ApiInvariance
<1>3. StreamInv /\ ApiInv => TypeOK
  BY StreamInvIsEnough, ApiInvIsEnough
<1>. QED BY <1>1, <1>2, <1>3, PTL
==============================================================================
