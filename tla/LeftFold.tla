------------------------------ MODULE LeftFold ------------------------------
(***************************************************************************)
(* What a fold over a sequence computes: element by element, from the left. *)
(* The operator is a parameter, so that each fold of a model is an          *)
(* instance of this module.                                                 *)
(***************************************************************************)
EXTENDS Integers, Sequences, SequencesExt, FoldFacts, SequenceTheorems

CONSTANTS
    op(_, _),   \* the step: a value and an element give a value
    V,          \* the values
    E           \* the elements

Run(v, l) == FoldLeft(op, v, l)

\* A step from a value leads to a value.
Closed == \A v \in V, e \in E : op(v, e) \in V

\* Induction on sequences, from the left: a set has all of them if it has the
\* empty one and, with a sequence, every one that is an element longer.
LEMMA SeqInduction ==
    ASSUME NEW S, NEW X, <<>> \in X,
           \A l \in Seq(S), e \in S : l \in X => Append(l, e) \in X
    PROVE  Seq(S) \subseteq X
<1> DEFINE Y == {n \in Nat : \A l \in Seq(S) : Len(l) = n => l \in X}
<1>1. 0 \in Y
  <2>1. \A l \in Seq(S) : Len(l) = 0 => l = <<>>
    OBVIOUS
  <2> QED BY <2>1
<1>2. \A n \in Nat : n \in Y => n + 1 \in Y
  <2>0. \A n \in Nat : n + 1 \in Nat
    OBVIOUS
  <2> SUFFICES ASSUME NEW n \in Nat, n \in Y, NEW l \in Seq(S), Len(l) = n + 1 PROVE l \in X
    BY <2>0, Zenon
  <2> DEFINE m == SubSeq(l, 1, n)
             e == l[n + 1]
  <2>1. m \in Seq(S) /\ Len(m) = n /\ e \in S /\ l = Append(m, e)
    OBVIOUS
  <2> HIDE DEF m, e
  <2> QED BY <2>1
<1>3. Nat \subseteq Y
  <2> HIDE DEF Y
  <2> QED BY <1>1, <1>2, NatSetInduction
<1> QED BY <1>3

\* A non-empty part of an interval has a greatest element.
LEMMA MaxPicks ==
    ASSUME NEW n \in Nat, NEW T \in SUBSET (1..n), T # {}
    PROVE  Max(T) \in T /\ \A y \in T : y <= Max(T)
<1> DEFINE R == {m \in Nat : \A y \in T : y <= m}
<1>1. R # {} /\ R \subseteq Nat
  BY n \in R
<1>2. PICK m \in R : \A k \in R : m <= k
  BY <1>1, NatMin
<1>3. m \in T
  <2> SUFFICES ASSUME m \notin T PROVE FALSE
    OBVIOUS
  <2>1. m \in Nat /\ \A y \in T : y \in Nat /\ y < m
    OBVIOUS
  <2>2. m # 0
    <3>1. PICK y \in T : TRUE
      OBVIOUS
    <3> QED BY <2>1, <3>1
  <2>3. m - 1 \in Nat /\ \A y \in T : y <= m - 1
    BY <2>1, <2>2
  <2> QED BY <1>2, <2>1, <2>3
<1>4. \E x \in T : \A y \in T : x >= y
  BY <1>3
<1> QED BY <1>4 DEF Max

\* g has the value after each prefix of l.
Values(g, v, l) ==
    g[0] = v /\ \A k \in 1..Len(l) : g[k] = op(g[k - 1], l[k])

\* A fold is the last of the values after its prefixes.
LEMMA RunSolves ==
    ASSUME Closed, NEW v \in V, NEW l \in Seq(E)
    PROVE  \E g \in [0..Len(l) -> V] : Run(v, l) = g[Len(l)] /\ Values(g, v, l)
<1> DEFINE n == Len(l)
           D == 1..n
           P(h) == h = [s \in SUBSET D |-> IF s = {} THEN v ELSE op(h[s \ {Max(s)}], l[Max(s)])]
           c == [T \in SUBSET D |-> Max(T)]
           G == [i \in D |-> [x \in V |-> op(x, l[i])]]
<1>0. n \in Nat /\ IsFiniteSet(D) /\ DOMAIN l = D /\ \A i \in D : l[i] \in E
  BY FS_Interval
<1>1. G \in [D -> [V -> V]]
  BY <1>0 DEF Closed
<1>2. \A T \in SUBSET D : c[T] = Max(T)
  OBVIOUS
<1>3. Picks(c, D)
  BY <1>0, <1>2, MaxPicks DEF Picks
<1>4. PICK f \in [SUBSET D -> V] : IsFold(f, D, v, c, G)
  <2> HIDE DEF c, G, D
  <2> QED BY <1>0, <1>1, <1>3, FoldExists, Zenon
<1>5. P(f)
  <2>1. \A T \in SUBSET D : T # {} => f[T \ {c[T]}] \in V /\ c[T] \in D
    BY <1>3 DEF Picks
  <2>2. \A T \in SUBSET D : T # {} => G[c[T]][f[T \ {c[T]}]] = op(f[T \ {c[T]}], l[c[T]])
    BY <2>1
  <2>3. \A T \in SUBSET D : f[T] = IF T = {} THEN v ELSE op(f[T \ {Max(T)}], l[Max(T)])
    BY <1>2, <1>4, <2>2 DEF IsFold
  <2> QED BY <2>3
<1> DEFINE h == CHOOSE h : P(h)
<1>6. P(h)
  <2> HIDE DEF P
  <2> QED BY <1>5
<1>7. Run(v, l) = h[D]
  BY <1>0 DEF Run, FoldLeft, MapThenFoldSet
<1> HIDE DEF h
<1>8. \A T \in SUBSET D : h[T] = IF T = {} THEN v ELSE op(h[T \ {Max(T)}], l[Max(T)])
  BY <1>6
<1>9. h[{}] = v
  BY <1>8
<1>10. \A k \in D : h[1..k] = op(h[1..(k - 1)], l[k])
  <2> SUFFICES ASSUME NEW k \in D PROVE h[1..k] = op(h[1..(k - 1)], l[k])
    OBVIOUS
  <2>1. 1..k \in SUBSET D /\ 1..k # {} /\ k \in 1..k /\ k \in Nat
    BY <1>0
  <2>2. Max(1..k) \in 1..k /\ k <= Max(1..k)
    BY <1>0, <2>1, MaxPicks
  <2>3. Max(1..k) = k
    BY <2>1, <2>2
  <2>4. (1..k) \ {k} = 1..(k - 1)
    BY <2>1
  <2> QED BY <1>8, <2>1, <2>3, <2>4
<1> DEFINE g == [k \in 0..n |-> h[1..k]]
<1>11. 1..0 = {}
  OBVIOUS
<1>12. Values(g, v, l)
  <2>1. g[0] = v
    BY <1>0, <1>9, <1>11
  <2>2. \A k \in 1..n : g[k] = h[1..k] /\ g[k - 1] = h[1..(k - 1)]
    BY <1>0
  <2> QED BY <1>10, <2>1, <2>2 DEF Values
<1>13. g[n] = h[D]
  BY <1>0
<1>14. \A k \in 0..n : g[k] \in V
  <2> DEFINE X == {k \in Nat : k <= n => g[k] \in V}
  <2>1. 0 \in X
    BY <1>12 DEF Values
  <2>2. \A k \in Nat : k \in X => k + 1 \in X
    <3>0. \A k \in Nat : k + 1 \in Nat
      OBVIOUS
    <3> SUFFICES ASSUME NEW k \in Nat, k \in X, k + 1 <= n PROVE g[k + 1] \in V
      BY <3>0, Zenon
    <3>1. k + 1 \in 1..n /\ k <= n /\ (k + 1) - 1 = k
      BY <1>0
    <3>2. g[k] \in V
      BY <3>1
    <3> HIDE DEF g
    <3> QED BY <1>0, <1>12, <3>1, <3>2 DEF Values, Closed
  <2> HIDE DEF X
  <2>3. Nat \subseteq X
    BY <2>1, <2>2, NatSetInduction
  <2>4. ASSUME NEW k \in 0..n PROVE g[k] \in V
    <3>1. k \in X /\ k <= n
      BY <1>0, <2>3
    <3> HIDE DEF g
    <3> QED BY <3>1 DEF X
  <2> QED BY <2>4
<1>15. g \in [0..n -> V]
  BY <1>14
<1> QED BY <1>7, <1>12, <1>13, <1>15

\* Two such functions agree as far as their sequences do.
LEMMA ValuesAgree ==
    ASSUME NEW v, NEW l \in Seq(E), NEW m \in Seq(E), NEW g, NEW h, Values(g, v, l), Values(h, v, m),
           NEW n \in Nat, n <= Len(l), n <= Len(m), \A i \in 1..n : l[i] = m[i]
    PROVE  g[n] = h[n]
<1> DEFINE X == {k \in Nat : k <= n => g[k] = h[k]}
<1>0. Len(l) \in Nat /\ Len(m) \in Nat
  OBVIOUS
<1>1. 0 \in X
  BY DEF Values
<1>2. \A k \in Nat : k \in X => k + 1 \in X
  <2>0. \A k \in Nat : k + 1 \in Nat
    OBVIOUS
  <2> SUFFICES ASSUME NEW k \in Nat, k \in X, k + 1 <= n PROVE g[k + 1] = h[k + 1]
    BY <2>0, Zenon
  <2>1. k + 1 \in 1..n /\ k + 1 \in 1..Len(l) /\ k + 1 \in 1..Len(m) /\ (k + 1) - 1 = k /\ k <= n
    BY <1>0
  <2>2. g[k] = h[k] /\ l[k + 1] = m[k + 1]
    BY <2>1
  <2> QED BY <2>1, <2>2 DEF Values
<1>3. Nat \subseteq X
  <2> HIDE DEF X
  <2> QED BY <1>1, <1>2, NatSetInduction
<1> QED BY <1>3

\* The fold of nothing.
LEMMA RunEmpty ==
    ASSUME Closed, NEW v \in V
    PROVE  Run(v, <<>>) = v
<1>1. <<>> \in Seq(E) /\ Len(<<>>) = 0
  OBVIOUS
<1>2. PICK g \in [0..0 -> V] : Run(v, <<>>) = g[0] /\ Values(g, v, <<>>)
  BY <1>1, RunSolves
<1> QED BY <1>2 DEF Values

\* The fold of a sequence with one more element.
LEMMA RunAppend ==
    ASSUME Closed, NEW v \in V, NEW l \in Seq(E), NEW e \in E
    PROVE  Run(v, l) \in V /\ Run(v, Append(l, e)) = op(Run(v, l), e)
<1> DEFINE n == Len(l)
           m == Append(l, e)
<1>1. /\ n \in Nat /\ m \in Seq(E) /\ Len(m) = n + 1 /\ m[n + 1] = e
      /\ \A i \in 1..n : m[i] = l[i]
  OBVIOUS
<1>2. PICK g \in [0..n -> V] : Run(v, l) = g[n] /\ Values(g, v, l)
  BY RunSolves
<1>3. PICK h \in [0..(n + 1) -> V] : Run(v, m) = h[n + 1] /\ Values(h, v, m)
  <2> HIDE DEF m
  <2> QED BY <1>1, RunSolves
<1>4. g[n] = h[n]
  <2> HIDE DEF m
  <2>1. n <= n /\ n <= n + 1
    BY <1>1
  <2> QED BY <1>1, <1>2, <1>3, <2>1, ValuesAgree
<1>5. n + 1 \in 1..(n + 1) /\ (n + 1) - 1 = n /\ n \in 0..n
  BY <1>1
<1>6. h[n + 1] = op(h[n], e)
  BY <1>1, <1>3, <1>5 DEF Values
<1> QED BY <1>2, <1>3, <1>4, <1>5, <1>6

\* A fold leads to a value.
LEMMA RunType ==
    ASSUME Closed, NEW v \in V, NEW l \in Seq(E)
    PROVE  Run(v, l) \in V
<1>1. PICK g \in [0..Len(l) -> V] : Run(v, l) = g[Len(l)]
  BY RunSolves
<1> QED BY <1>1

\* A prefix is the one before it with one more element.
LEMMA PrefixAppends ==
    ASSUME NEW S, NEW l \in Seq(S), NEW k \in 1..Len(l)
    PROVE  /\ SubSeq(l, 1, k) = Append(SubSeq(l, 1, k - 1), l[k])
           /\ SubSeq(l, 1, k - 1) \in Seq(S) /\ l[k] \in S
           /\ Len(SubSeq(l, 1, k)) = k /\ Len(SubSeq(l, 1, k - 1)) = k - 1
OBVIOUS

\* The fold of the prefixes of a sequence, one after the other.
LEMMA RunPrefix ==
    ASSUME Closed, NEW v \in V, NEW l \in Seq(E), NEW k \in 1..Len(l)
    PROVE  /\ Run(v, SubSeq(l, 1, k - 1)) \in V
           /\ Run(v, SubSeq(l, 1, k)) = op(Run(v, SubSeq(l, 1, k - 1)), l[k])
<1> DEFINE a == SubSeq(l, 1, k - 1)
           e == l[k]
<1>1. SubSeq(l, 1, k) = Append(a, e) /\ a \in Seq(E) /\ e \in E
  BY PrefixAppends
<1> HIDE DEF a, e
<1>2. Run(v, a) \in V /\ Run(v, Append(a, e)) = op(Run(v, a), e)
  BY <1>1, RunAppend
<1> QED BY <1>1, <1>2 DEF a, e

\* The fold of two sequences in a row.
LEMMA RunConcat ==
    ASSUME Closed, NEW v \in V, NEW l \in Seq(E), NEW m \in Seq(E)
    PROVE  Run(v, l \o m) = Run(Run(v, l), m)
<1> DEFINE n == Len(m)
           X == {k \in Nat : k <= n => Run(v, l \o SubSeq(m, 1, k)) = Run(Run(v, l), SubSeq(m, 1, k))}
<1>0. n \in Nat /\ Run(v, l) \in V
  BY RunType
<1>1. 0 \in X
  <2>1. SubSeq(m, 1, 0) = <<>> /\ l \o <<>> = l
    OBVIOUS
  <2> QED BY <1>0, <2>1, RunEmpty
<1>2. \A k \in Nat : k \in X => k + 1 \in X
  <2>0. \A k \in Nat : k + 1 \in Nat
    OBVIOUS
  <2> SUFFICES ASSUME NEW k \in Nat, k \in X, k + 1 <= n
               PROVE  Run(v, l \o SubSeq(m, 1, k + 1)) = Run(Run(v, l), SubSeq(m, 1, k + 1))
    BY <2>0, Zenon
  <2> DEFINE a == SubSeq(m, 1, k)
             e == m[k + 1]
  <2>1. k + 1 \in 1..n /\ (k + 1) - 1 = k /\ k <= n
    BY <1>0
  <2>2. a \in Seq(E) /\ e \in E /\ SubSeq(m, 1, k + 1) = Append(a, e)
    BY <2>1, PrefixAppends
  <2>3. Run(v, l \o a) = Run(Run(v, l), a)
    BY <2>1
  <2> HIDE DEF a, e
  <2>4. l \o Append(a, e) = Append(l \o a, e) /\ l \o a \in Seq(E)
    BY <2>2
  <2>5. Run(v, Append(l \o a, e)) = op(Run(v, l \o a), e)
    BY <2>2, <2>4, RunAppend
  <2>6. Run(Run(v, l), Append(a, e)) = op(Run(Run(v, l), a), e)
    BY <1>0, <2>2, RunAppend
  <2> QED BY <2>2, <2>3, <2>4, <2>5, <2>6
<1>3. Nat \subseteq X
  <2> HIDE DEF X
  <2> QED BY <1>1, <1>2, NatSetInduction
<1>4. SubSeq(m, 1, n) = m
  OBVIOUS
<1>5. n \in X /\ n <= n
  BY <1>0, <1>3
<1>6. Run(v, l \o SubSeq(m, 1, n)) = Run(Run(v, l), SubSeq(m, 1, n))
  BY <1>5, Zenon
<1> QED BY <1>4, <1>6

\* The fold begins with the first element.
LEMMA RunHead ==
    ASSUME Closed, NEW v \in V, NEW l \in Seq(E), l # <<>>
    PROVE  Run(v, l) = Run(op(v, Head(l)), Tail(l))
<1>1. /\ Head(l) \in E /\ Tail(l) \in Seq(E) /\ <<Head(l)>> \in Seq(E)
      /\ l = <<Head(l)>> \o Tail(l) /\ <<Head(l)>> = Append(<<>>, Head(l)) /\ <<>> \in Seq(E)
  OBVIOUS
<1>2. Run(v, <<Head(l)>>) = op(v, Head(l))
  <2>1. Run(v, Append(<<>>, Head(l))) = op(Run(v, <<>>), Head(l))
    BY <1>1, RunAppend
  <2> QED BY <1>1, <2>1, RunEmpty
<1>3. Run(v, <<Head(l)>> \o Tail(l)) = Run(Run(v, <<Head(l)>>), Tail(l))
  BY <1>1, RunConcat
<1> QED BY <1>1, <1>2, <1>3

\* A step appends what depends on the element only.
Appends(B, code) ==
    V = Seq(B) /\ \A e \in E : code[e] \in Seq(B) /\ \A v \in V : op(v, e) = v \o code[e]

LEMMA AppendsIs ==
    ASSUME NEW B, NEW code, Appends(B, code)
    PROVE  /\ Closed /\ <<>> \in V /\ V = Seq(B)
           /\ \A e \in E : code[e] \in V /\ \A v \in V : op(v, e) = v \o code[e]
<1> USE DEF Appends
<1>1. \A x \in Seq(B), y \in Seq(B) : x \o y \in Seq(B)
  OBVIOUS
<1>2. \A v \in V, e \in E : op(v, e) \in V
  BY <1>1
<1> QED BY <1>2, EmptySeq DEF Closed

\* Such a fold appends the same to any value, and what the beginning of the elements
\* gives is the beginning of what all of them give.
LEMMA RunAppends ==
    ASSUME NEW B, NEW code, Appends(B, code), NEW v \in V, NEW l \in Seq(E)
    PROVE  Run(v, l) = v \o Run(<<>>, l)
<1> DEFINE X == {m \in Seq(E) : Run(v, m) = v \o Run(<<>>, m)}
<1>0. Closed /\ <<>> \in V /\ V = Seq(B)
  BY AppendsIs
<1>1. <<>> \in X
  <2>1. Run(v, <<>>) = v /\ Run(<<>>, <<>>) = <<>>
    BY <1>0, RunEmpty
  <2>2. v \o <<>> = v
    BY <1>0, ConcatEmptySeq
  <2>3. <<>> \in Seq(E)
    BY EmptySeq
  <2> QED BY <2>1, <2>2, <2>3
<1>2. \A m \in Seq(E), e \in E : m \in X => Append(m, e) \in X
  <2> SUFFICES ASSUME NEW m \in Seq(E), NEW e \in E, m \in X
               PROVE  Run(v, Append(m, e)) = v \o Run(<<>>, Append(m, e))
    <3>1. \A m \in Seq(E), e \in E : Append(m, e) \in Seq(E)
      OBVIOUS
    <3> QED BY <3>1, Zenon
  <2>1. Run(v, Append(m, e)) = op(Run(v, m), e) /\ Run(v, m) \in V
    BY <1>0, RunAppend
  <2>2. Run(<<>>, Append(m, e)) = op(Run(<<>>, m), e) /\ Run(<<>>, m) \in V
    BY <1>0, RunAppend
  <2>3. Run(v, m) = v \o Run(<<>>, m)
    OBVIOUS
  <2> DEFINE r == Run(<<>>, m)
             c == code[e]
  <2>4. r \in Seq(B) /\ c \in Seq(B) /\ v \in Seq(B)
    BY <1>0, <2>2, AppendsIs
  <2> HIDE DEF r, c
  <2>5. (v \o r) \o c = v \o (r \o c)
    BY <2>4
  <2>6. op(v \o r, e) = (v \o r) \o c /\ op(r, e) = r \o c
    BY <2>1, <2>2, <2>3, AppendsIs DEF r, c
  <2> QED BY <2>1, <2>2, <2>3, <2>5, <2>6, Zenon DEF r
<1>3. Seq(E) \subseteq X
  <2> HIDE DEF X
  <2> QED BY <1>1, <1>2, SeqInduction
<1> QED BY <1>3

LEMMA RunBegins ==
    ASSUME NEW B, NEW code, Appends(B, code), NEW l \in Seq(E), NEW k \in 0..Len(l)
    PROVE  /\ Run(<<>>, SubSeq(l, 1, k)) \in V
           /\ \E u \in V : Run(<<>>, l) = Run(<<>>, SubSeq(l, 1, k)) \o u
<1> DEFINE a == SubSeq(l, 1, k)
           b == SubSeq(l, k + 1, Len(l))
<1>0. Closed /\ <<>> \in V /\ V = Seq(B)
  BY AppendsIs
<1>1. a \in Seq(E) /\ b \in Seq(E) /\ l = a \o b
  <2>1. /\ a \in Seq(E) /\ Len(a) = k /\ \A i \in 1..k : a[i] = l[i]
        /\ b \in Seq(E) /\ Len(b) = Len(l) - k /\ \A i \in 1..Len(l) - k : b[i] = l[k + i]
    OBVIOUS
  <2> HIDE DEF a, b
  <2>2. /\ a \o b \in Seq(E) /\ Len(a \o b) = Len(l)
        /\ \A i \in 1..Len(l) : (a \o b)[i] = IF i <= k THEN a[i] ELSE b[i - k]
    BY <2>1
  <2>3. \A i \in 1..Len(l) : (a \o b)[i] = l[i]
    BY <2>1, <2>2
  <2> QED BY <2>1, <2>2, <2>3, SeqEqual
<1> HIDE DEF a, b
<1>2. Run(<<>>, a) \in V /\ Run(<<>>, b) \in V
  BY <1>0, <1>1, RunType
<1>3. Run(<<>>, l) = Run(Run(<<>>, a), b)
  BY <1>0, <1>1, RunConcat
<1>4. Run(Run(<<>>, a), b) = Run(<<>>, a) \o Run(<<>>, b)
  BY <1>1, <1>2, RunAppends
<1> QED BY <1>2, <1>3, <1>4 DEF a

LEMMA RunReaches ==
    ASSUME NEW B, NEW code, Appends(B, code), NEW l \in Seq(E), NEW k \in 1..Len(l)
    PROVE  /\ Run(<<>>, SubSeq(l, 1, k - 1)) \in V /\ code[l[k]] \in V
           /\ Run(<<>>, SubSeq(l, 1, k)) = Run(<<>>, SubSeq(l, 1, k - 1)) \o code[l[k]]
           /\ \E u \in V : Run(<<>>, l) = Run(<<>>, SubSeq(l, 1, k)) \o u
<1>0. Closed /\ <<>> \in V /\ V = Seq(B)
  BY AppendsIs
<1>1. /\ Run(<<>>, SubSeq(l, 1, k - 1)) \in V
      /\ Run(<<>>, SubSeq(l, 1, k)) = op(Run(<<>>, SubSeq(l, 1, k - 1)), l[k])
  BY <1>0, RunPrefix
<1>2. l[k] \in E /\ k \in 0..Len(l)
  OBVIOUS
<1>3. \E u \in V : Run(<<>>, l) = Run(<<>>, SubSeq(l, 1, k)) \o u
  BY <1>2, RunBegins
<1>4. Run(<<>>, SubSeq(l, 1, k)) = Run(<<>>, SubSeq(l, 1, k - 1)) \o code[l[k]]
  BY <1>1, <1>2, AppendsIs
<1>5. code[l[k]] \in V
  BY <1>2, AppendsIs
<1> QED BY <1>1, <1>3, <1>4, <1>5
=============================================================================
