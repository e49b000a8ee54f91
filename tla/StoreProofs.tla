---------------------------- MODULE StoreProofs ----------------------------
(***************************************************************************)
(* Proofs about Store: calls never wait in a circle, memory is what the    *)
(* records say, the byte counter is exact, the cap holds, and the records  *)
(* can be replayed.                                                        *)
(***************************************************************************)
EXTENDS Store, FoldFacts

Rows == [PK -> Size \cup {0}]
Rec == [count : 0..(CountMod - 1), muts : Seq(Act)]

CostFold == INSTANCE LeftFold WITH op <- AddCost, V <- Int, E <- Act
RowFold == INSTANCE LeftFold WITH op <- SetRow, V <- Rows, E <- Act
MutFold == INSTANCE LeftFold WITH op <- AddMuts, V <- Seq(Act), E <- Rec

----------------------------------------------------------------------------
(* The folds of the model, element by element.                             *)

\* Costs adds up the mutations from the left.
LEMMA CostsRun ==
    CostFold!Closed /\ \A l : Costs(l) = CostFold!Run(0, l)
<1>1. CostFold!Closed
  BY DEF CostFold!Closed, AddCost, Act
<1>2. \A l : Costs(l) = CostFold!Run(0, l)
  BY DEF Costs, CostFold!Run, FoldLeft, CostFold!FoldLeft, MapThenFoldSet, CostFold!MapThenFoldSet,
         Max, CostFold!Max
<1> QED BY <1>1, <1>2

\* No mutations cost nothing, and one more adds its cost.
LEMMA CostsFacts ==
    /\ Costs(<<>>) = 0
    /\ \A l \in Seq(Act) : Costs(l) \in Int
    /\ \A l \in Seq(Act), a \in Act : Costs(Append(l, a)) = Costs(l) + a.cost
<1>0. 0 \in Int
  OBVIOUS
<1>1. Costs(<<>>) = 0
  BY <1>0, CostsRun, CostFold!RunEmpty
<1>2. \A l \in Seq(Act) : Costs(l) \in Int
  BY <1>0, CostsRun, CostFold!RunType
<1>3. \A l \in Seq(Act), a \in Act : Costs(Append(l, a)) = Costs(l) + a.cost
  BY <1>0, CostsRun, CostFold!RunAppend DEF AddCost
<1> QED BY <1>1, <1>2, <1>3

\* The cost of two lists in a row, and of a list by its first mutation.
LEMMA CostsConcat ==
    ASSUME NEW l \in Seq(Act)
    PROVE  \A m \in Seq(Act) : Costs(l \o m) = Costs(l) + Costs(m)
<1> DEFINE X == {m \in Seq(Act) : Costs(l \o m) = Costs(l) + Costs(m)}
<1>1. <<>> \in X
  <2>1. l \o <<>> = l /\ <<>> \in Seq(Act)
    OBVIOUS
  <2> QED BY <2>1, CostsFacts
<1>2. \A m \in Seq(Act), a \in Act : m \in X => Append(m, a) \in X
  <2> SUFFICES ASSUME NEW m \in Seq(Act), NEW a \in Act, Costs(l \o m) = Costs(l) + Costs(m)
               PROVE  Append(m, a) \in Seq(Act) /\ Costs(l \o Append(m, a)) = Costs(l) + Costs(Append(m, a))
    BY Zenon
  <2>1. l \o Append(m, a) = Append(l \o m, a) /\ l \o m \in Seq(Act) /\ Append(m, a) \in Seq(Act)
    OBVIOUS
  <2>2. Costs(Append(l \o m, a)) = Costs(l \o m) + a.cost /\ Costs(Append(m, a)) = Costs(m) + a.cost
    BY <2>1, CostsFacts
  <2>3. Costs(l) \in Int /\ Costs(m) \in Int /\ a.cost \in Int
    BY CostsFacts DEF Act
  <2> QED BY <2>1, <2>2, <2>3
<1> HIDE DEF X
<1>3. Seq(Act) \subseteq X
  BY <1>1, <1>2, CostFold!SeqInduction
<1> QED BY <1>3 DEF X

\* The first mutation's cost and the rest.
LEMMA CostsHead ==
    ASSUME NEW l \in Seq(Act), l # <<>>
    PROVE  Costs(l) = Head(l).cost + Costs(Tail(l))
<1> DEFINE h == Head(l)
           t == Tail(l)
<1>1. h \in Act /\ t \in Seq(Act) /\ l = <<h>> \o t /\ <<h>> = Append(<<>>, h) /\ <<h>> \in Seq(Act)
      /\ <<>> \in Seq(Act)
  OBVIOUS
<1> HIDE DEF h, t
<1>2. Costs(<<h>>) = 0 + h.cost
  BY <1>1, CostsFacts
<1>3. Costs(<<h>> \o t) = Costs(<<h>>) + Costs(t)
  BY <1>1, CostsConcat
<1>4. h.cost \in Int /\ Costs(t) \in Int
  BY <1>1, CostsFacts DEF Act
<1>5. Costs(l) = h.cost + Costs(t)
  BY <1>1, <1>2, <1>3, <1>4
<1> QED BY <1>5 DEF h, t

\* Mutations that each cost at most nothing cost at most nothing together.
LEMMA CostsSign ==
    \A l \in Seq(Act) : (\A i \in DOMAIN l : l[i].cost <= 0) => Costs(l) <= 0
<1> DEFINE X == {l \in Seq(Act) : (\A i \in DOMAIN l : l[i].cost <= 0) => Costs(l) <= 0}
<1>1. <<>> \in X
  BY CostsFacts
<1>2. \A l \in Seq(Act), a \in Act :
         /\ Append(l, a) \in Seq(Act) /\ Costs(Append(l, a)) = Costs(l) + a.cost
         /\ Costs(l) \in Int /\ a.cost \in Int
         /\ Append(l, a)[Len(l) + 1] = a /\ Len(l) + 1 \in DOMAIN Append(l, a)
         /\ \A i \in DOMAIN l : i \in DOMAIN Append(l, a) /\ Append(l, a)[i] = l[i]
  <2> TAKE l \in Seq(Act), a \in Act
  <2>1. Costs(Append(l, a)) = Costs(l) + a.cost /\ Costs(l) \in Int /\ a.cost \in Int
    BY CostsFacts DEF Act
  <2>2. /\ Append(l, a)[Len(l) + 1] = a /\ Len(l) + 1 \in DOMAIN Append(l, a)
        /\ \A i \in DOMAIN l : i \in DOMAIN Append(l, a) /\ Append(l, a)[i] = l[i]
    OBVIOUS
  <2> QED BY <2>1, <2>2
<1>3. \A l \in Seq(Act), a \in Act : l \in X => Append(l, a) \in X
  <2> SUFFICES ASSUME NEW l \in Seq(Act), NEW a \in Act, l \in X,
                      \A i \in DOMAIN Append(l, a) : Append(l, a)[i].cost <= 0
               PROVE  Costs(Append(l, a)) <= 0
    BY <1>2
  <2>1. a.cost <= 0 /\ \A i \in DOMAIN l : l[i].cost <= 0
    BY <1>2
  <2> QED BY <1>2, <2>1
<1>4. Seq(Act) \subseteq X
  <2> HIDE DEF X
  <2> QED BY <1>1, <1>3, CostFold!SeqInduction
<1> QED BY <1>4

\* After sets the rows one mutation after the other.
LEMMA AfterRun ==
    RowFold!Closed /\ \A r, l : After(r, l) = RowFold!Run(r, l)
<1>1. RowFold!Closed
  BY DEF RowFold!Closed, SetRow, Act, Rows
<1>2. \A r, l : After(r, l) = RowFold!Run(r, l)
  BY DEF After, RowFold!Run, FoldLeft, RowFold!FoldLeft, MapThenFoldSet, RowFold!MapThenFoldSet,
         Max, RowFold!Max
<1> QED BY <1>1, <1>2

\* What After does with nothing, with one more mutation, and with two lists.
LEMMA AfterFacts ==
    ASSUME NEW r \in Rows
    PROVE  /\ After(r, <<>>) = r
           /\ \A l \in Seq(Act) : After(r, l) \in Rows
           /\ \A l \in Seq(Act), a \in Act : After(r, Append(l, a)) = SetRow(After(r, l), a)
           /\ \A l, m \in Seq(Act) : After(r, l \o m) = After(After(r, l), m)
           /\ \A l \in Seq(Act) : l # <<>> => After(r, l) = After(SetRow(r, Head(l)), Tail(l))
<1>1. After(r, <<>>) = r
  BY AfterRun, RowFold!RunEmpty
<1>2. \A l \in Seq(Act) : After(r, l) \in Rows
  BY AfterRun, RowFold!RunType
<1>3. \A l \in Seq(Act), a \in Act : After(r, Append(l, a)) = SetRow(After(r, l), a)
  BY AfterRun, RowFold!RunAppend
<1>4. \A l, m \in Seq(Act) : After(r, l \o m) = After(After(r, l), m)
  BY AfterRun, RowFold!RunConcat
<1>5. \A l \in Seq(Act) : l # <<>> => After(r, l) = After(SetRow(r, Head(l)), Tail(l))
  BY AfterRun, RowFold!RunHead
<1> QED BY <1>1, <1>2, <1>3, <1>4, <1>5

\* Muts joins the records' mutations.
LEMMA MutsFacts ==
    /\ Muts(<<>>) = <<>>
    /\ \A l \in Seq(Rec) : Muts(l) \in Seq(Act)
    /\ \A l \in Seq(Rec), e \in Rec : Muts(Append(l, e)) = Muts(l) \o e.muts
<1>1. MutFold!Closed
  BY DEF MutFold!Closed, AddMuts, Rec
<1>2. \A l : Muts(l) = MutFold!Run(<<>>, l)
  BY DEF Muts, MutFold!Run, FoldLeft, MutFold!FoldLeft, MapThenFoldSet, MutFold!MapThenFoldSet,
         Max, MutFold!Max
<1>3. <<>> \in Seq(Act)
  OBVIOUS
<1>4. Muts(<<>>) = <<>>
  BY <1>1, <1>2, <1>3, MutFold!RunEmpty
<1>5. \A l \in Seq(Rec) : Muts(l) \in Seq(Act)
  BY <1>1, <1>2, <1>3, MutFold!RunType
<1>6. \A l \in Seq(Rec), e \in Rec : Muts(Append(l, e)) = Muts(l) \o e.muts
  BY <1>1, <1>2, <1>3, MutFold!RunAppend DEF AddMuts
<1> QED BY <1>4, <1>5, <1>6

----------------------------------------------------------------------------
(* Mutations that fit.                                                     *)

\* A mutation of one key leaves the others.
LEMMA SetRowAt ==
    ASSUME NEW r \in Rows, NEW a \in Act
    PROVE  /\ SetRow(r, a) \in Rows
           /\ \A p \in PK : SetRow(r, a)[p] = IF p = a.pk THEN a.size ELSE r[p]
BY DEF SetRow, Rows, Act

\* What mutations make of a key depends on that key alone, and keys they do not
\* name stay.
LEMMA AfterAt ==
    ASSUME NEW p \in PK, NEW r \in Rows, NEW q \in Rows
    PROVE  \A l \in Seq(Act) :
              /\ r[p] = q[p] => After(r, l)[p] = After(q, l)[p]
              /\ (\A i \in DOMAIN l : l[i].pk # p) => After(r, l)[p] = r[p]
<1> DEFINE X == {l \in Seq(Act) : /\ r[p] = q[p] => After(r, l)[p] = After(q, l)[p]
                                  /\ (\A i \in DOMAIN l : l[i].pk # p) => After(r, l)[p] = r[p]}
<1>1. <<>> \in X
  BY AfterFacts
<1>2. \A l \in Seq(Act), a \in Act : l \in X => Append(l, a) \in X
  <2> SUFFICES ASSUME NEW l \in Seq(Act), NEW a \in Act, l \in X PROVE Append(l, a) \in X
    OBVIOUS
  <2>1. /\ Append(l, a) \in Seq(Act)
        /\ Append(l, a)[Len(l) + 1] = a /\ Len(l) + 1 \in DOMAIN Append(l, a)
        /\ \A i \in DOMAIN l : i \in DOMAIN Append(l, a) /\ Append(l, a)[i] = l[i]
    OBVIOUS
  <2>2. /\ After(r, l) \in Rows /\ After(q, l) \in Rows
        /\ After(r, Append(l, a)) = SetRow(After(r, l), a)
        /\ After(q, Append(l, a)) = SetRow(After(q, l), a)
    BY AfterFacts
  <2>3. /\ After(r, Append(l, a))[p] = IF p = a.pk THEN a.size ELSE After(r, l)[p]
        /\ After(q, Append(l, a))[p] = IF p = a.pk THEN a.size ELSE After(q, l)[p]
    BY <2>2, SetRowAt
  <2>4. (\A i \in DOMAIN Append(l, a) : Append(l, a)[i].pk # p) =>
            a.pk # p /\ \A i \in DOMAIN l : l[i].pk # p
    BY <2>1
  <2> QED BY <2>1, <2>3, <2>4
<1>3. Seq(Act) \subseteq X
  <2> HIDE DEF X
  <2> QED BY <1>1, <1>2, CostFold!SeqInduction
<1> QED BY <1>3

\* The mutation at a place fits the rows before it.
FitAt(r, m) ==
    /\ m.op = "insert" <=> r[m.pk] = 0
    /\ m.op = "delete" <=> m.size = 0
    /\ m.cost = m.size - r[m.pk]

\* Mutations fit when each fits the rows that the ones before it leave.
LEMMA FitOnAt ==
    ASSUME NEW r, NEW l
    PROVE  FitOn(r, l) <=> \A k \in DOMAIN l : FitAt(After(r, SubSeq(l, 1, k - 1)), l[k])
BY DEF FitOn, FitAt

\* Two lists fit in a row when the first fits and the second fits after it.
LEMMA FitConcat ==
    ASSUME NEW r \in Rows, NEW l \in Seq(Act), NEW m \in Seq(Act)
    PROVE  FitOn(r, l \o m) <=> FitOn(r, l) /\ FitOn(After(r, l), m)
<1> DEFINE n == Len(l)
           b == l \o m
<1>1. /\ n \in Nat /\ Len(m) \in Nat /\ b \in Seq(Act) /\ DOMAIN l = 1..n /\ DOMAIN m = 1..Len(m)
      /\ DOMAIN b = 1..(n + Len(m)) /\ Len(b) = n + Len(m)
  OBVIOUS
<1>2. ASSUME NEW k \in DOMAIN l
      PROVE  k \in DOMAIN b /\ b[k] = l[k] /\ SubSeq(b, 1, k - 1) = SubSeq(l, 1, k - 1)
  BY <1>1
<1>3. ASSUME NEW k \in DOMAIN m
      PROVE  /\ n + k \in DOMAIN b /\ b[n + k] = m[k]
             /\ After(r, SubSeq(b, 1, (n + k) - 1)) = After(After(r, l), SubSeq(m, 1, k - 1))
  <2>1. n + k \in DOMAIN b /\ b[n + k] = m[k]
    BY <1>1
  <2> DEFINE u == SubSeq(m, 1, k - 1)
             w == SubSeq(b, 1, (n + k) - 1)
  <2>2. u \in Seq(Act) /\ Len(u) = k - 1 /\ \A i \in 1..(k - 1) : u[i] = m[i]
    BY <1>1
  <2>3. w \in Seq(Act) /\ Len(w) = (n + k) - 1 /\ \A i \in 1..((n + k) - 1) : w[i] = b[i]
    BY <1>1
  <2>4. w = l \o u
    <3> HIDE DEF u, w
    <3>0. l \o u \in Seq(Act) /\ Len(l \o u) = Len(l) + Len(u)
      <4>1. u \in Seq(Act)
        BY <2>2
      <4> QED BY <4>1
    <3>1. Len(l \o u) = Len(w)
      BY <1>1, <2>2, <2>3, <3>0
    <3>2. ASSUME NEW i \in 1..Len(w) PROVE w[i] = (l \o u)[i]
      <4>1. w[i] = b[i] /\ b[i] = IF i <= n THEN l[i] ELSE m[i - n]
        BY <1>1, <2>3
      <4>2. (l \o u)[i] = IF i <= n THEN l[i] ELSE u[i - n]
        BY <1>1, <2>2, <2>3
      <4>3. i > n => i - n \in 1..(k - 1)
        BY <1>1, <2>3
      <4> QED BY <1>1, <2>2, <2>3, <4>1, <4>2, <4>3
    <3> QED BY SMTT(40), <2>3, <3>0, <3>1, <3>2
  <2> HIDE DEF u, w
  <2>5. After(r, l \o u) = After(After(r, l), u)
    BY <2>2, AfterFacts
  <2> QED BY <2>1, <2>4, <2>5 DEF u, w
<1>4. \A k \in DOMAIN b : k \in DOMAIN l \/ (k - n \in DOMAIN m /\ k = n + (k - n))
  BY <1>1
<1> HIDE DEF b
<1>5. FitOn(r, b) => FitOn(r, l) /\ FitOn(After(r, l), m)
  BY <1>2, <1>3, FitOnAt
<1>6. FitOn(r, l) /\ FitOn(After(r, l), m) => FitOn(r, b)
  <2> SUFFICES ASSUME FitOn(r, l), FitOn(After(r, l), m), NEW k \in DOMAIN b
               PROVE  FitAt(After(r, SubSeq(b, 1, k - 1)), b[k])
    BY FitOnAt
  <2>1. CASE k \in DOMAIN l
    BY <1>2, <2>1, FitOnAt
  <2>2. CASE k - n \in DOMAIN m /\ k = n + (k - n)
    <3>1. PICK i \in DOMAIN m : k = n + i
      BY <2>2
    <3> QED BY <1>3, <3>1, FitOnAt
  <2> QED BY <1>4, <2>1, <2>2
<1> QED BY <1>5, <1>6 DEF b

\* One mutation.
LEMMA FitOne ==
    ASSUME NEW r \in Rows, NEW a \in Act
    PROVE  FitOn(r, <<a>>) <=> FitAt(r, a)
<1>1. DOMAIN <<a>> = {1} /\ <<a>>[1] = a /\ SubSeq(<<a>>, 1, 1 - 1) = <<>>
  OBVIOUS
<1>2. After(r, <<>>) = r
  BY AfterFacts
<1> QED BY <1>1, <1>2, FitOnAt

\* The empty list fits anything.
LEMMA FitEmpty == \A r : FitOn(r, <<>>)
BY DEF FitOn

\* The first of fitting mutations fits, and the others fit after it.
LEMMA FitHead ==
    ASSUME NEW r \in Rows, NEW l \in Seq(Act), l # <<>>, FitOn(r, l)
    PROVE  FitAt(r, Head(l)) /\ FitOn(SetRow(r, Head(l)), Tail(l))
<1> DEFINE h == Head(l)
           t == Tail(l)
<1>1. h \in Act /\ t \in Seq(Act) /\ l = <<h>> \o t /\ <<h>> = Append(<<>>, h) /\ <<h>> \in Seq(Act)
      /\ <<>> \in Seq(Act)
  OBVIOUS
<1> HIDE DEF h, t
<1>2. FitOn(r, <<h>>) /\ FitOn(After(r, <<h>>), t)
  BY <1>1, FitConcat
<1>3. After(r, <<h>>) = SetRow(r, h)
  <2>1. After(r, <<>>) = r
    BY AfterFacts
  <2>2. PICK e \in Seq(Act) : e = <<>>
    BY <1>1
  <2>3. After(r, Append(e, h)) = SetRow(After(r, e), h)
    BY <1>1, AfterFacts
  <2> QED BY <1>1, <2>1, <2>2, <2>3
<1>4. FitAt(r, h)
  BY <1>1, <1>2, FitOne
<1>5. FitOn(SetRow(r, h), t)
  BY <1>2, <1>3
<1> QED BY <1>4, <1>5 DEF h, t

\* Whether mutations fit depends on the keys they name.
LEMMA FitLocal ==
    ASSUME NEW r \in Rows, NEW q \in Rows, NEW l \in Seq(Act),
           \A i \in DOMAIN l : r[l[i].pk] = q[l[i].pk], FitOn(r, l)
    PROVE  FitOn(q, l)
<1> SUFFICES ASSUME NEW k \in DOMAIN l
             PROVE  FitAt(After(q, SubSeq(l, 1, k - 1)), l[k])
  BY FitOnAt
<1>1. SubSeq(l, 1, k - 1) \in Seq(Act) /\ l[k] \in Act
  OBVIOUS
<1>2. l[k].pk \in PK
  BY <1>1 DEF Act
<1>3. After(r, SubSeq(l, 1, k - 1))[l[k].pk] = After(q, SubSeq(l, 1, k - 1))[l[k].pk]
  BY ZenonT(40), <1>1, <1>2, AfterAt
<1>4. FitAt(After(r, SubSeq(l, 1, k - 1)), l[k])
  BY FitOnAt
<1> QED BY <1>3, <1>4 DEF FitAt

\* Rows and all of them together have a size.
LEMMA RowSizes ==
    ASSUME FiniteSetting, Sizes
    PROVE  \A r \in Rows : Sum(r, PK) \in Nat /\ \A p \in PK : r[p] \in Nat
<1> SUFFICES ASSUME NEW r \in Rows PROVE Sum(r, PK) \in Nat /\ \A p \in PK : r[p] \in Nat
  OBVIOUS
<1>1. Size \subseteq Nat
  BY DEF Sizes
<1>2. ASSUME NEW p \in PK PROVE r[p] \in Nat
  <2>1. r[p] \in Size \/ r[p] = 0
    BY DEF Rows
  <2>2. 0 \in Nat
    OBVIOUS
  <2> QED BY <1>1, <2>1, <2>2, Zenon
<1> QED BY <1>2, SumNat DEF FiniteSetting, Sum

\* The size of the rows changes by what fitting mutations cost.
LEMMA SizeAfter ==
    ASSUME FiniteSetting, Sizes, NEW r \in Rows
    PROVE  \A l \in Seq(Act) : FitOn(r, l) => Sum(After(r, l), PK) = Sum(r, PK) + Costs(l)
<1> DEFINE X == {l \in Seq(Act) : FitOn(r, l) => Sum(After(r, l), PK) = Sum(r, PK) + Costs(l)}
<1>0. \A q \in Rows : Sum(q, PK) \in Int /\ \A p \in PK : q[p] \in Int
  BY RowSizes
<1>1. <<>> \in X
  BY <1>0, AfterFacts, CostsFacts
<1>2. \A l \in Seq(Act), a \in Act : l \in X => Append(l, a) \in X
  <2> SUFFICES ASSUME NEW l \in Seq(Act), NEW a \in Act, l \in X, FitOn(r, Append(l, a))
               PROVE  Sum(After(r, Append(l, a)), PK) = Sum(r, PK) + Costs(Append(l, a))
    OBVIOUS
  <2>1. Append(l, a) = l \o <<a>> /\ <<a>> \in Seq(Act)
    OBVIOUS
  <2>2. FitOn(r, l) /\ FitOn(After(r, l), <<a>>)
    BY ZenonT(40), <2>1, FitConcat
  <2> DEFINE q == After(r, l)
  <2>3. q \in Rows /\ After(r, Append(l, a)) = SetRow(q, a)
    BY AfterFacts
  <2>4. Sum(q, PK) = Sum(r, PK) + Costs(l)
    BY <2>2
  <2> HIDE DEF q
  <2>5. FitAt(q, a)
    BY <2>2, <2>3, FitOne DEF q
  <2>6. a.pk \in PK /\ a.cost \in Int /\ SetRow(q, a) \in Rows /\ SetRow(q, a)[a.pk] = a.size
        /\ \A p \in PK \ {a.pk} : SetRow(q, a)[p] = q[p]
    BY <2>3, SetRowAt DEF Act
  <2>7. Sum(SetRow(q, a), PK) = Sum(q, PK) + SetRow(q, a)[a.pk] - q[a.pk]
    <3> DEFINE h == SetRow(q, a)
    <3>1. \A p \in PK \ {a.pk} : h[p] = q[p]
      BY <2>6
    <3>2. h[a.pk] \in Int /\ \A p \in PK : q[p] \in Int
      BY <1>0, <2>3, <2>6
    <3> HIDE DEF h
    <3>3. SumOver(h, PK) = SumOver(q, PK) + h[a.pk] - q[a.pk]
      BY <2>6, <3>1, <3>2, SumUpdate DEF FiniteSetting
    <3> QED BY <3>3 DEF h, Sum
  <2>8. Costs(Append(l, a)) = Costs(l) + a.cost /\ Costs(l) \in Int
    BY CostsFacts
  <2>9. q[a.pk] \in Int /\ a.size \in Int /\ Sum(q, PK) \in Int /\ Sum(r, PK) \in Int
    BY <1>0, <2>3, <2>6
  <2> QED BY <2>3, <2>4, <2>5, <2>6, <2>7, <2>8, <2>9 DEF FitAt
<1>3. Seq(Act) \subseteq X
  <2> HIDE DEF X
  <2> QED BY <1>1, <1>2, CostFold!SeqInduction
<1> QED BY <1>3

----------------------------------------------------------------------------
(* Resolve: the statements against the overlay.                            *)

WalkState == [overlay : Rows, acts : Seq(Act), ok : BOOLEAN]

StageFold == INSTANCE LeftFold WITH op <- Stage, V <- WalkState, E <- Stmt

WalkOf(r, l) == StageFold!Run([overlay |-> r, acts |-> <<>>, ok |-> TRUE], l)

\* A statement either changes nothing but the verdict or adds its effect.
LEMMA StageCases ==
    ASSUME Sizes, NEW w \in WalkState, NEW s \in Stmt
    PROVE  /\ Stage(w, s) \in WalkState
           /\ \/ Stage(w, s).overlay = w.overlay /\ Stage(w, s).acts = w.acts
              \/ /\ Effect(s, w.overlay[s.pk]) \in Act
                 /\ FitAt(w.overlay, Effect(s, w.overlay[s.pk]))
                 /\ Stage(w, s).acts = Append(w.acts, Effect(s, w.overlay[s.pk]))
                 /\ Stage(w, s).overlay = SetRow(w.overlay, Effect(s, w.overlay[s.pk]))
<1> DEFINE a == Effect(s, w.overlay[s.pk])
<1>1. /\ s.pk \in PK /\ s.size \in Size \cup {0} /\ s.op \in {"insert", "update", "delete"}
      /\ s.op = "delete" <=> s.size = 0
  BY DEF Stmt, Sizes
<1>2. w.overlay \in Rows /\ w.acts \in Seq(Act) /\ w.ok \in BOOLEAN
  BY DEF WalkState
<1>3. w.overlay[s.pk] \in Size \cup {0}
  BY <1>1, <1>2 DEF Rows
<1>4. a.op = s.op /\ a.pk = s.pk /\ a.size = s.size /\ a.cost = s.size - w.overlay[s.pk]
  BY DEF Effect
<1>5. a \in Act
  <2>1. s.size \in Int /\ w.overlay[s.pk] \in Int
    <3>1. Size \subseteq Int
      BY DEF Sizes
    <3>2. s.size \in Size \/ s.size = 0
      BY <1>1
    <3>3. w.overlay[s.pk] \in Size \/ w.overlay[s.pk] = 0
      BY <1>3
    <3>4. 0 \in Int
      OBVIOUS
    <3> QED BY <3>1, <3>2, <3>3, <3>4, Zenon
  <2>2. s.size - w.overlay[s.pk] \in Int
    BY <2>1
  <2> QED BY <1>1, <2>2 DEF Act, Effect
<1>6. CASE ~w.ok
  <2>1. Stage(w, s) = w
    BY <1>6 DEF Stage
  <2> QED BY <2>1
<1>7. CASE w.ok /\ s.op = "insert" /\ w.overlay[s.pk] # 0
  <2>1. Stage(w, s) = [w EXCEPT !.ok = FALSE]
    BY <1>7 DEF Stage
  <2> QED BY <2>1 DEF WalkState
<1>8. CASE w.ok /\ s.op # "insert" /\ w.overlay[s.pk] = 0
  <2>1. Stage(w, s) = w
    BY <1>8 DEF Stage
  <2> QED BY <2>1
<1>9. CASE w.ok /\ (s.op = "insert" <=> w.overlay[s.pk] = 0)
  <2> HIDE DEF a
  <2>1. Stage(w, s) = [w EXCEPT !.overlay[s.pk] = s.size, !.acts = Append(@, a)]
    BY <1>9 DEF Stage, a
  <2>2. SetRow(w.overlay, a) = [w.overlay EXCEPT ![s.pk] = s.size] /\ SetRow(w.overlay, a) \in Rows
    BY <1>2, <1>4, <1>5, SetRowAt DEF SetRow
  <2>3. Append(w.acts, a) \in Seq(Act)
    BY <1>2, <1>5
  <2>4. Stage(w, s) = [w EXCEPT !.overlay = SetRow(w.overlay, a), !.acts = Append(w.acts, a)]
    BY <2>1, <2>2 DEF WalkState
  <2>5. Stage(w, s) \in WalkState /\ Stage(w, s).acts = Append(w.acts, a)
        /\ Stage(w, s).overlay = SetRow(w.overlay, a)
    BY <2>2, <2>3, <2>4 DEF WalkState
  <2>6. FitAt(w.overlay, a)
    BY <1>1, <1>4, <1>9 DEF FitAt
  <2> QED BY <1>5, <2>5, <2>6 DEF a
<1> QED BY <1>6, <1>7, <1>8, <1>9

\* What the effects of a list of statements are: they fit the rows, lead to the
\* overlay, and each is that of a statement.
WalkedRight(r, l, w) ==
    /\ w \in WalkState
    /\ w.overlay = After(r, w.acts)
    /\ FitOn(r, w.acts)
    /\ Len(w.acts) <= Len(l)
    /\ \A i \in DOMAIN w.acts : \E k \in DOMAIN l :
          w.acts[i].pk = l[k].pk /\ w.acts[i].op = l[k].op /\ w.acts[i].size = l[k].size

\* One more statement.
LEMMA WalkStep ==
    ASSUME Sizes, NEW r \in Rows, NEW l \in Seq(Stmt), NEW s \in Stmt, NEW w, WalkedRight(r, l, w)
    PROVE  WalkedRight(r, Append(l, s), Stage(w, s))
<1> DEFINE m == Append(l, s)
           x == Stage(w, s)
           a == Effect(s, w.overlay[s.pk])
<1>1. /\ Len(l) \in Nat /\ Len(m) = Len(l) + 1 /\ m[Len(l) + 1] = s /\ Len(l) + 1 \in DOMAIN m
      /\ DOMAIN l = 1..Len(l) /\ DOMAIN m = 1..(Len(l) + 1)
      /\ \A i \in DOMAIN l : i \in DOMAIN m /\ m[i] = l[i]
  OBVIOUS
<1>2. w \in WalkState /\ w.acts \in Seq(Act) /\ Len(w.acts) \in Nat
  BY DEF WalkedRight, WalkState
<1>3. /\ x \in WalkState
      /\ \/ x.overlay = w.overlay /\ x.acts = w.acts
         \/ /\ a \in Act /\ FitAt(w.overlay, a)
            /\ x.acts = Append(w.acts, a) /\ x.overlay = SetRow(w.overlay, a)
  BY <1>2, StageCases
<1>4. a.op = s.op /\ a.pk = s.pk /\ a.size = s.size /\ a.cost = s.size - w.overlay[s.pk]
  BY DEF Effect
<1> HIDE DEF m, x, a
<1>5. CASE x.overlay = w.overlay /\ x.acts = w.acts
  BY <1>1, <1>2, <1>3, <1>5 DEF WalkedRight, m, x
<1>6. CASE /\ a \in Act /\ FitAt(w.overlay, a)
           /\ x.acts = Append(w.acts, a) /\ x.overlay = SetRow(w.overlay, a)
  <2>1. /\ Append(w.acts, a) = w.acts \o <<a>> /\ <<a>> \in Seq(Act)
        /\ Len(x.acts) = Len(w.acts) + 1 /\ x.acts[Len(w.acts) + 1] = a
        /\ \A i \in DOMAIN x.acts : i = Len(w.acts) + 1 \/ (i \in DOMAIN w.acts /\ x.acts[i] = w.acts[i])
    <3> DEFINE u == w.acts
    <3>1. u \in Seq(Act) /\ a \in Act /\ x.acts = Append(u, a)
      BY <1>2, <1>6
    <3> HIDE DEF u
    <3>2. /\ Append(u, a) = u \o <<a>> /\ <<a>> \in Seq(Act)
          /\ Len(Append(u, a)) = Len(u) + 1 /\ Append(u, a)[Len(u) + 1] = a
          /\ \A i \in DOMAIN Append(u, a) : i = Len(u) + 1 \/ (i \in DOMAIN u /\ Append(u, a)[i] = u[i])
      BY <3>1
    <3> QED BY <3>1, <3>2 DEF u
  <2>2. x.overlay = After(r, x.acts)
    BY <1>2, <1>6, AfterFacts DEF WalkedRight
  <2>3. FitOn(r, x.acts)
    <3>1. FitOn(After(r, w.acts), <<a>>)
      BY <1>2, <1>6, AfterFacts, FitOne DEF WalkedRight
    <3>2. FitOn(r, w.acts) /\ w.acts \in Seq(Act) /\ <<a>> \in Seq(Act)
      BY <1>2, <2>1 DEF WalkedRight
    <3>3. FitOn(r, w.acts \o <<a>>)
      BY <3>1, <3>2, FitConcat
    <3> QED BY <1>6, <2>1, <3>3
  <2>4. Len(x.acts) <= Len(m)
    BY <1>1, <1>2, <2>1 DEF WalkedRight
  <2>5. ASSUME NEW i \in DOMAIN x.acts
        PROVE  \E k \in DOMAIN m : /\ x.acts[i].pk = m[k].pk /\ x.acts[i].op = m[k].op
                                   /\ x.acts[i].size = m[k].size
    <3>1. CASE i = Len(w.acts) + 1
      BY <1>1, <1>4, <2>1, <3>1
    <3>2. CASE i \in DOMAIN w.acts /\ x.acts[i] = w.acts[i]
      <4>1. PICK k \in DOMAIN l : /\ w.acts[i].pk = l[k].pk /\ w.acts[i].op = l[k].op
                                  /\ w.acts[i].size = l[k].size
        BY <3>2 DEF WalkedRight
      <4> QED BY <1>1, <3>2, <4>1
    <3> QED BY <2>1, <3>1, <3>2
  <2> QED BY <1>3, <2>2, <2>3, <2>4, <2>5 DEF WalkedRight, m, x
<1> QED BY <1>3, <1>5, <1>6

\* The whole list.
LEMMA WalkRight ==
    ASSUME Sizes, NEW r \in Rows
    PROVE  \A l \in Seq(Stmt) : WalkedRight(r, l, WalkOf(r, l))
<1> DEFINE X == {l \in Seq(Stmt) : WalkedRight(r, l, WalkOf(r, l))}
           w0 == [overlay |-> r, acts |-> <<>>, ok |-> TRUE]
<1>0. w0 \in WalkState /\ StageFold!Closed
  BY StageCases DEF WalkState, StageFold!Closed
<1>1. <<>> \in X
  <2>1. WalkOf(r, <<>>) = w0
    BY <1>0, StageFold!RunEmpty DEF WalkOf
  <2>2. w0.overlay = r /\ w0.acts = <<>> /\ After(r, <<>>) = r /\ FitOn(r, <<>>)
    BY AfterFacts, FitEmpty
  <2>3. WalkedRight(r, <<>>, w0)
    <3> HIDE DEF w0
    <3> QED BY <1>0, <2>2 DEF WalkedRight
  <2>4. <<>> \in Seq(Stmt)
    OBVIOUS
  <2> QED BY <2>1, <2>3, <2>4, Zenon
<1>2. \A l \in Seq(Stmt), s \in Stmt : l \in X => Append(l, s) \in X
  <2> SUFFICES ASSUME NEW l \in Seq(Stmt), NEW s \in Stmt, WalkedRight(r, l, WalkOf(r, l))
               PROVE  Append(l, s) \in Seq(Stmt) /\ WalkedRight(r, Append(l, s), WalkOf(r, Append(l, s)))
    BY Zenon
  <2>1. WalkOf(r, Append(l, s)) = Stage(WalkOf(r, l), s)
    BY <1>0, StageFold!RunAppend DEF WalkOf
  <2> QED BY <2>1, WalkStep
<1>3. Seq(Stmt) \subseteq X
  <2> HIDE DEF X
  <2> QED BY <1>1, <1>2, CostFold!SeqInduction
<1> QED BY <1>3

\* A call's statements stay in the shards it locks; a call that matches rows does
\* the same to each of them, and inserts none.
LEMMA CallParts ==
    ASSUME FiniteSetting, Routing, NEW j \in Call
    PROVE  /\ j.kind \in {"one", "txn", "match"}
           /\ ShardSet(j) \in SUBSET Shard
           /\ j.stmts \in Seq(Stmt)
           /\ \A i \in DOMAIN j.stmts : shardOf[j.stmts[i].pk] \in ShardSet(j)
           /\ j.kind = "one" => Len(j.stmts) = 1
           /\ j.kind = "match" =>
                \A i \in DOMAIN j.stmts : j.stmts[i].op = j.stmts[1].op /\ j.stmts[i].op # "insert"
<1>1. CASE j \in OneCall
  <2>1. j.kind = "one"
    BY <1>1 DEF OneCall
  <2>2. PICK s \in Stmt : j.stmts = <<s>>
    BY <1>1 DEF OneCall
  <2>3. s.pk \in PK
    BY DEF Stmt
  <2>4. j.stmts = <<s>> /\ ShardSet(j) = {shardOf[j.stmts[i].pk] : i \in DOMAIN j.stmts}
    BY <2>1, <2>2 DEF ShardSet
  <2>5. /\ <<s>> \in Seq(Stmt) /\ Len(<<s>>) = 1 /\ DOMAIN <<s>> = {1} /\ <<s>>[1] = s
    OBVIOUS
  <2> QED BY <2>1, <2>2, <2>3, <2>4, <2>5 DEF Routing
<1>2. CASE j \in TxnCall
  <2>1. j.kind = "txn" /\ j.stmts \in BoundedSeq(Stmt, MaxStaged)
    BY <1>2 DEF TxnCall
  <2>2. PICK m \in 0..MaxStaged : j.stmts \in [1..m -> Stmt]
    BY <2>1 DEF BoundedSeq, SeqOf
  <2>3. m \in Nat
    OBVIOUS
  <2>4. j.stmts \in Seq(Stmt)
    BY <2>2, <2>3
  <2>5. ShardSet(j) = {shardOf[j.stmts[i].pk] : i \in DOMAIN j.stmts}
    BY <2>1 DEF ShardSet
  <2>6. \A i \in DOMAIN j.stmts : j.stmts[i] \in Stmt
    BY <2>2
  <2>7. \A s \in Stmt : s.pk \in PK
    BY DEF Stmt
  <2> QED BY <2>1, <2>4, <2>5, <2>6, <2>7 DEF Routing
<1>3. CASE j \in MatchCall
  <2>1. /\ j \in [kind : {"match"}, locks : {Shard} \cup {{s} : s \in Shard},
                  stmts : BoundedSeq(Stmt, Cardinality(PK))]
        /\ \A i \in DOMAIN j.stmts : /\ j.stmts[i].op = j.stmts[1].op /\ j.stmts[i].op # "insert"
                                     /\ shardOf[j.stmts[i].pk] \in j.locks
    BY <1>3, Zenon DEF MatchCall
  <2>2. j.kind = "match" /\ j.locks \in SUBSET Shard /\ j.stmts \in BoundedSeq(Stmt, Cardinality(PK))
    BY <2>1
  <2>3. Cardinality(PK) \in Nat
    BY FS_CardinalityType DEF FiniteSetting
  <2>4. PICK m \in 0..Cardinality(PK) : j.stmts \in [1..m -> Stmt]
    BY <2>2 DEF BoundedSeq, SeqOf
  <2>5. j.stmts \in Seq(Stmt)
    BY <2>3, <2>4
  <2>6. ShardSet(j) = j.locks
    BY <2>2 DEF ShardSet
  <2> QED BY <2>1, <2>2, <2>5, <2>6
<1> QED BY <1>1, <1>2, <1>3 DEF Call

\* The larger of nothing and a number.
LEMMA MaxZero ==
    ASSUME NEW n \in Int
    PROVE  Max({0, n}) = IF n > 0 THEN n ELSE 0
<1> DEFINE m == IF n > 0 THEN n ELSE 0
<1>1. m \in {0, n} /\ \A y \in {0, n} : m >= y
  OBVIOUS
<1>2. \A x \in {0, n} : (\A y \in {0, n} : x >= y) => x = m
  OBVIOUS
<1> HIDE DEF m
<1>3. Max({0, n}) = m
  BY <1>1, <1>2 DEF Max
<1> QED BY <1>3 DEF m

\* A reservation is never negative.
LEMMA GateNat ==
    ASSUME NEW kind, NEW l \in Seq(Act)
    PROVE  Gate(kind, l) \in Nat
<1>1. Costs(l) \in Int
  BY CostsFacts
<1> QED BY <1>1, MaxZero DEF Gate

----------------------------------------------------------------------------
(* The inductive invariant: rows, records and locks.                       *)

\* A caller's work has the form its progress says.
CallTyped(c) ==
    /\ pc[c] = "lock" => job[c] \in Call
    /\ pc[c] \in Working =>
          job[c] \in [kind : {"one", "txn", "match"}, acts : Seq(Act), gate : Nat]

\* LocksAscend of one caller.
Climbs(c) ==
    /\ pc[c] = "idle" => Held(c) = {}
    /\ pc[c] = "lock" => /\ Held(c) \subseteq ShardSet(job[c])
                         /\ \A h \in Held(c), m \in Missing(c) : h < m

\* TypeOK but for the sign of the counters.
Typed ==
    /\ rows \in Rows /\ base \in Rows
    /\ bytes \in [Shard -> Int] /\ total \in Int /\ (MaxBytes = 0 => total = 0)
    /\ lock \in [Shard -> Callers \cup {Free}]
    /\ pc \in [Callers -> Working \cup {"idle", "lock", "unlock"}]
    /\ DOMAIN job = Callers
    /\ log \in Seq(Rec)
    /\ calls \in 0..MaxCalls
    /\ walErr \in BOOLEAN /\ dropped \in BOOLEAN
    /\ grew \in BOOLEAN /\ peaked \in BOOLEAN /\ wrapped \in BOOLEAN

CallersFit == \A c \in Callers : CallTyped(c) /\ Climbs(c) /\ (pc[c] \in Working => WorkFit(c))

CoreInv == Typed /\ CallersFit /\ RecordsFitTogether /\ MemoryFollowsLog

\* The parts of a mutation.
LEMMA ActAt ==
    \A l \in Seq(Act) : \A i \in DOMAIN l : l[i] \in Act /\ l[i].pk \in PK /\ l[i].cost \in Int
<1>1. \A l \in Seq(Act) : \A i \in DOMAIN l : l[i] \in Act
  OBVIOUS
<1>2. \A a \in Act : a.pk \in PK /\ a.cost \in Int
  BY DEF Act
<1> QED BY <1>1, <1>2

\* A step of one caller does not disturb what another has resolved or holds.
LEMMA OtherCallers ==
    ASSUME Routing, NEW c \in Callers, Typed, CallersFit, rows' \in Rows,
           \A d \in Callers \ {c} : pc'[d] = pc[d] /\ job'[d] = job[d],
           \A s \in Shard, d \in Callers \ {c} : lock'[s] = d <=> lock[s] = d,
           \A p \in PK : lock[shardOf[p]] # c => rows'[p] = rows[p],
           grew => grew'
    PROVE  \A d \in Callers \ {c} :
              CallTyped(d)' /\ Climbs(d)' /\ (pc'[d] \in Working => WorkFit(d)')
<1> SUFFICES ASSUME NEW d \in Callers \ {c}
             PROVE  CallTyped(d)' /\ Climbs(d)' /\ (pc'[d] \in Working => WorkFit(d)')
  OBVIOUS
<1>1. pc'[d] = pc[d] /\ job'[d] = job[d]
  OBVIOUS
<1>2. CallTyped(d) /\ Climbs(d) /\ (pc[d] \in Working => WorkFit(d))
  BY DEF CallersFit
<1>3. CallTyped(d)'
  BY <1>1, <1>2 DEF CallTyped
<1>4. Held(d)' = Held(d)
  BY DEF Held
<1>5. Missing(d)' = Missing(d)
  BY <1>1, <1>4 DEF Missing, ShardSet
<1>6. Climbs(d)'
  BY <1>1, <1>2, <1>4, <1>5 DEF Climbs, ShardSet
<1>7. ASSUME pc[d] \in Working PROVE WorkFit(d)'
  <2>1. job[d].acts \in Seq(Act)
    BY <1>2, <1>7 DEF CallTyped
  <2>2. \A i \in DOMAIN job[d].acts : job[d].acts[i].pk \in PK
    BY <2>1, ActAt
  <2>3. \A i \in DOMAIN job[d].acts :
           lock[shardOf[job[d].acts[i].pk]] = d /\ lock'[shardOf[job[d].acts[i].pk]] = d
    BY <1>2, <1>7, <2>2 DEF WorkFit, Routing
  <2>4. FitOn(rows, job[d].acts) => FitOn(rows', job[d].acts)
    <3>1. rows \in Rows
      BY DEF Typed
    <3>2. \A i \in DOMAIN job[d].acts : rows[job[d].acts[i].pk] = rows'[job[d].acts[i].pk]
      BY <2>2, <2>3
    <3> QED BY <2>1, <3>1, <3>2, FitLocal
  <2>5. WorkFit(d)
    BY <1>2, <1>7
  <2>6. ~grew' => ~grew
    OBVIOUS
  <2> QED BY <1>1, <2>3, <2>4, <2>5, <2>6 DEF WorkFit, Prepaid, Gate
<1> QED BY <1>1, <1>3, <1>6, <1>7

\* The part of a step that is about the callers, when the rows stay.
LEMMA CallersStep ==
    ASSUME Routing, NEW c \in Callers, Typed, CallersFit, UNCHANGED <<rows>>,
           \A d \in Callers \ {c} : pc'[d] = pc[d] /\ job'[d] = job[d],
           \A s \in Shard, d \in Callers \ {c} : lock'[s] = d <=> lock[s] = d,
           grew => grew',
           CallTyped(c)' /\ Climbs(c)' /\ (pc'[c] \in Working => WorkFit(c)')
    PROVE  CallersFit'
<1>1. rows' \in Rows
  BY DEF Typed
<1>2. \A d \in Callers \ {c} :
              CallTyped(d)' /\ Climbs(d)' /\ (pc'[d] \in Working => WorkFit(d)')
  BY <1>1, OtherCallers
<1> QED BY <1>2 DEF CallersFit

\* The caller that holds a key's shard and has a record to apply.
Pending(p) == lock[shardOf[p]] \in Callers /\ pc[lock[shardOf[p]]] \in {"release", "apply"}

\* Steps that neither journal nor apply leave the records as far ahead as before.
LEMMA MemoryStays ==
    ASSUME UNCHANGED <<rows, log, base>>, MemoryFollowsLog, RecordsFitTogether,
           \A p \in PK : /\ Pending(p)' <=> Pending(p)
                         /\ Pending(p) => job'[lock'[shardOf[p]]].acts = job[lock[shardOf[p]]].acts
    PROVE  MemoryFollowsLog' /\ RecordsFitTogether'
<1>1. Journaled' = Journaled
  BY DEF Journaled
<1>2. RecordsFitTogether'
  BY DEF RecordsFitTogether
<1>3. \A p \in PK : Journaled[p] = IF Pending(p) THEN After(rows, job[lock[shardOf[p]]].acts)[p] ELSE rows[p]
  BY DEF MemoryFollowsLog, Pending
<1>4. \A p \in PK : Journaled'[p] = IF Pending(p)' THEN After(rows', job'[lock'[shardOf[p]]].acts)[p] ELSE rows'[p]
  BY <1>1, <1>3
<1>5. MemoryFollowsLog'
  BY <1>4 DEF MemoryFollowsLog, Pending
<1> QED BY <1>2, <1>5

\* A step that journals nothing and applies nothing.
LEMMA QuietStep ==
    ASSUME Routing, NEW c \in Callers, CoreInv, Typed', UNCHANGED <<rows, log, base, historyVars>>,
           \A d \in Callers \ {c} : pc'[d] = pc[d] /\ job'[d] = job[d],
           \A s \in Shard, d \in Callers \ {c} : lock'[s] = d <=> lock[s] = d,
           pc[c] \notin {"release", "apply"}, pc'[c] \notin {"release", "apply"},
           CallTyped(c)' /\ Climbs(c)' /\ (pc'[c] \in Working => WorkFit(c)')
    PROVE  CoreInv'
<1>1. CallersFit'
  BY CallersStep DEF CoreInv, historyVars
<1>2. \A p \in PK : shardOf[p] \in Shard
  BY DEF Routing
<1>3. \A p \in PK : /\ Pending(p)' <=> Pending(p)
                    /\ Pending(p) => job'[lock'[shardOf[p]]].acts = job[lock[shardOf[p]]].acts
  <2> SUFFICES ASSUME NEW p \in PK
               PROVE  /\ Pending(p)' <=> Pending(p)
                      /\ Pending(p) => job'[lock'[shardOf[p]]].acts = job[lock[shardOf[p]]].acts
    OBVIOUS
  <2>1. Pending(p) => lock[shardOf[p]] # c /\ lock'[shardOf[p]] = lock[shardOf[p]]
    BY <1>2 DEF Pending
  <2>2. Pending(p)' => lock'[shardOf[p]] # c /\ lock'[shardOf[p]] = lock[shardOf[p]]
    BY <1>2 DEF Pending
  <2> QED BY <1>2, <2>1, <2>2 DEF Pending
<1>4. MemoryFollowsLog' /\ RecordsFitTogether'
  BY <1>3, MemoryStays DEF CoreInv
<1> QED BY <1>1, <1>4 DEF CoreInv

\* A call begins.
LEMMA CoreBegin ==
    ASSUME NEW c \in Callers, CoreInv, Begin(c)
    PROVE  CoreInv'
<1>1. PICK j \in Call : job' = [job EXCEPT ![c] = j]
  BY Zenon DEF Begin
<1>2. /\ pc[c] = "idle" /\ pc' = [pc EXCEPT ![c] = "lock"] /\ calls < MaxCalls /\ calls' = calls + 1
      /\ UNCHANGED <<rows, bytes, total, lock, log, walErr, dropped, base, historyVars>>
  BY DEF Begin
<1>3. Typed /\ CallersFit
  BY DEF CoreInv
<1>4. Typed'
  BY <1>1, <1>2, <1>3, StoreBounds DEF Typed, historyVars, StoreBounds
<1>5. pc'[c] = "lock" /\ job'[c] = j /\ \A d \in Callers \ {c} : pc'[d] = pc[d] /\ job'[d] = job[d]
  BY <1>1, <1>2, <1>3 DEF Typed
<1>6. CallTyped(c)' /\ (pc'[c] \in Working => WorkFit(c)')
  BY <1>5 DEF CallTyped, Working
<1>7. Climbs(c)'
  <2>1. Held(c) = {} /\ Held(c)' = Held(c)
    BY <1>2, <1>3 DEF CallersFit, Climbs, Held
  <2> QED BY <1>5, <2>1 DEF Climbs
<1> QED BY <1>2, <1>4, <1>5, <1>6, <1>7, QuietStep, Routing

\* The least of some shards.
LEMMA LeastShard ==
    ASSUME NEW S \in SUBSET Shard, S # {}
    PROVE  Min(S) \in S /\ \A y \in S : Min(S) <= y
<1>1. S \in SUBSET Nat
  BY DEF Shard
<1>2. \E x \in S : \A y \in S : x <= y
  BY <1>1, NatMin
<1> QED BY <1>2 DEF Min

\* A caller takes its next shard.
LEMMA CoreLock ==
    ASSUME NEW c \in Callers, CoreInv, Lock(c)
    PROVE  CoreInv'
<1> DEFINE s == NextShard(c)
<1>1. /\ pc[c] = "lock" /\ Missing(c) # {} /\ lock[s] = Free /\ lock' = [lock EXCEPT ![s] = c]
      /\ UNCHANGED <<rows, bytes, total, pc, job, log, walErr, dropped, base, calls, historyVars>>
  BY DEF Lock
<1>2. Typed /\ CallersFit
  BY DEF CoreInv
<1>3. job[c] \in Call /\ Held(c) \subseteq ShardSet(job[c]) /\ \A h \in Held(c), m \in Missing(c) : h < m
  BY <1>1, <1>2 DEF CallersFit, CallTyped, Climbs
<1>4. ShardSet(job[c]) \in SUBSET Shard
  BY <1>3, CallParts, FiniteSetting, Routing
<1>5. s \in Missing(c) /\ s \in Shard /\ \A m \in Missing(c) : s <= m
  BY <1>1, <1>4, LeastShard DEF Missing, NextShard
<1> HIDE DEF s
<1>6. Typed'
  BY <1>1, <1>2, <1>5 DEF Typed, historyVars
<1>7. \A t \in Shard, d \in Callers \ {c} : lock'[t] = d <=> lock[t] = d
  BY <1>1, <1>2, <1>5, NobodyIsFree DEF Typed, NobodyIsFree
<1>8. Held(c)' = Held(c) \cup {s}
  BY <1>1, <1>2, <1>5 DEF Typed, Held
<1>9. Missing(c)' = Missing(c) \ {s}
  BY <1>1, <1>8 DEF Missing, ShardSet
<1>10. Climbs(c)'
  <2>1. \A h \in Held(c) \cup {s}, m \in Missing(c) \ {s} : h < m
    <3>1. \A m \in Missing(c) : m \in Int
      BY <1>4 DEF Missing, Shard
    <3> QED BY <1>3, <1>5, <3>1
  <2>2. ShardSet(job[c])' = ShardSet(job[c])
    BY <1>1 DEF ShardSet
  <2>3. s \in ShardSet(job[c])
    BY <1>5 DEF Missing
  <2> QED BY <1>1, <1>3, <1>8, <1>9, <2>1, <2>2, <2>3 DEF Climbs
<1>11. CallTyped(c)' /\ pc'[c] \notin Working
  BY <1>1, <1>3 DEF CallTyped, Working
<1> QED BY <1>1, <1>6, <1>7, <1>10, <1>11, QuietStep, Routing

\* What a call resolves to.
LEMMA ResolveFits ==
    ASSUME rows \in Rows, NEW j \in Call
    PROVE  LET l == Walk(j).acts IN
           /\ l \in Seq(Act)
           /\ FitOn(rows, l)
           /\ \A i \in DOMAIN l : shardOf[l[i].pk] \in ShardSet(j)
           /\ j.kind = "one" /\ l # <<>> => Len(l) = 1
           /\ j.kind = "match" => \A i \in DOMAIN l : l[i].op = l[1].op /\ l[i].op # "insert"
<1> DEFINE q == j.stmts
           w == Walk(j)
           l == w.acts
<1>1. w = WalkOf(rows, q)
  BY DEF Walk, WalkOf, StageFold!Run, FoldLeft, StageFold!FoldLeft, MapThenFoldSet,
         StageFold!MapThenFoldSet, Max, StageFold!Max
<1> HIDE DEF w
<1>2. q \in Seq(Stmt)
  BY CallParts, FiniteSetting, Routing
<1>3. WalkedRight(rows, q, w)
  BY <1>1, <1>2, WalkRight, Sizes
<1> HIDE DEF q
<1>4. l \in Seq(Act) /\ FitOn(rows, l) /\ Len(l) <= Len(q)
  BY <1>3 DEF WalkedRight, WalkState
<1>5. \A i \in DOMAIN l : \E k \in DOMAIN q : l[i].pk = q[k].pk /\ l[i].op = q[k].op /\ l[i].size = q[k].size
  BY <1>3 DEF WalkedRight
<1>6. \A i \in DOMAIN l : shardOf[l[i].pk] \in ShardSet(j)
  BY <1>5, CallParts, FiniteSetting, Routing DEF q
<1> HIDE DEF l
<1>7. j.kind = "one" /\ l # <<>> => Len(l) = 1
  <2>1. l # <<>> => Len(l) >= 1 /\ Len(l) \in Nat
    BY <1>4
  <2>2. j.kind = "one" => Len(q) = 1
    BY CallParts, FiniteSetting, Routing DEF q
  <2>3. ASSUME j.kind = "one", l # <<>> PROVE Len(l) = 1
    <3> DEFINE n == Len(l)
    <3>1. n <= 1 /\ n >= 1 /\ n \in Nat
      BY <1>4, <2>1, <2>2, <2>3, Zenon
    <3> HIDE DEF n
    <3>2. n = 1
      BY <3>1
    <3> QED BY <3>2 DEF n
  <2> QED BY <2>3
<1>8. ASSUME j.kind = "match"
      PROVE  \A i \in DOMAIN l : l[i].op = l[1].op /\ l[i].op # "insert"
  <2>1. \A k \in DOMAIN q : q[k].op = q[1].op /\ q[k].op # "insert"
    BY <1>8, CallParts, FiniteSetting, Routing DEF q
  <2>2. \A i \in DOMAIN l : l[i].op = q[1].op /\ l[i].op # "insert"
    BY <1>5, <2>1
  <2>3. \A i \in DOMAIN l : 1 \in DOMAIN l
    BY <1>4
  <2> QED BY <2>2, <2>3
<1> QED BY <1>4, <1>6, <1>7, <1>8 DEF l, w

\* A call has all its shards and resolves its statements.
LEMMA CoreResolve ==
    ASSUME NEW c \in Callers, CoreInv, Resolve(c)
    PROVE  CoreInv'
<1> DEFINE j == job[c]
           w == Walk(j)
           gate == Gate(j.kind, w.acts)
           done == [kind |-> j.kind, acts |-> w.acts, gate |-> IF MaxBytes > 0 THEN gate ELSE 0]
<1>1. /\ pc[c] = "lock" /\ Missing(c) = {}
      /\ UNCHANGED <<rows, bytes, total, lock, log, walErr, dropped, base, calls, historyVars>>
  BY DEF Resolve
<1>2. \/ pc' = [pc EXCEPT ![c] = "unlock"] /\ job' = job
      \/ /\ w.acts # <<>> /\ job' = [job EXCEPT ![c] = done]
         /\ pc' = [pc EXCEPT ![c] = IF gate > 0 /\ MaxBytes > 0 THEN "reserve" ELSE "journal"]
  BY Zenon DEF Resolve
<1>3. Typed /\ CallersFit
  BY DEF CoreInv
<1>4. j \in Call /\ ShardSet(j) \subseteq Held(c)
  BY <1>1, <1>3 DEF CallersFit, CallTyped, Missing
<1>5. rows \in Rows /\ j.kind \in {"one", "txn", "match"}
  BY <1>3, <1>4, CallParts, FiniteSetting, Routing DEF Typed
<1>6. /\ w.acts \in Seq(Act) /\ FitOn(rows, w.acts)
      /\ \A i \in DOMAIN w.acts : shardOf[w.acts[i].pk] \in ShardSet(j)
      /\ j.kind = "one" /\ w.acts # <<>> => Len(w.acts) = 1
      /\ j.kind = "match" =>
            \A i \in DOMAIN w.acts : w.acts[i].op = w.acts[1].op /\ w.acts[i].op # "insert"
  BY <1>4, <1>5, ResolveFits
<1>7. gate \in Nat
  BY <1>6, GateNat
<1>8. /\ done \in [kind : {"one", "txn", "match"}, acts : Seq(Act), gate : Nat]
      /\ done.kind = j.kind /\ done.acts = w.acts /\ done.gate = IF MaxBytes > 0 THEN gate ELSE 0
  BY <1>5, <1>6, <1>7
<1>9. \A i \in DOMAIN w.acts : lock[shardOf[w.acts[i].pk]] = c
  BY <1>4, <1>6 DEF Held
<1> HIDE DEF j, w, gate, done
<1>10. Typed'
  BY <1>1, <1>2, <1>3 DEF Typed, historyVars, Working
<1>11. \A d \in Callers \ {c} : pc'[d] = pc[d] /\ job'[d] = job[d]
  BY <1>2, <1>3 DEF Typed
<1>12. pc'[c] \notin {"idle", "lock", "release", "apply"}
  BY <1>2, <1>3 DEF Typed
<1>13. Climbs(c)'
  BY <1>12 DEF Climbs
<1>14. CASE pc' = [pc EXCEPT ![c] = "unlock"]
  <2>1. pc'[c] \notin Working
    BY <1>3, <1>14 DEF Typed, Working
  <2>2. CallTyped(c)'
    BY <1>12, <2>1 DEF CallTyped
  <2> QED BY <1>1, <1>10, <1>11, <1>12, <1>13, <2>1, <2>2, QuietStep, Routing
<1>15. CASE /\ w.acts # <<>> /\ job' = [job EXCEPT ![c] = done]
            /\ pc' = [pc EXCEPT ![c] = IF gate > 0 /\ MaxBytes > 0 THEN "reserve" ELSE "journal"]
  <2>1. job'[c] = done /\ pc'[c] \in {"reserve", "journal"}
    BY <1>3, <1>15 DEF Typed
  <2>2. CallTyped(c)'
    BY <1>8, <2>1 DEF CallTyped
  <2>3. lock' = lock /\ rows' = rows
    BY <1>1
  <2>4. WorkFit(c)'
    BY ZenonT(40), <1>6, <1>8, <1>9, <1>15, <2>1, <2>3 DEF WorkFit, gate, Gate
  <2> QED BY <1>1, <1>10, <1>11, <1>12, <1>13, <2>2, <2>4, QuietStep, Routing
<1> QED BY <1>2, <1>14, <1>15

\* A caller past its locks may be at any step: what Climbs asks of it is nothing.
LEMMA ClimbsPast ==
    ASSUME NEW c \in Callers, pc'[c] \notin {"idle", "lock"}
    PROVE  Climbs(c)'
BY DEF Climbs

\* Bytes are reserved.
LEMMA CoreReserve ==
    ASSUME NEW c \in Callers, CoreInv, Reserve(c)
    PROVE  CoreInv'
<1>1. /\ pc[c] = "reserve" /\ total' = total + job[c].gate
      /\ pc' = [pc EXCEPT ![c] = IF total' > MaxBytes THEN "backout" ELSE "journal"]
      /\ UNCHANGED <<rows, bytes, lock, job, log, walErr, dropped, base, calls, historyVars>>
  BY DEF Reserve
<1>2. Typed /\ CallersFit
  BY DEF CoreInv
<1>3. CallTyped(c) /\ WorkFit(c)
  BY <1>1, <1>2 DEF CallersFit, Working
<1>4. /\ job[c] \in [kind : {"one", "txn", "match"}, acts : Seq(Act), gate : Nat]
      /\ MaxBytes = 0 => job[c].gate = 0
  BY <1>1, <1>3 DEF CallTyped, WorkFit, Working
<1>5. Typed'
  <2>1. job[c].gate \in Nat
    BY <1>4
  <2>2. total' \in Int /\ (MaxBytes = 0 => total' = 0)
    BY <1>1, <1>2, <1>4, <2>1 DEF Typed
  <2>3. pc' \in [Callers -> Working \cup {"idle", "lock", "unlock"}]
    BY <1>1, <1>2 DEF Typed, Working
  <2> QED BY <1>1, <1>2, <2>2, <2>3 DEF Typed, historyVars
<1>6. pc'[c] \in {"backout", "journal"} /\ \A d \in Callers \ {c} : pc'[d] = pc[d] /\ job'[d] = job[d]
  BY <1>1, <1>2 DEF Typed
<1>7. CallTyped(c)'
  BY <1>1, <1>4, <1>6 DEF CallTyped
<1>8. WorkFit(c)'
  <2>1. job' = job /\ rows' = rows /\ lock' = lock
    BY <1>1
  <2> QED BY <1>1, <1>3, <1>6, <2>1 DEF WorkFit, Gate
<1>9. Climbs(c)'
  BY <1>6, ClimbsPast
<1> QED BY <1>1, <1>5, <1>6, <1>7, <1>8, <1>9, QuietStep, Routing

\* A reservation is returned.
LEMMA CoreBackOut ==
    ASSUME NEW c \in Callers, CoreInv, BackOut(c)
    PROVE  CoreInv'
<1>1. /\ pc[c] = "backout" /\ total' = total - job[c].gate
      /\ pc' = [pc EXCEPT ![c] = "unlock"]
      /\ UNCHANGED <<rows, bytes, lock, job, log, walErr, dropped, base, calls, historyVars>>
  BY DEF BackOut
<1>2. Typed /\ CallersFit
  BY DEF CoreInv
<1>3. CallTyped(c) /\ WorkFit(c)
  BY <1>1, <1>2 DEF CallersFit, Working
<1>4. /\ job[c] \in [kind : {"one", "txn", "match"}, acts : Seq(Act), gate : Nat]
      /\ MaxBytes = 0 => job[c].gate = 0
  BY <1>1, <1>3 DEF CallTyped, WorkFit, Working
<1>5. Typed'
  <2>1. job[c].gate \in Nat
    BY <1>4
  <2>2. total' \in Int /\ (MaxBytes = 0 => total' = 0)
    BY <1>1, <1>2, <1>4, <2>1 DEF Typed
  <2>3. pc' \in [Callers -> Working \cup {"idle", "lock", "unlock"}]
    BY <1>1, <1>2 DEF Typed, Working
  <2> QED BY <1>1, <1>2, <2>2, <2>3 DEF Typed, historyVars
<1>6. pc'[c] = "unlock" /\ \A d \in Callers \ {c} : pc'[d] = pc[d] /\ job'[d] = job[d]
  BY <1>1, <1>2 DEF Typed
<1>7. CallTyped(c)' /\ pc'[c] \notin Working
  BY <1>6 DEF CallTyped, Working
<1>8. Climbs(c)'
  BY <1>6, ClimbsPast
<1> QED BY <1>1, <1>5, <1>6, <1>7, <1>8, QuietStep, Routing

\* The log refuses the record.
LEMMA CoreJournalFails ==
    ASSUME NEW c \in Callers, CoreInv, JournalFails(c)
    PROVE  CoreInv'
<1>1. /\ pc[c] = "journal" /\ walErr' = TRUE
      /\ pc' = [pc EXCEPT ![c] = IF job[c].gate > 0 THEN "backout" ELSE "unlock"]
      /\ UNCHANGED <<rows, bytes, total, lock, job, log, dropped, base, calls, historyVars>>
  BY DEF JournalFails
<1>2. Typed /\ CallersFit
  BY DEF CoreInv
<1>3. CallTyped(c) /\ WorkFit(c)
  BY <1>1, <1>2 DEF CallersFit, Working
<1>4. Typed'
  BY <1>1, <1>2 DEF Typed, historyVars, Working
<1>5. pc'[c] \in {"backout", "unlock"} /\ \A d \in Callers \ {c} : pc'[d] = pc[d] /\ job'[d] = job[d]
  BY <1>1, <1>2 DEF Typed
<1>6. CallTyped(c)'
  BY <1>1, <1>3, <1>5 DEF CallTyped, Working
<1>7. pc'[c] \in Working => WorkFit(c)'
  <2>1. job' = job /\ rows' = rows /\ lock' = lock
    BY <1>1
  <2> QED BY <1>1, <1>3, <1>5, <2>1 DEF WorkFit, Gate, Working
<1>8. Climbs(c)'
  BY <1>5, ClimbsPast
<1> QED BY <1>1, <1>4, <1>5, <1>6, <1>7, <1>8, QuietStep, Routing

\* A call ends and gives its shards back.
LEMMA CoreUnlock ==
    ASSUME NEW c \in Callers, CoreInv, Unlock(c)
    PROVE  CoreInv'
<1>1. /\ pc[c] = "unlock" /\ lock' = [s \in Shard |-> IF lock[s] = c THEN Free ELSE lock[s]]
      /\ pc' = [pc EXCEPT ![c] = "idle"] /\ job' = [job EXCEPT ![c] = NoCall]
      /\ UNCHANGED <<rows, bytes, total, log, walErr, dropped, base, calls, historyVars>>
  BY DEF Unlock
<1>2. Typed /\ CallersFit
  BY DEF CoreInv
<1>3. Typed'
  BY <1>1, <1>2 DEF Typed, historyVars
<1>4. pc'[c] = "idle" /\ \A d \in Callers \ {c} : pc'[d] = pc[d] /\ job'[d] = job[d]
  BY <1>1, <1>2 DEF Typed
<1>5. \A s \in Shard, d \in Callers \ {c} : lock'[s] = d <=> lock[s] = d
  BY <1>1, NobodyIsFree DEF NobodyIsFree
<1>6. Held(c)' = {}
  BY <1>1, NobodyIsFree DEF Held, NobodyIsFree
<1>7. Climbs(c)' /\ CallTyped(c)' /\ pc'[c] \notin Working
  BY <1>4, <1>6 DEF Climbs, CallTyped, Working
<1> QED BY <1>1, <1>3, <1>4, <1>5, <1>7, QuietStep, Routing

\* A step that leaves all of this alone.
LEMMA CoreStays ==
    ASSUME CoreInv, dropped' \in BOOLEAN,
           UNCHANGED <<rows, bytes, total, lock, pc, job, log, walErr, base, calls, historyVars>>
    PROVE  CoreInv'
<1>1. Typed'
  BY DEF CoreInv, Typed, historyVars
<1>2. CallersFit'
  <2> SUFFICES ASSUME NEW c \in Callers
               PROVE  CallTyped(c)' /\ Climbs(c)' /\ (pc'[c] \in Working => WorkFit(c)')
    BY DEF CallersFit
  <2>1. CallTyped(c) /\ Climbs(c) /\ (pc[c] \in Working => WorkFit(c))
    BY DEF CoreInv, CallersFit
  <2>2. CallTyped(c)'
    BY <2>1 DEF CallTyped
  <2>3. Climbs(c)'
    <3>1. Held(c)' = Held(c) /\ ShardSet(job[c])' = ShardSet(job[c])
      BY DEF Held, ShardSet
    <3>2. Missing(c)' = Missing(c)
      BY <3>1 DEF Missing
    <3> QED BY <2>1, <3>1, <3>2 DEF Climbs
  <2>4. grew' = grew
    BY DEF historyVars
  <2>5. pc'[c] \in Working => WorkFit(c)'
    BY <2>1, <2>4 DEF WorkFit, Prepaid
  <2> QED BY <2>2, <2>3, <2>5
<1>3. MemoryFollowsLog' /\ RecordsFitTogether'
  BY DEF CoreInv, MemoryFollowsLog, RecordsFitTogether, Journaled
<1> QED BY <1>1, <1>2, <1>3 DEF CoreInv

\* Freed bytes are returned.
LEMMA CoreRelease ==
    ASSUME NEW c \in Callers, CoreInv, Release(c)
    PROVE  CoreInv'
<1>1. /\ pc[c] = "release" /\ total' = total + Costs(job[c].acts) /\ pc' = [pc EXCEPT ![c] = "apply"]
      /\ UNCHANGED <<rows, bytes, lock, job, log, walErr, dropped, base, calls, historyVars>>
  BY DEF Release
<1>2. Typed /\ CallersFit
  BY DEF CoreInv
<1>3. CallTyped(c) /\ WorkFit(c)
  BY <1>1, <1>2 DEF CallersFit, Working
<1>4. /\ job[c] \in [kind : {"one", "txn", "match"}, acts : Seq(Act), gate : Nat]
      /\ MaxBytes > 0 /\ job[c].kind = "txn"
  BY <1>1, <1>3 DEF CallTyped, WorkFit, Working
<1>5. Costs(job[c].acts) \in Int
  BY <1>4, CostsFacts
<1>6. Typed'
  <2>1. total' \in Int /\ MaxBytes # 0
    BY <1>1, <1>2, <1>4, <1>5, StoreBounds DEF Typed, StoreBounds
  <2>2. pc' \in [Callers -> Working \cup {"idle", "lock", "unlock"}]
    BY <1>1, <1>2 DEF Typed, Working
  <2> QED BY <1>1, <1>2, <2>1, <2>2 DEF Typed, historyVars
<1>7. pc'[c] = "apply" /\ \A d \in Callers \ {c} : pc'[d] = pc[d] /\ job'[d] = job[d]
  BY <1>1, <1>2 DEF Typed
<1>8. CallTyped(c)'
  BY <1>1, <1>4, <1>7 DEF CallTyped
<1>9. WorkFit(c)'
  <2>1. job' = job /\ rows' = rows /\ lock' = lock
    BY <1>1
  <2> QED BY <1>1, <1>3, <1>4, <1>7, <2>1 DEF WorkFit, Prepaid
<1>10. Climbs(c)'
  BY <1>7, ClimbsPast
<1>11. CallersFit'
  <2>1. grew' = grew
    BY <1>1 DEF historyVars
  <2> QED BY <1>1, <1>2, <1>7, <1>8, <1>9, <1>10, <2>1, CallersStep, Routing
<1>12. MemoryFollowsLog' /\ RecordsFitTogether'
  <2>1. \A p \in PK : /\ Pending(p)' <=> Pending(p)
                      /\ Pending(p) => job'[lock'[shardOf[p]]].acts = job[lock[shardOf[p]]].acts
    BY <1>1, <1>7 DEF Pending
  <2> QED BY <1>1, <2>1, MemoryStays DEF CoreInv
<1> QED BY <1>6, <1>11, <1>12 DEF CoreInv

\* A record takes its place in the log.
LEMMA RecordType ==
    ASSUME NEW j \in [kind : {"one", "txn", "match"}, acts : Seq(Act), gate : Nat]
    PROVE  Record(j) \in Rec /\ Record(j).muts = j.acts
<1>1. j.acts \in Seq(Act) /\ Len(j.acts) \in Nat
  OBVIOUS
<1>2. Len(j.acts) % CountMod \in 0..(CountMod - 1)
  BY <1>1, EnvelopeFits DEF EnvelopeFits
<1>3. 1 \in 0..(CountMod - 1)
  BY EnvelopeFits DEF EnvelopeFits
<1> QED BY <1>1, <1>2, <1>3 DEF Record, Rec

\* What a call journals costs no more than it reserved, but for an update that
\* grows a row: then grew is set.
LEMMA JournalCost ==
    ASSUME NEW c \in Callers, Typed, CallTyped(c), WorkFit(c), pc[c] = "journal", MaxBytes > 0,
           ~GrowsUngated(job[c])
    PROVE  /\ Costs(job[c].acts) <= job[c].gate
           /\ ~Prepaid(job[c]) => \A i \in DOMAIN job[c].acts : job[c].acts[i].cost <= 0
<1> DEFINE l == job[c].acts
<1>1. l \in Seq(Act) /\ job[c].kind \in {"one", "txn", "match"} /\ job[c].gate \in Nat
  BY DEF CallTyped, Working
<1>2. /\ l # <<>> /\ FitOn(rows, l) /\ job[c].gate = Gate(job[c].kind, l)
      /\ job[c].kind = "one" => Len(l) = 1
      /\ job[c].kind = "match" => \A i \in DOMAIN l : l[i].op = l[1].op /\ l[i].op # "insert"
  BY DEF WorkFit
<1>3. /\ rows \in Rows
      /\ job[c].kind # "txn" /\ l[1].op = "update" => \A i \in DOMAIN l : ~(l[i].cost > 0)
  BY DEF Typed, GrowsUngated
<1> HIDE DEF l
<1>4. Costs(l) \in Int /\ 1 \in DOMAIN l /\ Len(l) \in Nat /\ DOMAIN l = 1..Len(l)
  BY <1>1, <1>2, CostsFacts
<1>5. CASE job[c].kind = "txn" \/ (job[c].kind = "one" /\ l[1].op = "insert")
  <2>1. job[c].gate = IF Costs(l) > 0 THEN Costs(l) ELSE 0
    BY <1>2, <1>4, <1>5, MaxZero DEF Gate
  <2>2. ASSUME job[c].kind = "one", l[1].op = "insert" PROVE Costs(l) > 0
    <3>1. Head(l) = l[1] /\ Tail(l) = <<>>
      <4>1. Len(l) = 1 /\ l \in Seq(Act) /\ l # <<>>
        BY <1>1, <1>2, <2>2
      <4>2. Head(l) = l[1] /\ Tail(l) \in Seq(Act) /\ Len(Tail(l)) = 0
        BY <4>1
      <4>3. \A t \in Seq(Act) : Len(t) = 0 => t = <<>>
        OBVIOUS
      <4> QED BY <4>2, <4>3
    <3>2. Costs(l) = l[1].cost + 0
      BY <1>1, <1>2, <3>1, CostsHead, CostsFacts
    <3>3. FitAt(rows, l[1]) /\ l[1] \in Act
      BY <1>1, <1>2, <1>3, <1>4, <3>1, FitHead
    <3>4. l[1].size # 0 /\ rows[l[1].pk] = 0
      BY <2>2, <3>3 DEF FitAt
    <3>5. l[1].size \in Size \cup {0}
      BY <3>3 DEF Act
    <3>6. l[1].size \in Nat \ {0}
      BY <3>4, <3>5, Sizes, Zenon DEF Sizes
    <3>7. l[1].cost = l[1].size - 0
      BY <3>3, <3>4 DEF FitAt
    <3> QED BY <3>2, <3>6, <3>7
  <2>3. Costs(l) <= job[c].gate
    BY <1>4, <2>1
  <2>4. Prepaid(job[c])
    BY <1>4, <1>5, <2>1, <2>2 DEF Prepaid
  <2> QED BY <2>3, <2>4 DEF l
<1>6. CASE job[c].kind # "txn" /\ ~(job[c].kind = "one" /\ l[1].op = "insert")
  <2>1. job[c].gate = 0
    BY <1>2, <1>6 DEF Gate
  <2>2. \A i \in DOMAIN l : l[i].op = l[1].op /\ l[i].op # "insert" /\ l[i].op \in {"update", "delete"}
    <3>1. \A i \in DOMAIN l : l[i] \in Act
      BY <1>1
    <3>2. \A a \in Act : a.op \in {"insert", "update", "delete"}
      BY DEF Act
    <3>3. job[c].kind = "one" => \A i \in DOMAIN l : i = 1
      BY <1>2, <1>4
    <3> QED BY <1>1, <1>2, <1>6, <3>1, <3>2, <3>3
  <2>3. \A i \in DOMAIN l : l[i].cost <= 0
    <3> SUFFICES ASSUME NEW i \in DOMAIN l PROVE l[i].cost <= 0
      OBVIOUS
    <3>1. l[i] \in Act /\ l[i].pk \in PK /\ l[i].cost \in Int
      BY <1>1, ActAt
    <3>2. CASE l[1].op = "update"
      BY <1>3, <1>6, <3>1, <3>2
    <3>3. CASE l[1].op = "delete"
      <4> DEFINE r == After(rows, SubSeq(l, 1, i - 1))
      <4>1. FitAt(r, l[i])
        BY <1>2, FitOnAt
      <4>2. SubSeq(l, 1, i - 1) \in Seq(Act)
        BY <1>1, <1>4
      <4>3. r \in Rows
        BY <1>3, <4>2, AfterFacts
      <4> HIDE DEF r
      <4>4. l[i].size = 0 /\ l[i].cost = l[i].size - r[l[i].pk]
        BY <2>2, <3>3, <4>1 DEF FitAt
      <4>5. r[l[i].pk] \in Nat
        BY <3>1, <4>3, RowSizes, FiniteSetting, Sizes
      <4> QED BY <4>4, <4>5
    <3> QED BY <1>4, <2>2, <3>2, <3>3
  <2>4. Costs(l) <= 0
    BY <1>1, <2>3, CostsSign
  <2> QED BY <2>1, <2>3, <2>4 DEF l
<1> QED BY <1>1, <1>5, <1>6

\* A record is journaled: the log is ahead of the rows by it.
LEMMA CoreJournal ==
    ASSUME NEW c \in Callers, CoreInv, Journal(c)
    PROVE  /\ CoreInv'
           /\ Journaled' = After(Journaled, job[c].acts)
           /\ FitOn(Journaled, job[c].acts)
<1> DEFINE l == job[c].acts
           rec == Record(job[c])
<1>1. /\ pc[c] = "journal" /\ log' = Append(log, rec)
      /\ pc' = [pc EXCEPT ![c] = IF MaxBytes > 0 /\ job[c].kind = "txn" /\ Costs(l) < 0
                                    THEN "release" ELSE "apply"]
      /\ UNCHANGED <<rows, bytes, total, lock, job, walErr, dropped, base, calls>>
      /\ grew' = (grew \/ GrowsUngated(job[c]))
      /\ peaked' \in BOOLEAN /\ wrapped' \in BOOLEAN
  BY DEF Journal
<1>2. Typed /\ CallersFit
  BY DEF CoreInv
<1>3. CallTyped(c) /\ WorkFit(c)
  BY <1>1, <1>2 DEF CallersFit, Working
<1>4. /\ job[c] \in [kind : {"one", "txn", "match"}, acts : Seq(Act), gate : Nat]
      /\ l \in Seq(Act) /\ l # <<>> /\ FitOn(rows, l)
      /\ \A i \in DOMAIN l : lock[shardOf[l[i].pk]] = c
  BY <1>1, <1>3 DEF CallTyped, WorkFit, Working
<1>5. rec \in Rec /\ rec.muts = l
  BY <1>4, RecordType
<1>6. Typed'
  <2>1. log' \in Seq(Rec)
    BY <1>1, <1>2, <1>5 DEF Typed
  <2>2. pc' \in [Callers -> Working \cup {"idle", "lock", "unlock"}]
    BY <1>1, <1>2 DEF Typed, Working
  <2>3. grew' \in BOOLEAN
    BY <1>1
  <2> QED BY <1>1, <1>2, <2>1, <2>2, <2>3 DEF Typed
<1>7. pc'[c] \in {"release", "apply"} /\ \A d \in Callers \ {c} : pc'[d] = pc[d] /\ job'[d] = job[d]
  BY <1>1, <1>2 DEF Typed
<1>8. CallTyped(c)'
  BY <1>1, <1>4, <1>7 DEF CallTyped
<1>9. WorkFit(c)'
  <2>1. job' = job /\ rows' = rows /\ lock' = lock
    BY <1>1
  <2>2. pc'[c] = "release" => MaxBytes > 0 /\ job[c].kind = "txn" /\ Costs(l) < 0
    BY <1>1, <1>2 DEF Typed
  <2>3. ~Prepaid(job[c]) /\ MaxBytes > 0 /\ ~grew' => \A i \in DOMAIN l : l[i].cost <= 0
    BY <1>1, <1>2, <1>3, JournalCost
  <2> QED BY <1>4, <1>7, <2>1, <2>2, <2>3 DEF WorkFit, Prepaid
<1>10. CallersFit'
  <2>1. Climbs(c)'
    BY <1>7, ClimbsPast
  <2>2. grew => grew'
    BY <1>1
  <2> QED BY <1>1, <1>2, <1>7, <1>8, <1>9, <2>1, <2>2, CallersStep, Routing
<1> HIDE DEF l, rec
<1>11. Muts(log) \in Seq(Act) /\ Muts(log') = Muts(log) \o l
  BY <1>1, <1>2, <1>5, MutsFacts DEF Typed
<1>12. base \in Rows /\ rows \in Rows /\ Journaled \in Rows /\ Journaled' = After(Journaled, l)
  BY <1>1, <1>2, <1>4, <1>11, AfterFacts DEF Typed, Journaled
<1>13. \A p \in PK : Journaled[p] = IF Pending(p) THEN After(rows, job[lock[shardOf[p]]].acts)[p] ELSE rows[p]
  BY DEF CoreInv, MemoryFollowsLog, Pending
<1>14. \A p \in PK : lock[shardOf[p]] = c => Journaled[p] = rows[p]
  BY <1>1, <1>13 DEF Pending
<1>15. FitOn(Journaled, l)
  <2>1. \A i \in DOMAIN l : rows[l[i].pk] = Journaled[l[i].pk]
    BY <1>4, <1>14, ActAt
  <2> QED BY <1>4, <1>12, <2>1, FitLocal
<1>16. RecordsFitTogether'
  <2>1. FitOn(base, Muts(log)) /\ FitOn(After(base, Muts(log)), l)
    BY <1>15 DEF CoreInv, RecordsFitTogether, Journaled
  <2>2. FitOn(base, Muts(log) \o l)
    BY <1>4, <1>11, <1>12, <2>1, FitConcat
  <2> QED BY <1>1, <1>11, <2>2 DEF RecordsFitTogether
<1>17. \A p \in PK : Journaled'[p] = IF Pending(p)' THEN After(rows', job'[lock'[shardOf[p]]].acts)[p] ELSE rows'[p]
  <2> SUFFICES ASSUME NEW p \in PK
               PROVE  Journaled'[p] = IF Pending(p)' THEN After(rows', job'[lock'[shardOf[p]]].acts)[p] ELSE rows'[p]
    OBVIOUS
  <2>1. lock' = lock /\ job' = job /\ rows' = rows
    BY <1>1
  <2>2. CASE lock[shardOf[p]] = c
    <3>1. Pending(p)'
      BY <1>7, <2>1, <2>2 DEF Pending
    <3>2. After(Journaled, l)[p] = After(rows, l)[p]
      BY <1>4, <1>12, <1>14, <2>2, AfterAt
    <3> QED BY <1>12, <2>1, <2>2, <3>1, <3>2 DEF l
  <2>3. CASE lock[shardOf[p]] # c
    <3>1. Pending(p)' <=> Pending(p)
      BY <1>7, <2>1, <2>3 DEF Pending
    <3>2. \A i \in DOMAIN l : l[i].pk # p
      BY <1>4, <2>3
    <3>3. After(Journaled, l)[p] = Journaled[p]
      BY <1>4, <1>12, <3>2, AfterAt
    <3> QED BY <1>12, <1>13, <2>1, <3>1, <3>3
  <2> QED BY <2>2, <2>3
<1>18. MemoryFollowsLog'
  BY <1>17 DEF MemoryFollowsLog, Pending
<1> QED BY <1>6, <1>10, <1>12, <1>15, <1>16, <1>18 DEF CoreInv, l

\* What applying the first mutation of a call does to it and to the rows.
LEMMA ApplyFacts ==
    ASSUME NEW c \in Callers, Typed, CallersFit, Apply(c)
    PROVE  LET l == job[c].acts
               a == Head(l)
               t == Tail(l)
           IN /\ l \in Seq(Act) /\ l # <<>> /\ a \in Act /\ t \in Seq(Act)
              /\ FitOn(rows, l) /\ FitAt(rows, a) /\ FitOn(rows', t)
              /\ rows' = SetRow(rows, a) /\ rows' \in Rows /\ After(rows', t) = After(rows, l)
              /\ lock' = lock /\ lock[shardOf[a.pk]] = c /\ a.pk \in PK /\ shardOf[a.pk] \in Shard
              /\ \A p \in PK : p # a.pk => rows'[p] = rows[p]
              /\ \A p \in PK : lock[shardOf[p]] # c => rows'[p] = rows[p]
              /\ pc' \in [Callers -> Working \cup {"idle", "lock", "unlock"}]
              /\ pc[c] = "apply" /\ (t = <<>> => pc'[c] = "unlock") /\ (t # <<>> => pc'[c] = "apply")
              /\ DOMAIN job' = Callers
              /\ job'[c] \in [kind : {"one", "txn", "match"}, acts : Seq(Act), gate : Nat]
              /\ job'[c].kind = job[c].kind /\ job'[c].gate = job[c].gate /\ job'[c].acts = t
              /\ \A d \in Callers \ {c} : pc'[d] = pc[d] /\ job'[d] = job[d]
              /\ \A i \in DOMAIN t : i + 1 \in DOMAIN l /\ t[i] = l[i + 1]
<1> DEFINE l == job[c].acts
           a == Head(l)
           t == Tail(l)
<1>1. /\ pc[c] = "apply" /\ rows' = [rows EXCEPT ![a.pk] = a.size]
      /\ job' = [job EXCEPT ![c].acts = t]
      /\ pc' = IF Len(l) = 1 THEN [pc EXCEPT ![c] = "unlock"] ELSE pc
      /\ lock' = lock
  BY DEF Apply
<1>2. CallTyped(c) /\ WorkFit(c)
  BY <1>1 DEF CallersFit, Working
<1>3. /\ job[c] \in [kind : {"one", "txn", "match"}, acts : Seq(Act), gate : Nat]
      /\ l \in Seq(Act) /\ l # <<>> /\ FitOn(rows, l)
      /\ \A i \in DOMAIN l : lock[shardOf[l[i].pk]] = c
  BY <1>1, <1>2 DEF CallTyped, WorkFit, Working
<1>4. /\ rows \in Rows /\ DOMAIN job = Callers
      /\ pc \in [Callers -> Working \cup {"idle", "lock", "unlock"}]
  BY DEF Typed
<1>5. /\ job'[c].kind = job[c].kind /\ job'[c].gate = job[c].gate /\ job'[c].acts = t
      /\ job'[c] = [job[c] EXCEPT !.acts = t] /\ DOMAIN job' = Callers
      /\ \A d \in Callers \ {c} : job'[d] = job[d]
  BY <1>1, <1>3, <1>4
<1>6. rows' = SetRow(rows, a)
  BY <1>1 DEF SetRow
<1> HIDE DEF l
<1>7. /\ a \in Act /\ t \in Seq(Act) /\ a = l[1] /\ 1 \in DOMAIN l /\ Len(l) = Len(t) + 1 /\ Len(t) \in Nat
      /\ \A i \in DOMAIN t : i + 1 \in DOMAIN l /\ t[i] = l[i + 1]
  BY <1>3
<1> HIDE DEF a, t
<1>8. job'[c] \in [kind : {"one", "txn", "match"}, acts : Seq(Act), gate : Nat]
  BY <1>3, <1>5, <1>7
<1>9. FitAt(rows, a) /\ FitOn(rows', t)
  BY <1>3, <1>4, <1>6, FitHead DEF a, t
<1>10. rows' \in Rows /\ \A p \in PK : rows'[p] = IF p = a.pk THEN a.size ELSE rows[p]
  BY <1>4, <1>6, <1>7, SetRowAt
<1>11. After(rows', t) = After(rows, l)
  BY <1>3, <1>4, <1>6, AfterFacts DEF a, t
<1>12. a.pk \in PK /\ shardOf[a.pk] \in Shard /\ lock[shardOf[a.pk]] = c
  BY <1>3, <1>7, Routing DEF Act, Routing
<1>13. \A p \in PK : (p # a.pk => rows'[p] = rows[p]) /\ (lock[shardOf[p]] # c => rows'[p] = rows[p])
  BY <1>10, <1>12
<1>14. /\ (t = <<>> => Len(l) = 1) /\ (t # <<>> => Len(l) # 1)
  <2>1. t = <<>> <=> Len(t) = 0
    BY <1>7
  <2> QED BY <1>7, <2>1
<1>15. /\ (t = <<>> => pc'[c] = "unlock") /\ (t # <<>> => pc'[c] = "apply")
       /\ pc' \in [Callers -> Working \cup {"idle", "lock", "unlock"}]
       /\ \A d \in Callers \ {c} : pc'[d] = pc[d]
  BY <1>1, <1>4, <1>14
<1> QED BY <1>1, <1>3, <1>5, <1>6, <1>7, <1>8, <1>9, <1>10, <1>11, <1>12, <1>13, <1>15 DEF l, a, t

\* A mutation is applied.
LEMMA CoreApply ==
    ASSUME NEW c \in Callers, CoreInv, Apply(c)
    PROVE  CoreInv'
<1> DEFINE l == job[c].acts
           a == Head(l)
           t == Tail(l)
<1>1. Typed /\ CallersFit
  BY DEF CoreInv
<1>2. /\ bytes' = [bytes EXCEPT ![shardOf[a.pk]] = @ + a.cost]
      /\ total' = IF MaxBytes = 0 \/ Prepaid(job[c]) THEN total ELSE total + a.cost
      /\ UNCHANGED <<lock, log, walErr, dropped, base, calls, historyVars>>
  BY DEF Apply
<1>3. /\ l \in Seq(Act) /\ l # <<>> /\ a \in Act /\ t \in Seq(Act)
      /\ FitOn(rows', t) /\ rows' \in Rows /\ After(rows', t) = After(rows, l)
      /\ lock[shardOf[a.pk]] = c /\ a.pk \in PK /\ shardOf[a.pk] \in Shard
      /\ \A p \in PK : lock[shardOf[p]] # c => rows'[p] = rows[p]
  BY <1>1, ApplyFacts
<1>4. /\ pc' \in [Callers -> Working \cup {"idle", "lock", "unlock"}]
      /\ pc[c] = "apply" /\ (t = <<>> => pc'[c] = "unlock") /\ (t # <<>> => pc'[c] = "apply")
      /\ DOMAIN job' = Callers
      /\ job'[c] \in [kind : {"one", "txn", "match"}, acts : Seq(Act), gate : Nat]
      /\ job'[c].kind = job[c].kind /\ job'[c].gate = job[c].gate /\ job'[c].acts = t
      /\ \A d \in Callers \ {c} : pc'[d] = pc[d] /\ job'[d] = job[d]
  BY <1>1, ApplyFacts
<1>5. \A i \in DOMAIN t : i + 1 \in DOMAIN l /\ t[i] = l[i + 1]
  BY <1>1, ApplyFacts
<1>6. WorkFit(c)
  BY <1>1, <1>4 DEF CallersFit, Working
<1>7. /\ \A i \in DOMAIN l : lock[shardOf[l[i].pk]] = c
      /\ ~Prepaid(job[c]) /\ MaxBytes > 0 /\ ~grew => \A i \in DOMAIN l : l[i].cost <= 0
  BY <1>4, <1>6 DEF WorkFit
<1> HIDE DEF l, a, t
<1>8. Typed'
  <2>1. a.cost \in Int
    BY <1>3 DEF Act
  <2>2. bytes' \in [Shard -> Int]
    BY <1>1, <1>2, <1>3, <2>1 DEF Typed
  <2>3. total' \in Int /\ (MaxBytes = 0 => total' = 0)
    BY <1>1, <1>2, <2>1 DEF Typed
  <2> QED BY <1>1, <1>2, <1>3, <1>4, <2>2, <2>3 DEF Typed, historyVars
<1>9. CallTyped(c)' /\ Climbs(c)'
  <2>1. pc'[c] \notin {"idle", "lock"}
    BY <1>4
  <2> QED BY <1>4, <2>1, ClimbsPast DEF CallTyped
<1>10. ASSUME pc'[c] \in Working PROVE WorkFit(c)'
  <2>1. pc'[c] = "apply" /\ t # <<>>
    BY <1>4, <1>10 DEF Working
  <2>2. \A i \in DOMAIN t : lock'[shardOf[t[i].pk]] = c
    BY <1>2, <1>5, <1>7
  <2>3. Prepaid(job'[c]) <=> Prepaid(job[c])
    BY <1>4 DEF Prepaid
  <2>4. grew' = grew
    BY <1>2 DEF historyVars
  <2>5. ~Prepaid(job'[c]) /\ MaxBytes > 0 /\ ~grew' => \A i \in DOMAIN t : t[i].cost <= 0
    BY <1>5, <1>7, <2>3, <2>4
  <2> QED BY <1>3, <1>4, <2>1, <2>2, <2>5 DEF WorkFit
<1>11. CallersFit'
  <2>1. \A s \in Shard, d \in Callers \ {c} : lock'[s] = d <=> lock[s] = d
    BY <1>2
  <2>2. grew => grew'
    BY <1>2 DEF historyVars
  <2>3. \A d \in Callers \ {c} : CallTyped(d)' /\ Climbs(d)' /\ (pc'[d] \in Working => WorkFit(d)')
    BY <1>1, <1>3, <1>4, <2>1, <2>2, OtherCallers, Routing
  <2> QED BY <1>9, <1>10, <2>3 DEF CallersFit
<1>12. Journaled' = Journaled /\ RecordsFitTogether'
  BY <1>2 DEF Journaled, RecordsFitTogether, CoreInv
<1>13. \A p \in PK : Journaled'[p] = IF Pending(p)' THEN After(rows', job'[lock'[shardOf[p]]].acts)[p] ELSE rows'[p]
  <2> SUFFICES ASSUME NEW p \in PK
               PROVE  Journaled'[p] = IF Pending(p)' THEN After(rows', job'[lock'[shardOf[p]]].acts)[p] ELSE rows'[p]
    OBVIOUS
  <2>1. Journaled[p] = IF Pending(p) THEN After(rows, job[lock[shardOf[p]]].acts)[p] ELSE rows[p]
    BY DEF CoreInv, MemoryFollowsLog, Pending
  <2>2. CASE lock[shardOf[p]] = c
    <3>1. Pending(p) /\ lock' = lock
      BY <1>2, <1>4, <2>2 DEF Pending
    <3>2. Journaled'[p] = After(rows', t)[p]
      BY <1>3, <1>12, <2>1, <2>2, <3>1 DEF l
    <3>3. CASE t = <<>>
      <4>1. ~Pending(p)'
        BY <1>4, <2>2, <3>1, <3>3 DEF Pending
      <4>2. After(rows', t) = rows'
        BY <1>3, <3>3, AfterFacts
      <4> QED BY <3>2, <4>1, <4>2
    <3>4. CASE t # <<>>
      <4>1. Pending(p)'
        BY <1>4, <2>2, <3>1, <3>4 DEF Pending
      <4> QED BY <1>4, <2>2, <3>1, <3>2, <4>1
    <3> QED BY <3>3, <3>4
  <2>3. CASE lock[shardOf[p]] # c
    <3>1. lock' = lock /\ (Pending(p)' <=> Pending(p)) /\ rows'[p] = rows[p]
      BY <1>2, <1>3, <1>4, <2>3 DEF Pending
    <3>2. CASE Pending(p)
      <4> DEFINE d == lock[shardOf[p]]
      <4>1. d \in Callers \ {c} /\ pc[d] \in Working /\ job'[d] = job[d]
        BY <1>4, <2>3, <3>2 DEF Pending, Working
      <4>2. job[d].acts \in Seq(Act)
        BY <1>1, <4>1 DEF CallersFit, CallTyped
      <4>3. rows \in Rows
        BY <1>1 DEF Typed
      <4>4. After(rows', job[d].acts)[p] = After(rows, job[d].acts)[p]
        BY <1>3, <3>1, <4>2, <4>3, AfterAt
      <4> QED BY <1>12, <2>1, <3>1, <3>2, <4>1, <4>4
    <3>3. CASE ~Pending(p)
      BY <1>12, <2>1, <3>1, <3>3
    <3> QED BY <3>2, <3>3
  <2> QED BY <2>2, <2>3
<1>14. MemoryFollowsLog'
  BY <1>13 DEF MemoryFollowsLog, Pending
<1> QED BY <1>8, <1>11, <1>12, <1>14 DEF CoreInv

\* Boot.
LEMMA CoreInit == Init => CoreInv
<1> SUFFICES ASSUME Init PROVE CoreInv
  OBVIOUS
<1>1. /\ base \in Rows /\ rows = base /\ log = <<>>
      /\ bytes = [s \in Shard |-> Sum(base, InShard(s))]
      /\ total = IF MaxBytes = 0 THEN 0 ELSE Sum(base, PK)
      /\ lock = [s \in Shard |-> Free] /\ pc = [c \in Callers |-> "idle"] /\ job = [c \in Callers |-> NoCall]
      /\ walErr = FALSE /\ dropped = FALSE /\ calls = 0 /\ grew = FALSE /\ peaked = FALSE /\ wrapped = FALSE
  BY DEF Init, Rows
<1>2. Typed
  <2>1. total \in Int /\ (MaxBytes = 0 => total = 0)
    BY <1>1, RowSizes, FiniteSetting, Sizes
  <2>2. ASSUME NEW s \in Shard PROVE Sum(base, InShard(s)) \in Int
    <3>1. IsFiniteSet(InShard(s)) /\ \A p \in InShard(s) : base[p] \in Int
      BY <1>1, FS_Subset, RowSizes, FiniteSetting, Sizes DEF FiniteSetting, InShard
    <3> QED BY <3>1, SumType DEF Sum
  <2>3. bytes \in [Shard -> Int]
    BY <1>1, <2>2
  <2>4. calls \in 0..MaxCalls
    BY <1>1, StoreBounds DEF StoreBounds
  <2>5. log \in Seq(Rec)
    BY <1>1
  <2>6. /\ pc \in [Callers -> Working \cup {"idle", "lock", "unlock"}]
        /\ lock \in [Shard -> Callers \cup {Free}] /\ DOMAIN job = Callers
    BY <1>1
  <2> QED BY <1>1, <2>1, <2>3, <2>4, <2>5, <2>6 DEF Typed
<1>3. CallersFit
  <2> SUFFICES ASSUME NEW c \in Callers
               PROVE  CallTyped(c) /\ Climbs(c) /\ (pc[c] \in Working => WorkFit(c))
    BY DEF CallersFit
  <2>1. pc[c] = "idle" /\ pc[c] \notin Working
    BY <1>1 DEF Working
  <2>2. Held(c) = {}
    BY <1>1, NobodyIsFree DEF Held, NobodyIsFree
  <2> QED BY <2>1, <2>2 DEF CallTyped, Climbs
<1>4. Muts(log) = <<>> /\ Journaled = rows
  BY <1>1, MutsFacts, AfterFacts DEF Journaled
<1>5. RecordsFitTogether
  BY <1>4, FitEmpty DEF RecordsFitTogether
<1>6. MemoryFollowsLog
  <2>1. \A p \in PK : lock[shardOf[p]] \notin Callers
    BY <1>1, Routing, NobodyIsFree DEF Routing, NobodyIsFree
  <2> QED BY <1>4, <2>1 DEF MemoryFollowsLog
<1> QED BY <1>2, <1>3, <1>5, <1>6 DEF CoreInv

\* Every step.
LEMMA CoreNext == CoreInv /\ [Next]_vars => CoreInv'
<1> SUFFICES ASSUME CoreInv, [Next]_vars PROVE CoreInv'
  OBVIOUS
<1>1. CASE DropTable
  <2>1. dropped' \in BOOLEAN
    BY <1>1 DEF DropTable
  <2> QED BY <1>1, <2>1, CoreStays DEF DropTable
<1>2. CASE UNCHANGED vars
  <2>1. dropped' \in BOOLEAN
    BY <1>2 DEF vars, CoreInv, Typed
  <2>2. UNCHANGED <<rows, bytes, total, lock, pc, job, log, walErr, base, calls, historyVars>>
    BY <1>2 DEF vars, historyVars
  <2> QED BY <2>1, <2>2, CoreStays
<1>3. ASSUME NEW c \in Callers, Begin(c) \/ Step(c) PROVE CoreInv'
  BY <1>3, CoreBegin, CoreLock, CoreResolve, CoreReserve, CoreBackOut, CoreJournal, CoreJournalFails,
     CoreRelease, CoreApply, CoreUnlock DEF Step
<1> QED BY <1>1, <1>2, <1>3 DEF Next

\* The rows, the records and the locks agree at every step.
LEMMA CoreInvariant == Spec => []CoreInv
BY CoreInit, CoreNext, PTL DEF Spec

----------------------------------------------------------------------------
(* No circle of waiting callers.                                           *)

\* The greatest of some shards.
LEMMA GreatestShard ==
    ASSUME NEW S \in SUBSET Shard, S # {}
    PROVE  \E x \in S : \A y \in S : y <= x
<1> DEFINE T == {NShards - x : x \in S}
<1>1. T \in SUBSET Nat /\ T # {}
  <2>1. \A x \in Shard : NShards - x \in Nat
    BY StoreBounds DEF Shard, StoreBounds
  <2> QED BY <2>1
<1>2. PICK z \in T : \A y \in T : z <= y
  BY <1>1, NatMin
<1>3. PICK x \in S : z = NShards - x
  BY <1>2
<1>4. \A y \in S : NShards - x <= NShards - y
  BY <1>2, <1>3
<1>5. \A y \in S : y \in Int
  BY DEF Shard
<1> QED BY <1>4, <1>5, StoreBounds DEF StoreBounds

\* Of the callers that wait, the one that waits for the greatest shard waits for
\* a caller that is past it.
LEMMA NobodyWaitsInACircle == CoreInv => NoLockCycle
<1> SUFFICES ASSUME CoreInv, NEW b \in Callers, pc[b] # "idle",
                    \A c \in Callers : pc[c] # "idle" =>
                        pc[c] = "lock" /\ Missing(c) # {} /\ lock[NextShard(c)] # Free
             PROVE  FALSE
  BY DEF NoLockCycle
<1>1. Typed /\ CallersFit
  BY DEF CoreInv
<1>2. ASSUME NEW c \in Callers, pc[c] # "idle"
      PROVE  /\ NextShard(c) \in Missing(c) /\ NextShard(c) \in Shard
             /\ \A h \in Held(c) : h < NextShard(c)
  <2>1. pc[c] = "lock" /\ Missing(c) # {}
    BY <1>2
  <2>2. job[c] \in Call /\ \A h \in Held(c), m \in Missing(c) : h < m
    BY <1>1, <2>1 DEF CallersFit, CallTyped, Climbs
  <2>3. Missing(c) \in SUBSET Shard
    BY <2>2, CallParts, FiniteSetting, Routing DEF Missing
  <2> QED BY <2>1, <2>2, <2>3, LeastShard DEF NextShard
<1> DEFINE W == {NextShard(c) : c \in {d \in Callers : pc[d] # "idle"}}
<1>3. W \in SUBSET Shard /\ W # {}
  BY <1>2
<1>4. PICK x \in W : \A y \in W : y <= x
  BY <1>3, GreatestShard
<1>5. PICK c \in Callers : pc[c] # "idle" /\ x = NextShard(c)
  BY <1>4
<1> DEFINE d == lock[x]
<1>6. d \in Callers /\ x \in Held(d)
  BY <1>1, <1>2, <1>5 DEF Typed, Held
<1>7. pc[d] # "idle"
  BY <1>1, <1>6 DEF CallersFit, Climbs
<1>8. x < NextShard(d) /\ NextShard(d) \in W /\ NextShard(d) \in Shard /\ x \in Shard
  BY <1>2, <1>3, <1>6, <1>7
<1>9. NextShard(d) <= x
  BY <1>4, <1>8
<1> QED BY <1>8, <1>9 DEF Shard

\* Whatever calls are in progress and whichever shards they need, one of them can
\* go on: shard locks are taken upwards, by transactions, by candidate and by
\* full scans alike.
THEOREM CallsNeverDeadlock == Spec => []NoLockCycle
BY CoreInvariant, NobodyWaitsInACircle, PTL

----------------------------------------------------------------------------
(* The counter: three accounts of what it holds, since a step that keeps   *)
(* one of them may need another.                                           *)

\* What the counter holds for each call beyond the journaled rows.
Ahead ==
    [c \in Callers |->
        CASE pc[c] \in {"backout", "journal"} -> job[c].gate
          [] pc[c] = "release" \/ (pc[c] = "apply" /\ ~Prepaid(job[c])) -> 0 - Costs(job[c].acts)
          [] OTHER -> 0]

\* The rows the counter has been moved for, and what it holds beyond them.
Booked ==
    [p \in PK |-> LET c == lock[shardOf[p]] IN
        IF c \in Callers /\ pc[c] = "apply" /\ Prepaid(job[c])
          THEN After(rows, job[c].acts)[p] ELSE rows[p]]
Gated == [c \in Callers |-> IF pc[c] \in {"backout", "journal"} THEN job[c].gate ELSE 0]

Tallies == \A s \in Shard : bytes[s] = Sum(rows, InShard(s))

Books ==
    /\ total = Sum(bytes, Shard) + Sum(Reserved, Callers)
    /\ total = Sum(Booked, PK) + Sum(Gated, Callers)
    /\ total = Sum(Journaled, PK) + Sum(Ahead, Callers)

\* What a caller's part of each account is, by its progress.
AmountsOf(c) ==
    /\ pc[c] \in Working => job[c].acts \in Seq(Act) /\ job[c].gate \in Nat /\ Costs(job[c].acts) \in Int
    /\ pc[c] \in {"idle", "lock", "unlock", "reserve"} =>
          Reserved[c] = 0 /\ Gated[c] = 0 /\ Ahead[c] = 0 /\ Granted[c] = 0
    /\ pc[c] \in {"backout", "journal"} =>
          Reserved[c] = job[c].gate /\ Gated[c] = job[c].gate /\ Ahead[c] = job[c].gate
    /\ pc[c] = "backout" => Granted[c] = 0
    /\ pc[c] = "journal" => Granted[c] = job[c].gate
    /\ pc[c] = "release" =>
          Reserved[c] = 0 /\ Gated[c] = 0 /\ Ahead[c] = 0 - Costs(job[c].acts) /\ Granted[c] = 0
    /\ pc[c] = "apply" /\ Prepaid(job[c]) =>
          Reserved[c] = Costs(job[c].acts) /\ Gated[c] = 0 /\ Ahead[c] = 0 /\ Granted[c] = 0
    /\ pc[c] = "apply" /\ ~Prepaid(job[c]) =>
          Reserved[c] = 0 /\ Gated[c] = 0 /\ Ahead[c] = 0 - Costs(job[c].acts) /\ Granted[c] = 0
    /\ Reserved[c] \in Int /\ Gated[c] \in Nat /\ Ahead[c] \in Int /\ Granted[c] \in Nat

\* The parts are as they should be, and numbers.
LEMMA Amounts ==
    ASSUME CoreInv, NEW c \in Callers
    PROVE  AmountsOf(c)
<1> USE DEF AmountsOf
<1>1. pc[c] \in Working => job[c].acts \in Seq(Act) /\ job[c].gate \in Nat
  BY DEF CoreInv, CallersFit, CallTyped
<1>2. pc[c] \in Working => Costs(job[c].acts) \in Int
  BY <1>1, CostsFacts
<1>3. pc[c] \in Working \cup {"idle", "lock", "unlock"}
  BY DEF CoreInv, Typed
<1>4. /\ Gated[c] = IF pc[c] \in {"backout", "journal"} THEN job[c].gate ELSE 0
      /\ Granted[c] = IF pc[c] = "journal" THEN job[c].gate ELSE 0
  BY DEF Gated, Granted
<1>5. CASE pc[c] \in {"idle", "lock", "unlock", "reserve"}
  <2>1. Reserved[c] = 0
    BY <1>5 DEF Reserved
  <2>2. Ahead[c] = 0
    BY <1>5 DEF Ahead
  <2> QED BY <1>1, <1>2, <1>4, <1>5, <2>1, <2>2
<1>6. CASE pc[c] \in {"backout", "journal"}
  <2>1. Reserved[c] = job[c].gate
    BY <1>6 DEF Reserved
  <2>2. Ahead[c] = job[c].gate
    BY <1>6 DEF Ahead
  <2> QED BY <1>1, <1>2, <1>4, <1>6, <2>1, <2>2 DEF Working
<1>7. CASE pc[c] = "release"
  <2>1. Reserved[c] = 0
    BY <1>7 DEF Reserved
  <2>2. Ahead[c] = 0 - Costs(job[c].acts)
    BY <1>7 DEF Ahead
  <2> QED BY <1>1, <1>2, <1>4, <1>7, <2>1, <2>2 DEF Working
<1>8. CASE pc[c] = "apply" /\ Prepaid(job[c])
  <2>1. Reserved[c] = Costs(job[c].acts)
    BY <1>8 DEF Reserved
  <2>2. Ahead[c] = 0
    BY <1>8 DEF Ahead
  <2> QED BY <1>1, <1>2, <1>4, <1>8, <2>1, <2>2 DEF Working
<1>9. CASE pc[c] = "apply" /\ ~Prepaid(job[c])
  <2>1. Reserved[c] = 0
    BY <1>9 DEF Reserved
  <2>2. Ahead[c] = 0 - Costs(job[c].acts)
    BY <1>9 DEF Ahead
  <2> QED BY <1>1, <1>2, <1>4, <1>9, <2>1, <2>2 DEF Working
<1> QED BY <1>3, <1>5, <1>6, <1>7, <1>8, <1>9 DEF Working

\* The same for all callers.
LEMMA AmountsAll == CoreInv => \A c \in Callers : AmountsOf(c)
BY Amounts

\* The same after a step.
LEMMA AmountsNext ==
    ASSUME CoreInv'
    PROVE  \A c \in Callers : AmountsOf(c)'
<1>1. (\A c \in Callers : AmountsOf(c))'
  BY AmountsAll, PTL
<1> QED BY <1>1

\* The totals are numbers.
LEMMA Totals ==
    ASSUME CoreInv
    PROVE  /\ Sum(Reserved, Callers) \in Int /\ Sum(Gated, Callers) \in Nat
           /\ Sum(Ahead, Callers) \in Int /\ Sum(Granted, Callers) \in Nat
           /\ Booked \in Rows /\ Sum(Booked, PK) \in Nat
           /\ Journaled \in Rows /\ Sum(Journaled, PK) \in Nat
           /\ IsFiniteSet(Shard) /\ Sum(bytes, Shard) \in Int
<1>1. \A c \in Callers : Reserved[c] \in Int /\ Gated[c] \in Nat /\ Ahead[c] \in Int /\ Granted[c] \in Nat
  BY Amounts DEF AmountsOf
<1>2. /\ Sum(Reserved, Callers) \in Int /\ Sum(Gated, Callers) \in Nat
      /\ Sum(Ahead, Callers) \in Int /\ Sum(Granted, Callers) \in Nat
  <2>1. Sum(Reserved, Callers) \in Int /\ Sum(Ahead, Callers) \in Int
    BY <1>1, SumType, FiniteSetting DEF FiniteSetting, Sum
  <2>2. Sum(Gated, Callers) \in Nat /\ Sum(Granted, Callers) \in Nat
    BY <1>1, SumNat, FiniteSetting DEF FiniteSetting, Sum
  <2> QED BY <2>1, <2>2
<1>3. rows \in Rows /\ base \in Rows /\ log \in Seq(Rec) /\ bytes \in [Shard -> Int]
  BY DEF CoreInv, Typed
<1>4. Journaled \in Rows
  BY <1>3, MutsFacts, AfterFacts DEF Journaled
<1>5. Booked \in Rows
  <2> SUFFICES ASSUME NEW p \in PK
               PROVE  Booked[p] \in Size \cup {0}
    BY DEF Booked, Rows
  <2> DEFINE c == lock[shardOf[p]]
  <2>1. CASE c \in Callers /\ pc[c] = "apply" /\ Prepaid(job[c])
    <3>1. Booked[p] = After(rows, job[c].acts)[p]
      BY <2>1 DEF Booked
    <3>2. job[c].acts \in Seq(Act)
      BY <2>1, Amounts DEF Working, AmountsOf
    <3>3. After(rows, job[c].acts) \in Rows
      BY <1>3, <3>2, AfterFacts
    <3> QED BY <3>1, <3>3 DEF Rows
  <2>2. CASE ~(c \in Callers /\ pc[c] = "apply" /\ Prepaid(job[c]))
    <3>1. Booked[p] = rows[p]
      BY <2>2 DEF Booked
    <3> QED BY <1>3, <3>1 DEF Rows
  <2> QED BY <2>1, <2>2
<1>6. IsFiniteSet(Shard)
  BY FS_Interval, StoreBounds DEF Shard, StoreBounds
<1>7. Sum(bytes, Shard) \in Int
  BY <1>3, <1>6, SumType DEF Sum
<1> QED BY <1>2, <1>4, <1>5, <1>6, <1>7, RowSizes, FiniteSetting, Sizes

\* When one caller moves, the totals move by its part.
LEMMA OneMoves ==
    ASSUME CoreInv, CoreInv', NEW c \in Callers,
           \A d \in Callers \ {c} : pc'[d] = pc[d] /\ job'[d] = job[d]
    PROVE  /\ Sum(Reserved, Callers)' = Sum(Reserved, Callers) + Reserved'[c] - Reserved[c]
           /\ Sum(Gated, Callers)' = Sum(Gated, Callers) + Gated'[c] - Gated[c]
           /\ Sum(Ahead, Callers)' = Sum(Ahead, Callers) + Ahead'[c] - Ahead[c]
           /\ Sum(Granted, Callers)' = Sum(Granted, Callers) + Granted'[c] - Granted[c]
<1>1. \A d \in Callers : /\ Reserved[d] \in Int /\ Gated[d] \in Int /\ Ahead[d] \in Int /\ Granted[d] \in Int
                         /\ Reserved'[d] \in Int /\ Gated'[d] \in Int /\ Ahead'[d] \in Int /\ Granted'[d] \in Int
  <2>1. \A d \in Callers : Reserved[d] \in Int /\ Gated[d] \in Nat /\ Ahead[d] \in Int /\ Granted[d] \in Nat
    BY Amounts DEF AmountsOf
  <2>2. \A d \in Callers : (Reserved[d] \in Int /\ Gated[d] \in Nat /\ Ahead[d] \in Int /\ Granted[d] \in Nat)'
    BY AmountsNext DEF AmountsOf
  <2> QED BY <2>1, <2>2
<1>2. ASSUME NEW d \in Callers \ {c}
      PROVE  Reserved'[d] = Reserved[d] /\ Gated'[d] = Gated[d] /\ Ahead'[d] = Ahead[d] /\ Granted'[d] = Granted[d]
  <2>1. pc'[d] = pc[d] /\ job'[d] = job[d] /\ d \in Callers
    OBVIOUS
  <2>2. Reserved'[d] = Reserved[d]
    BY <2>1 DEF Reserved, Prepaid
  <2>3. Ahead'[d] = Ahead[d]
    BY <2>1 DEF Ahead, Prepaid
  <2>4. Gated'[d] = Gated[d] /\ Granted'[d] = Granted[d]
    BY <2>1 DEF Gated, Granted
  <2> QED BY <2>2, <2>3, <2>4
<1>3. SumOver(Reserved', Callers) = SumOver(Reserved, Callers) + Reserved'[c] - Reserved[c]
  BY <1>1, <1>2, SumUpdate, FiniteSetting DEF FiniteSetting
<1>4. SumOver(Gated', Callers) = SumOver(Gated, Callers) + Gated'[c] - Gated[c]
  BY <1>1, <1>2, SumUpdate, FiniteSetting DEF FiniteSetting
<1>5. SumOver(Ahead', Callers) = SumOver(Ahead, Callers) + Ahead'[c] - Ahead[c]
  BY <1>1, <1>2, SumUpdate, FiniteSetting DEF FiniteSetting
<1>6. SumOver(Granted', Callers) = SumOver(Granted, Callers) + Granted'[c] - Granted[c]
  BY <1>1, <1>2, SumUpdate, FiniteSetting DEF FiniteSetting
<1> QED BY <1>3, <1>4, <1>5, <1>6 DEF Sum

\* The caller that holds a key's shard and applies what the counter has.
Applying(p) ==
    LET c == lock[shardOf[p]] IN c \in Callers /\ pc[c] = "apply" /\ Prepaid(job[c])

\* Booked, key by key.
LEMMA BookedAt ==
    ASSUME NEW p \in PK
    PROVE  Booked[p] = IF Applying(p) THEN After(rows, job[lock[shardOf[p]]].acts)[p] ELSE rows[p]
BY DEF Booked, Applying

\* A step that journals and applies nothing keeps the books if it moves the
\* counter by the caller's reservation.
LEMMA QuietBooks ==
    ASSUME CoreInv, CoreInv', NEW c \in Callers, UNCHANGED <<rows, bytes, log, base>>,
           \A d \in Callers \ {c} : pc'[d] = pc[d] /\ job'[d] = job[d],
           \A s \in Shard, d \in Callers \ {c} : lock'[s] = d <=> lock[s] = d,
           pc[c] \notin {"release", "apply"}, pc'[c] \notin {"release", "apply"},
           Books, total' = total + Gated'[c] - Gated[c]
    PROVE  Books'
<1>1. Reserved[c] = Gated[c] /\ Ahead[c] = Gated[c] /\ Gated[c] \in Nat
  <2>1. pc[c] \in Working \cup {"idle", "lock", "unlock"}
    BY DEF CoreInv, Typed
  <2> QED BY <2>1, Amounts DEF Working, AmountsOf
<1>2. Reserved'[c] = Gated'[c] /\ Ahead'[c] = Gated'[c] /\ Gated'[c] \in Nat
  <2>1. pc'[c] \in Working \cup {"idle", "lock", "unlock"}
    BY DEF CoreInv, Typed
  <2>2. /\ pc'[c] \in {"idle", "lock", "unlock", "reserve"} =>
                 Reserved'[c] = 0 /\ Gated'[c] = 0 /\ Ahead'[c] = 0
        /\ pc'[c] \in {"backout", "journal"} =>
                 Reserved'[c] = job'[c].gate /\ Gated'[c] = job'[c].gate /\ Ahead'[c] = job'[c].gate
        /\ Gated'[c] \in Nat
    BY AmountsNext DEF AmountsOf
  <2> QED BY <2>1, <2>2 DEF Working
<1>3. Booked' = Booked
  <2>1. ASSUME NEW p \in PK PROVE Booked'[p] = Booked[p]
    <3>1. shardOf[p] \in Shard
      BY Routing DEF Routing
    <3>2. Applying(p) => /\ lock[shardOf[p]] # c /\ lock'[shardOf[p]] = lock[shardOf[p]]
                         /\ job'[lock[shardOf[p]]] = job[lock[shardOf[p]]] /\ Applying(p)'
      BY <3>1 DEF Applying, Prepaid
    <3>3. Applying(p)' => Applying(p)
      BY <3>1 DEF Applying, Prepaid
    <3>4. Booked[p] = IF Applying(p) THEN After(rows, job[lock[shardOf[p]]].acts)[p] ELSE rows[p]
      BY BookedAt
    <3>5. (Booked[p] = IF Applying(p) THEN After(rows, job[lock[shardOf[p]]].acts)[p] ELSE rows[p])'
      BY BookedAt, PTL
    <3> QED BY <3>2, <3>3, <3>4, <3>5
  <2>2. Booked = [p \in PK |-> Booked[p]] /\ Booked' = [p \in PK |-> Booked'[p]]
    BY DEF Booked
  <2> QED BY <2>1, <2>2
<1>4. Journaled' = Journaled
  BY DEF Journaled
<1>5. /\ Sum(Reserved, Callers)' = Sum(Reserved, Callers) + Reserved'[c] - Reserved[c]
      /\ Sum(Gated, Callers)' = Sum(Gated, Callers) + Gated'[c] - Gated[c]
      /\ Sum(Ahead, Callers)' = Sum(Ahead, Callers) + Ahead'[c] - Ahead[c]
  BY OneMoves
<1>6. /\ Sum(Reserved, Callers) \in Int /\ Sum(Gated, Callers) \in Int /\ Sum(Ahead, Callers) \in Int
      /\ Sum(Booked, PK) \in Int /\ Sum(Journaled, PK) \in Int /\ Sum(bytes, Shard) \in Int
  BY Totals
<1>7. Sum(bytes, Shard)' = Sum(bytes, Shard) /\ Sum(Booked, PK)' = Sum(Booked, PK)
      /\ Sum(Journaled, PK)' = Sum(Journaled, PK)
  BY <1>3, <1>4 DEF Sum
<1> QED BY <1>1, <1>2, <1>5, <1>6, <1>7 DEF Books

\* The books of another caller's keys, and of a caller's keys when it is not
\* applying, are the rows.
LEMMA BookedHolds ==
    ASSUME CoreInv, NEW c \in Callers, NEW p \in PK, lock[shardOf[p]] = c,
           ~(pc[c] = "apply" /\ Prepaid(job[c]))
    PROVE  Booked[p] = rows[p]
<1>1. ~Applying(p)
  BY DEF Applying
<1> QED BY <1>1, BookedAt

\* A caller whose reservation is in the counter starts to apply: its mutations
\* enter the books.
LEMMA BookedStarts ==
    ASSUME CoreInv, NEW c \in Callers, UNCHANGED <<rows, lock, job>>,
           \A d \in Callers \ {c} : pc'[d] = pc[d],
           pc[c] \in Working \ {"apply", "backout"}, pc'[c] = "apply", Prepaid(job[c])
    PROVE  Sum(Booked, PK)' = Sum(Booked, PK) + Costs(job[c].acts)
<1> DEFINE l == job[c].acts
<1>1. l \in Seq(Act) /\ FitOn(rows, l) /\ \A i \in DOMAIN l : lock[shardOf[l[i].pk]] = c
  BY DEF CoreInv, CallersFit, CallTyped, WorkFit, Working
<1>2. rows \in Rows /\ Booked \in Rows
  BY Totals DEF CoreInv, Typed
<1>3. \A p \in PK : lock[shardOf[p]] = c => Booked[p] = rows[p]
  BY BookedHolds
<1> HIDE DEF l
<1>4. FitOn(Booked, l)
  <2>1. \A i \in DOMAIN l : rows[l[i].pk] = Booked[l[i].pk]
    BY <1>1, <1>3, ActAt
  <2> QED BY <1>1, <1>2, <2>1, FitLocal
<1>5. After(Booked, l) \in Rows
  BY <1>1, <1>2, AfterFacts
<1>6. ASSUME NEW p \in PK PROVE Booked'[p] = After(Booked, l)[p]
  <2>1. (Booked[p] = IF Applying(p) THEN After(rows, job[lock[shardOf[p]]].acts)[p] ELSE rows[p])'
    BY BookedAt, PTL
  <2>2. CASE lock[shardOf[p]] = c
    <3>1. Applying(p)'
      BY <2>2 DEF Applying, Prepaid
    <3>2. Booked'[p] = After(rows, l)[p]
      BY <2>1, <2>2, <3>1 DEF l
    <3>3. After(Booked, l)[p] = After(rows, l)[p]
      BY <1>1, <1>2, <1>3, <2>2, AfterAt
    <3> QED BY <3>2, <3>3
  <2>3. CASE lock[shardOf[p]] # c
    <3>1. Applying(p)' <=> Applying(p)
      BY <2>3 DEF Applying, Prepaid
    <3>2. Booked'[p] = Booked[p]
      BY <2>1, <3>1, BookedAt
    <3>3. \A i \in DOMAIN l : l[i].pk # p
      BY <1>1, <2>3
    <3>4. After(Booked, l)[p] = Booked[p]
      BY <1>1, <1>2, <3>3, AfterAt
    <3> QED BY <3>2, <3>4
  <2> QED BY <2>2, <2>3
<1>7. Booked' = [p \in PK |-> Booked'[p]] /\ After(Booked, l) = [p \in PK |-> After(Booked, l)[p]]
  <2>1. Booked' = [p \in PK |-> Booked'[p]]
    BY DEF Booked
  <2> QED BY <1>5, <2>1 DEF Rows
<1>8. Booked' = After(Booked, l)
  BY <1>6, <1>7
<1>9. Sum(After(Booked, l), PK) = Sum(Booked, PK) + Costs(l)
  BY <1>1, <1>2, <1>4, SizeAfter, FiniteSetting, Sizes
<1> QED BY <1>8, <1>9 DEF l, Sum

\* A step that leaves the rows and the locks and starts no prepaid mutations.
LEMMA BookedStays ==
    ASSUME NEW c \in Callers, UNCHANGED <<rows, lock, job>>,
           \A d \in Callers \ {c} : pc'[d] = pc[d],
           ~(pc[c] = "apply" /\ Prepaid(job[c])), ~(pc'[c] = "apply" /\ Prepaid(job[c]))
    PROVE  Booked' = Booked
<1>1. ASSUME NEW p \in PK PROVE Booked'[p] = Booked[p]
  <2>1. (Booked[p] = IF Applying(p) THEN After(rows, job[lock[shardOf[p]]].acts)[p] ELSE rows[p])'
    BY BookedAt, PTL
  <2>2. Applying(p)' <=> Applying(p)
    BY DEF Applying, Prepaid
  <2> QED BY <2>1, <2>2, BookedAt
<1>2. Booked = [p \in PK |-> Booked[p]] /\ Booked' = [p \in PK |-> Booked'[p]]
  BY DEF Booked
<1> QED BY <1>1, <1>2

\* Freed bytes leave the counter when they leave the books.
LEMMA BooksRelease ==
    ASSUME CoreInv, CoreInv', NEW c \in Callers, Release(c), Books
    PROVE  Books'
<1>1. /\ pc[c] = "release" /\ total' = total + Costs(job[c].acts) /\ pc' = [pc EXCEPT ![c] = "apply"]
      /\ UNCHANGED <<rows, bytes, lock, job, log, base>>
  BY DEF Release
<1>2. pc'[c] = "apply" /\ \A d \in Callers \ {c} : pc'[d] = pc[d] /\ job'[d] = job[d]
  BY <1>1 DEF CoreInv, Typed
<1>3. Prepaid(job[c]) /\ Prepaid(job'[c])
  BY <1>1 DEF CoreInv, CallersFit, WorkFit, Working, Prepaid
<1>4. Sum(Booked, PK)' = Sum(Booked, PK) + Costs(job[c].acts)
  BY <1>1, <1>2, <1>3, BookedStarts DEF Working
<1>5. /\ Reserved[c] = 0 /\ Gated[c] = 0 /\ Ahead[c] = 0 - Costs(job[c].acts)
      /\ Costs(job[c].acts) \in Int
  BY <1>1, Amounts DEF AmountsOf, Working
<1>6. Reserved'[c] = Costs(job'[c].acts) /\ Gated'[c] = 0 /\ Ahead'[c] = 0
  BY <1>2, <1>3, AmountsNext DEF AmountsOf
<1>7. /\ Sum(Reserved, Callers)' = Sum(Reserved, Callers) + Reserved'[c] - Reserved[c]
      /\ Sum(Gated, Callers)' = Sum(Gated, Callers) + Gated'[c] - Gated[c]
      /\ Sum(Ahead, Callers)' = Sum(Ahead, Callers) + Ahead'[c] - Ahead[c]
  BY <1>2, OneMoves
<1>8. /\ Sum(Reserved, Callers) \in Int /\ Sum(Gated, Callers) \in Int /\ Sum(Ahead, Callers) \in Int
      /\ Sum(Booked, PK) \in Int /\ Sum(Journaled, PK) \in Int /\ Sum(bytes, Shard) \in Int
  BY Totals
<1>9. Sum(bytes, Shard)' = Sum(bytes, Shard) /\ Sum(Journaled, PK)' = Sum(Journaled, PK) /\ job' = job
  BY <1>1 DEF Sum, Journaled
<1> QED BY <1>1, <1>4, <1>5, <1>6, <1>7, <1>8, <1>9 DEF Books

\* What a call has reserved when it journals.
LEMMA GateCases ==
    ASSUME CoreInv, NEW c \in Callers, pc[c] = "journal", MaxBytes > 0
    PROVE  /\ job[c].kind = "txn" /\ Costs(job[c].acts) < 0 => job[c].gate = 0
           /\ ~(job[c].kind = "txn" /\ Costs(job[c].acts) < 0) /\ Prepaid(job[c]) =>
                 job[c].gate = Costs(job[c].acts)
           /\ ~Prepaid(job[c]) => job[c].gate = 0
<1>1. job[c].gate = Gate(job[c].kind, job[c].acts)
  BY DEF CoreInv, CallersFit, WorkFit, Working
<1>2. Costs(job[c].acts) \in Int /\ job[c].gate \in Nat
  BY Amounts DEF AmountsOf, Working
<1>3. Max({0, Costs(job[c].acts)}) = IF Costs(job[c].acts) > 0 THEN Costs(job[c].acts) ELSE 0
  BY <1>2, MaxZero
<1> QED BY <1>1, <1>2, <1>3 DEF Gate, Prepaid

\* A record enters the journaled rows and its reservation is spent.
LEMMA BooksJournal ==
    ASSUME CoreInv, CoreInv', NEW c \in Callers, Journal(c), Books, MaxBytes > 0
    PROVE  Books' /\ Sum(Journaled, PK)' = Sum(Journaled, PK) + Costs(job[c].acts)
<1> DEFINE n == Costs(job[c].acts)
<1>1. /\ pc[c] = "journal"
      /\ pc' = [pc EXCEPT ![c] = IF MaxBytes > 0 /\ job[c].kind = "txn" /\ n < 0 THEN "release" ELSE "apply"]
      /\ UNCHANGED <<rows, bytes, total, lock, job, base>>
  BY DEF Journal
<1>2. /\ pc'[c] = (IF job[c].kind = "txn" /\ n < 0 THEN "release" ELSE "apply")
      /\ \A d \in Callers \ {c} : pc'[d] = pc[d] /\ job'[d] = job[d]
  BY <1>1 DEF CoreInv, Typed
<1>3. Reserved[c] = job[c].gate /\ Gated[c] = job[c].gate /\ Ahead[c] = job[c].gate /\ n \in Int
      /\ job[c].gate \in Nat /\ job[c].acts \in Seq(Act)
  BY <1>1, Amounts DEF AmountsOf, Working
<1>4. /\ Sum(Reserved, Callers)' = Sum(Reserved, Callers) + Reserved'[c] - Reserved[c]
      /\ Sum(Gated, Callers)' = Sum(Gated, Callers) + Gated'[c] - Gated[c]
      /\ Sum(Ahead, Callers)' = Sum(Ahead, Callers) + Ahead'[c] - Ahead[c]
  BY <1>2, OneMoves
<1>5. /\ Sum(Reserved, Callers) \in Int /\ Sum(Gated, Callers) \in Int /\ Sum(Ahead, Callers) \in Int
      /\ Sum(Booked, PK) \in Int /\ Sum(Journaled, PK) \in Int /\ Sum(bytes, Shard) \in Int
      /\ Journaled \in Rows
  BY Totals
<1>6. Sum(Journaled, PK)' = Sum(Journaled, PK) + n
  <2>1. Journaled' = After(Journaled, job[c].acts) /\ FitOn(Journaled, job[c].acts)
    BY CoreJournal
  <2>2. Sum(After(Journaled, job[c].acts), PK) = Sum(Journaled, PK) + n
    BY <1>3, <1>5, <2>1, SizeAfter, FiniteSetting, Sizes
  <2> QED BY <2>1, <2>2 DEF Sum
<1>7. Sum(bytes, Shard)' = Sum(bytes, Shard) /\ job' = job
  BY <1>1 DEF Sum
<1>8. /\ pc'[c] = "release" => Reserved'[c] = 0 /\ Gated'[c] = 0 /\ Ahead'[c] = 0 - Costs(job'[c].acts)
      /\ pc'[c] = "apply" /\ Prepaid(job'[c]) =>
            Reserved'[c] = Costs(job'[c].acts) /\ Gated'[c] = 0 /\ Ahead'[c] = 0
      /\ pc'[c] = "apply" /\ ~Prepaid(job'[c]) =>
            Reserved'[c] = 0 /\ Gated'[c] = 0 /\ Ahead'[c] = 0 - Costs(job'[c].acts)
  BY AmountsNext DEF AmountsOf, Prepaid
<1> HIDE DEF n
<1>9. CASE job[c].kind = "txn" /\ n < 0
  <2>1. job[c].gate = 0 /\ pc'[c] = "release"
    BY <1>1, <1>2, <1>9, GateCases DEF n
  <2>2. Booked' = Booked
    BY <1>1, <1>2, <2>1, BookedStays
  <2>3. Sum(Booked, PK)' = Sum(Booked, PK)
    BY <2>2 DEF Sum
  <2>4. Reserved'[c] = 0 /\ Gated'[c] = 0 /\ Ahead'[c] = 0 - n
    BY <1>7, <1>8, <2>1 DEF n
  <2> QED BY <1>1, <1>3, <1>4, <1>5, <1>6, <1>7, <2>1, <2>3, <2>4 DEF Books, n
<1>10. CASE ~(job[c].kind = "txn" /\ n < 0) /\ Prepaid(job[c])
  <2>1. job[c].gate = n /\ pc'[c] = "apply"
    BY <1>1, <1>2, <1>10, GateCases DEF n
  <2>2. Sum(Booked, PK)' = Sum(Booked, PK) + n
    BY <1>1, <1>2, <1>10, <2>1, BookedStarts DEF Working, n
  <2>3. Reserved'[c] = n /\ Gated'[c] = 0 /\ Ahead'[c] = 0
    BY <1>7, <1>8, <1>10, <2>1 DEF n
  <2> QED BY SMTT(40), <1>1, <1>3, <1>4, <1>5, <1>6, <1>7, <2>1, <2>2, <2>3 DEF Books, n
<1>11. CASE ~Prepaid(job[c])
  <2>1. job[c].gate = 0 /\ pc'[c] = "apply"
    BY <1>1, <1>2, <1>11, GateCases DEF Prepaid
  <2>2. Booked' = Booked
    BY <1>1, <1>2, <1>11, <2>1, BookedStays
  <2>3. Sum(Booked, PK)' = Sum(Booked, PK)
    BY <2>2 DEF Sum
  <2>4. Reserved'[c] = 0 /\ Gated'[c] = 0 /\ Ahead'[c] = 0 - n
    BY <1>7, <1>8, <1>11, <2>1 DEF n
  <2> QED BY <1>1, <1>3, <1>4, <1>5, <1>6, <1>7, <2>1, <2>3, <2>4 DEF Books, n
<1> QED BY <1>9, <1>10, <1>11

\* A mutation moves the tally of its shard as it moves the rows.
LEMMA TalliesApply ==
    ASSUME CoreInv, NEW c \in Callers, Apply(c), Tallies
    PROVE  /\ Tallies'
           /\ Sum(bytes, Shard)' = Sum(bytes, Shard) + Head(job[c].acts).cost
<1> DEFINE a == Head(job[c].acts)
           k == shardOf[a.pk]
<1>1. /\ a \in Act /\ FitAt(rows, a) /\ a.pk \in PK /\ k \in Shard /\ rows' = SetRow(rows, a) /\ rows' \in Rows
      /\ \A p \in PK : p # a.pk => rows'[p] = rows[p]
  BY ApplyFacts DEF CoreInv
<1>2. bytes' = [bytes EXCEPT ![k] = @ + a.cost]
  BY DEF Apply
<1> HIDE DEF a
<1>3. rows \in Rows /\ bytes \in [Shard -> Int] /\ a.cost \in Int
  BY <1>1 DEF CoreInv, Typed, Act
<1>4. a.cost = rows'[a.pk] - rows[a.pk]
  BY <1>1, <1>3, SetRowAt DEF FitAt
<1>5. \A p \in PK : rows[p] \in Int /\ rows'[p] \in Int
  BY <1>1, <1>3, RowSizes, FiniteSetting, Sizes
<1>6. ASSUME NEW s \in Shard PROVE bytes'[s] = Sum(rows', InShard(s))
  <2>1. IsFiniteSet(InShard(s)) /\ InShard(s) \subseteq PK
    BY FS_Subset, FiniteSetting DEF FiniteSetting, InShard
  <2>2. \A p \in InShard(s) : rows[p] \in Int
    BY <1>5, <2>1
  <2>3. bytes[s] = SumOver(rows, InShard(s))
    BY DEF Tallies, Sum
  <2>4. CASE s = k
    <3>1. a.pk \in InShard(s) /\ \A p \in InShard(s) \ {a.pk} : rows'[p] = rows[p]
      BY <1>1, <2>1, <2>4 DEF InShard
    <3>2. SumOver(rows', InShard(s)) = SumOver(rows, InShard(s)) + rows'[a.pk] - rows[a.pk]
      BY <1>1, <1>5, <2>1, <2>2, <3>1, SumUpdate
    <3>3. bytes'[s] = bytes[s] + a.cost
      BY <1>2, <1>3, <2>4
    <3>4. bytes[s] \in Int /\ rows'[a.pk] \in Int /\ rows[a.pk] \in Int
      BY <1>1, <1>3, <1>5
    <3> QED BY <1>4, <2>3, <3>2, <3>3, <3>4 DEF Sum
  <2>5. CASE s # k
    <3>1. \A p \in InShard(s) : rows'[p] = rows[p]
      BY <1>1, <2>1, <2>5 DEF InShard
    <3>2. SumOver(rows', InShard(s)) = SumOver(rows, InShard(s))
      BY <2>1, <2>2, <3>1, SumAgree
    <3>3. bytes'[s] = bytes[s]
      BY <1>2, <1>3, <2>5
    <3> QED BY <2>3, <3>2, <3>3 DEF Sum
  <2> QED BY <2>4, <2>5
<1>7. Tallies'
  BY <1>6 DEF Tallies, InShard, Sum
<1>8. SumOver(bytes', Shard) = SumOver(bytes, Shard) + bytes'[k] - bytes[k]
  <2>1. \A s \in Shard : bytes[s] \in Int
    BY <1>3
  <2>2. \A s \in Shard \ {k} : bytes'[s] = bytes[s]
    BY <1>2, <1>3
  <2>3. bytes'[k] \in Int
    BY <1>1, <1>2, <1>3
  <2>4. IsFiniteSet(Shard) /\ k \in Shard
    BY <1>1, Totals
  <2> HIDE DEF k
  <2> QED BY <2>1, <2>2, <2>3, <2>4, SumUpdate
<1>9. bytes'[k] = bytes[k] + a.cost /\ bytes[k] \in Int
  BY <1>1, <1>2, <1>3
<1>10. Sum(bytes, Shard) \in Int
  BY Totals
<1>11. Sum(bytes, Shard)' = Sum(bytes, Shard) + a.cost
  <2> HIDE DEF k
  <2> QED BY <1>3, <1>8, <1>9, <1>10 DEF Sum
<1> QED BY <1>7, <1>11 DEF a

\* A mutation leaves the books if it is prepaid, and enters them if not.
LEMMA BookedApply ==
    ASSUME CoreInv, CoreInv', NEW c \in Callers, Apply(c)
    PROVE  Sum(Booked, PK)' = IF Prepaid(job[c]) THEN Sum(Booked, PK)
                                                 ELSE Sum(Booked, PK) + Head(job[c].acts).cost
<1> DEFINE l == job[c].acts
           a == Head(l)
           t == Tail(l)
<1>1. /\ l \in Seq(Act) /\ l # <<>> /\ a \in Act /\ t \in Seq(Act)
      /\ FitAt(rows, a) /\ rows' = SetRow(rows, a) /\ rows' \in Rows /\ After(rows', t) = After(rows, l)
      /\ lock' = lock /\ lock[shardOf[a.pk]] = c /\ a.pk \in PK
      /\ \A p \in PK : p # a.pk => rows'[p] = rows[p]
      /\ \A p \in PK : lock[shardOf[p]] # c => rows'[p] = rows[p]
  BY ApplyFacts DEF CoreInv
<1>2. /\ pc[c] = "apply" /\ (t = <<>> => pc'[c] = "unlock") /\ (t # <<>> => pc'[c] = "apply")
      /\ job'[c].kind = job[c].kind /\ job'[c].gate = job[c].gate /\ job'[c].acts = t
      /\ \A d \in Callers \ {c} : pc'[d] = pc[d] /\ job'[d] = job[d]
  BY ApplyFacts DEF CoreInv
<1>3. Prepaid(job'[c]) <=> Prepaid(job[c])
  BY <1>2 DEF Prepaid
<1> HIDE DEF a, t
<1>4. rows \in Rows /\ Booked \in Rows /\ Booked = [p \in PK |-> Booked[p]] /\ Booked' = [p \in PK |-> Booked'[p]]
  <2>1. Booked = [p \in PK |-> Booked[p]] /\ Booked' = [p \in PK |-> Booked'[p]]
    BY DEF Booked
  <2> QED BY <2>1, Totals DEF CoreInv, Typed
<1>5. \A p \in PK : /\ Booked[p] = IF Applying(p) THEN After(rows, job[lock[shardOf[p]]].acts)[p] ELSE rows[p]
                    /\ Booked'[p] = IF Applying(p)' THEN After(rows', job'[lock'[shardOf[p]]].acts)[p] ELSE rows'[p]
  <2> TAKE p \in PK
  <2>1. Booked[p] = IF Applying(p) THEN After(rows, job[lock[shardOf[p]]].acts)[p] ELSE rows[p]
    BY BookedAt
  <2>2. (Booked[p] = IF Applying(p) THEN After(rows, job[lock[shardOf[p]]].acts)[p] ELSE rows[p])'
    BY BookedAt, PTL
  <2> QED BY <2>1, <2>2
<1>6. ASSUME NEW p \in PK, lock[shardOf[p]] # c PROVE Booked'[p] = Booked[p]
  <2>1. (Applying(p)' <=> Applying(p)) /\ rows'[p] = rows[p]
    BY <1>1, <1>2, <1>6 DEF Applying, Prepaid
  <2>2. CASE Applying(p)
    <3> DEFINE d == lock[shardOf[p]]
    <3>1. d \in Callers \ {c} /\ pc[d] \in Working /\ job'[d] = job[d]
      BY <1>2, <1>6, <2>2 DEF Applying, Working
    <3>2. job[d].acts \in Seq(Act)
      BY <3>1 DEF CoreInv, CallersFit, CallTyped
    <3>3. After(rows', job[d].acts)[p] = After(rows, job[d].acts)[p]
      BY <1>1, <1>4, <2>1, <3>2, AfterAt
    <3> QED BY <1>1, <1>5, <2>1, <2>2, <3>1, <3>3
  <2>3. CASE ~Applying(p)
    BY <1>5, <2>1, <2>3
  <2> QED BY <2>2, <2>3
<1>7. CASE Prepaid(job[c])
  <2>1. ASSUME NEW p \in PK, lock[shardOf[p]] = c PROVE Booked'[p] = Booked[p]
    <3>1. Applying(p)
      BY <1>2, <1>7, <2>1 DEF Applying
    <3>2. Booked[p] = After(rows', t)[p]
      BY <1>1, <1>5, <2>1, <3>1 DEF l
    <3>3. CASE t = <<>>
      <4>1. ~Applying(p)'
        BY <1>1, <1>2, <2>1, <3>3 DEF Applying
      <4>2. After(rows', t) = rows'
        BY <1>1, <3>3, AfterFacts
      <4> QED BY <1>5, <3>2, <4>1, <4>2
    <3>4. CASE t # <<>>
      <4>1. Applying(p)'
        BY <1>1, <1>2, <1>3, <1>7, <2>1, <3>4 DEF Applying
      <4> QED BY <1>1, <1>2, <1>5, <2>1, <3>2, <4>1
    <3> QED BY <3>3, <3>4
  <2>2. Booked' = Booked
    BY <1>4, <1>6, <2>1
  <2> QED BY <1>7, <2>2 DEF Sum
<1>8. CASE ~Prepaid(job[c])
  <2>1. ASSUME NEW p \in PK, lock[shardOf[p]] = c PROVE Booked'[p] = rows'[p] /\ Booked[p] = rows[p]
    <3>1. ~Applying(p)
      BY <1>8, <2>1 DEF Applying
    <3>2. ~Applying(p)'
      BY <1>1, <1>3, <1>8, <2>1 DEF Applying
    <3> QED BY <1>5, <3>1, <3>2
  <2>2. \A p \in PK \ {a.pk} : Booked'[p] = Booked[p]
    BY <1>1, <1>6, <2>1
  <2>3. Booked'[a.pk] = rows'[a.pk] /\ Booked[a.pk] = rows[a.pk]
    BY <1>1, <2>1
  <2>4. rows'[a.pk] \in Int /\ \A p \in PK : Booked[p] \in Int
    BY <1>1, <1>4, RowSizes, FiniteSetting, Sizes
  <2>5. SumOver(Booked', PK) = SumOver(Booked, PK) + Booked'[a.pk] - Booked[a.pk]
    BY <1>1, <2>2, <2>3, <2>4, SumUpdate, FiniteSetting DEF FiniteSetting
  <2>6. a.cost = rows'[a.pk] - rows[a.pk]
    BY <1>1, <1>4, SetRowAt DEF FitAt
  <2>7. Sum(Booked, PK) \in Int
    BY Totals
  <2>8. rows[a.pk] \in Int
    BY <1>1, <2>3, <2>4
  <2> QED BY <1>8, <2>3, <2>4, <2>5, <2>6, <2>7, <2>8 DEF Sum, a, l
<1> QED BY <1>7, <1>8

\* The books after a mutation.
LEMMA BooksApply ==
    ASSUME CoreInv, CoreInv', NEW c \in Callers, Apply(c), Books, Tallies, MaxBytes > 0
    PROVE  Books'
<1> DEFINE l == job[c].acts
           a == Head(l)
           t == Tail(l)
<1>1. /\ l \in Seq(Act) /\ l # <<>> /\ a \in Act /\ t \in Seq(Act)
      /\ pc[c] = "apply" /\ (t = <<>> => pc'[c] = "unlock") /\ (t # <<>> => pc'[c] = "apply")
      /\ job'[c].kind = job[c].kind /\ job'[c].gate = job[c].gate /\ job'[c].acts = t
      /\ \A d \in Callers \ {c} : pc'[d] = pc[d] /\ job'[d] = job[d]
  BY ApplyFacts DEF CoreInv
<1>2. /\ total' = IF MaxBytes = 0 \/ Prepaid(job[c]) THEN total ELSE total + a.cost
      /\ UNCHANGED <<log, base>>
  BY DEF Apply
<1>3. Prepaid(job'[c]) <=> Prepaid(job[c])
  BY <1>1 DEF Prepaid
<1>4. Sum(bytes, Shard)' = Sum(bytes, Shard) + a.cost
  BY TalliesApply
<1>5. Sum(Booked, PK)' = IF Prepaid(job[c]) THEN Sum(Booked, PK) ELSE Sum(Booked, PK) + a.cost
  BY BookedApply
<1>6. Sum(Journaled, PK)' = Sum(Journaled, PK)
  BY <1>2 DEF Journaled, Sum
<1>7. /\ Sum(Reserved, Callers)' = Sum(Reserved, Callers) + Reserved'[c] - Reserved[c]
      /\ Sum(Gated, Callers)' = Sum(Gated, Callers) + Gated'[c] - Gated[c]
      /\ Sum(Ahead, Callers)' = Sum(Ahead, Callers) + Ahead'[c] - Ahead[c]
  BY <1>1, OneMoves
<1>8. /\ Sum(Reserved, Callers) \in Int /\ Sum(Gated, Callers) \in Int /\ Sum(Ahead, Callers) \in Int
      /\ Sum(Booked, PK) \in Int /\ Sum(Journaled, PK) \in Int /\ Sum(bytes, Shard) \in Int
  BY Totals
<1>9. Costs(l) = a.cost + Costs(t)
  BY <1>1, CostsHead
<1>10. Costs(t) \in Int /\ a.cost \in Int /\ (t = <<>> => Costs(t) = 0)
  BY <1>1, CostsFacts DEF Act
<1>11. /\ Gated[c] = 0
       /\ Prepaid(job[c]) => Reserved[c] = Costs(l) /\ Ahead[c] = 0
       /\ ~Prepaid(job[c]) => Reserved[c] = 0 /\ Ahead[c] = 0 - Costs(l)
  BY <1>1, Amounts DEF AmountsOf
<1>12. /\ Gated'[c] = 0
       /\ Prepaid(job[c]) => Reserved'[c] = Costs(t) /\ Ahead'[c] = 0
       /\ ~Prepaid(job[c]) => Reserved'[c] = 0 /\ Ahead'[c] = 0 - Costs(t)
  <2>1. /\ pc'[c] = "unlock" => Reserved'[c] = 0 /\ Gated'[c] = 0 /\ Ahead'[c] = 0
        /\ pc'[c] = "apply" /\ Prepaid(job'[c]) =>
              Reserved'[c] = Costs(job'[c].acts) /\ Gated'[c] = 0 /\ Ahead'[c] = 0
        /\ pc'[c] = "apply" /\ ~Prepaid(job'[c]) =>
              Reserved'[c] = 0 /\ Gated'[c] = 0 /\ Ahead'[c] = 0 - Costs(job'[c].acts)
    BY AmountsNext DEF AmountsOf, Prepaid
  <2> HIDE DEF t, l
  <2>2. CASE t = <<>>
    BY <1>1, <1>10, <2>1, <2>2
  <2>3. CASE t # <<>>
    BY <1>1, <1>3, <2>1, <2>3
  <2> QED BY <2>2, <2>3
<1> HIDE DEF l, a, t
<1>13. total = Sum(bytes, Shard) + Sum(Reserved, Callers) /\ total = Sum(Booked, PK) + Sum(Gated, Callers)
       /\ total = Sum(Journaled, PK) + Sum(Ahead, Callers) /\ MaxBytes # 0
  BY StoreBounds DEF Books, StoreBounds
<1>14. CASE Prepaid(job[c])
  <2>1. total' = Sum(bytes, Shard)' + Sum(Reserved, Callers)'
    BY SMTT(40), <1>2, <1>4, <1>7, <1>8, <1>9, <1>10, <1>11, <1>12, <1>13, <1>14
  <2>2. total' = Sum(Booked, PK)' + Sum(Gated, Callers)'
    BY <1>2, <1>5, <1>7, <1>8, <1>11, <1>12, <1>13, <1>14
  <2>3. total' = Sum(Journaled, PK)' + Sum(Ahead, Callers)'
    BY <1>2, <1>6, <1>7, <1>8, <1>11, <1>12, <1>13, <1>14
  <2> QED BY <2>1, <2>2, <2>3 DEF Books
<1>15. CASE ~Prepaid(job[c])
  <2>0. /\ total' = total + a.cost /\ Sum(Booked, PK)' = Sum(Booked, PK) + a.cost
        /\ Reserved[c] = 0 /\ Reserved'[c] = 0 /\ Gated[c] = 0 /\ Gated'[c] = 0
    BY <1>2, <1>5, <1>11, <1>12, <1>13, <1>15
  <2>1. total' = Sum(bytes, Shard)' + Sum(Reserved, Callers)'
    <3>1. Sum(Reserved, Callers)' = Sum(Reserved, Callers)
      BY <1>7, <1>8, <2>0
    <3> DEFINE x == Sum(bytes, Shard)
               y == Sum(Reserved, Callers)
               n == a.cost
    <3>2. x \in Int /\ y \in Int /\ n \in Int /\ total = x + y /\ total' = total + n /\ x' = x + n /\ y' = y
      BY <1>4, <1>8, <1>10, <1>13, <2>0, <3>1
    <3> HIDE DEF x, y, n
    <3>3. total' = x' + y'
      BY <3>2
    <3> QED BY <3>3 DEF x, y
  <2>2. total' = Sum(Booked, PK)' + Sum(Gated, Callers)'
    <3>1. Sum(Gated, Callers)' = Sum(Gated, Callers)
      BY <1>7, <1>8, <2>0
    <3> DEFINE x == Sum(Booked, PK)
               y == Sum(Gated, Callers)
               n == a.cost
    <3>2. x \in Int /\ y \in Int /\ n \in Int /\ total = x + y /\ total' = total + n /\ x' = x + n /\ y' = y
      BY <1>8, <1>10, <1>13, <2>0, <3>1
    <3> HIDE DEF x, y, n
    <3>3. total' = x' + y'
      BY <3>2
    <3> QED BY <3>3 DEF x, y
  <2>3. total' = Sum(Journaled, PK)' + Sum(Ahead, Callers)'
    <3>1. Ahead[c] = 0 - Costs(l) /\ Ahead'[c] = 0 - Costs(t)
      BY <1>11, <1>12, <1>15
    <3>2. Ahead'[c] - Ahead[c] = a.cost /\ Ahead[c] \in Int /\ Ahead'[c] \in Int
      BY <1>9, <1>10, <3>1
    <3>3. Sum(Ahead, Callers)' = Sum(Ahead, Callers) + a.cost
      BY <1>7, <1>8, <1>10, <3>2
    <3> DEFINE x == Sum(Journaled, PK)
               y == Sum(Ahead, Callers)
               n == a.cost
    <3>4. x \in Int /\ y \in Int /\ n \in Int /\ total = x + y /\ total' = total + n /\ x' = x /\ y' = y + n
      BY <1>6, <1>8, <1>10, <1>13, <2>0, <3>3
    <3> HIDE DEF x, y, n
    <3>5. total' = x' + y'
      BY <3>4
    <3> QED BY <3>5 DEF x, y
  <2> QED BY <2>1, <2>2, <2>3 DEF Books
<1> QED BY <1>14, <1>15

\* The steps that neither journal nor apply.
LEMMA BooksQuiet ==
    ASSUME CoreInv, CoreInv', NEW c \in Callers, Books, MaxBytes > 0,
           Begin(c) \/ Lock(c) \/ Resolve(c) \/ Reserve(c) \/ BackOut(c) \/ JournalFails(c) \/ Unlock(c)
    PROVE  /\ Books' /\ UNCHANGED <<rows, bytes, log, base, grew>>
           /\ \A d \in Callers \ {c} : pc'[d] = pc[d] /\ job'[d] = job[d]
           /\ total' <= MaxBytes \/ Granted'[c] = 0
<1>0. /\ pc \in [Callers -> Working \cup {"idle", "lock", "unlock"}] /\ DOMAIN job = Callers
      /\ lock \in [Shard -> Callers \cup {Free}] /\ total \in Int
  BY DEF CoreInv, Typed
<1>1. ASSUME NEW d \in Callers
      PROVE  /\ pc[d] \in Working => job[d].gate \in Nat
             /\ pc[d] \in {"idle", "lock", "unlock", "reserve"} => Gated[d] = 0
             /\ pc[d] \in {"backout", "journal"} => Gated[d] = job[d].gate
  BY Amounts DEF AmountsOf
<1>2. /\ pc'[c] \in {"idle", "lock", "unlock", "reserve"} => Gated'[c] = 0 /\ Granted'[c] = 0
      /\ pc'[c] \in {"backout", "journal"} => Gated'[c] = job'[c].gate
      /\ pc'[c] = "journal" => Granted'[c] = job'[c].gate
  BY AmountsNext DEF AmountsOf
<1>3. UNCHANGED <<rows, bytes, log, base, grew>>
  BY Zenon DEF Begin, Lock, Resolve, Reserve, BackOut, JournalFails, Unlock, historyVars
<1>4. CASE Begin(c)
  <2>1. PICK j \in Call : job' = [job EXCEPT ![c] = j]
    BY <1>4, Zenon DEF Begin
  <2>2. pc[c] = "idle" /\ pc' = [pc EXCEPT ![c] = "lock"] /\ UNCHANGED <<lock, total>>
    BY <1>4 DEF Begin
  <2>3. pc'[c] = "lock" /\ \A d \in Callers \ {c} : pc'[d] = pc[d] /\ job'[d] = job[d]
    BY <1>0, <2>1, <2>2
  <2>4. total' = total + Gated'[c] - Gated[c]
    BY <1>0, <1>1, <1>2, <2>2, <2>3
  <2> QED BY <1>2, <1>3, <2>2, <2>3, <2>4, QuietBooks
<1>5. CASE Lock(c)
  <2>1. /\ pc[c] = "lock" /\ lock[NextShard(c)] = Free /\ lock' = [lock EXCEPT ![NextShard(c)] = c]
        /\ UNCHANGED <<pc, job, total>>
    BY <1>5 DEF Lock
  <2>2. \A s \in Shard, d \in Callers \ {c} : lock'[s] = d <=> lock[s] = d
    BY <1>0, <2>1, NobodyIsFree DEF NobodyIsFree
  <2>3. total' = total + Gated'[c] - Gated[c]
    BY <1>0, <1>1, <1>2, <2>1
  <2> QED BY <1>2, <1>3, <2>1, <2>2, <2>3, QuietBooks
<1>6. CASE Resolve(c)
  <2> DEFINE w == Walk(job[c])
             gate == Gate(job[c].kind, w.acts)
             done == [kind |-> job[c].kind, acts |-> w.acts, gate |-> IF MaxBytes > 0 THEN gate ELSE 0]
  <2>1. pc[c] = "lock" /\ UNCHANGED <<lock, total>>
    BY <1>6 DEF Resolve
  <2>2. \/ pc' = [pc EXCEPT ![c] = "unlock"] /\ job' = job
        \/ /\ w.acts # <<>> /\ job' = [job EXCEPT ![c] = done]
           /\ pc' = [pc EXCEPT ![c] = IF gate > 0 /\ MaxBytes > 0 THEN "reserve" ELSE "journal"]
    BY <1>6, Zenon DEF Resolve
  <2>3. job[c] \in Call /\ rows \in Rows
    BY <2>1 DEF CoreInv, CallersFit, CallTyped, Typed
  <2>4. gate \in Nat
    BY <2>3, ResolveFits, GateNat
  <2>5. done.gate = gate
    OBVIOUS
  <2> HIDE DEF w, gate, done
  <2>6. \A d \in Callers \ {c} : pc'[d] = pc[d] /\ job'[d] = job[d]
    BY <1>0, <2>2
  <2>7. pc'[c] \in {"unlock", "reserve", "journal"} /\ (pc'[c] = "journal" => job'[c].gate = 0)
    <3>1. CASE pc' = [pc EXCEPT ![c] = "unlock"]
      BY <1>0, <3>1
    <3>2. CASE /\ job' = [job EXCEPT ![c] = done]
               /\ pc' = [pc EXCEPT ![c] = IF gate > 0 /\ MaxBytes > 0 THEN "reserve" ELSE "journal"]
      BY <1>0, <2>4, <2>5, <3>2
    <3> QED BY <2>2, <3>1, <3>2
  <2>8. total' = total + Gated'[c] - Gated[c]
    BY <1>0, <1>1, <1>2, <2>1, <2>7
  <2> QED BY <1>2, <1>3, <2>1, <2>6, <2>7, <2>8, QuietBooks
<1>7. CASE Reserve(c)
  <2>1. /\ pc[c] = "reserve" /\ total' = total + job[c].gate
        /\ pc' = [pc EXCEPT ![c] = IF total' > MaxBytes THEN "backout" ELSE "journal"]
        /\ UNCHANGED <<lock, job>>
    BY <1>7 DEF Reserve
  <2>2. pc'[c] \in {"backout", "journal"} /\ \A d \in Callers \ {c} : pc'[d] = pc[d] /\ job'[d] = job[d]
    BY <1>0, <2>1
  <2>3. total' = total + Gated'[c] - Gated[c]
    BY <1>0, <1>1, <1>2, <2>1, <2>2 DEF Working
  <2>4. total' <= MaxBytes \/ Granted'[c] = 0
    <3>1. total' \in Int /\ job[c].gate \in Nat
      BY <1>0, <1>1, <2>1 DEF Working
    <3>2. total' > MaxBytes => pc'[c] = "backout"
      BY <1>0, <2>1
    <3>3. pc'[c] = "backout" => Granted'[c] = 0
      BY AmountsNext DEF AmountsOf
    <3> QED BY <3>1, <3>2, <3>3, StoreBounds DEF StoreBounds
  <2> QED BY <1>3, <2>1, <2>2, <2>3, <2>4, QuietBooks
<1>8. CASE BackOut(c)
  <2>1. /\ pc[c] = "backout" /\ total' = total - job[c].gate /\ pc' = [pc EXCEPT ![c] = "unlock"]
        /\ UNCHANGED <<lock, job>>
    BY <1>8 DEF BackOut
  <2>2. pc'[c] = "unlock" /\ \A d \in Callers \ {c} : pc'[d] = pc[d] /\ job'[d] = job[d]
    BY <1>0, <2>1
  <2>3. total' = total + Gated'[c] - Gated[c]
    BY <1>0, <1>1, <1>2, <2>1, <2>2 DEF Working
  <2> QED BY <1>2, <1>3, <2>1, <2>2, <2>3, QuietBooks
<1>9. CASE JournalFails(c)
  <2>1. /\ pc[c] = "journal"
        /\ pc' = [pc EXCEPT ![c] = IF job[c].gate > 0 THEN "backout" ELSE "unlock"]
        /\ UNCHANGED <<lock, job, total>>
    BY <1>9 DEF JournalFails
  <2>2. job[c].gate \in Nat
    BY <1>1, <2>1 DEF Working
  <2>3. /\ pc'[c] \in {"backout", "unlock"} /\ (pc'[c] = "unlock" => job[c].gate = 0)
        /\ \A d \in Callers \ {c} : pc'[d] = pc[d] /\ job'[d] = job[d]
    BY <1>0, <2>1, <2>2
  <2>4. total' = total + Gated'[c] - Gated[c]
    BY <1>0, <1>1, <1>2, <2>1, <2>2, <2>3
  <2>5. Granted'[c] = 0
    BY <2>3, AmountsNext DEF AmountsOf
  <2> QED BY <1>3, <2>1, <2>3, <2>4, <2>5, QuietBooks
<1>10. CASE Unlock(c)
  <2>1. /\ pc[c] = "unlock" /\ lock' = [s \in Shard |-> IF lock[s] = c THEN Free ELSE lock[s]]
        /\ pc' = [pc EXCEPT ![c] = "idle"] /\ job' = [job EXCEPT ![c] = NoCall] /\ total' = total
    BY <1>10 DEF Unlock
  <2>2. pc'[c] = "idle" /\ \A d \in Callers \ {c} : pc'[d] = pc[d] /\ job'[d] = job[d]
    BY <1>0, <2>1
  <2>3. \A s \in Shard, d \in Callers \ {c} : lock'[s] = d <=> lock[s] = d
    BY <2>1, NobodyIsFree DEF NobodyIsFree
  <2>4. total' = total + Gated'[c] - Gated[c]
    BY <1>0, <1>1, <1>2, <2>1, <2>2
  <2> QED BY <1>2, <1>3, <2>1, <2>2, <2>3, <2>4, QuietBooks
<1> QED BY <1>4, <1>5, <1>6, <1>7, <1>8, <1>9, <1>10

\* Unless an update grew ungated, the counter runs ahead of the records by at
\* least what may still be journaled.
LEMMA GrantedBelowAhead ==
    CoreInv /\ MaxBytes > 0 /\ ~grew => Sum(Granted, Callers) <= Sum(Ahead, Callers)
<1> SUFFICES ASSUME CoreInv, MaxBytes > 0, ~grew
             PROVE  SumOver(Granted, Callers) <= SumOver(Ahead, Callers)
  BY DEF Sum
<1>1. ASSUME NEW c \in Callers PROVE Granted[c] \in Int /\ Ahead[c] \in Int /\ Granted[c] <= Ahead[c]
  <2>1. AmountsOf(c)
    BY Amounts
  <2>2. pc[c] \in Working \cup {"idle", "lock", "unlock"}
    BY DEF CoreInv, Typed
  <2>3. ASSUME pc[c] = "release" \/ (pc[c] = "apply" /\ ~Prepaid(job[c]))
        PROVE  Costs(job[c].acts) <= 0
    <3>1. job[c].acts \in Seq(Act) /\ WorkFit(c) /\ Costs(job[c].acts) \in Int
      BY <2>1, <2>3 DEF AmountsOf, CoreInv, CallersFit, Working
    <3>2. CASE pc[c] = "release"
      BY <3>1, <3>2 DEF WorkFit
    <3>3. CASE pc[c] = "apply" /\ ~Prepaid(job[c])
      <4>1. \A i \in DOMAIN job[c].acts : job[c].acts[i].cost <= 0
        BY <3>1, <3>3 DEF WorkFit
      <4> QED BY <3>1, <4>1, CostsSign
    <3> QED BY <2>3, <3>2, <3>3
  <2>4. CASE pc[c] \in {"idle", "lock", "unlock", "reserve", "backout", "journal"}
    BY <2>1, <2>4 DEF AmountsOf, Working
  <2>5. CASE pc[c] \in {"release", "apply"}
    BY <2>1, <2>3, <2>5 DEF AmountsOf, Working
  <2> QED BY <2>2, <2>4, <2>5 DEF Working
<1> QED BY <1>1, SumMono, FiniteSetting DEF FiniteSetting

\* The same after a step.
LEMMA GrantedBelowNext ==
    ASSUME CoreInv', MaxBytes > 0, ~grew'
    PROVE  Sum(Granted, Callers)' <= Sum(Ahead, Callers)'
<1>1. (MaxBytes > 0)'
  OBVIOUS
<1>2. (CoreInv /\ MaxBytes > 0 /\ ~grew => Sum(Granted, Callers) <= Sum(Ahead, Callers))'
  BY GrantedBelowAhead, PTL
<1> QED BY <1>1, <1>2

\* What is used of Totals after a step.
LEMMA TotalsImplied ==
    CoreInv => /\ Sum(Gated, Callers) \in Nat /\ Sum(Ahead, Callers) \in Int /\ Sum(Granted, Callers) \in Nat
               /\ Sum(Booked, PK) \in Nat /\ Sum(Journaled, PK) \in Nat
BY Totals

\* The totals after a step are numbers.
LEMMA TotalsNext ==
    ASSUME CoreInv'
    PROVE  /\ Sum(Gated, Callers)' \in Nat /\ Sum(Ahead, Callers)' \in Int /\ Sum(Granted, Callers)' \in Nat
           /\ Sum(Booked, PK)' \in Nat /\ Sum(Journaled, PK)' \in Nat
<1>1. (/\ Sum(Gated, Callers) \in Nat /\ Sum(Ahead, Callers) \in Int /\ Sum(Granted, Callers) \in Nat
       /\ Sum(Booked, PK) \in Nat /\ Sum(Journaled, PK) \in Nat)'
  BY TotalsImplied, PTL
<1> QED BY <1>1

\* The whole inductive invariant.
CounterInv == Tallies /\ (MaxBytes > 0 => Books) /\ CapHolds

\* The counter through every step.
LEMMA CounterNext ==
    ASSUME CoreInv, CoreInv', CounterInv, [Next]_vars
    PROVE  CounterInv'
<1>1. ASSUME UNCHANGED <<rows, bytes, total, lock, pc, job, log, base, grew>>
      PROVE  CounterInv'
  <2>1. Tallies'
    BY <1>1 DEF CounterInv, Tallies, Sum, InShard
  <2>2. Reserved' = Reserved /\ Gated' = Gated /\ Ahead' = Ahead /\ Granted' = Granted /\ Booked' = Booked
        /\ Journaled' = Journaled
    BY <1>1 DEF Reserved, Gated, Ahead, Granted, Booked, Journaled, Prepaid
  <2>3. (MaxBytes > 0 => Books)' /\ CapHolds'
    BY <1>1, <2>2 DEF CounterInv, Books, CapHolds, Sum
  <2> QED BY <2>1, <2>3 DEF CounterInv
<1>2. CASE DropTable
  BY <1>1, <1>2 DEF DropTable, historyVars
<1>3. CASE UNCHANGED vars
  BY <1>1, <1>3 DEF vars
<1>4. ASSUME NEW c \in Callers, Begin(c) \/ Step(c) PROVE CounterInv'
  <2>1. Tallies'
    <3>1. CASE Apply(c)
      BY <3>1, TalliesApply DEF CounterInv
    <3>2. CASE ~Apply(c)
      <4>1. UNCHANGED <<rows, bytes>>
        BY <1>4, <3>2, Zenon DEF Step, Begin, Lock, Resolve, Reserve, BackOut, Journal, JournalFails, Release, Unlock
      <4> QED BY <4>1 DEF CounterInv, Tallies, Sum, InShard
    <3> QED BY <3>1, <3>2
  <2>2. ASSUME MaxBytes > 0 PROVE Books' /\ CapHolds'
    <3>0. Books /\ (~grew => Sum(Journaled, PK) + Sum(Granted, Callers) <= MaxBytes)
      BY <2>2 DEF CounterInv, CapHolds
    <3>1. /\ Sum(Journaled, PK) \in Int /\ Sum(Granted, Callers) \in Int
          /\ Sum(Journaled, PK)' \in Int /\ Sum(Granted, Callers)' \in Int /\ Sum(Ahead, Callers)' \in Int
          /\ MaxBytes \in Int
      BY Totals, TotalsNext, StoreBounds DEF StoreBounds
    <3>2. Granted[c] \in Nat /\ Granted'[c] \in Nat
      BY Amounts, AmountsNext DEF AmountsOf
    <3>3. CASE Begin(c) \/ Lock(c) \/ Resolve(c) \/ Reserve(c) \/ BackOut(c) \/ JournalFails(c) \/ Unlock(c)
      <4>1. /\ Books' /\ UNCHANGED <<log, base, grew>> /\ (total' <= MaxBytes \/ Granted'[c] = 0)
            /\ \A d \in Callers \ {c} : pc'[d] = pc[d] /\ job'[d] = job[d]
        BY <2>2, <3>0, <3>3, BooksQuiet
      <4>2. Sum(Granted, Callers)' = Sum(Granted, Callers) + Granted'[c] - Granted[c]
        BY <4>1, OneMoves
      <4>3. Sum(Journaled, PK)' = Sum(Journaled, PK)
        BY <4>1 DEF Journaled, Sum
      <4>4. ASSUME ~grew' PROVE Sum(Journaled, PK)' + Sum(Granted, Callers)' <= MaxBytes
        <5>1. CASE Granted'[c] = 0
          BY <3>0, <3>1, <3>2, <4>1, <4>2, <4>3, <4>4, <5>1
        <5>2. CASE total' <= MaxBytes
          <6>1. total' = Sum(Journaled, PK)' + Sum(Ahead, Callers)'
            BY <4>1 DEF Books
          <6>2. Sum(Granted, Callers)' <= Sum(Ahead, Callers)'
            BY <2>2, <4>4, GrantedBelowNext
          <6> QED BY <3>1, <5>2, <6>1, <6>2
        <5> QED BY <4>1, <5>1, <5>2
      <4> QED BY <4>1, <4>4 DEF CapHolds
    <3>4. CASE Journal(c)
      <4>1. Books' /\ Sum(Journaled, PK)' = Sum(Journaled, PK) + Costs(job[c].acts)
        BY <2>2, <3>0, <3>4, BooksJournal
      <4>2. /\ pc[c] = "journal" /\ pc' = [pc EXCEPT ![c] = IF MaxBytes > 0 /\ job[c].kind = "txn" /\ Costs(job[c].acts) < 0
                                              THEN "release" ELSE "apply"] /\ job' = job
            /\ grew' = (grew \/ GrowsUngated(job[c]))
        BY <3>4 DEF Journal
      <4>3. pc'[c] \in {"release", "apply"} /\ \A d \in Callers \ {c} : pc'[d] = pc[d] /\ job'[d] = job[d]
        BY <4>2 DEF CoreInv, Typed
      <4>4. Sum(Granted, Callers)' = Sum(Granted, Callers) + Granted'[c] - Granted[c]
        BY <4>3, OneMoves
      <4>5. Granted[c] = job[c].gate /\ Costs(job[c].acts) \in Int /\ job[c].gate \in Nat
        BY <4>2, Amounts DEF AmountsOf, Working
      <4>6. Granted'[c] = 0
        BY <4>3, AmountsNext DEF AmountsOf
      <4>7. ASSUME ~grew' PROVE Sum(Journaled, PK)' + Sum(Granted, Callers)' <= MaxBytes
        <5>1. ~grew /\ ~GrowsUngated(job[c])
          BY <4>2, <4>7
        <5>2. Typed /\ CallTyped(c) /\ WorkFit(c)
          BY <4>2 DEF CoreInv, CallersFit, Working
        <5>3. Costs(job[c].acts) <= job[c].gate
          BY <2>2, <4>2, <5>1, <5>2, JournalCost
        <5> QED BY <3>0, <3>1, <4>1, <4>4, <4>5, <4>6, <5>1, <5>3
      <4> QED BY <4>1, <4>7 DEF CapHolds
    <3>5. CASE Release(c)
      <4>1. Books'
        BY <3>0, <3>5, BooksRelease
      <4>2. pc[c] = "release" /\ pc' = [pc EXCEPT ![c] = "apply"] /\ UNCHANGED <<job, log, base, grew>>
        BY <3>5 DEF Release, historyVars
      <4>3. pc'[c] = "apply" /\ \A d \in Callers \ {c} : pc'[d] = pc[d] /\ job'[d] = job[d]
        BY <4>2 DEF CoreInv, Typed
      <4>4. Granted'[c] = 0
        BY <4>3, AmountsNext DEF AmountsOf
      <4>5. Sum(Granted, Callers)' = Sum(Granted, Callers) + Granted'[c] - Granted[c]
        BY <4>3, OneMoves
      <4>6. Sum(Journaled, PK)' = Sum(Journaled, PK)
        BY <4>2 DEF Journaled, Sum
      <4>7. ~grew' => Sum(Journaled, PK)' + Sum(Granted, Callers)' <= MaxBytes
        BY <3>0, <3>1, <3>2, <4>2, <4>4, <4>5, <4>6
      <4> QED BY <4>1, <4>7 DEF CapHolds
    <3>6. CASE Apply(c)
      <4>1. Books'
        BY <2>2, <3>0, <3>6, BooksApply DEF CounterInv
      <4>2. UNCHANGED <<log, base, grew>>
        BY <3>6 DEF Apply, historyVars
      <4>3. pc'[c] \in {"unlock", "apply"} /\ \A d \in Callers \ {c} : pc'[d] = pc[d] /\ job'[d] = job[d]
        BY <3>6, ApplyFacts DEF CoreInv
      <4>4. Granted'[c] = 0
        BY <4>3, AmountsNext DEF AmountsOf
      <4>5. Sum(Granted, Callers)' = Sum(Granted, Callers) + Granted'[c] - Granted[c]
        BY <4>3, OneMoves
      <4>6. Sum(Journaled, PK)' = Sum(Journaled, PK)
        BY <4>2 DEF Journaled, Sum
      <4>7. ~grew' => Sum(Journaled, PK)' + Sum(Granted, Callers)' <= MaxBytes
        BY <3>0, <3>1, <3>2, <4>2, <4>4, <4>5, <4>6
      <4> QED BY <4>1, <4>7 DEF CapHolds
    <3> QED BY <1>4, <3>3, <3>4, <3>5, <3>6 DEF Step
  <2>3. CapHolds'
    BY <2>2 DEF CapHolds
  <2> QED BY <2>1, <2>2, <2>3 DEF CounterInv
<1> QED BY <1>2, <1>3, <1>4 DEF Next

\* Boot: nothing is reserved, and the tallies are those of the rows.
LEMMA CounterInit == Init => CounterInv
<1> SUFFICES ASSUME Init PROVE CounterInv
  OBVIOUS
<1>0. CoreInv
  BY CoreInit
<1>1. /\ base \in Rows /\ rows = base /\ log = <<>> /\ pc = [c \in Callers |-> "idle"]
      /\ bytes = [s \in Shard |-> Sum(base, InShard(s))]
      /\ total = IF MaxBytes = 0 THEN 0 ELSE Sum(base, PK)
      /\ lock = [s \in Shard |-> Free]
      /\ MaxBytes = 0 \/ Sum(base, PK) <= MaxBytes
  BY DEF Init, Rows
<1>2. Tallies
  BY <1>1 DEF Tallies
<1>3. \A c \in Callers : Reserved[c] = 0 /\ Gated[c] = 0 /\ Ahead[c] = 0 /\ Granted[c] = 0
  BY <1>0, <1>1, Amounts DEF AmountsOf
<1>4. /\ Sum(Reserved, Callers) = 0 /\ Sum(Gated, Callers) = 0
      /\ Sum(Ahead, Callers) = 0 /\ Sum(Granted, Callers) = 0
  BY <1>3, SumZero, FiniteSetting DEF FiniteSetting, Sum
<1>5. Journaled = base
  BY <1>1, MutsFacts, AfterFacts DEF Journaled
<1>6. Booked = base
  <2>1. ASSUME NEW p \in PK PROVE Booked[p] = base[p]
    <3>1. lock[shardOf[p]] \notin Callers
      BY <1>1, Routing, NobodyIsFree DEF Routing, NobodyIsFree
    <3>2. ~Applying(p)
      BY <3>1 DEF Applying
    <3> QED BY <1>1, <3>2, BookedAt
  <2>2. Booked = [p \in PK |-> Booked[p]] /\ base = [p \in PK |-> base[p]]
    BY <1>1 DEF Booked, Rows
  <2> QED BY <2>1, <2>2
<1>7. Sum(bytes, Shard) = Sum(base, PK)
  <2>1. IsFiniteSet(Shard) /\ IsFiniteSet(PK) /\ shardOf \in [PK -> Shard] /\ \A p \in PK : base[p] \in Int
    BY <1>0, <1>1, Totals, RowSizes, FiniteSetting, Sizes, Routing DEF FiniteSetting, Routing
  <2>2. bytes = [s \in Shard |-> SumOver(base, {p \in PK : shardOf[p] = s})]
    BY <1>1 DEF InShard, Sum
  <2>3. SumOver([s \in Shard |-> SumOver(base, {p \in PK : shardOf[p] = s})], Shard) = SumOver(base, PK)
    BY <2>1, SumByParts
  <2> QED BY <2>2, <2>3 DEF Sum
<1>8. Sum(base, PK) \in Int
  BY <1>1, RowSizes, FiniteSetting, Sizes
<1>9. MaxBytes > 0 => Books
  BY <1>1, <1>4, <1>5, <1>6, <1>7, <1>8, StoreBounds DEF Books, StoreBounds
<1>10. CapHolds
  BY <1>1, <1>4, <1>5, <1>8, StoreBounds DEF CapHolds, StoreBounds
<1> QED BY <1>2, <1>9, <1>10 DEF CounterInv

\* Rows, records, locks and counter together.
LEMMA StoreInvariant == Spec => [](CoreInv /\ CounterInv)
<1>1. Init => CoreInv /\ CounterInv
  BY CoreInit, CounterInit
<1>2. (CoreInv /\ CounterInv) /\ [Next]_vars => (CoreInv /\ CounterInv)'
  <2> SUFFICES ASSUME CoreInv, CounterInv, [Next]_vars PROVE CoreInv' /\ CounterInv'
    OBVIOUS
  <2>1. CoreInv'
    BY CoreNext
  <2> QED BY <2>1, CounterNext
<1> QED BY <1>1, <1>2, PTL DEF Spec

\* The counters are never negative.
LEMMA CountersAreNat ==
    ASSUME CoreInv, CounterInv
    PROVE  bytes \in [Shard -> Nat] /\ total \in Nat
<1>1. rows \in Rows /\ bytes \in [Shard -> Int] /\ (MaxBytes = 0 => total = 0)
  BY DEF CoreInv, Typed
<1>2. ASSUME NEW s \in Shard PROVE bytes[s] \in Nat
  <2>1. IsFiniteSet(InShard(s)) /\ InShard(s) \subseteq PK
    BY FS_Subset, FiniteSetting DEF FiniteSetting, InShard
  <2>2. \A p \in InShard(s) : rows[p] \in Nat
    BY <1>1, <2>1, RowSizes, FiniteSetting, Sizes
  <2>3. SumOver(rows, InShard(s)) \in Nat
    BY <2>1, <2>2, SumNat
  <2> QED BY <2>3 DEF CounterInv, Tallies, Sum
<1>3. CASE MaxBytes > 0
  <2>1. total = Sum(Booked, PK) + Sum(Gated, Callers)
    BY <1>3 DEF CounterInv, Books
  <2> QED BY <1>1, <1>2, <2>1, Totals
<1>4. CASE ~(MaxBytes > 0)
  <2>1. total = 0
    BY <1>1, <1>4, StoreBounds DEF StoreBounds
  <2> QED BY <1>1, <1>2, <2>1
<1> QED BY <1>3, <1>4

\* The invariant the runs check follows.
LEMMA StoreInvHolds == CoreInv /\ CounterInv => StoreInv
<1> SUFFICES ASSUME CoreInv, CounterInv PROVE StoreInv
  OBVIOUS
<1>1. TypeOK
  <2>1. bytes \in [Shard -> Nat] /\ total \in Nat
    BY CountersAreNat
  <2>2. \A c \in Callers : CallTyped(c)
    BY DEF CoreInv, CallersFit
  <2>3. /\ rows \in Rows /\ base \in Rows
        /\ lock \in [Shard -> Callers \cup {Free}]
        /\ pc \in [Callers -> Working \cup {"idle", "lock", "unlock"}]
        /\ DOMAIN job = Callers
        /\ log \in Seq(Rec)
        /\ calls \in 0..MaxCalls
        /\ {walErr, dropped, grew, peaked, wrapped} \subseteq BOOLEAN
    BY DEF CoreInv, Typed
  <2> QED BY <2>1, <2>2, <2>3 DEF TypeOK, CallTyped, Rows, Rec
<1>2. MemoryFollowsLog /\ RecordsFitTogether
  BY DEF CoreInv
<1>3. MemoryIsReplay
  BY <1>2, NobodyIsFree DEF MemoryIsReplay, MemoryFollowsLog, NobodyIsFree
<1>4. LocksAscend
  BY DEF CoreInv, CallersFit, Climbs, LocksAscend
<1>5. WorkFits
  BY DEF CoreInv, CallersFit, WorkFits
<1> QED BY <1>1, <1>2, <1>3, <1>4, <1>5 DEF StoreInv

\* Memory is what the journal says whenever no call is at work on a shard, each
\* record is whole in it or not at all, and no record meets a row it did not
\* expect, for any number of shards, keys, callers and calls.
THEOREM MemoryIsTheJournal == Spec => []StoreInv
BY StoreInvariant, StoreInvHolds, PTL

\* The byte counter equals the shard tallies and the reservations in flight at
\* every step, through refused reservations and failed journal writes.
THEOREM CounterIsExact == Spec => []BudgetIsExact
<1>1. CoreInv /\ CounterInv => BudgetIsExact
  BY DEF CounterInv, Tallies, Books, BudgetIsExact
<1> QED BY <1>1, StoreInvariant, PTL

\* Two calls that each fit and together do not are never both journaled: the
\* records never need more than MaxBytes, but after an ungated growth.
THEOREM CapIsKept == Spec => []CapHolds
<1>1. CoreInv /\ CounterInv => CapHolds
  BY DEF CounterInv
<1> QED BY <1>1, StoreInvariant, PTL

----------------------------------------------------------------------------
(* Open: the records replayed.                                             *)

ReplayState == [rows : Rows, ok : BOOLEAN]

MutReplay == INSTANCE LeftFold WITH op <- ReplayMut, V <- ReplayState, E <- Act
RecReplay == INSTANCE LeftFold WITH op <- ReplayRecord, V <- ReplayState, E <- Rec

\* Replay sets the row, and refuses an insert or update that does not fit.
LEMMA ReplayMutFacts ==
    ASSUME NEW x \in ReplayState, NEW m \in Act
    PROVE  /\ ReplayMut(x, m) \in ReplayState
           /\ ReplayMut(x, m).rows = SetRow(x.rows, m)
           /\ /\ x.ok
              /\ m.op = "insert" => x.rows[m.pk] = 0 /\ Fits(SetRow(x.rows, m))
              /\ m.op = "update" => x.rows[m.pk] # 0
              => ReplayMut(x, m).ok = TRUE
<1> DEFINE r == SetRow(x.rows, m)
           b == /\ x.ok
                /\ m.op = "insert" => x.rows[m.pk] = 0 /\ Fits(r)
                /\ m.op = "update" => x.rows[m.pk] # 0
<1>1. ReplayMut(x, m) = [rows |-> r, ok |-> b]
  BY Zenon DEF ReplayMut, SetRow
<1>2. x.rows \in Rows /\ x.ok \in BOOLEAN
  BY DEF ReplayState
<1>3. r \in Rows
  BY <1>2, SetRowAt
<1>4. b \in BOOLEAN /\ (b => b = TRUE)
  BY Zenon
<1> HIDE DEF r, b
<1>5. ReplayMut(x, m) \in ReplayState /\ ReplayMut(x, m).rows = r /\ ReplayMut(x, m).ok = b
  BY <1>1, <1>3, <1>4 DEF ReplayState
<1> QED BY <1>4, <1>5, Zenon DEF r, b

\* Every insert on the way fits.
WayFits(r, l) == \A k \in DOMAIN l : l[k].op = "insert" => Fits(After(r, SubSeq(l, 1, k)))

\* Fitting mutations whose inserts fit on the way are replayed.
LEMMA ReplayFits ==
    ASSUME NEW x \in ReplayState
    PROVE  /\ MutReplay!Closed
           /\ \A l \in Seq(Act) :
                /\ MutReplay!Run(x, l) \in ReplayState
                /\ MutReplay!Run(x, l).rows = After(x.rows, l)
                /\ x.ok = TRUE /\ FitOn(x.rows, l) /\ WayFits(x.rows, l) => MutReplay!Run(x, l).ok = TRUE
<1> DEFINE r == x.rows
           X == {l \in Seq(Act) :
                    /\ MutReplay!Run(x, l).rows = After(r, l)
                    /\ x.ok = TRUE /\ FitOn(r, l) /\ WayFits(r, l) => MutReplay!Run(x, l).ok = TRUE}
<1>0. MutReplay!Closed
  BY ReplayMutFacts DEF MutReplay!Closed
<1>1. r \in Rows
  BY DEF ReplayState
<1>2. \A l \in Seq(Act) : MutReplay!Run(x, l) \in ReplayState
  BY <1>0, MutReplay!RunType
<1> HIDE DEF r
<1>3. <<>> \in X
  <2>1. MutReplay!Run(x, <<>>) = x /\ After(r, <<>>) = r /\ x.rows = r
    BY <1>0, <1>1, AfterFacts, MutReplay!RunEmpty DEF r
  <2>2. <<>> \in Seq(Act)
    OBVIOUS
  <2> QED BY <2>1, <2>2, Zenon
<1>4. \A l \in Seq(Act), a \in Act : l \in X => Append(l, a) \in X
  <2> SUFFICES ASSUME NEW l \in Seq(Act), NEW a \in Act, l \in X
               PROVE  Append(l, a) \in X
    OBVIOUS
  <2> DEFINE m == Append(l, a)
             y == MutReplay!Run(x, l)
  <2>1. /\ m \in Seq(Act) /\ m = l \o <<a>> /\ <<a>> \in Seq(Act)
        /\ m[Len(l) + 1] = a /\ Len(l) + 1 \in DOMAIN m /\ SubSeq(m, 1, Len(l) + 1) = m
        /\ \A k \in DOMAIN l : k \in DOMAIN m /\ m[k] = l[k] /\ SubSeq(m, 1, k) = SubSeq(l, 1, k)
    OBVIOUS
  <2>2. y \in ReplayState /\ y.rows = After(r, l) /\ MutReplay!Run(x, m) = ReplayMut(y, a)
    BY <1>0, <1>2, MutReplay!RunAppend
  <2>3. After(r, m) = SetRow(After(r, l), a) /\ After(r, l) \in Rows
    BY <1>1, AfterFacts
  <2> HIDE DEF m, y
  <2>4. MutReplay!Run(x, m).rows = After(r, m)
    BY <2>2, <2>3, ReplayMutFacts
  <2>5. ASSUME x.ok = TRUE, FitOn(r, m), WayFits(r, m) PROVE MutReplay!Run(x, m).ok = TRUE
    <3>1. FitOn(r, l) /\ FitOn(After(r, l), <<a>>)
      BY <1>1, <2>1, <2>5, FitConcat
    <3>2. WayFits(r, l)
      BY <2>1, <2>5 DEF WayFits
    <3>3. y.ok = TRUE
      BY <2>5, <3>1, <3>2 DEF y
    <3>4. FitAt(y.rows, a)
      BY <2>2, <2>3, <3>1, FitOne
    <3>5. a.op = "insert" => Fits(SetRow(y.rows, a))
      BY <2>1, <2>2, <2>3, <2>5 DEF WayFits
    <3>6. (a.op = "insert" => y.rows[a.pk] = 0) /\ (a.op = "update" => y.rows[a.pk] # 0)
      <4>1. a.op = "insert" <=> y.rows[a.pk] = 0
        BY <3>4 DEF FitAt
      <4> QED BY <4>1
    <3>7. ReplayMut(y, a).ok = TRUE
      BY <2>2, <3>3, <3>5, <3>6, ReplayMutFacts
    <3> QED BY <2>2, <3>7
  <2> QED BY <2>1, <2>4, <2>5 DEF m
<1>5. Seq(Act) \subseteq X
  <2> HIDE DEF X
  <2> QED BY <1>3, <1>4, CostFold!SeqInduction
<1> QED BY <1>0, <1>2, <1>5 DEF r

\* A record of fitting mutations with its own count is replayed whole.
LEMMA ReplayRecordFacts ==
    ASSUME NEW x \in ReplayState, NEW rec \in Rec
    PROVE  /\ ReplayRecord(x, rec) \in ReplayState
           /\ ReplayRecord(x, rec).rows = After(x.rows, rec.muts)
           /\ /\ x.ok = TRUE /\ rec.count = Len(rec.muts)
              /\ FitOn(x.rows, rec.muts) /\ WayFits(x.rows, rec.muts)
              => ReplayRecord(x, rec).ok = TRUE
<1> DEFINE l == rec.muts
           y == MutReplay!Run(x, l)
           b == y.ok /\ rec.count = Len(l)
<1>1. ReplayRecord(x, rec) = [FoldLeft(ReplayMut, x, l) EXCEPT !.ok = @ /\ rec.count = Len(l)]
  BY Zenon DEF ReplayRecord
<1>2. FoldLeft(ReplayMut, x, l) = y
  BY DEF MutReplay!Run, FoldLeft, MutReplay!FoldLeft, MapThenFoldSet, MutReplay!MapThenFoldSet,
         Max, MutReplay!Max
<1>3. l \in Seq(Act)
  BY DEF Rec
<1>4. /\ y \in ReplayState /\ y.rows = After(x.rows, l)
      /\ x.ok = TRUE /\ FitOn(x.rows, l) /\ WayFits(x.rows, l) => y.ok = TRUE
  BY <1>3, ReplayFits
<1> HIDE DEF y, l
<1>5. ReplayRecord(x, rec) = [y EXCEPT !.ok = b]
  BY <1>1, <1>2
<1>6. b \in BOOLEAN /\ (y.ok = TRUE /\ rec.count = Len(l) => b = TRUE)
  BY Zenon
<1> HIDE DEF b
<1>7. /\ ReplayRecord(x, rec) \in ReplayState /\ ReplayRecord(x, rec).rows = y.rows
      /\ ReplayRecord(x, rec).ok = b
  BY <1>4, <1>5, <1>6 DEF ReplayState
<1> QED BY <1>4, <1>6, <1>7, Zenon DEF l

\* Reopen as a function of the rows at boot and the records.
ReopenOf(b, l, k) ==
    LET loaded == After(b, Muts(SubSeq(l, 1, k)))
    IN RecReplay!Run([rows |-> loaded, ok |-> Fits(loaded)], SubSeq(l, k + 1, Len(l)))

\* It is what Reopen computes.
LEMMA ReopenIs == \A k : Reopen(k) = ReopenOf(base, log, k)
BY DEF Reopen, ReopenOf, RecReplay!Run, FoldLeft, RecReplay!FoldLeft, MapThenFoldSet,
       RecReplay!MapThenFoldSet, Max, RecReplay!Max

\* With all the records in the mirror nothing is replayed.
LEMMA ReopenAll ==
    ASSUME NEW b \in Rows, NEW l \in Seq(Rec)
    PROVE  /\ ReopenOf(b, l, Len(l)).rows = After(b, Muts(l))
           /\ ReopenOf(b, l, Len(l)).ok = Fits(After(b, Muts(l)))
<1> DEFINE r == After(b, Muts(l))
           x == [rows |-> r, ok |-> Fits(r)]
<1>1. SubSeq(l, 1, Len(l)) = l /\ SubSeq(l, Len(l) + 1, Len(l)) = <<>>
  OBVIOUS
<1>2. RecReplay!Closed
  BY ReplayRecordFacts DEF RecReplay!Closed
<1>3. r \in Rows
  BY MutsFacts, AfterFacts
<1>4. Fits(r) \in BOOLEAN
  BY DEF Fits
<1> HIDE DEF r
<1>5. x \in ReplayState /\ x.rows = r /\ x.ok = Fits(r)
  BY <1>3, <1>4 DEF ReplayState
<1>6. ReopenOf(b, l, Len(l)) = RecReplay!Run(x, <<>>)
  BY <1>1, Zenon DEF ReopenOf, r
<1>7. RecReplay!Run(x, <<>>) = x
  BY <1>2, <1>5, RecReplay!RunEmpty
<1> QED BY <1>5, <1>6, <1>7, Zenon DEF r

\* A suffix of a longer sequence.
LEMMA SuffixAppend ==
    ASSUME NEW S, NEW l \in Seq(S), NEW e \in S, NEW k \in 0..Len(l)
    PROVE  SubSeq(Append(l, e), k + 1, Len(l) + 1) = Append(SubSeq(l, k + 1, Len(l)), e)
<1> DEFINE n == Len(l)
           m == Append(l, e)
           u == SubSeq(l, k + 1, n)
           v == SubSeq(m, k + 1, n + 1)
<1>1. n \in Nat /\ k \in Nat /\ k <= n
  OBVIOUS
<1>2. /\ m \in Seq(S) /\ Len(m) = n + 1 /\ m[n + 1] = e /\ \A i \in 1..n : m[i] = l[i]
  OBVIOUS
<1>3. u \in Seq(S) /\ Len(u) = n - k /\ \A i \in 1..(n - k) : u[i] = l[i + k]
  BY <1>1
<1> HIDE DEF m, n
<1>4. v \in Seq(S) /\ Len(v) = (n + 1) - k /\ \A i \in 1..((n + 1) - k) : v[i] = m[i + k]
  BY <1>1, <1>2
<1> HIDE DEF u, v
<1>5. /\ Append(u, e) \in Seq(S) /\ Len(Append(u, e)) = Len(u) + 1 /\ Append(u, e)[Len(u) + 1] = e
      /\ \A i \in 1..Len(u) : Append(u, e)[i] = u[i]
  <2>1. u \in Seq(S)
    BY <1>3
  <2> QED BY <2>1
<1>6. ASSUME NEW i \in 1..((n + 1) - k) PROVE v[i] = Append(u, e)[i]
  <2>1. i \in Int /\ (i = (n - k) + 1 \/ i \in 1..(n - k))
    BY <1>1
  <2>2. CASE i = (n - k) + 1
    <3>1. i + k = n + 1
      BY <1>1, <2>2
    <3> QED BY <1>2, <1>3, <1>4, <1>5, <2>2, <3>1
  <2>3. CASE i \in 1..(n - k)
    <3>1. i + k \in 1..n
      BY <1>1, <2>3
    <3> QED BY <1>2, <1>3, <1>4, <1>5, <2>3, <3>1
  <2> QED BY <2>1, <2>2, <2>3
<1>7. Len(v) = Len(Append(u, e)) /\ Len(v) = (n + 1) - k
  BY <1>1, <1>3, <1>4, <1>5
<1>8. v = Append(u, e)
  <2>1. \A i \in 1..Len(v) : v[i] = Append(u, e)[i]
    BY <1>6, <1>7
  <2>2. \A x, y \in Seq(S) : Len(x) = Len(y) /\ (\A i \in 1..Len(x) : x[i] = y[i]) => x = y
    OBVIOUS
  <2> QED BY <1>4, <1>5, <1>7, <2>1, <2>2
<1> QED BY <1>8 DEF v, u, m, n

\* One more record is replayed after the others.
LEMMA ReopenAppend ==
    ASSUME NEW b \in Rows, NEW l \in Seq(Rec), NEW rec \in Rec, NEW k \in 0..Len(l)
    PROVE  /\ ReopenOf(b, l, k) \in ReplayState
           /\ ReopenOf(b, Append(l, rec), k) = ReplayRecord(ReopenOf(b, l, k), rec)
<1> DEFINE m == Append(l, rec)
           u == SubSeq(l, k + 1, Len(l))
           r == After(b, Muts(SubSeq(l, 1, k)))
           x == [rows |-> r, ok |-> Fits(r)]
<1>0. k \in Nat /\ Len(l) \in Nat /\ k <= Len(l)
  OBVIOUS
<1>1. m \in Seq(Rec) /\ Len(m) = Len(l) + 1 /\ SubSeq(m, 1, k) = SubSeq(l, 1, k)
      /\ SubSeq(l, 1, k) \in Seq(Rec)
  BY <1>0
<1>2. u \in Seq(Rec)
  BY <1>0
<1>3. SubSeq(m, k + 1, Len(m)) = Append(u, rec)
  BY <1>0, <1>1, SuffixAppend
<1>4. RecReplay!Closed
  BY ReplayRecordFacts DEF RecReplay!Closed
<1>5. r \in Rows
  BY <1>1, MutsFacts, AfterFacts
<1>6. Fits(r) \in BOOLEAN
  BY DEF Fits
<1>7. x \in ReplayState
  <2> HIDE DEF r
  <2> QED BY <1>5, <1>6 DEF ReplayState
<1>8. ReopenOf(b, l, k) = RecReplay!Run(x, u)
  BY Zenon DEF ReopenOf
<1>9. ReopenOf(b, m, k) = RecReplay!Run(x, Append(u, rec))
  <2> HIDE DEF m, u
  <2> QED BY <1>1, <1>3, Zenon DEF ReopenOf
<1> HIDE DEF x, u
<1>10. RecReplay!Run(x, u) \in ReplayState
  BY <1>2, <1>4, <1>7, RecReplay!RunType
<1>11. RecReplay!Run(x, Append(u, rec)) = ReplayRecord(RecReplay!Run(x, u), rec)
  BY <1>2, <1>4, <1>7, RecReplay!RunAppend
<1> QED BY <1>8, <1>9, <1>10, <1>11

\* The first of fitting mutations fit.
LEMMA FitPrefix ==
    ASSUME NEW r \in Rows, NEW l \in Seq(Act), FitOn(r, l), NEW k \in DOMAIN l
    PROVE  SubSeq(l, 1, k) \in Seq(Act) /\ FitOn(r, SubSeq(l, 1, k))
<1> DEFINE u == SubSeq(l, 1, k)
<1>1. /\ u \in Seq(Act) /\ DOMAIN u = 1..k /\ DOMAIN l = 1..Len(l) /\ k \in 1..Len(l)
      /\ \A i \in 1..k : u[i] = l[i] /\ i \in DOMAIN l /\ SubSeq(u, 1, i - 1) = SubSeq(l, 1, i - 1)
  OBVIOUS
<1> HIDE DEF u
<1>2. FitOn(r, u)
  BY <1>1, FitOnAt
<1> QED BY <1>1, <1>2 DEF u

\* Mutations that fit, that need no more on the way than nothing or their sum, and
\* whose rows fit before and after, fit on the way.
LEMMA PeaksFit ==
    ASSUME NEW r \in Rows, NEW l \in Seq(Act), FitOn(r, l), Fits(r), Fits(After(r, l)),
           \A k \in DOMAIN l : l[k].op = "insert" => ~(Costs(SubSeq(l, 1, k)) > Max({0, Costs(l)}))
    PROVE  WayFits(r, l)
<1> SUFFICES ASSUME NEW k \in DOMAIN l, l[k].op = "insert", MaxBytes # 0
             PROVE  Sum(After(r, SubSeq(l, 1, k)), PK) <= MaxBytes
  BY DEF WayFits, Fits
<1> DEFINE u == SubSeq(l, 1, k)
<1>1. u \in Seq(Act) /\ FitOn(r, u)
  BY FitPrefix
<1>2. ~(Costs(u) > Max({0, Costs(l)}))
  OBVIOUS
<1> HIDE DEF u
<1>3. Sum(After(r, u), PK) = Sum(r, PK) + Costs(u) /\ Sum(After(r, l), PK) = Sum(r, PK) + Costs(l)
  BY <1>1, SizeAfter, FiniteSetting, Sizes
<1>4. Costs(u) \in Int /\ Costs(l) \in Int /\ Sum(r, PK) \in Int /\ MaxBytes \in Int
  BY <1>1, CostsFacts, RowSizes, FiniteSetting, Sizes, StoreBounds DEF StoreBounds
<1>5. Max({0, Costs(l)}) = IF Costs(l) > 0 THEN Costs(l) ELSE 0
  BY <1>4, MaxZero
<1>6. Sum(r, PK) <= MaxBytes /\ Sum(After(r, l), PK) <= MaxBytes
  BY DEF Fits
<1>7. Sum(After(r, u), PK) <= MaxBytes
  BY <1>2, <1>3, <1>4, <1>5, <1>6
<1> QED BY <1>7 DEF u

\* Without an ungated growth, a peak or a wrapped count the store opens on its
\* records wherever the mirror stopped, with the rows they stand for.
ReplayInv ==
    ~grew /\ ~peaked /\ ~wrapped =>
        \A k \in 0..Len(log) :
            ReopenOf(base, log, k).ok = TRUE /\ ReopenOf(base, log, k).rows = Journaled

\* The rows the records stand for fit.
LEMMA JournaledFits == CoreInv /\ CounterInv /\ ~grew => Fits(Journaled)
<1> SUFFICES ASSUME CoreInv, CounterInv, ~grew, MaxBytes # 0
             PROVE  Sum(Journaled, PK) <= MaxBytes
  BY DEF Fits
<1>1. MaxBytes \in Nat /\ MaxBytes > 0
  BY StoreBounds DEF StoreBounds
<1>2. Sum(Journaled, PK) + Sum(Granted, Callers) <= MaxBytes
  BY <1>1 DEF CounterInv, CapHolds
<1>3. Sum(Journaled, PK) \in Nat /\ Sum(Granted, Callers) \in Nat
  BY Totals
<1> QED BY <1>1, <1>2, <1>3

\* The same after a step.
LEMMA JournaledFitsNext ==
    ASSUME CoreInv', CounterInv', ~grew'
    PROVE  Fits(Journaled')
<1>1. (CoreInv /\ CounterInv /\ ~grew => Fits(Journaled))'
  BY JournaledFits, PTL
<1> QED BY <1>1 DEF Fits, Sum

\* Boot: there is nothing to replay.
LEMMA ReplayInit == Init => ReplayInv
<1> SUFFICES ASSUME Init PROVE ReplayInv
  OBVIOUS
<1>1. base \in Rows /\ log = <<>> /\ (MaxBytes = 0 \/ Sum(base, PK) <= MaxBytes)
  BY DEF Init, Rows
<1>2. log \in Seq(Rec) /\ Len(log) = 0
  BY <1>1
<1>3. Journaled = base
  BY <1>1, MutsFacts, AfterFacts DEF Journaled
<1>4. Fits(Journaled) = TRUE
  BY <1>1, <1>3 DEF Fits
<1>5. /\ ReopenOf(base, log, Len(log)).rows = Journaled
      /\ ReopenOf(base, log, Len(log)).ok = Fits(Journaled)
  BY <1>1, <1>2, ReopenAll DEF Journaled
<1>6. \A k \in 0..Len(log) : k = Len(log)
  BY <1>2
<1> QED BY <1>4, <1>5, <1>6 DEF ReplayInv

\* A record that is appended is replayed, wherever the mirror stopped.
LEMMA ReplayJournal ==
    ASSUME NEW c \in Callers, CoreInv, CoreInv', CounterInv, CounterInv', ReplayInv, Journal(c)
    PROVE  ReplayInv'
<1> SUFFICES ASSUME ~grew', ~peaked', ~wrapped', NEW k \in 0..Len(log')
             PROVE  ReopenOf(base', log', k).ok = TRUE /\ ReopenOf(base', log', k).rows = Journaled'
  BY DEF ReplayInv
<1> DEFINE l == job[c].acts
           rec == Record(job[c])
<1>1. /\ pc[c] = "journal" /\ log' = Append(log, rec) /\ base' = base
      /\ wrapped' = (wrapped \/ rec.count # Len(l))
      /\ peaked' = (peaked \/ \E i \in DOMAIN l :
                       l[i].op = "insert" /\ Costs(SubSeq(l, 1, i)) > Max({0, Costs(l)}))
      /\ grew' = (grew \/ GrowsUngated(job[c]))
  BY Zenon DEF Journal
<1>2. /\ ~grew /\ ~peaked /\ ~wrapped /\ rec.count = Len(l)
      /\ \A i \in DOMAIN l : l[i].op = "insert" => ~(Costs(SubSeq(l, 1, i)) > Max({0, Costs(l)}))
  BY <1>1, Zenon
<1>3. /\ base \in Rows /\ log \in Seq(Rec)
      /\ job[c] \in [kind : {"one", "txn", "match"}, acts : Seq(Act), gate : Nat]
  BY <1>1 DEF CoreInv, Typed, CallersFit, CallTyped, Working
<1>4. l \in Seq(Act) /\ rec \in Rec /\ rec.muts = l
  BY <1>3, RecordType
<1>5. Journaled \in Rows /\ Journaled' = After(Journaled, l) /\ FitOn(Journaled, l)
  BY CoreJournal, Totals
<1>6. Fits(Journaled) /\ Fits(Journaled')
  BY <1>2, JournaledFits, JournaledFitsNext
<1> HIDE DEF l, rec
<1>7. WayFits(Journaled, l)
  BY <1>2, <1>4, <1>5, <1>6, PeaksFit
<1>8. Len(log) \in Nat /\ log' \in Seq(Rec) /\ Len(log') = Len(log) + 1
  BY <1>1, <1>3, <1>4
<1>9. CASE k \in 0..Len(log)
  <2> DEFINE x == ReopenOf(base, log, k)
  <2>1. x \in ReplayState /\ ReopenOf(base, log', k) = ReplayRecord(x, rec)
    BY <1>1, <1>3, <1>4, <1>9, ReopenAppend
  <2>2. x.ok = TRUE /\ x.rows = Journaled
    BY <1>2, <1>9 DEF ReplayInv
  <2> HIDE DEF x
  <2>3. ReplayRecord(x, rec).ok = TRUE /\ ReplayRecord(x, rec).rows = After(Journaled, l)
    BY <1>2, <1>4, <1>5, <1>7, <2>1, <2>2, ReplayRecordFacts
  <2> QED BY <1>1, <1>5, <2>1, <2>3
<1>10. CASE k = Len(log')
  <2>1. Journaled' = After(base, Muts(log'))
    BY <1>1 DEF Journaled
  <2>2. ReopenOf(base, log', k).rows = Journaled' /\ ReopenOf(base, log', k).ok = Fits(Journaled')
    BY <1>3, <1>8, <1>10, <2>1, ReopenAll
  <2>3. Fits(Journaled') = TRUE
    BY <1>6 DEF Fits
  <2> QED BY <1>1, <2>2, <2>3
<1>11. k \in 0..Len(log) \/ k = Len(log')
  <2> DEFINE n == Len(log)
  <2>1. k \in 0..(n + 1) /\ n \in Nat /\ Len(log') = n + 1
    BY <1>8
  <2> HIDE DEF n
  <2>2. k \in 0..n \/ k = n + 1
    BY <2>1
  <2> QED BY <2>1, <2>2 DEF n
<1> QED BY <1>9, <1>10, <1>11

\* Replay through every step: only Journal touches the records.
LEMMA ReplayNext ==
    ASSUME CoreInv, CoreInv', CounterInv, CounterInv', ReplayInv, [Next]_vars
    PROVE  ReplayInv'
<1>1. CASE \E c \in Callers : Journal(c)
  BY <1>1, ReplayJournal
<1>2. CASE ~\E c \in Callers : Journal(c)
  <2>1. UNCHANGED <<base, log, historyVars>>
    <3>1. CASE DropTable \/ UNCHANGED vars
      BY <3>1 DEF DropTable, vars, historyVars
    <3>2. ASSUME NEW c \in Callers, Begin(c) \/ Step(c) PROVE UNCHANGED <<base, log, historyVars>>
      <4>1. ~Journal(c)
        BY <1>2
      <4> QED BY <3>2, <4>1, Zenon
          DEF Step, Begin, Lock, Resolve, Reserve, BackOut, JournalFails, Release, Apply, Unlock
    <3> QED BY <3>1, <3>2 DEF Next
  <2>2. Journaled' = Journaled /\ base' = base /\ log' = log
        /\ grew' = grew /\ peaked' = peaked /\ wrapped' = wrapped
    BY <2>1 DEF Journaled, historyVars
  <2> QED BY <2>2 DEF ReplayInv
<1> QED BY <1>1, <1>2

\* Open succeeds on the store's own records, however many of them the mirror had
\* when the process stopped, unless one of three named things happened: an
\* ungated growth, a record that needs more on the way than in the end, a wrapped
\* envelope count.
THEOREM ReopenIsSafe == Spec => []ReopenFailsForACause
<1>1. Init => CoreInv /\ CounterInv /\ ReplayInv
  BY CoreInit, CounterInit, ReplayInit
<1>2. (CoreInv /\ CounterInv /\ ReplayInv) /\ [Next]_vars => (CoreInv /\ CounterInv /\ ReplayInv)'
  <2> SUFFICES ASSUME CoreInv, CounterInv, ReplayInv, [Next]_vars
               PROVE  CoreInv' /\ CounterInv' /\ ReplayInv'
    OBVIOUS
  <2>1. CoreInv'
    BY CoreNext
  <2>2. CounterInv'
    BY <2>1, CounterNext
  <2> QED BY <2>1, <2>2, ReplayNext
<1>3. CoreInv /\ CounterInv /\ ReplayInv => ReopenFailsForACause
  BY ReopenIs DEF ReplayInv, ReopenFailsForACause
<1> QED BY <1>1, <1>2, <1>3, PTL DEF Spec
=============================================================================
