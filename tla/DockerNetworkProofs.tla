------------------------ MODULE DockerNetworkProofs ------------------------
(***************************************************************************)
(* Proofs about DockerNetwork: its types, that no process of kind is left  *)
(* without a network and that one network is left, for any number of       *)
(* processes.                                                              *)
(***************************************************************************)
EXTENDS DockerNetwork, FiniteSetTheorems, SequenceTheorems, WellFoundedInduction, TLAPS

-----------------------------------------------------------------------------
(* Induction over the naturals, as the least counterexample.               *)
LEMMA Least ==
  ASSUME NEW T, T \subseteq Nat, T # {}
  PROVE  \E x \in T : \A y \in T : x <= y
<1> DEFINE R == OpToRel(<, Nat)
<1>1. IsWellFoundedOn(R, Nat)
  BY NatLessThanWellFounded
<1>2. \A x, y \in Nat : y < x => <<y, x>> \in R
  BY DEF OpToRel
<1> HIDE DEF R
<1>3. PICK x \in T : \A y \in T : ~(<<y, x>> \in R)
  BY <1>1, WFMin
<1>4. x \in Nat /\ \A y \in T : y \in Nat
  OBVIOUS
<1>5. \A y \in T : ~(y < x)
  BY <1>2, <1>3, <1>4
<1>6. \A y \in T : x <= y
  BY <1>4, <1>5
<1> QED
  BY <1>3, <1>6

LEMMA Greatest ==
  ASSUME NEW n \in Nat, NEW T, T \subseteq 1..n, T # {}
  PROVE  \E x \in T : \A y \in T : y <= x
<1> DEFINE D == {n - y : y \in T}
<1>1. D \subseteq Nat
  OBVIOUS
<1>a. D # {}
  <2>1. PICK y \in T : TRUE
    OBVIOUS
  <2>2. n - y \in D
    OBVIOUS
  <2> QED
    BY <2>2
<1> HIDE DEF D
<1>2. PICK d \in D : \A e \in D : d <= e
  BY <1>1, <1>a, Least
<1>3. PICK x \in T : d = n - x
  BY <1>2 DEF D
<1>4. \A y \in T : n - y \in D /\ y \in 1..n
  BY DEF D
<1>5. \A y \in T : y <= x
  BY <1>2, <1>3, <1>4
<1> QED
  BY <1>3, <1>5

-----------------------------------------------------------------------------
(* What InsertAt and RemoveAt make of a sequence, position by position.    *)
LEMMA InsertAtIs ==
  ASSUME NEW S, NEW t \in Seq(S), NEW x \in S, NEW i \in 1..(Len(t) + 1)
  PROVE  /\ InsertAt(t, i, x) \in Seq(S)
         /\ Len(InsertAt(t, i, x)) = Len(t) + 1
         /\ \A k \in 1..(Len(t) + 1) : InsertAt(t, i, x)[k] =
               IF k < i THEN t[k] ELSE IF k = i THEN x ELSE t[k - 1]
<1> DEFINE a == SubSeq(t, 1, i - 1)
           b == SubSeq(t, i, Len(t))
           c == <<x>>
<1>1. Len(t) \in Nat /\ i \in Nat
  OBVIOUS
<1>2. a \in Seq(S) /\ Len(a) = i - 1 /\ \A k \in 1..(i - 1) : a[k] = t[k]
  BY <1>1
<1>3. b \in Seq(S) /\ Len(b) = Len(t) + 1 - i
      /\ \A k \in 1..(Len(t) + 1 - i) : b[k] = t[i + k - 1]
  BY <1>1
<1>4. c \in Seq(S) /\ Len(c) = 1 /\ c[1] = x
  OBVIOUS
<1>5. InsertAt(t, i, x) = (a \o c) \o b
  BY DEF InsertAt
<1> HIDE DEF a, b, c
<1>6. a \o c \in Seq(S) /\ Len(a \o c) = i
      /\ \A k \in 1..i : (a \o c)[k] = IF k < i THEN a[k] ELSE x
  <2>1. /\ a \o c \in Seq(S) /\ Len(a \o c) = Len(a) + Len(c)
        /\ \A k \in 1..(Len(a) + Len(c)) : (a \o c)[k] =
              IF k <= Len(a) THEN a[k] ELSE c[k - Len(a)]
    BY <1>2, <1>4, ConcatProperties
  <2>2. Len(a) + Len(c) = i /\ Len(a) = i - 1
    BY <1>1, <1>2, <1>4
  <2>3. \A k \in 1..i : k <= i - 1 <=> k < i
    BY <1>1
  <2>4. i - (i - 1) = 1
    BY <1>1
  <2>5. \A k \in 1..i : ~(k < i) => k = i
    BY <1>1
  <2> QED
    BY <1>4, <2>1, <2>2, <2>3, <2>4, <2>5
<1> DEFINE ac == a \o c
<1>7. ac \in Seq(S) /\ Len(ac) = i /\ \A k \in 1..i : ac[k] = IF k < i THEN a[k] ELSE x
  BY <1>6
<1> HIDE DEF ac
<1>8. InsertAt(t, i, x) = ac \o b
  BY <1>5 DEF ac
<1>a. /\ ac \o b \in Seq(S) /\ Len(ac \o b) = Len(ac) + Len(b)
      /\ \A k \in 1..(Len(ac) + Len(b)) : (ac \o b)[k] =
            IF k <= Len(ac) THEN ac[k] ELSE b[k - Len(ac)]
  BY <1>3, <1>7, ConcatProperties
<1>b. Len(ac) + Len(b) = Len(t) + 1 /\ Len(ac) = i
  BY <1>1, <1>3, <1>7
<1>9. ac \o b \in Seq(S) /\ Len(ac \o b) = Len(t) + 1
  BY <1>a, <1>b
<1>10. ASSUME NEW k \in 1..(Len(t) + 1)
       PROVE  (ac \o b)[k] = IF k < i THEN t[k] ELSE IF k = i THEN x ELSE t[k - 1]
  <2>1. CASE k <= i
    <3>1. (ac \o b)[k] = ac[k]
      BY <1>a, <1>b, <2>1
    <3>2. k \in 1..i
      BY <1>1, <2>1
    <3>3. k < i => k \in 1..(i - 1)
      BY <1>1
    <3>4. ~(k < i) => k = i
      BY <1>1, <2>1
    <3> QED
      BY <1>2, <1>7, <3>1, <3>2, <3>3, <3>4
  <2>2. CASE k > i
    <3>1. (ac \o b)[k] = b[k - i]
      <4>1. ~(k <= i)
        BY <1>1, <2>2
      <4> QED
        BY <1>a, <1>b, <4>1
    <3>2. k - i \in 1..(Len(t) + 1 - i) /\ i + (k - i) - 1 = k - 1
      BY <1>1, <2>2
    <3> QED
      BY <1>1, <1>3, <2>2, <3>1, <3>2
  <2>3. k <= i \/ k > i
    BY <1>1
  <2> QED
    BY <2>1, <2>2, <2>3
<1> QED
  BY <1>8, <1>9, <1>10

LEMMA RemoveSecond ==
  ASSUME NEW S, NEW t \in Seq(S), Len(t) >= 2
  PROVE  /\ RemoveAt(t, 2) \in Seq(S)
         /\ Len(RemoveAt(t, 2)) = Len(t) - 1
         /\ RemoveAt(t, 2)[1] = t[1]
         /\ \A k \in 2..(Len(t) - 1) : RemoveAt(t, 2)[k] = t[k + 1]
<1> DEFINE a == SubSeq(t, 1, 1)
           b == SubSeq(t, 3, Len(t))
<1>1. Len(t) \in Nat
  OBVIOUS
<1>2. a \in Seq(S) /\ Len(a) = 1 /\ a[1] = t[1]
  BY <1>1
<1>3. b \in Seq(S) /\ Len(b) = Len(t) - 2
      /\ \A k \in 1..(Len(t) - 2) : b[k] = t[k + 2]
  <2>1. 3 \in Int /\ Len(t) \in Int /\ \A k \in 3..Len(t) : t[k] \in S
    BY <1>1
  <2>2. /\ b \in Seq(S)
        /\ Len(b) = IF 3 <= Len(t) THEN Len(t) - 3 + 1 ELSE 0
        /\ \A k \in 1..(Len(t) - 3 + 1) : b[k] = t[3 + k - 1]
    BY <2>1, SubSeqProperties
  <2> HIDE DEF b
  <2>3. Len(t) - 3 + 1 = Len(t) - 2
    BY <1>1
  <2>5. Len(b) = Len(t) - 2
    <3>1. CASE 3 <= Len(t)
      BY <2>2, <2>3, <3>1
    <3>2. CASE ~(3 <= Len(t))
      <4>0. \A n \in Nat : n >= 2 /\ ~(3 <= n) => n - 2 = 0
        OBVIOUS
      <4>1. Len(t) - 2 = 0
        BY <1>1, <3>2, <4>0
      <4> QED
        BY <2>2, <3>2, <4>1
    <3> QED
      BY <3>1, <3>2
  <2>4. \A k \in 1..(Len(t) - 2) : 3 + k - 1 = k + 2
    BY <1>1
  <2> QED
    BY <2>2, <2>3, <2>4, <2>5
<1>4. RemoveAt(t, 2) = a \o b
  BY DEF RemoveAt
<1> HIDE DEF a, b
<1>a. /\ a \o b \in Seq(S) /\ Len(a \o b) = Len(a) + Len(b)
      /\ \A k \in 1..(Len(a) + Len(b)) : (a \o b)[k] =
            IF k <= Len(a) THEN a[k] ELSE b[k - Len(a)]
  BY <1>2, <1>3, ConcatProperties
<1>b. Len(a) = 1 /\ Len(a) + Len(b) = Len(t) - 1
  BY <1>1, <1>2, <1>3
<1>c. 1 \in 1..(Len(t) - 1) /\ 1 <= 1
  BY <1>1
<1>5. a \o b \in Seq(S) /\ Len(a \o b) = Len(t) - 1 /\ (a \o b)[1] = t[1]
  BY <1>a, <1>b, <1>c, <1>2
<1>6. ASSUME NEW k \in 2..(Len(t) - 1)
      PROVE  (a \o b)[k] = t[k + 1]
  <2>1. k \in 1..(Len(t) - 1) /\ ~(k <= 1) /\ k - 1 \in 1..(Len(t) - 2) /\ (k - 1) + 2 = k + 1
    BY <1>1
  <2>2. (a \o b)[k] = b[k - 1]
    BY <1>a, <1>b, <2>1
  <2> QED
    BY <1>3, <2>1, <2>2
<1> QED
  BY <1>4, <1>5, <1>6

-----------------------------------------------------------------------------
(* InsertSorted puts an entry after the last one it is not Less than.      *)
LEMMA InsertSortedIs ==
  ASSUME NEW S, NEW t \in Seq(S), NEW x \in S
  PROVE  \E i \in 1..(Len(t) + 1) :
            /\ InsertSorted(t, x) = InsertAt(t, i, x)
            /\ i > 1 => ~Less(x, t[i - 1])
            /\ \A k \in i..Len(t) : Less(x, t[k])
<1> DEFINE stops == {k \in DOMAIN t : ~Less(x, t[k])}
           last  == IF stops = {} THEN 0 ELSE CHOOSE k \in stops : \A j \in stops : j <= k
<1>1. Len(t) \in Nat /\ DOMAIN t = 1..Len(t)
  OBVIOUS
<1>2. InsertSorted(t, x) = InsertAt(t, last + 1, x)
  BY DEF InsertSorted
<1>3. CASE stops = {}
  <2>1. last = 0
    BY <1>3
  <2>2. \A k \in 1..Len(t) : Less(x, t[k])
    BY <1>1, <1>3
  <2> HIDE DEF last
  <2>3. 1 \in 1..(Len(t) + 1) /\ InsertSorted(t, x) = InsertAt(t, 1, x)
    <3>1. last + 1 = 1
      BY <2>1
    <3> QED
      BY <1>1, <1>2, <3>1
  <2> QED
    BY <2>2, <2>3
<1>4. CASE stops # {}
  <2>1. stops \subseteq 1..Len(t)
    BY <1>1
  <2>2. \E k \in stops : \A j \in stops : j <= k
    <3> HIDE DEF stops
    <3> QED
      BY <1>1, <1>4, <2>1, Greatest
  <2>3. last \in stops /\ \A j \in stops : j <= last
    BY <1>4, <2>2
  <2>4. last \in 1..Len(t) /\ ~Less(x, t[last])
    BY <2>1, <2>3
  <2>5. \A k \in (last + 1)..Len(t) : Less(x, t[k])
    <3> SUFFICES ASSUME NEW k \in (last + 1)..Len(t), ~Less(x, t[k])
                 PROVE  FALSE
      OBVIOUS
    <3> HIDE DEF last
    <3>1. k \in 1..Len(t) /\ ~(k <= last)
      BY <1>1, <2>4
    <3>2. k \in stops
      BY <1>1, <3>1
    <3> QED
      BY <2>3, <3>1, <3>2
  <2> HIDE DEF last
  <2>6. last + 1 \in 1..(Len(t) + 1) /\ (last + 1) - 1 = last
    BY <1>1, <2>4
  <2> QED
    BY <1>2, <2>4, <2>5, <2>6
<1> QED
  BY <1>3, <1>4

-----------------------------------------------------------------------------
(* The recursive function of SortNetworkInspectEntries exists.             *)
IsSort(f, s, n) ==
    f = [k \in 0..n |-> IF k = 0 THEN <<>> ELSE InsertSorted(f[k - 1], s[k])]

LEMMA SortExists ==
  ASSUME NEW s, NEW n \in Nat
  PROVE  \E f : IsSort(f, s, n)
<1> DEFINE T == {m \in Nat : ~\E f : IsSort(f, s, m)}
<1> SUFFICES T = {}
  OBVIOUS
<1> SUFFICES ASSUME T # {} PROVE FALSE
  OBVIOUS
<1>1. PICK m \in T : \A y \in T : m <= y
  <2>1. T \subseteq Nat
    OBVIOUS
  <2> HIDE DEF T
  <2> QED
    BY <2>1, Least
<1>2. m \in Nat /\ ~\E f : IsSort(f, s, m)
  OBVIOUS
<1>3. CASE m = 0
  <2> DEFINE f == [k \in 0..0 |-> <<>>]
  <2>1. IsSort(f, s, 0)
    BY DEF IsSort
  <2> QED
    BY <1>2, <1>3, <2>1
<1>4. CASE m # 0
  <2>1. m - 1 \in Nat /\ ~(m <= m - 1)
    BY <1>2, <1>4
  <2>2. m - 1 \notin T
    BY <1>1, <2>1
  <2>3. PICK f : IsSort(f, s, m - 1)
    BY <2>1, <2>2
  <2> DEFINE g == [k \in 0..m |-> IF k = m THEN InsertSorted(f[m - 1], s[m]) ELSE f[k]]
  <2>4. \A k \in 0..(m - 1) :
           f[k] = IF k = 0 THEN <<>> ELSE InsertSorted(f[k - 1], s[k])
    BY <2>3 DEF IsSort
  <2>5. ASSUME NEW k \in 0..m
        PROVE  g[k] = IF k = 0 THEN <<>> ELSE InsertSorted(g[k - 1], s[k])
    <3>1. CASE k = m
      <4>1. m - 1 \in 0..m /\ m - 1 # m
        BY <1>2, <1>4
      <4>2. g[m - 1] = f[m - 1]
        BY <4>1
      <4> QED
        BY <1>4, <3>1, <4>2
    <3>2. CASE k # m
      <4>1. k \in 0..(m - 1) /\ (k # 0 => k - 1 \in 0..m /\ k - 1 # m)
        BY <1>2, <3>2
      <4>2. g[k] = f[k] /\ (k # 0 => g[k - 1] = f[k - 1])
        BY <3>2, <4>1
      <4> QED
        BY <2>4, <4>1, <4>2
    <3> QED
      BY <3>1, <3>2
  <2>6. g = [k \in 0..m |-> g[k]]
    OBVIOUS
  <2> HIDE DEF g
  <2>7. IsSort(g, s, m)
    BY <2>5, <2>6 DEF IsSort
  <2> QED
    BY <1>2, <2>7
<1> QED
  BY <1>3, <1>4

LEMMA SortUnfolds ==
  ASSUME NEW S, NEW s \in Seq(S)
  PROVE  \E f : IsSort(f, s, Len(s)) /\ SortNetworkInspectEntries(s) = f[Len(s)]
<1> DEFINE f == CHOOSE f : IsSort(f, s, Len(s))
<1>1. IsSort(f, s, Len(s))
  <2>1. Len(s) \in Nat
    OBVIOUS
  <2>2. \E g : IsSort(g, s, Len(s))
    BY <2>1, SortExists
  <2> QED
    BY <2>2
<1>2. SortNetworkInspectEntries(s) = f[Len(s)]
  BY DEF SortNetworkInspectEntries, IsSort
<1> QED
  BY <1>1, <1>2

(* What it returns: the same entries, in the order of their ids when no    *)
(* container is attached to any of them.                                   *)
Increasing(t) == \A i, j \in 1..Len(t) : i < j => t[i].id < t[j].id

LEMMA InsertSortedKeeps ==
  ASSUME NEW t \in Seq(Net), NEW x \in Net
  PROVE  /\ InsertSorted(t, x) \in Seq(Net)
         /\ Len(InsertSorted(t, x)) = Len(t) + 1
         /\ \A k \in 1..(Len(t) + 1) : \/ InsertSorted(t, x)[k] = x
                                       \/ \E i \in 1..Len(t) : InsertSorted(t, x)[k] = t[i]
         /\ \E k \in 1..(Len(t) + 1) : InsertSorted(t, x)[k] = x
         /\ \A i \in 1..Len(t) : \E k \in 1..(Len(t) + 1) : InsertSorted(t, x)[k] = t[i]
         /\ (/\ Increasing(t) /\ x.n = 0
             /\ \A i \in 1..Len(t) : t[i].n = 0 /\ t[i].id # x.id) =>
               Increasing(InsertSorted(t, x))
<1>1. PICK i \in 1..(Len(t) + 1) :
            /\ InsertSorted(t, x) = InsertAt(t, i, x)
            /\ i > 1 => ~Less(x, t[i - 1])
            /\ \A k \in i..Len(t) : Less(x, t[k])
  BY InsertSortedIs
<1> DEFINE r == InsertSorted(t, x)
<1>2. /\ r \in Seq(Net) /\ Len(r) = Len(t) + 1
      /\ \A k \in 1..(Len(t) + 1) :
            r[k] = IF k < i THEN t[k] ELSE IF k = i THEN x ELSE t[k - 1]
  <2>1. r = InsertAt(t, i, x)
    BY <1>1
  <2> HIDE DEF r
  <2> QED
    BY <2>1, InsertAtIs
<1>3. Len(t) \in Nat
  OBVIOUS
<1> HIDE DEF r
<1>4. \A k \in 1..(Len(t) + 1) : r[k] = x \/ \E j \in 1..Len(t) : r[k] = t[j]
  <2> SUFFICES ASSUME NEW k \in 1..(Len(t) + 1), k # i
               PROVE  \E j \in 1..Len(t) : r[k] = t[j]
    BY <1>2
  <2>1. CASE k < i
    <3>1. k \in 1..Len(t) /\ r[k] = t[k]
      BY <1>2, <1>3, <2>1
    <3> QED
      BY <3>1
  <2>2. CASE ~(k < i)
    <3>1. k - 1 \in 1..Len(t) /\ r[k] = t[k - 1]
      BY <1>2, <1>3, <2>2
    <3> QED
      BY <3>1
  <2> QED
    BY <2>1, <2>2
<1>5. r[i] = x
  BY <1>2, <1>3
<1>6. ASSUME NEW j \in 1..Len(t)
      PROVE  \E k \in 1..(Len(t) + 1) : r[k] = t[j]
  <2>1. CASE j < i
    <3>1. j \in 1..(Len(t) + 1) /\ r[j] = t[j]
      BY <1>2, <1>3, <2>1
    <3> QED
      BY <3>1
  <2>2. CASE ~(j < i)
    <3>1. j + 1 \in 1..(Len(t) + 1) /\ ~(j + 1 < i) /\ j + 1 # i /\ (j + 1) - 1 = j
      BY <1>3, <2>2
    <3>2. r[j + 1] = t[j]
      BY <1>2, <3>1
    <3> QED
      BY <3>1, <3>2
  <2> QED
    BY <2>1, <2>2
<1>7. ASSUME Increasing(t), x.n = 0, \A k \in 1..Len(t) : t[k].n = 0 /\ t[k].id # x.id
      PROVE  Increasing(r)
  <2>1. \A k \in 1..Len(t) : t[k].id \in Nat /\ (Less(x, t[k]) <=> x.id < t[k].id)
    <3>1. \A k \in 1..Len(t) : t[k] \in Net
      OBVIOUS
    <3>2. \A y \in Net : y.id \in Nat
      BY DEF Net, Id
    <3> QED
      BY <1>7, <3>1, <3>2 DEF Less
  <2>2. x.id \in Nat
    BY DEF Net, Id
  <2>3. ASSUME NEW k \in 1..Len(t), k < i
        PROVE  t[k].id < x.id
    <3>1. i - 1 \in 1..Len(t) /\ i > 1 /\ k <= i - 1
      BY <1>3, <2>3
    <3>2. t[i - 1].id < x.id
      BY <1>1, <1>7, <2>1, <2>2, <3>1
    <3>3. k = i - 1 \/ t[k].id < t[i - 1].id
      BY <1>3, <1>7, <3>1 DEF Increasing
    <3> QED
      BY <2>1, <2>2, <3>1, <3>2, <3>3
  <2>4. ASSUME NEW k \in 1..Len(t), ~(k < i)
        PROVE  x.id < t[k].id
    BY <1>1, <1>3, <2>1, <2>4
  <2>5. ASSUME NEW j \in 1..(Len(t) + 1), NEW k \in 1..(Len(t) + 1), j < k
        PROVE  r[j].id < r[k].id
    <3>1. CASE k < i
      <4>1. r[j] = t[j] /\ r[k] = t[k] /\ j \in 1..Len(t) /\ k \in 1..Len(t)
        BY <1>2, <1>3, <2>5, <3>1
      <4> QED
        BY <1>7, <2>5, <4>1 DEF Increasing
    <3>2. CASE k = i
      <4>1. r[j] = t[j] /\ r[k] = x /\ j \in 1..Len(t) /\ j < i
        BY <1>2, <1>3, <2>5, <3>2
      <4> QED
        BY <2>3, <4>1
    <3>3. CASE k > i
      <4>1. r[k] = t[k - 1] /\ k - 1 \in 1..Len(t) /\ ~(k - 1 < i)
        BY <1>2, <1>3, <3>3
      <4>2. x.id < t[k - 1].id
        BY <2>4, <4>1
      <4>3. CASE j < i
        <5>1. r[j] = t[j] /\ j \in 1..Len(t) /\ j < k - 1
          BY <1>2, <1>3, <3>3, <4>3
        <5> QED
          BY <1>7, <4>1, <5>1 DEF Increasing
      <4>4. CASE j = i
        BY <1>5, <4>1, <4>2, <4>4
      <4>5. CASE j > i
        <5>1. r[j] = t[j - 1] /\ j - 1 \in 1..Len(t) /\ j - 1 < k - 1
          BY <1>2, <1>3, <2>5, <4>5
        <5> QED
          BY <1>7, <4>1, <5>1 DEF Increasing
      <4> QED
        BY <4>3, <4>4, <4>5
    <3> QED
      BY <3>1, <3>2, <3>3
  <2> QED
    BY <1>2, <2>5 DEF Increasing
<1> QED
  BY <1>2, <1>4, <1>5, <1>6, <1>7 DEF r

LEMMA SortKeeps ==
  ASSUME NEW s \in Seq(Net)
  PROVE  LET r == SortNetworkInspectEntries(s)
         IN  /\ r \in Seq(Net) /\ Len(r) = Len(s)
             /\ \A k \in 1..Len(s) : \E i \in 1..Len(s) : r[k] = s[i]
             /\ \A i \in 1..Len(s) : \E k \in 1..Len(s) : r[k] = s[i]
             /\ (/\ \A i \in 1..Len(s) : s[i].n = 0
                 /\ \A i, j \in 1..Len(s) : i # j => s[i].id # s[j].id) => Increasing(r)
<1>1. PICK f : IsSort(f, s, Len(s)) /\ SortNetworkInspectEntries(s) = f[Len(s)]
  BY SortUnfolds
<1> DEFINE Distinct == /\ \A i \in 1..Len(s) : s[i].n = 0
                       /\ \A i, j \in 1..Len(s) : i # j => s[i].id # s[j].id
           P(m) == /\ f[m] \in Seq(Net) /\ Len(f[m]) = m
                   /\ \A k \in 1..m : \E i \in 1..m : f[m][k] = s[i]
                   /\ \A i \in 1..m : \E k \in 1..m : f[m][k] = s[i]
                   /\ Distinct => Increasing(f[m])
           T == {m \in 0..Len(s) : ~P(m)}
<1>2. Len(s) \in Nat
  OBVIOUS
<1>3. /\ f[0] = <<>>
      /\ \A m \in 1..Len(s) : f[m] = InsertSorted(f[m - 1], s[m])
  <2>1. \A m \in 0..Len(s) : f[m] = IF m = 0 THEN <<>> ELSE InsertSorted(f[m - 1], s[m])
    BY <1>1 DEF IsSort
  <2> QED
    BY <1>2, <2>1
<1>4. ASSUME NEW m \in 1..Len(s), P(m - 1)
      PROVE  P(m)
  <2> DEFINE t == f[m - 1]
             r == f[m]
             x == s[m]
  <2>1. t \in Seq(Net) /\ Len(t) = m - 1 /\ x \in Net /\ r = InsertSorted(t, x)
    BY <1>3, <1>4
  <2>2. /\ \A k \in 1..(m - 1) : \E i \in 1..(m - 1) : t[k] = s[i]
        /\ \A i \in 1..(m - 1) : \E k \in 1..(m - 1) : t[k] = s[i]
        /\ Distinct => Increasing(t)
    BY <1>4
  <2> HIDE DEF t, r, x, Distinct
  <2>3. /\ m \in Nat /\ (m - 1) + 1 = m /\ m \in 1..m
        /\ \A i \in 1..m : i = m \/ i \in 1..(m - 1)
        /\ \A i \in 1..(m - 1) : i \in 1..m /\ i # m
    BY <1>2
  <2>4. /\ r \in Seq(Net) /\ Len(r) = m
        /\ \A k \in 1..m : r[k] = x \/ \E i \in 1..(m - 1) : r[k] = t[i]
        /\ \E k \in 1..m : r[k] = x
        /\ \A i \in 1..(m - 1) : \E k \in 1..m : r[k] = t[i]
        /\ (/\ Increasing(t) /\ x.n = 0
            /\ \A i \in 1..(m - 1) : t[i].n = 0 /\ t[i].id # x.id) => Increasing(r)
    <3> DEFINE q == InsertSorted(t, x)
    <3>1. /\ q \in Seq(Net) /\ Len(q) = Len(t) + 1
          /\ \A k \in 1..(Len(t) + 1) : q[k] = x \/ \E i \in 1..Len(t) : q[k] = t[i]
          /\ \E k \in 1..(Len(t) + 1) : q[k] = x
          /\ \A i \in 1..Len(t) : \E k \in 1..(Len(t) + 1) : q[k] = t[i]
          /\ (/\ Increasing(t) /\ x.n = 0
              /\ \A i \in 1..Len(t) : t[i].n = 0 /\ t[i].id # x.id) => Increasing(q)
      BY <2>1, InsertSortedKeeps
    <3>2. q = r /\ Len(t) = m - 1 /\ Len(t) + 1 = m
      BY <2>1, <2>3
    <3> HIDE DEF q
    <3> QED
      BY <3>1, <3>2
  <2>5. \A k \in 1..m : \E i \in 1..m : r[k] = s[i]
    <3> TAKE k \in 1..m
    <3>1. CASE r[k] = x
      BY <2>3, <3>1 DEF x
    <3>2. CASE \E i \in 1..(m - 1) : r[k] = t[i]
      BY <2>2, <2>3, <3>2
    <3> QED
      BY <2>4, <3>1, <3>2
  <2>6. \A i \in 1..m : \E k \in 1..m : r[k] = s[i]
    <3> TAKE i \in 1..m
    <3>1. CASE i = m
      BY <2>4, <3>1 DEF x
    <3>2. CASE i \in 1..(m - 1)
      <4>1. PICK k \in 1..(m - 1) : t[k] = s[i]
        BY <2>2, <3>2
      <4> QED
        BY <2>4, <4>1
    <3> QED
      BY <2>3, <3>1, <3>2
  <2>7. ASSUME Distinct
        PROVE  Increasing(r)
    <3>1. x.n = 0
      BY <2>7 DEF Distinct, x
    <3>2. ASSUME NEW k \in 1..(m - 1)
          PROVE  t[k].n = 0 /\ t[k].id # x.id
      <4>1. PICK i \in 1..(m - 1) : t[k] = s[i]
        BY <2>2
      <4>2. i \in 1..Len(s) /\ i # m
        BY <1>2
      <4> QED
        BY <2>7, <4>1, <4>2 DEF Distinct, x
    <3> QED
      BY <2>2, <2>4, <2>7, <3>1, <3>2
  <2> QED
    BY <2>4, <2>5, <2>6, <2>7 DEF r
<1>5. P(0)
  BY <1>3 DEF Increasing
<1>6. T = {}
  <2> SUFFICES ASSUME T # {} PROVE FALSE
    OBVIOUS
  <2> HIDE DEF P
  <2>1. T \subseteq Nat
    BY <1>2
  <2>2. PICK m \in T : \A y \in T : m <= y
    <3> HIDE DEF T
    <3> QED
      BY <2>1, Least
  <2>3. m \in 0..Len(s) /\ ~P(m) /\ m # 0
    BY <1>5
  <2>4. m \in 1..Len(s) /\ m - 1 \in 0..Len(s) /\ ~(m <= m - 1)
    BY <1>2, <2>3
  <2>5. P(m - 1)
    BY <2>2, <2>4
  <2> QED
    BY <1>4, <2>3, <2>4, <2>5
<1>7. P(Len(s))
  <2> HIDE DEF P
  <2>1. Len(s) \in 0..Len(s)
    BY <1>2
  <2> QED
    BY <1>6, <2>1
<1> QED
  BY <1>1, <1>7

-----------------------------------------------------------------------------
(* Docker lists a finite set of networks, each of them once.               *)
LEMMA SeqsOfSet ==
  ASSUME NEW S, IsFiniteSet(S), NEW s \in SetToSeqs(S)
  PROVE  /\ s \in Seq(S) /\ Len(s) = Cardinality(S)
         /\ \A i, j \in 1..Len(s) : i # j => s[i] # s[j]
         /\ \A x \in S : \E i \in 1..Len(s) : s[i] = x
<1> DEFINE D == 1..Cardinality(S)
<1>1. Cardinality(S) \in Nat
  BY FS_CardinalityType
<1>2. s \in [D -> S] /\ \A i, j \in D : i # j => s[i] # s[j]
  BY DEF SetToSeqs
<1>3. s \in Seq(S) /\ Len(s) = Cardinality(S)
  BY <1>1, <1>2
<1>4. Cardinality(D) = Cardinality(S)
  <2>1. /\ Cardinality(D) = IF 1 > Cardinality(S) THEN 0 ELSE Cardinality(S) - 1 + 1
    BY <1>1, FS_Interval
  <2>2. \A n \in Nat : (IF 1 > n THEN 0 ELSE n - 1 + 1) = n
    OBVIOUS
  <2> QED
    BY <1>1, <2>1, <2>2
<1> HIDE DEF D
<1>5. s \in Injection(D, S)
  BY <1>2 DEF Injection, IsInjective
<1>6. s \in Surjection(D, S)
  BY <1>4, <1>5, FS_Injection
<1>7. \A x \in S : \E i \in D : s[i] = x
  BY <1>6 DEF Surjection
<1> QED
  BY <1>2, <1>3, <1>7 DEF D

LEMMA IdIsFinite == IsFiniteSet(Id) /\ Cardinality(Id) \in Nat
<1>1. Cardinality(Proc) \in Nat
  BY ProcAssumption, FS_CardinalityType
<1>2. IsFiniteSet(Id)
  BY <1>1, FS_Interval DEF Id
<1> QED
  BY <1>2, FS_CardinalityType

-----------------------------------------------------------------------------
(***************************************************************************)
(* The inductive invariant.  An id is given out once, and no network has   *)
(* more containers than were attached.                                     *)
(***************************************************************************)
Types ==
    /\ nets \in SUBSET Net
    /\ used \in SUBSET Id
    /\ taken \in SUBSET Subnet
    /\ ipv6 \in BOOLEAN
    /\ pc \in [Proc -> Labels]
    /\ from \in [Proc -> {"start", "created"}]
    /\ attempt \in [Proc -> Subnet]
    /\ auto \in [Proc -> BOOLEAN]
    /\ ids \in [Proc -> SUBSET Id]
    /\ sorted \in [Proc -> Seq(Net)]
    /\ attached \in 0..MaxContainers /\ released \in 0..MaxReleases

Lengths ==
    \A p \in Proc : /\ Len(sorted[p]) <= Cardinality(Id)
                    /\ pc[p] = "rm" => Len(sorted[p]) >= 2

Ids ==
    /\ \A x, y \in nets : x.id = y.id => x = y
    /\ \A x \in nets : x.id \in used /\ x.n <= attached

(* A process that got past its first look has seen a network created.      *)
Created == \A p \in Proc : pc[p] \in {"ok", "rm"} \/ from[p] = "created" => used # {}

(* Before the first container: a network that was created leaves one       *)
(* behind; what a process is about to remove has a smaller one beside it;  *)
(* of two networks some process has yet to remove the greater.             *)
Left == attached = 0 /\ used # {} => nets # {}

Smaller ==
    attached = 0 => \A p \in Proc : pc[p] = "rm" =>
        \A k \in 2..Len(sorted[p]) : \E x \in nets : x.id < sorted[p][k].id

Responsible(p, x, y) ==
    \/ pc[p] = "err"
    \/ pc[p] = "list" /\ from[p] = "created"
    \/ pc[p] = "inspect" /\ x.id \in ids[p] /\ y.id \in ids[p]
    \/ pc[p] = "rm" /\ \E k \in 2..Len(sorted[p]) : sorted[p][k].id = y.id

Covered ==
    attached = 0 =>
        \A x, y \in nets : x.id < y.id => \E p \in Proc : Responsible(p, x, y)

IInv == Types /\ Lengths /\ Ids /\ Created /\ Left /\ Smaller /\ Covered

LEMMA NetFields ==
  ASSUME NEW x \in Net
  PROVE  x.id \in Nat /\ x.id \in Id /\ x.n \in Nat
BY BoundsAssumption DEF Net, Id

(* Networks have different ids, so there are no more than there are ids.   *)
LEMMA NetsAreFinite ==
  ASSUME Types, Ids
  PROVE  IsFiniteSet(nets) /\ Cardinality(nets) \in Nat /\ Cardinality(nets) <= Cardinality(Id)
<1> DEFINE f == [x \in nets |-> x.id]
<1>1. \A x \in nets : x.id \in Id
  BY NetFields DEF Types
<1>2. f \in Injection(nets, Id)
  BY <1>1 DEF Ids, Injection, IsInjective
<1>3. IsFiniteSet(nets) /\ Cardinality(nets) <= Cardinality(Id)
  BY <1>2, IdIsFinite, FS_Injection
<1> QED
  BY <1>3, FS_CardinalityType

(* Fewer than two networks are none or one.                                *)
LEMMA FewerThanTwo ==
  ASSUME NEW S, IsFiniteSet(S)
  PROVE  Cardinality(S) < 2 <=> \A x, y \in S : x = y
<1>1. Cardinality(S) \in Nat
  BY FS_CardinalityType
<1>2. ASSUME Cardinality(S) < 2
      PROVE  \A x, y \in S : x = y
  <2>1. Cardinality(S) = 0 \/ Cardinality(S) = 1
    BY <1>1, <1>2
  <2>2. S = {} \/ \E x : S = {x}
    BY <2>1, FS_EmptySet, FS_Singleton
  <2> QED
    BY <2>2
<1>3. ASSUME \A x, y \in S : x = y
      PROVE  Cardinality(S) < 2
  <2>1. S = {} \/ \E x : S = {x}
    BY <1>3
  <2>2. Cardinality(S) = 0 \/ Cardinality(S) = 1
    BY <2>1, FS_EmptySet, FS_Singleton
  <2> QED
    BY <2>2
<1> QED
  BY <1>2, <1>3

LEMMA InitInv == Init => IInv
<1> SUFFICES ASSUME Init PROVE IInv
  OBVIOUS
<1>1. Types
  <2>1. <<>> \in Seq(Net) /\ 0 \in Subnet /\ "list" \in Labels
    BY DEF Subnet, MaxAttempts, Labels
  <2>2. taken \in SUBSET Subnet
    BY OthersAssumption DEF Init
  <2> QED
    BY <2>1, <2>2, BoundsAssumption DEF Init, Types
<1>2. Lengths
  BY IdIsFinite DEF Init, Lengths
<1>3. Ids /\ Created /\ Left /\ Smaller /\ Covered
  BY DEF Init, Ids, Created, Left, Smaller, Covered
<1> QED
  BY <1>1, <1>2, <1>3 DEF IInv

-----------------------------------------------------------------------------
(* A step of one process that changes neither the networks nor what the    *)
(* processes have sorted, and does not drop what it is responsible for.    *)
LEMMA Moves ==
  ASSUME IInv, Types', NEW p \in Proc,
         UNCHANGED <<nets, used, attached, sorted>>,
         \A q \in Proc \ {p} : pc'[q] = pc[q] /\ from'[q] = from[q] /\ ids'[q] = ids[q],
         pc'[p] # "rm",
         pc'[p] = "ok" \/ from'[p] = "created" => used # {},
         attached = 0 => \A x, y \in nets :
            x.id < y.id /\ Responsible(p, x, y) => Responsible(p, x, y)'
  PROVE  IInv'
<1>1. Lengths' /\ Ids' /\ Left'
  BY DEF IInv, Lengths, Ids, Left
<1>2. Created'
  <2> SUFFICES ASSUME NEW q \in Proc, pc'[q] \in {"ok", "rm"} \/ from'[q] = "created"
               PROVE  used # {}
    BY DEF Created
  <2>1. CASE q = p
    BY <2>1
  <2>2. CASE q # p
    BY <2>2 DEF IInv, Created
  <2> QED
    BY <2>1, <2>2
<1>3. Smaller'
  BY DEF IInv, Smaller
<1>4. Covered'
  <2> SUFFICES ASSUME attached = 0, NEW x \in nets, NEW y \in nets, x.id < y.id
               PROVE  \E q \in Proc : Responsible(q, x, y)'
    BY DEF Covered
  <2>1. PICK q \in Proc : Responsible(q, x, y)
    BY DEF IInv, Covered
  <2>2. CASE q = p
    BY <2>1, <2>2
  <2>3. CASE q # p
    <3>1. Responsible(q, x, y)'
      BY <2>1, <2>3 DEF Responsible
    <3> QED
      BY <3>1
  <2> QED
    BY <2>2, <2>3
<1> QED
  BY <1>1, <1>2, <1>3, <1>4 DEF IInv

LEMMA NetworksWithNameInv ==
  ASSUME IInv, NEW p \in Proc, NetworksWithName(p)
  PROVE  IInv'
<1>1. Types /\ Ids
  BY DEF IInv
<1>2. IsFiniteSet(nets) /\ \A x \in nets : x.id \in Id
  BY <1>1, NetsAreFinite, NetFields DEF Types
<1>3. UNCHANGED <<nets, used, attached, sorted, from, taken, ipv6, attempt, auto, released>>
  BY DEF NetworksWithName, docker
<1>4. nets # {} => used # {}
  BY <1>1 DEF Ids
<1>5. CASE Cardinality(nets) < 2
  <2>1. \A x, y \in nets : ~(x.id < y.id)
    <3>1. \A x \in nets : x.id \in Nat
      BY <1>1, NetFields DEF Types
    <3> QED
      BY <1>2, <1>5, <3>1, FewerThanTwo
  <2>2. pc' = [pc EXCEPT ![p] = IF from[p] = "start" /\ ~(nets # {}) THEN "create" ELSE "ok"]
        /\ ids' = ids
    BY <1>5 DEF NetworksWithName, RemoveReturns, Goto
  <2>3. pc' \in [Proc -> Labels]
    BY <1>1, <2>2 DEF Types, Labels
  <2>4. Types'
    BY <1>1, <1>3, <2>2, <2>3 DEF Types
  <2>5. pc'[p] # "rm" /\ (pc'[p] = "ok" => from[p] # "start" \/ nets # {})
    BY <1>1, <2>2 DEF Types
  <2>6. from[p] = "start" \/ from[p] = "created"
    BY <1>1 DEF Types
  <2>7. pc'[p] = "ok" \/ from'[p] = "created" => used # {}
    BY <1>3, <1>4, <2>5, <2>6 DEF IInv, Created
  <2>8. \A q \in Proc \ {p} : pc'[q] = pc[q] /\ from'[q] = from[q] /\ ids'[q] = ids[q]
    BY <1>1, <1>3, <2>2 DEF Types
  <2> QED
    BY <1>3, <2>1, <2>4, <2>5, <2>7, <2>8, Moves
<1>6. CASE ~(Cardinality(nets) < 2)
  <2>1. pc' = [pc EXCEPT ![p] = "inspect"] /\ ids' = [ids EXCEPT ![p] = {x.id : x \in nets}]
    BY <1>6 DEF NetworksWithName, Goto
  <2>2. Types'
    <3>1. pc' \in [Proc -> Labels] /\ ids' \in [Proc -> SUBSET Id]
      BY <1>1, <1>2, <2>1 DEF Types, Labels
    <3> QED
      BY <1>1, <1>3, <3>1 DEF Types
  <2>3. pc'[p] = "inspect" /\ ids'[p] = {x.id : x \in nets}
    BY <1>1, <2>1 DEF Types
  <2>4. \A x, y \in nets : Responsible(p, x, y)'
    <3> TAKE x, y \in nets
    <3>1. x.id \in ids'[p] /\ y.id \in ids'[p]
      BY <2>3
    <3>2. x' = x /\ y' = y
      OBVIOUS
    <3> QED
      BY <2>3, <3>1 DEF Responsible
  <2>5. \A q \in Proc \ {p} : pc'[q] = pc[q] /\ from'[q] = from[q] /\ ids'[q] = ids[q]
    BY <1>1, <1>3, <2>1 DEF Types
  <2>6. pc'[p] = "ok" \/ from'[p] = "created" => used # {}
    BY <1>3, <2>3 DEF IInv, Created
  <2> QED
    BY <1>3, <2>2, <2>3, <2>4, <2>5, <2>6, Moves
<1> QED
  BY <1>5, <1>6

LEMMA CreateNetworkInv ==
  ASSUME IInv, NEW p \in Proc, CreateNetwork(p)
  PROVE  IInv'
<1>1. Types /\ Ids
  BY DEF IInv
<1>2. UNCHANGED <<nets, used, attached, sorted, taken, ipv6, attempt, auto, ids, released>>
      /\ pc[p] = "create"
  BY DEF CreateNetwork, docker
<1>3. \/ nets # {} /\ pc' = [pc EXCEPT ![p] = "list"] /\ from' = [from EXCEPT ![p] = "created"]
      \/ pc' = [pc EXCEPT ![p] = "alloc"] /\ from' = from
  BY DEF CreateNetwork, Goto
<1>4. Types'
  <2>1. pc' \in [Proc -> Labels] /\ from' \in [Proc -> {"start", "created"}]
    BY <1>1, <1>3 DEF Types, Labels
  <2> QED
    BY <1>1, <1>2, <2>1 DEF Types
<1>5. \A q \in Proc \ {p} : pc'[q] = pc[q] /\ from'[q] = from[q] /\ ids'[q] = ids[q]
  BY <1>1, <1>2, <1>3 DEF Types
<1>6. pc'[p] \in {"list", "alloc"} /\ (from'[p] = "created" => from[p] = "created" \/ nets # {})
  BY <1>1, <1>3 DEF Types
<1>7. from'[p] = "created" => used # {}
  BY <1>1, <1>6 DEF IInv, Created, Ids
<1>8. \A x, y \in nets : ~Responsible(p, x, y)
  BY <1>2 DEF Responsible
<1> QED
  BY <1>2, <1>4, <1>5, <1>6, <1>7, <1>8, Moves

LEMMA IPv6UnavailableInv ==
  ASSUME IInv, NEW p \in Proc, IPv6Unavailable(p)
  PROVE  IInv'
<1>1. Types
  BY DEF IInv
<1>2. UNCHANGED <<nets, used, attached, sorted, taken, ipv6, attempt, from, ids, released>>
      /\ pc[p] = "alloc" /\ pc' = [pc EXCEPT ![p] = "create"]
      /\ auto' = [auto EXCEPT ![p] = TRUE]
  BY DEF IPv6Unavailable, docker, Goto
<1>3. Types'
  <2>1. pc' \in [Proc -> Labels] /\ auto' \in [Proc -> BOOLEAN]
    BY <1>1, <1>2 DEF Types, Labels
  <2> QED
    BY <1>1, <1>2, <2>1 DEF Types
<1>4. pc'[p] = "create"
      /\ \A q \in Proc \ {p} : pc'[q] = pc[q] /\ from'[q] = from[q] /\ ids'[q] = ids[q]
  BY <1>1, <1>2 DEF Types
<1>5. from'[p] = "created" => used # {}
  BY <1>2 DEF IInv, Created
<1>6. \A x, y \in nets : ~Responsible(p, x, y)
  BY <1>2 DEF Responsible
<1> QED
  BY <1>2, <1>3, <1>4, <1>5, <1>6, Moves

LEMMA PoolOverlapInv ==
  ASSUME IInv, NEW p \in Proc, PoolOverlap(p)
  PROVE  IInv'
<1>1. Types
  BY DEF IInv
<1>2. UNCHANGED <<docker, locals>> /\ pc[p] = "alloc" /\ pc' = [pc EXCEPT ![p] = "exists"]
  BY DEF PoolOverlap, Goto
<1>3. Types'
  <2>1. pc' \in [Proc -> Labels]
    BY <1>1, <1>2 DEF Types, Labels
  <2> QED
    BY <1>1, <1>2, <2>1 DEF Types, docker, locals
<1>4. pc'[p] = "exists"
      /\ \A q \in Proc \ {p} : pc'[q] = pc[q] /\ from'[q] = from[q] /\ ids'[q] = ids[q]
  BY <1>1, <1>2 DEF Types, locals
<1>5. from'[p] = "created" => used # {}
  BY <1>2 DEF IInv, Created, locals
<1>6. \A x, y \in nets : ~Responsible(p, x, y)
  BY <1>2 DEF Responsible
<1> QED
  BY <1>2, <1>3, <1>4, <1>5, <1>6, Moves DEF docker, locals

LEMMA CheckIfNetworkExistsInv ==
  ASSUME IInv, NEW p \in Proc, CheckIfNetworkExists(p)
  PROVE  IInv'
<1>1. Types /\ Ids
  BY DEF IInv
<1>2. UNCHANGED <<nets, used, attached, sorted, taken, ipv6, auto, from, ids, released>>
      /\ pc[p] = "exists"
  BY DEF CheckIfNetworkExists, TryAgain, docker
<1>3. \/ /\ pc' = [pc EXCEPT ![p] = "create"] /\ attempt' = [attempt EXCEPT ![p] = @ + 1]
         /\ attempt[p] + 1 < MaxAttempts
      \/ nets # {} /\ pc' = [pc EXCEPT ![p] = "ok"] /\ attempt' = attempt
      \/ pc' = [pc EXCEPT ![p] = "err"] /\ attempt' = attempt
  BY DEF CheckIfNetworkExists, TryAgain, Goto
<1>4. Types'
  <2>1. pc' \in [Proc -> Labels]
    BY <1>1, <1>3 DEF Types, Labels
  <2>2. attempt' \in [Proc -> Subnet]
    <3>1. attempt \in [Proc -> Subnet] /\ attempt[p] \in 0..4
      BY <1>1 DEF Types, Subnet, MaxAttempts
    <3>2. attempt[p] + 1 < MaxAttempts => attempt[p] + 1 \in Subnet
      BY <3>1 DEF Subnet, MaxAttempts
    <3> QED
      BY <1>3, <3>1, <3>2
  <2> QED
    BY <1>1, <1>2, <2>1, <2>2 DEF Types
<1>5. \A q \in Proc \ {p} : pc'[q] = pc[q] /\ from'[q] = from[q] /\ ids'[q] = ids[q]
  BY <1>1, <1>2, <1>3 DEF Types
<1>6. pc'[p] # "rm" /\ (pc'[p] = "ok" => nets # {})
  BY <1>1, <1>3 DEF Types
<1>7. pc'[p] = "ok" \/ from'[p] = "created" => used # {}
  BY <1>1, <1>2, <1>6 DEF IInv, Created, Ids
<1>8. \A x, y \in nets : ~Responsible(p, x, y)
  BY <1>2 DEF Responsible
<1> QED
  BY <1>2, <1>4, <1>5, <1>6, <1>7, <1>8, Moves

LEMMA CommandFailsInv ==
  ASSUME IInv, NEW p \in Proc, CommandFails(p)
  PROVE  IInv'
<1>1. Types
  BY DEF IInv
<1>2. UNCHANGED <<docker, locals>> /\ pc' = [pc EXCEPT ![p] = "err"]
  BY DEF CommandFails, Goto
<1>3. Types'
  <2>1. pc' \in [Proc -> Labels]
    BY <1>1, <1>2 DEF Types, Labels
  <2> QED
    BY <1>1, <1>2, <2>1 DEF Types, docker, locals
<1>4. pc'[p] = "err"
      /\ \A q \in Proc \ {p} : pc'[q] = pc[q] /\ from'[q] = from[q] /\ ids'[q] = ids[q]
  BY <1>1, <1>2 DEF Types, locals
<1>5. from'[p] = "created" => used # {}
  BY <1>2 DEF IInv, Created, locals
<1>6. \A x, y \in nets : Responsible(p, x, y)'
  BY <1>4 DEF Responsible
<1> QED
  BY <1>2, <1>3, <1>4, <1>5, <1>6, Moves DEF docker, locals

-----------------------------------------------------------------------------
(* A network more: its process is at "list" and covers every pair.         *)
LEMMA AllocateInv ==
  ASSUME IInv, NEW p \in Proc, Allocate(p)
  PROVE  IInv'
<1>1. Types /\ Ids
  BY DEF IInv
<1>2. PICK i \in Id \ used :
         /\ nets' = nets \union
               {[id |-> i, subnet |-> IF auto[p] THEN AutoSubnet ELSE attempt[p], n |-> 0]}
         /\ used' = used \union {i}
  BY DEF Allocate, AllocateThen
<1> DEFINE z == [id |-> i, subnet |-> IF auto[p] THEN AutoSubnet ELSE attempt[p], n |-> 0]
<1>3. UNCHANGED <<taken, ipv6, attached, released, attempt, auto, ids, sorted>>
      /\ pc[p] = "alloc" /\ pc' = [pc EXCEPT ![p] = "list"]
      /\ from' = [from EXCEPT ![p] = "created"]
  BY DEF Allocate, AllocateThen, Goto
<1>4. z \in Net /\ z.id = i /\ z.n = 0
  <2>1. 0 \in 0..MaxContainers /\ attempt[p] \in Subnet
    BY <1>1, BoundsAssumption DEF Types
  <2> QED
    BY <2>1 DEF Net
<1>5. nets' = nets \union {z}
  BY <1>2
<1> HIDE DEF z
<1>6. Types'
  <2>1. pc' \in [Proc -> Labels] /\ from' \in [Proc -> {"start", "created"}]
    BY <1>1, <1>3 DEF Types, Labels
  <2>2. nets' \in SUBSET Net /\ used' \in SUBSET Id
    BY <1>1, <1>2, <1>4, <1>5 DEF Types
  <2> QED
    BY <1>1, <1>3, <2>1, <2>2 DEF Types
<1>7. pc'[p] = "list" /\ from'[p] = "created"
      /\ \A q \in Proc \ {p} : pc'[q] = pc[q]
  BY <1>1, <1>3 DEF Types
<1>8. Lengths'
  BY <1>3, <1>7 DEF IInv, Lengths
<1>9. Ids'
  <2>1. attached \in Nat
    BY <1>1, BoundsAssumption DEF Types
  <2>2. \A x \in nets : x.id # i
    BY <1>1 DEF Ids
  <2> QED
    BY <1>1, <1>2, <1>3, <1>4, <1>5, <2>1, <2>2 DEF Ids
<1>10. Created' /\ Left'
  BY <1>2, <1>5 DEF Created, Left
<1>11. Smaller'
  BY <1>3, <1>5, <1>7 DEF IInv, Smaller
<1>12. Covered'
  BY <1>7 DEF Covered, Responsible
<1> QED
  BY <1>6, <1>8, <1>9, <1>10, <1>11, <1>12 DEF IInv

(* The list of the networks that were inspected, sorted.                   *)
LEMMA Inspected ==
  ASSUME IInv, NEW I, NEW s \in SetToSeqs({x \in nets : x.id \in I})
  PROVE  LET r == SortNetworkInspectEntries(s)
         IN  /\ s \in Seq(Net) /\ Len(s) \in Nat
             /\ r \in Seq(Net) /\ Len(r) = Len(s) /\ Len(s) <= Cardinality(Id)
             /\ \A k \in 1..Len(r) : r[k] \in nets
             /\ \A x \in nets : x.id \in I => \E k \in 1..Len(r) : r[k] = x
             /\ attached = 0 => Increasing(r)
<1> DEFINE S == {x \in nets : x.id \in I}
           r == SortNetworkInspectEntries(s)
<1>1. IsFiniteSet(nets) /\ Cardinality(nets) <= Cardinality(Id) /\ Cardinality(nets) \in Nat
  BY NetsAreFinite DEF IInv
<1>2. IsFiniteSet(S) /\ Cardinality(S) <= Cardinality(nets) /\ S \subseteq nets
  BY <1>1, FS_Subset
<1>3. Cardinality(S) \in Nat /\ Cardinality(S) <= Cardinality(Id)
  BY <1>1, <1>2, IdIsFinite, FS_CardinalityType
<1> HIDE DEF S
<1>4. s \in SetToSeqs(S)
  BY DEF S
<1>5. /\ s \in Seq(S) /\ Len(s) = Cardinality(S)
      /\ \A i, j \in 1..Len(s) : i # j => s[i] # s[j]
      /\ \A x \in S : \E i \in 1..Len(s) : s[i] = x
  BY <1>2, <1>4, SeqsOfSet
<1>6. s \in Seq(Net) /\ \A i \in 1..Len(s) : s[i] \in nets
  BY <1>2, <1>5 DEF IInv, Types
<1>7. /\ r \in Seq(Net) /\ Len(r) = Len(s)
      /\ \A k \in 1..Len(s) : \E i \in 1..Len(s) : r[k] = s[i]
      /\ \A i \in 1..Len(s) : \E k \in 1..Len(s) : r[k] = s[i]
      /\ (/\ \A i \in 1..Len(s) : s[i].n = 0
          /\ \A i, j \in 1..Len(s) : i # j => s[i].id # s[j].id) => Increasing(r)
  BY <1>6, SortKeeps
<1> HIDE DEF r
<1>8. \A k \in 1..Len(r) : r[k] \in nets
  BY <1>6, <1>7
<1>9. ASSUME NEW x \in nets, x.id \in I
      PROVE  \E k \in 1..Len(r) : r[k] = x
  <2>1. x \in S
    BY <1>9 DEF S
  <2>2. PICK i \in 1..Len(s) : s[i] = x
    BY <1>5, <2>1
  <2> QED
    BY <1>7, <2>2
<1>10. ASSUME attached = 0
       PROVE  Increasing(r)
  <2>1. \A i \in 1..Len(s) : s[i].n = 0
    <3>1. \A x \in nets : x.n \in Nat /\ x.n <= 0
      BY <1>10, NetFields DEF IInv, Types, Ids
    <3> QED
      BY <1>6, <3>1
  <2>2. \A i, j \in 1..Len(s) : i # j => s[i].id # s[j].id
    BY <1>5, <1>6 DEF IInv, Ids
  <2> QED
    BY <1>7, <2>1, <2>2
<1> QED
  BY <1>3, <1>5, <1>6, <1>7, <1>8, <1>9, <1>10 DEF r

(* Who inspects two networks goes on to remove the greater one.            *)
LEMMA InspectNetworksInv ==
  ASSUME IInv, NEW p \in Proc, InspectNetworks(p)
  PROVE  IInv'
<1>1. Types /\ Ids
  BY DEF IInv
<1>2. PICK s \in SetToSeqs({x \in nets : x.id \in ids[p]}) :
          /\ sorted' = [sorted EXCEPT ![p] = SortNetworkInspectEntries(s)]
          /\ IF Len(s) > 1 THEN Goto(p, "rm") ELSE RemoveReturns(p, Len(s) > 0)
  BY DEF InspectNetworks
<1> DEFINE r == SortNetworkInspectEntries(s)
<1>3. /\ s \in Seq(Net) /\ Len(s) \in Nat
      /\ r \in Seq(Net) /\ Len(r) = Len(s) /\ Len(s) <= Cardinality(Id)
      /\ \A k \in 1..Len(r) : r[k] \in nets
      /\ \A x \in nets : x.id \in ids[p] => \E k \in 1..Len(r) : r[k] = x
      /\ attached = 0 => Increasing(r)
  BY Inspected
<1>4. /\ UNCHANGED <<docker, from, attempt, auto>> /\ pc[p] = "inspect"
      /\ ids' = [ids EXCEPT ![p] = {}] /\ sorted' = [sorted EXCEPT ![p] = r]
  BY <1>2 DEF InspectNetworks
<1> HIDE DEF r
<1>5. /\ Len(r) > 1 => pc' = [pc EXCEPT ![p] = "rm"]
      /\ ~(Len(r) > 1) => pc' = [pc EXCEPT ![p] =
            IF from[p] = "start" /\ ~(Len(r) > 0) THEN "create" ELSE "ok"]
  BY <1>2, <1>3 DEF Goto, RemoveReturns
<1>6. Types'
  <2>1. pc' \in [Proc -> Labels]
    BY <1>1, <1>5 DEF Types, Labels
  <2>2. ids' \in [Proc -> SUBSET Id] /\ sorted' \in [Proc -> Seq(Net)]
    BY <1>1, <1>3, <1>4 DEF Types
  <2> QED
    BY <1>1, <1>4, <2>1, <2>2 DEF Types, docker
<1>7. /\ sorted'[p] = r /\ ids'[p] = {}
      /\ \A q \in Proc \ {p} : pc'[q] = pc[q] /\ ids'[q] = ids[q] /\ sorted'[q] = sorted[q]
  BY <1>1, <1>4, <1>5 DEF Types
<1>8. /\ pc'[p] = "rm" <=> Len(r) > 1
      /\ pc'[p] = "ok" => from[p] # "start" \/ Len(r) > 0
  <2>1. pc \in [Proc -> Labels]
    BY <1>1 DEF Types
  <2> QED
    BY <1>5, <2>1
<1>9. Lengths'
  <2> SUFFICES ASSUME NEW q \in Proc
               PROVE  /\ Len(sorted'[q]) <= Cardinality(Id)
                      /\ pc'[q] = "rm" => Len(sorted'[q]) >= 2
    BY DEF Lengths
  <2>1. CASE q = p
    BY <1>3, <1>7, <1>8, <2>1
  <2>2. CASE q # p
    BY <1>7, <2>2 DEF IInv, Lengths
  <2> QED
    BY <2>1, <2>2
<1>10. Ids' /\ Left'
  BY <1>4 DEF IInv, Ids, Left, docker
<1>11. Created'
  <2> SUFFICES ASSUME NEW q \in Proc, pc'[q] \in {"ok", "rm"} \/ from'[q] = "created"
               PROVE  used # {}
    BY <1>4 DEF Created, docker
  <2>1. CASE from[q] = "created"
    BY <2>1 DEF IInv, Created
  <2>2. CASE from[q] # "created" /\ q = p
    <3>1. from[p] = "start"
      BY <1>1, <2>2 DEF Types
    <3>2. Len(r) > 0
      BY <1>3, <1>4, <1>8, <2>2, <3>1
    <3>3. r[1] \in nets
      BY <1>3, <3>2
    <3> QED
      BY <1>1, <3>3 DEF Ids
  <2>3. CASE from[q] # "created" /\ q # p
    BY <1>4, <1>7, <2>3 DEF IInv, Created
  <2> QED
    BY <2>1, <2>2, <2>3
<1>12. Smaller'
  <2> SUFFICES ASSUME attached = 0, NEW q \in Proc, pc'[q] = "rm",
                      NEW k \in 2..Len(sorted'[q])
               PROVE  \E x \in nets : x.id < sorted'[q][k].id
    BY <1>4 DEF Smaller, docker
  <2>1. CASE q = p
    <3>1. 1 \in 1..Len(r) /\ k \in 1..Len(r) /\ 1 < k
      BY <1>3, <1>7, <2>1
    <3>2. r[1].id < r[k].id /\ r[1] \in nets
      BY <1>3, <3>1 DEF Increasing
    <3> QED
      BY <1>7, <2>1, <3>2
  <2>2. CASE q # p
    BY <1>7, <2>2 DEF IInv, Smaller
  <2> QED
    BY <2>1, <2>2
<1>13. Covered'
  <2> SUFFICES ASSUME attached = 0, NEW x \in nets, NEW y \in nets, x.id < y.id
               PROVE  \E q \in Proc : Responsible(q, x, y)'
    BY <1>4 DEF Covered, docker
  <2>1. PICK q \in Proc : Responsible(q, x, y)
    BY DEF IInv, Covered
  <2>2. CASE q # p
    <3>1. from'[q] = from[q]
      BY <1>4
    <3>2. Responsible(q, x, y)'
      BY <1>7, <2>1, <2>2, <3>1 DEF Responsible
    <3> QED
      BY <3>2
  <2>3. CASE q = p
    <3>1. x.id \in ids[p] /\ y.id \in ids[p]
      BY <1>4, <2>1, <2>3 DEF Responsible
    <3>2. PICK i \in 1..Len(r) : r[i] = x
      BY <1>3, <3>1
    <3>3. PICK k \in 1..Len(r) : r[k] = y
      BY <1>3, <3>1
    <3>4. x.id \in Nat /\ y.id \in Nat
      BY <1>1, NetFields DEF Types
    <3>5. ~(k < i) /\ k # i
      BY <1>3, <3>2, <3>3, <3>4 DEF Increasing
    <3>6. k \in 2..Len(r) /\ Len(r) > 1
      BY <1>3, <3>5
    <3>7. Responsible(p, x, y)'
      BY <1>7, <1>8, <3>3, <3>6 DEF Responsible
    <3> QED
      BY <3>7
  <2> QED
    BY <2>2, <2>3
<1> QED
  BY <1>6, <1>9, <1>10, <1>11, <1>12, <1>13 DEF IInv

(* What is removed has a smaller one beside it, which takes its place as   *)
(* the witness of Smaller for every other process.                         *)
LEMMA DeleteNetworksInv ==
  ASSUME IInv, NEW p \in Proc, DeleteNetworks(p)
  PROVE  IInv'
<1>1. Types /\ Ids
  BY DEF IInv
<1> DEFINE t == sorted[p]
           u == RemoveAt(t, 2)
           z == t[2]
<1>2. /\ UNCHANGED <<used, taken, ipv6, attached, released, from, attempt, auto, ids>>
      /\ pc[p] = "rm" /\ sorted' = [sorted EXCEPT ![p] = u]
      /\ nets' = {x \in nets : x.id # z.id \/ x.n > 0}
      /\ \/ Len(t) > 2 /\ pc' = [pc EXCEPT ![p] = "rm"]
         \/ ~(Len(t) > 2) /\ pc' = [pc EXCEPT ![p] = "ok"]
  BY DEF DeleteNetworks, Goto, RemoveReturns
<1>3. t \in Seq(Net) /\ Len(t) \in Nat /\ Len(t) >= 2 /\ Len(t) <= Cardinality(Id)
  BY <1>1, <1>2 DEF IInv, Lengths, Types
<1>4. /\ u \in Seq(Net) /\ Len(u) = Len(t) - 1
      /\ \A k \in 2..(Len(t) - 1) : u[k] = t[k + 1]
  BY <1>3, RemoveSecond
<1>5. z \in Net
  BY <1>3
<1> HIDE DEF u, z
<1>6. Types'
  <2>1. pc' \in [Proc -> Labels]
    BY <1>1, <1>2 DEF Types, Labels
  <2>2. sorted' \in [Proc -> Seq(Net)] /\ nets' \in SUBSET Net
    BY <1>1, <1>2, <1>4 DEF Types
  <2> QED
    BY <1>1, <1>2, <2>1, <2>2 DEF Types
<1>7. /\ sorted'[p] = u
      /\ pc'[p] = "rm" <=> Len(t) > 2
      /\ \A q \in Proc \ {p} : pc'[q] = pc[q] /\ sorted'[q] = sorted[q]
  BY <1>1, <1>2 DEF Types
<1>8. Lengths'
  <2> SUFFICES ASSUME NEW q \in Proc
               PROVE  /\ Len(sorted'[q]) <= Cardinality(Id)
                      /\ pc'[q] = "rm" => Len(sorted'[q]) >= 2
    BY DEF Lengths
  <2>1. CASE q = p
    <3>1. Len(u) <= Cardinality(Id) /\ (Len(t) > 2 => Len(u) >= 2)
      BY <1>3, <1>4, IdIsFinite
    <3> QED
      BY <1>7, <2>1, <3>1
  <2>2. CASE q # p
    BY <1>7, <2>2 DEF IInv, Lengths
  <2> QED
    BY <2>1, <2>2
<1>9. Ids' /\ nets' \subseteq nets
  BY <1>1, <1>2 DEF Ids
<1>10. Created'
  BY <1>2, <1>7 DEF IInv, Created
<1>11. ASSUME attached = 0, NEW x \in nets
       PROVE  x \in nets' <=> x.id # z.id
  <2>1. x.n \in Nat /\ x.n <= 0
    BY <1>1, <1>11, NetFields DEF Types, Ids
  <2> QED
    BY <1>2, <2>1
<1>12. ASSUME attached = 0
       PROVE  \E x \in nets' : x.id < z.id
  <2>1. PICK x \in nets : x.id < z.id
    <3>1. 2 \in 2..Len(t)
      BY <1>3
    <3> QED
      BY <1>2, <1>12, <3>1 DEF IInv, Smaller, z
  <2>2. x.id \in Nat /\ z.id \in Nat
    BY <1>1, <1>5, NetFields DEF Types
  <2>3. x \in nets'
    BY <1>11, <1>12, <2>1, <2>2
  <2> QED
    BY <2>1, <2>3
<1>13. Left'
  BY <1>2, <1>12 DEF Left
<1>14. Smaller'
  <2> SUFFICES ASSUME attached = 0, NEW q \in Proc, pc'[q] = "rm",
                      NEW k \in 2..Len(sorted'[q])
               PROVE  \E x \in nets' : x.id < sorted'[q][k].id
    BY <1>2 DEF Smaller
  <2>1. PICK j \in 2..Len(sorted[q]) : pc[q] = "rm" /\ sorted'[q][k] = sorted[q][j]
    <3>1. CASE q = p
      <4>1. k \in 2..(Len(t) - 1) /\ k + 1 \in 2..Len(t)
        BY <1>3, <1>4, <1>7, <3>1
      <4>2. sorted'[q][k] = t[k + 1]
        BY <1>4, <1>7, <3>1, <4>1
      <4> QED
        BY <1>2, <3>1, <4>1, <4>2
    <3>2. CASE q # p
      BY <1>7, <3>2
    <3> QED
      BY <3>1, <3>2
  <2>2. PICK x \in nets : x.id < sorted[q][j].id
    BY <2>1 DEF IInv, Smaller
  <2>3. sorted[q][j] \in Net
    BY <1>1, <2>1 DEF Types
  <2>4. x.id \in Nat /\ z.id \in Nat /\ sorted[q][j].id \in Nat
    BY <1>1, <1>5, <2>3, NetFields DEF Types
  <2>5. CASE x.id # z.id
    BY <1>11, <2>1, <2>2, <2>5
  <2>6. CASE x.id = z.id
    <3>1. PICK y \in nets' : y.id < z.id
      BY <1>12
    <3>2. y.id \in Nat
      BY <1>1, <1>9, <3>1, NetFields DEF Types
    <3> QED
      BY <2>1, <2>2, <2>4, <2>6, <3>1, <3>2
  <2> QED
    BY <2>5, <2>6
<1>15. Covered'
  <2> SUFFICES ASSUME attached = 0, NEW x \in nets', NEW y \in nets', x.id < y.id
               PROVE  \E q \in Proc : Responsible(q, x, y)'
    BY <1>2 DEF Covered
  <2>1. PICK q \in Proc : Responsible(q, x, y)
    BY <1>9 DEF IInv, Covered
  <2>2. CASE q # p
    <3>1. Responsible(q, x, y)'
      BY <1>2, <1>7, <2>1, <2>2 DEF Responsible
    <3> QED
      BY <3>1
  <2>3. CASE q = p
    <3>1. PICK k \in 2..Len(t) : t[k].id = y.id
      BY <1>2, <2>1, <2>3 DEF Responsible
    <3>2. y.id # z.id
      BY <1>9, <1>11
    <3>3. k # 2
      BY <3>1, <3>2 DEF z
    <3>4. Len(t) > 2 /\ k - 1 \in 2..(Len(t) - 1) /\ (k - 1) + 1 = k
      BY <1>3, <3>3
    <3>5. k - 1 \in 2..Len(u) /\ u[k - 1].id = y.id
      BY <1>4, <3>1, <3>4
    <3>6. Responsible(p, x, y)'
      BY <1>7, <3>4, <3>5 DEF Responsible
    <3> QED
      BY <3>6
  <2> QED
    BY <2>2, <2>3
<1> QED
  BY <1>6, <1>8, <1>9, <1>10, <1>13, <1>14, <1>15 DEF IInv

-----------------------------------------------------------------------------
(* The containers and the networks of others.                              *)
LEMMA ReleaseInv ==
  ASSUME IInv, Release
  PROVE  IInv'
<1>1. UNCHANGED <<nets, used, ipv6, attached, pc, locals>>
  BY DEF Release
<1>2. Types'
  <2>1. taken' \in SUBSET Subnet /\ released' \in 0..MaxReleases
    BY BoundsAssumption DEF Release, IInv, Types
  <2> QED
    BY <1>1, <2>1 DEF IInv, Types, locals
<1>3. Lengths' /\ Ids' /\ Created' /\ Left' /\ Smaller'
  BY <1>1 DEF IInv, Lengths, Ids, Created, Left, Smaller, locals
<1>4. Covered'
  BY <1>1 DEF IInv, Covered, Responsible, locals
<1> QED
  BY <1>2, <1>3, <1>4 DEF IInv

(* Once a container was attached, only the types and the ids are left.     *)
LEMMA SetContainersInv ==
  ASSUME IInv, NEW x \in nets, NEW k \in Nat, SetContainers(x, k),
         UNCHANGED <<used, taken, ipv6, released, pc, locals>>,
         attached' \in 0..MaxContainers, attached' >= attached,
         k <= attached', attached' # 0
  PROVE  IInv'
<1> DEFINE z == [x EXCEPT !.n = k]
<1>1. Types /\ Ids
  BY DEF IInv
<1>2. nets' = (nets \ {x}) \union {z}
  BY DEF SetContainers
<1>3. z \in Net /\ z.id = x.id /\ z.n = k
  <2>1. x \in Net /\ k \in 0..MaxContainers
    BY <1>1, BoundsAssumption DEF Types
  <2> QED
    BY <2>1 DEF Net
<1> HIDE DEF z
<1>4. Types'
  <2>1. nets' \in SUBSET Net
    BY <1>1, <1>2, <1>3 DEF Types
  <2> QED
    BY <1>1, <2>1 DEF Types, locals
<1>5. Ids'
  <2>1. \A y \in nets : y.n \in Nat /\ attached \in Nat /\ attached' \in Nat
    BY <1>1, NetFields, BoundsAssumption DEF Types
  <2>2. \A y \in nets : y.n <= attached'
    BY <1>1, <2>1 DEF Ids
  <2>3. \A y \in nets' : y.id \in used' /\ y.n <= attached'
    BY <1>1, <1>2, <1>3, <2>2 DEF Ids
  <2>4. \A y, w \in nets' : y.id = w.id => y = w
    BY <1>1, <1>2, <1>3 DEF Ids
  <2> QED
    BY <2>3, <2>4 DEF Ids
<1>6. Lengths' /\ Created' /\ Left' /\ Smaller' /\ Covered'
  BY DEF IInv, Lengths, Created, Left, Smaller, Covered, locals
<1> QED
  BY <1>4, <1>5, <1>6 DEF IInv

LEMMA AttachInv ==
  ASSUME IInv, Attach
  PROVE  IInv'
<1>1. PICK x \in nets : SetContainers(x, x.n + 1)
  BY DEF Attach
<1>2. /\ attached < MaxContainers /\ attached' = attached + 1
      /\ UNCHANGED <<used, taken, ipv6, released, pc, locals>>
  BY DEF Attach
<1>3. x.n \in Nat /\ x.n <= attached /\ attached \in Nat
  BY NetFields, BoundsAssumption DEF IInv, Types, Ids
<1>4. x.n + 1 \in Nat /\ x.n + 1 <= attached' /\ attached' # 0
      /\ attached' >= attached /\ attached' \in 0..MaxContainers
  BY <1>2, <1>3, BoundsAssumption
<1> QED
  BY <1>1, <1>2, <1>4, SetContainersInv

LEMMA DetachInv ==
  ASSUME IInv, Detach
  PROVE  IInv'
<1>1. PICK x \in nets : x.n > 0 /\ SetContainers(x, x.n - 1)
  BY DEF Detach
<1>2. attached' = attached /\ UNCHANGED <<used, taken, ipv6, released, pc, locals>>
  BY DEF Detach
<1>3. x.n \in Nat /\ x.n <= attached /\ attached \in Nat /\ attached \in 0..MaxContainers
  BY NetFields, BoundsAssumption DEF IInv, Types, Ids
<1>4. x.n - 1 \in Nat /\ x.n - 1 <= attached' /\ attached' # 0
      /\ attached' >= attached /\ attached' \in 0..MaxContainers
  BY <1>1, <1>2, <1>3
<1> QED
  BY <1>1, <1>2, <1>4, SetContainersInv

LEMMA NextInv == IInv /\ [Next]_vars => IInv'
<1> SUFFICES ASSUME IInv, [Next]_vars PROVE IInv'
  OBVIOUS
<1>1. CASE UNCHANGED vars
  <2>1. UNCHANGED <<nets, used, taken, ipv6, attached, released, pc, from, attempt, auto, ids, sorted>>
    BY <1>1 DEF vars, docker, locals
  <2>2. Types' /\ Lengths' /\ Ids' /\ Created' /\ Left' /\ Smaller'
    BY <2>1 DEF IInv, Types, Lengths, Ids, Created, Left, Smaller
  <2>3. Covered'
    BY <2>1 DEF IInv, Covered, Responsible
  <2> QED
    BY <2>2, <2>3 DEF IInv
<1>2. ASSUME NEW p \in Proc, EnsureNetwork(p)
      PROVE  IInv'
  BY <1>2, NetworksWithNameInv, InspectNetworksInv, DeleteNetworksInv, CreateNetworkInv,
     AllocateInv, IPv6UnavailableInv, PoolOverlapInv, CheckIfNetworkExistsInv
     DEF EnsureNetwork
<1>3. ASSUME NEW p \in Proc, CommandFails(p)
      PROVE  IInv'
  BY <1>3, CommandFailsInv
<1>4. CASE Release \/ Attach \/ Detach
  BY <1>4, ReleaseInv, AttachInv, DetachInv
<1> QED
  BY <1>1, <1>2, <1>3, <1>4 DEF Next

LEMMA InvHolds == Spec => []IInv
<1> QED
  BY InitInv, NextInv, PTL DEF Spec

-----------------------------------------------------------------------------
(***************************************************************************)
(* Every variable stays in its type: five attempts are not exceeded, and   *)
(* what a process sorts and removes are networks, no more than there are   *)
(* processes.                                                              *)
(***************************************************************************)
THEOREM TypeCorrect == Spec => []TypeOK
<1>1. IInv => TypeOK
  <2> SUFFICES ASSUME IInv PROVE TypeOK
    OBVIOUS
  <2>1. ASSUME NEW p \in Proc
        PROVE  Len(sorted[p]) <= Cardinality(Id) /\ ToSet(sorted[p]) \subseteq Net
    <3>1. sorted[p] \in Seq(Net)
      BY DEF IInv, Types
    <3>2. ToSet(sorted[p]) \subseteq Net
      BY <3>1 DEF ToSet
    <3> QED
      BY <3>2 DEF IInv, Lengths
  <2> QED
    BY <2>1 DEF IInv, Types, TypeOK
<1> QED
  BY <1>1, InvHolds, PTL

(***************************************************************************)
(* Any number of processes may create and remove duplicates at once: until *)
(* the first container is attached, whoever ensureNetwork returned nil to  *)
(* has a network.                                                          *)
(***************************************************************************)
THEOREM NetworkIsThere == Spec => []NeverNone
<1>1. IInv => NeverNone
  BY DEF IInv, Created, Left, NeverNone
<1> QED
  BY <1>1, InvHolds, PTL

(***************************************************************************)
(* When all of them returned nil before the first container is attached,   *)
(* removeDuplicateNetworks has left no more than one network.              *)
(***************************************************************************)
THEOREM DuplicatesAreRemoved == Spec => []OneNetworkAtEnd
<1>1. IInv => OneNetworkAtEnd
  <2> SUFFICES ASSUME IInv, attached = 0, \A p \in Proc : pc[p] = "ok"
               PROVE  Cardinality(nets) <= 1
    BY DEF OneNetworkAtEnd
  <2>1. \A x, y \in nets : ~(x.id < y.id)
    BY DEF IInv, Covered, Responsible
  <2>2. \A x \in nets : x.id \in Nat
    BY NetFields DEF IInv, Types
  <2>3. \A x, y \in nets : x = y
    <3> TAKE x, y \in nets
    <3>1. x.id = y.id
      BY <2>1, <2>2
    <3> QED
      BY <3>1 DEF IInv, Ids
  <2>4. IsFiniteSet(nets) /\ Cardinality(nets) \in Nat
    BY NetsAreFinite DEF IInv
  <2>5. Cardinality(nets) < 2
    BY <2>3, <2>4, FewerThanTwo
  <2> QED
    BY <2>4, <2>5
<1> QED
  BY <1>1, InvHolds, PTL

=============================================================================
