--------------------------- MODULE Lattice_proofs ---------------------------
(***************************************************************************)
(* The lists of a lattice agree, through linking and pruning, and a walk   *)
(* over it is complete and in order, for lattices of every size and        *)
(* clients that keep away from the uses that the code does not serve.      *)
(***************************************************************************)
EXTENDS Lattice, WellFoundedInduction, FiniteSetTheorems, SequenceTheorems, TLAPS

\* ---- natural numbers, recursive functions ----

LEMMA Smallest ==
  ASSUME NEW S \in SUBSET Nat, S # {}
  PROVE  \E n \in S : \A m \in S : n <= m
<1>1. PICK R : R = OpToRel(<, Nat)
  OBVIOUS
<1>2. PICK n \in S : \A m \in S : ~(<<m, n>> \in R)
  <2>1. IsWellFoundedOn(R, Nat)
    BY <1>1, NatLessThanWellFounded
  <2>2. QED
    BY <2>1, WFMin
<1>3. ASSUME NEW m \in S PROVE n <= m
  <2>1. ~(m < n)
    BY <1>1, <1>2 DEF OpToRel
  <2>2. QED
    BY <2>1
<1>4. QED
  BY <1>3

\* The N values made from b, each of the one before by a function of its own.
Chain(f, N, V, b, g) ==
  f \in [0 .. N -> V] /\ f[0] = b /\ \A i \in 1 .. N : f[i] = g[i][f[i - 1]]

LEMMA Iteration ==
  ASSUME NEW N \in Nat, NEW V, NEW b \in V, NEW g \in [1 .. N -> [V -> V]]
  PROVE  \E f : Chain(f, N, V, b, g)
<1> USE DEF Chain
<1> DEFINE UpTo(m) == \E f \in [0 .. m -> V] : f[0] = b /\ \A i \in 1 .. m : f[i] = g[i][f[i - 1]]
<1> DEFINE S == {m \in 0 .. N : ~UpTo(m)}
<1>1. CASE S = {}
  <2>1. N \in 0 .. N
    OBVIOUS
  <2>2. UpTo(N)
    <3> HIDE DEF UpTo
    <3>1. QED BY <1>1, <2>1
  <2>3. QED BY <2>2
<1>2. CASE S # {}
  <2>1. S \in SUBSET Nat
    OBVIOUS
  <2>2. PICK m \in S : \A k \in S : m <= k
    BY <1>2, <2>1, Smallest
  <2>3. m \in 0 .. N /\ ~UpTo(m)
    OBVIOUS
  <2>4. CASE m = 0
    <3>1. PICK f \in [0 .. 0 -> V] : f = [i \in 0 .. 0 |-> b]
      OBVIOUS
    <3>2. f[0] = b /\ \A i \in 1 .. 0 : f[i] = g[i][f[i - 1]]
      BY <3>1
    <3>3. QED
      BY <2>3, <2>4, <3>2
  <2>5. CASE m # 0
    <3>1. PICK l \in 0 .. N : m = l + 1
      BY <2>3, <2>5, m - 1 \in 0 .. N
    <3>2. UpTo(l)
      <4>1. ~(m <= l)
        BY <3>1
      <4>2. l \notin S
        BY <2>2, <4>1
      <4> HIDE DEF UpTo
      <4>3. QED BY <3>1, <4>2
    <3>3. PICK f \in [0 .. l -> V] : f[0] = b /\ \A i \in 1 .. l : f[i] = g[i][f[i - 1]]
      BY <3>2
    <3>4. m \in 1 .. N /\ f[l] \in V /\ g[m][f[l]] \in V
      BY <2>3, <3>1
    <3>5. PICK h : h = [i \in 0 .. m |-> IF i = m THEN g[m][f[l]] ELSE f[i]]
      OBVIOUS
    <3>6. h \in [0 .. m -> V]
      BY <2>3, <3>1, <3>4, <3>5
    <3>7. h[0] = b
      BY <2>3, <2>5, <3>3, <3>5
    <3>8. \A i \in 1 .. m : h[i] = g[i][h[i - 1]]
      <4>1. ASSUME NEW i \in 1 .. m PROVE h[i] = g[i][h[i - 1]]
        <5>1. i - 1 \in 0 .. l /\ h[i - 1] = f[i - 1]
          BY <2>3, <3>1, <3>5
        <5>2. CASE i = m
          BY <3>1, <3>5, <5>1, <5>2
        <5>3. CASE i # m
          <6>1. i \in 1 .. l /\ h[i] = f[i]
            BY <2>3, <3>1, <3>5, <5>3
          <6>2. QED BY <3>3, <5>1, <6>1
        <5>4. QED BY <5>2, <5>3
      <4>2. QED BY <4>1
    <3>9. UpTo(m)
      BY <3>6, <3>7, <3>8
    <3>10. QED BY <2>3, <3>9
  <2>6. QED BY <2>4, <2>5
<1>3. QED BY <1>1, <1>2


\* Induction up to N, for a set.
LEMMA Upwards ==
  ASSUME NEW N \in Nat, NEW S, 0 \in S, \A i \in 1 .. N : i - 1 \in S => i \in S
  PROVE  \A i \in 0 .. N : i \in S
<1> DEFINE T == {i \in 0 .. N : i \notin S}
<1>1. CASE T = {}
  BY <1>1
<1>2. CASE T # {}
  <2>1. T \in SUBSET Nat
    OBVIOUS
  <2>2. PICK i \in T : \A j \in T : i <= j
    BY <1>2, <2>1, Smallest
  <2>3. i \in 1 .. N /\ i - 1 \in 0 .. N /\ ~(i <= i - 1)
    BY <2>2
  <2>4. i - 1 \notin T
    BY <2>2, <2>3
  <2>5. QED BY <2>2, <2>3, <2>4
<1>3. QED BY <1>1, <1>2

\* ---- lists of links ----

\* A list has each of its members once.
Once(s) == \A i, j \in 1 .. Len(s) : s[i] = s[j] => i = j

LEMMA ListIs ==
  ASSUME NEW S, NEW s \in Seq(S)
  PROVE  /\ Len(s) \in Nat /\ DOMAIN s = 1 .. Len(s) /\ s \in [1 .. Len(s) -> S]
         /\ Range(s) \subseteq S
         /\ \A x : x \in Range(s) <=> \E i \in 1 .. Len(s) : s[i] = x
<1>1. Len(s) \in Nat /\ DOMAIN s = 1 .. Len(s) /\ s \in [1 .. Len(s) -> S]
  BY LenProperties
<1>2. QED BY <1>1 DEF Range

\* The list list with x behind it.
Behind(new, list, x) ==
  /\ Once(list) /\ x \notin Range(list) => Once(new)
  /\ Range(new) = Range(list) \cup {x}
  /\ Len(new) = Len(list) + 1 /\ new[Len(list) + 1] = x /\ \A i \in 1 .. Len(list) : new[i] = list[i]

LEMMA AppendIs ==
  ASSUME NEW S, NEW list \in Seq(S), NEW x \in S, NEW new, new = Append(list, x)
  PROVE  new \in Seq(S) /\ Behind(new, list, x)
<1>1. PICK n \in Nat : n = Len(list)
  BY ListIs
<1>2. /\ new \in Seq(S) /\ Len(new) = n + 1 /\ new[n + 1] = x
      /\ \A i \in 1 .. n : new[i] = list[i]
  BY <1>1, AppendProperties
<1>3. \A i \in 1 .. n + 1 : i = n + 1 \/ i \in 1 .. n
  BY <1>1
<1>4. \A y : y \in Range(list) <=> \E i \in 1 .. n : list[i] = y
  BY <1>1, ListIs
<1>5. \A y : y \in Range(new) <=> \E i \in 1 .. n + 1 : new[i] = y
  <2>1. \A y : y \in Range(new) <=> \E i \in 1 .. Len(new) : new[i] = y
    BY <1>2, ListIs
  <2>2. Len(new) = n + 1
    BY <1>2
  <2>3. QED BY Zenon, <2>1, <2>2
<1>6. Range(new) = Range(list) \cup {x}
  <2>1. \A i \in 1 .. n : i \in 1 .. n + 1
    BY <1>1
  <2>2. n + 1 \in 1 .. n + 1
    BY <1>1
  <2>3. QED BY <1>2, <1>3, <1>4, <1>5, <2>1, <2>2
<1>7. ASSUME Once(list), x \notin Range(list) PROVE Once(new)
  <2>1. ASSUME NEW i \in 1 .. n + 1, NEW j \in 1 .. n + 1, new[i] = new[j] PROVE i = j
    BY <1>1, <1>2, <1>3, <1>4, <1>7, <2>1 DEF Once
  <2>2. QED BY <1>2, <2>1 DEF Once
<1>8. QED BY <1>1, <1>2, <1>6, <1>7 DEF Behind

\* Two lists, one behind the other.
LEMMA BothIs ==
  ASSUME NEW S, NEW s \in Seq(S), NEW t \in Seq(S)
  PROVE  /\ s \o t \in Seq(S) /\ Range(s \o t) = Range(s) \cup Range(t)
         /\ Once(s) /\ Once(t) /\ Range(s) \cap Range(t) = {} => Once(s \o t)
<1>1. PICK m \in Nat, n \in Nat : m = Len(s) /\ n = Len(t)
  BY ListIs
<1>2. PICK u : u = s \o t
  OBVIOUS
<1>3. /\ u \in Seq(S) /\ Len(u) = m + n
      /\ \A i \in 1 .. m + n : u[i] = IF i <= m THEN s[i] ELSE t[i - m]
  BY <1>1, <1>2, ConcatProperties
<1>4. \A i \in 1 .. m : i \in 1 .. m + n /\ u[i] = s[i]
  BY <1>1, <1>3
<1>5. \A i \in 1 .. n : m + i \in 1 .. m + n /\ u[m + i] = t[i]
  BY <1>1, <1>3
<1>6. \A i \in 1 .. m + n : i \in 1 .. m \/ \E k \in 1 .. n : i = m + k
  <2>1. ASSUME NEW i \in 1 .. m + n, ~(i <= m) PROVE \E k \in 1 .. n : i = m + k
    <3>1. i - m \in 1 .. n /\ i = m + (i - m)
      BY <1>1, <2>1
    <3>2. QED BY <3>1
  <2>2. QED BY <1>1, <2>1
<1>7. /\ \A y : y \in Range(s) <=> \E i \in 1 .. m : s[i] = y
      /\ \A y : y \in Range(t) <=> \E i \in 1 .. n : t[i] = y
      /\ \A y : y \in Range(u) <=> \E i \in 1 .. m + n : u[i] = y
  <2>1. /\ \A y : y \in Range(s) <=> \E i \in 1 .. m : s[i] = y
        /\ \A y : y \in Range(t) <=> \E i \in 1 .. n : t[i] = y
    BY <1>1, ListIs
  <2>2. \A y : y \in Range(u) <=> \E i \in 1 .. Len(u) : u[i] = y
    BY <1>3, ListIs
  <2>3. Len(u) = m + n
    BY <1>3
  <2>4. \A y : y \in Range(u) <=> \E i \in 1 .. m + n : u[i] = y
    BY Zenon, <2>2, <2>3
  <2>5. QED BY <2>1, <2>4
<1>8. Range(u) = Range(s) \cup Range(t)
  <2>1. ASSUME NEW y \in Range(u) PROVE y \in Range(s) \cup Range(t)
    <3>1. PICK i \in 1 .. m + n : u[i] = y
      BY <1>7, <2>1
    <3>2. CASE i \in 1 .. m
      BY <1>4, <1>7, <3>1, <3>2
    <3>3. CASE \E k \in 1 .. n : i = m + k
      <4>1. PICK k \in 1 .. n : i = m + k
        BY <3>3
      <4>2. t[k] = y
        BY <1>5, <3>1, <4>1
      <4>3. QED BY <1>7, <4>1, <4>2
    <3>4. QED BY <1>6, <3>1, <3>2, <3>3
  <2>2. ASSUME NEW y \in Range(s) PROVE y \in Range(u)
    <3>1. PICK i \in 1 .. m : s[i] = y
      BY <1>7, <2>2
    <3>2. i \in 1 .. m + n /\ u[i] = y
      BY <1>4, <3>1
    <3>3. QED BY <1>7, <3>2
  <2>3. ASSUME NEW y \in Range(t) PROVE y \in Range(u)
    <3>1. PICK k \in 1 .. n : t[k] = y
      BY <1>7, <2>3
    <3>2. PICK i : i = m + k /\ i \in 1 .. m + n /\ u[i] = y
      BY <1>5, <3>1
    <3>3. QED BY <1>7, <3>2
  <2>4. QED BY <2>1, <2>2, <2>3
<1>9. ASSUME Once(s), Once(t), Range(s) \cap Range(t) = {} PROVE Once(u)
  <2>1. ASSUME NEW i \in 1 .. m + n, NEW j \in 1 .. m + n, u[i] = u[j] PROVE i = j
    <3>1. CASE i \in 1 .. m /\ j \in 1 .. m
      BY <1>1, <1>4, <1>9, <2>1, <3>1 DEF Once
    <3>2. CASE i \in 1 .. m /\ j \notin 1 .. m
      <4>1. PICK k \in 1 .. n : j = m + k
        BY <1>6, <3>2
      <4>2. s[i] = t[k]
        BY <1>4, <1>5, <2>1, <3>2, <4>1
      <4>3. QED BY <1>7, <1>9, <3>2, <4>2
    <3>3. CASE i \notin 1 .. m /\ j \in 1 .. m
      <4>1. PICK k \in 1 .. n : i = m + k
        BY <1>6, <3>3
      <4>2. s[j] = t[k]
        BY <1>4, <1>5, <2>1, <3>3, <4>1
      <4>3. QED BY <1>7, <1>9, <3>3, <4>2
    <3>4. CASE i \notin 1 .. m /\ j \notin 1 .. m
      <4>1. PICK k \in 1 .. n : i = m + k
        BY <1>6, <3>4
      <4>2. PICK l \in 1 .. n : j = m + l
        BY <1>6, <3>4
      <4>3. t[k] = t[l]
        BY <1>5, <2>1, <4>1, <4>2
      <4>4. k = l
        BY <1>1, <1>9, <4>3 DEF Once
      <4>5. QED BY <4>1, <4>2, <4>4
    <3>5. QED BY <3>1, <3>2, <3>3, <3>4
  <2>2. QED BY <1>3, <2>1 DEF Once
<1>10. QED BY <1>2, <1>3, <1>8, <1>9

\* The first of a list, and the others.
LEMMA HeadTail ==
  ASSUME NEW S, NEW s \in Seq(S), s # <<>>
  PROVE  /\ Head(s) \in S /\ Tail(s) \in Seq(S) /\ Range(s) = {Head(s)} \cup Range(Tail(s))
         /\ Once(s) => Once(Tail(s)) /\ Head(s) \notin Range(Tail(s))
<1>1. PICK n \in Nat : n = Len(s) /\ n > 0
  <2>1. Len(s) \in Nat
    BY ListIs
  <2>2. Len(s) # 0
    BY EmptySeq
  <2>3. QED BY <2>1, <2>2
<1>2. PICK h, t : h = Head(s) /\ t = Tail(s)
  OBVIOUS
<1>3. h = s[1] /\ t \in Seq(S) /\ Len(t) = n - 1 /\ \A i \in 1 .. n - 1 : t[i] = s[i + 1]
  BY <1>1, <1>2, HeadTailProperties
<1>4. \A i \in 1 .. n - 1 : i + 1 \in 1 .. n /\ i + 1 # 1
  BY <1>1
<1>5. \A i \in 1 .. n : i = 1 \/ (i - 1 \in 1 .. n - 1 /\ t[i - 1] = s[i])
  BY <1>1, <1>3
<1>6. /\ \A y : y \in Range(s) <=> \E i \in 1 .. n : s[i] = y
      /\ \A y : y \in Range(t) <=> \E i \in 1 .. n - 1 : t[i] = y
  BY <1>1, <1>3, ListIs
<1>7. 1 \in 1 .. n /\ h \in S
  BY <1>1, <1>3, ListIs
<1>8. Range(s) = {h} \cup Range(t)
  <2>1. ASSUME NEW y \in Range(s), y # h PROVE y \in Range(t)
    <3>1. PICK i \in 1 .. n : s[i] = y
      BY <1>6, <2>1
    <3>2. PICK k : k = i - 1 /\ k \in 1 .. n - 1 /\ t[k] = y
      BY <1>3, <1>5, <2>1, <3>1
    <3>3. QED BY <1>6, <3>2
  <2>2. ASSUME NEW y \in Range(t) PROVE y \in Range(s)
    <3>1. PICK i \in 1 .. n - 1 : t[i] = y
      BY <1>6, <2>2
    <3>2. PICK k : k = i + 1 /\ k \in 1 .. n /\ s[k] = y
      BY <1>3, <1>4, <3>1
    <3>3. QED BY <1>6, <3>2
  <2>3. h \in Range(s)
    BY <1>3, <1>6, <1>7
  <2>4. QED BY <2>1, <2>2, <2>3
<1>9. ASSUME Once(s) PROVE Once(t) /\ h \notin Range(t)
  <2>1. ASSUME NEW i \in 1 .. n - 1, NEW j \in 1 .. n - 1, t[i] = t[j] PROVE i = j
    <3>1. i + 1 = j + 1
      BY <1>1, <1>3, <1>4, <1>9, <2>1 DEF Once
    <3>2. QED BY <1>1, <3>1
  <2>2. ASSUME NEW i \in 1 .. n - 1, t[i] = h PROVE FALSE
    <3>1. i + 1 = 1
      BY <1>1, <1>3, <1>4, <1>7, <1>9, <2>2 DEF Once
    <3>2. QED BY <1>4, <3>1
  <2>3. QED BY <1>3, <1>6, <2>1, <2>2 DEF Once
<1>10. QED BY <1>2, <1>3, <1>7, <1>8, <1>9

\* A list turned round.
LEMMA ReverseIs ==
  ASSUME NEW S, NEW s \in Seq(S)
  PROVE  Reverse(s) \in Seq(S) /\ Range(Reverse(s)) = Range(s) /\ (Once(s) => Once(Reverse(s)))
<1>1. PICK n \in Nat : n = Len(s)
  BY ListIs
<1>2. PICK r : r = [i \in 1 .. n |-> s[n - i + 1]]
  OBVIOUS
<1>3. r = Reverse(s)
  BY <1>1, <1>2 DEF Reverse
<1>4. \A i \in 1 .. n : n - i + 1 \in 1 .. n /\ n - (n - i + 1) + 1 = i
  BY <1>1
<1>5. r \in [1 .. n -> S]
  BY <1>1, <1>2, <1>4, ListIs
<1>6. r \in Seq(S) /\ Len(r) = n
  <2>1. r \in Seq(S)
    BY <1>5, SeqDef
  <2>2. DOMAIN r = 1 .. n /\ DOMAIN r = 1 .. Len(r) /\ Len(r) \in Nat
    BY <1>5, <2>1, LenProperties
  <2>3. QED BY <2>1, <2>2
<1>7. /\ \A y : y \in Range(s) <=> \E i \in 1 .. n : s[i] = y
      /\ \A y : y \in Range(r) <=> \E i \in 1 .. n : r[i] = y
  BY <1>1, <1>6, ListIs
<1>8. \A i \in 1 .. n : r[i] = s[n - i + 1] /\ s[i] = r[n - i + 1]
  BY <1>2, <1>4
<1>9. Range(r) = Range(s)
  BY <1>4, <1>7, <1>8
<1>10. ASSUME Once(s) PROVE Once(r)
  <2>1. ASSUME NEW i \in 1 .. n, NEW j \in 1 .. n, r[i] = r[j] PROVE i = j
    <3>1. n - i + 1 = n - j + 1
      BY <1>1, <1>4, <1>8, <1>10, <2>1 DEF Once
    <3>2. QED BY <1>1, <3>1
  <2>2. QED BY <1>6, <2>1 DEF Once
<1>11. QED BY <1>3, <1>6, <1>9, <1>10


\* ---- the links of a list that are in a set ----

\* What is selected of the first i links.
Picked(list, set, i, before) == IF list[i] \in set THEN Append(before, list[i]) ELSE before
PickedTo(list, set) ==
  CHOOSE upTo : upTo = [i \in 0 .. Len(list) |->
                          IF i = 0 THEN <<>> ELSE Picked(list, set, i, upTo[i - 1])]

LEMMA SelectedIsPicked ==
  ASSUME NEW list, NEW set
  PROVE  Selected(list, set) = PickedTo(list, set)[Len(list)]
BY Zenon DEF Selected, PickedTo, Picked

LEMMA PickedToIs ==
  ASSUME NEW S, NEW list \in Seq(S), NEW set
  PROVE  LET upTo == PickedTo(list, set)
         IN upTo[0] = <<>> /\ \A i \in 1 .. Len(list) : upTo[i] = Picked(list, set, i, upTo[i - 1])
<1>1. PICK n \in Nat : n = Len(list)
  BY ListIs
<1>2. PICK V : V = Seq(S)
  OBVIOUS
<1>3. PICK g : g = [i \in 1 .. n |-> [r \in V |-> Picked(list, set, i, r)]]
  OBVIOUS
<1>4. \A i \in 1 .. n, r \in V : Picked(list, set, i, r) \in V
  BY <1>1, <1>2, ListIs, AppendProperties DEF Picked
<1>5. g \in [1 .. n -> [V -> V]]
  BY <1>3, <1>4
<1>6. PICK empty : empty = <<>> /\ empty \in V
  BY <1>2, EmptySeq
<1>7. PICK f : Chain(f, n, V, empty, g)
  BY <1>5, <1>6, Iteration
<1> DEFINE Is(h) == h = [i \in 0 .. Len(list) |->
                           IF i = 0 THEN <<>> ELSE Picked(list, set, i, h[i - 1])]
<1>8. Is(f)
  <2>1. \A i \in 0 .. n : i # 0 => i \in 1 .. n /\ i - 1 \in 0 .. n
    OBVIOUS
  <2>2. ASSUME NEW i \in 0 .. n, i # 0 PROVE f[i] = Picked(list, set, i, f[i - 1])
    <3>1. i \in 1 .. n /\ f[i - 1] \in V /\ f[i] = g[i][f[i - 1]]
      BY <1>7, <2>1, <2>2 DEF Chain
    <3>2. g[i] = [r \in V |-> Picked(list, set, i, r)]
      BY <1>3, <3>1
    <3>3. QED BY <3>1, <3>2
  <2>3. f = [i \in 0 .. n |-> f[i]]
    BY <1>7 DEF Chain
  <2>4. f[0] = <<>>
    BY <1>6, <1>7 DEF Chain
  <2>5. QED BY <1>1, <2>2, <2>3, <2>4, Zenon
<1>9. Is(PickedTo(list, set))
  <2>1. PickedTo(list, set) = CHOOSE h : Is(h)
    BY DEF PickedTo
  <2> HIDE DEF Is
  <2>2. QED BY <1>8, <2>1
<1>10. PICK upTo : upTo = PickedTo(list, set)
  OBVIOUS
<1>11. \A i \in 0 .. n : upTo[i] = IF i = 0 THEN <<>> ELSE Picked(list, set, i, upTo[i - 1])
  <2>1. upTo = [i \in 0 .. n |-> IF i = 0 THEN <<>> ELSE Picked(list, set, i, upTo[i - 1])]
    BY <1>1, <1>9, <1>10
  <2>2. QED BY <2>1, Zenon
<1>12. \A i \in 1 .. n : i \in 0 .. n /\ i # 0
  BY <1>1
<1>13. 0 \in 0 .. n
  BY <1>1
<1>14. QED BY <1>1, <1>10, <1>11, <1>12, <1>13

LEMMA SelectedIs ==
  ASSUME NEW S, NEW list \in Seq(S), NEW set
  PROVE  /\ Selected(list, set) \in Seq(S)
         /\ Range(Selected(list, set)) = Range(list) \cap set
         /\ Once(list) => Once(Selected(list, set))
<1>1. PICK n \in Nat : n = Len(list)
  BY ListIs
<1>2. PICK upTo : upTo = PickedTo(list, set)
  OBVIOUS
<1>3. upTo[0] = <<>> /\ \A i \in 1 .. n : upTo[i] = Picked(list, set, i, upTo[i - 1])
  BY <1>1, <1>2, PickedToIs
<1> DEFINE OK(i) == /\ upTo[i] \in Seq(S)
                    /\ \A x : x \in Range(upTo[i]) <=> (x \in set /\ \E k \in 1 .. i : list[k] = x)
                    /\ Once(list) => Once(upTo[i])
           T == {i \in 0 .. n : OK(i)}
<1>4. 0 \in T
  <2>1. upTo[0] \in Seq(S) /\ Len(upTo[0]) = 0
    BY <1>3, EmptySeq
  <2>2. \A i \in 1 .. 0 : FALSE
    OBVIOUS
  <2>3. \A x : ~(x \in Range(upTo[0]))
    BY <2>1, <2>2, ListIs
  <2>4. Once(upTo[0])
    BY <2>1, <2>2 DEF Once
  <2>5. 0 \in 0 .. n
    OBVIOUS
  <2>6. QED BY <2>1, <2>2, <2>3, <2>4, <2>5
<1>5. ASSUME NEW i \in 1 .. n, i - 1 \in T PROVE i \in T
  <2>1. PICK r, x : r = upTo[i - 1] /\ x = list[i] /\ x \in S
    BY <1>1, ListIs
  <2>2. /\ r \in Seq(S) /\ (Once(list) => Once(r))
        /\ \A y : y \in Range(r) <=> (y \in set /\ \E k \in 1 .. i - 1 : list[k] = y)
    BY <1>5, <2>1
  <2>3. \A y : (\E k \in 1 .. i : list[k] = y) <=> (y = x \/ \E k \in 1 .. i - 1 : list[k] = y)
    <3>1. \A k \in 1 .. i : k = i \/ k \in 1 .. i - 1
      OBVIOUS
    <3>2. i \in 1 .. i /\ \A k \in 1 .. i - 1 : k \in 1 .. i
      OBVIOUS
    <3>3. QED BY <2>1, <3>1, <3>2
  <2>4. upTo[i] = IF x \in set THEN Append(r, x) ELSE r
    BY <1>3, <2>1 DEF Picked
  <2>5. CASE x \in set
    <3>1. PICK new : new = Append(r, x) /\ upTo[i] = new
      BY <2>4, <2>5
    <3>2. new \in Seq(S) /\ Behind(new, r, x)
      BY <2>1, <2>2, <3>1, AppendIs
    <3>3. \A y : y \in Range(new) <=> (y \in set /\ \E k \in 1 .. i : list[k] = y)
      BY <2>2, <2>3, <2>5, <3>2 DEF Behind
    <3>4. ASSUME Once(list) PROVE x \notin Range(r)
      <4>1. ASSUME x \in Range(r) PROVE FALSE
        <5>1. PICK k \in 1 .. i - 1 : list[k] = x
          BY <2>2, <4>1
        <5>2. k \in 1 .. n /\ k # i
          BY <1>1
        <5>3. QED BY <1>1, <2>1, <3>4, <5>1, <5>2 DEF Once
      <4>2. QED BY <4>1
    <3>5. Once(list) => Once(new)
      BY <2>2, <3>2, <3>4 DEF Behind
    <3>6. i \in 0 .. n
      OBVIOUS
    <3>7. QED BY <3>1, <3>2, <3>3, <3>5, <3>6
  <2>6. CASE x \notin set
    <3>1. upTo[i] = r
      BY <2>4, <2>6
    <3>2. \A y : y \in Range(r) <=> (y \in set /\ \E k \in 1 .. i : list[k] = y)
      BY <2>2, <2>3, <2>6
    <3>3. i \in 0 .. n
      OBVIOUS
    <3>4. QED BY <2>2, <3>1, <3>2, <3>3
  <2>7. QED BY <2>5, <2>6
<1>6. n \in T
  <2>1. n \in 0 .. n
    OBVIOUS
  <2> HIDE DEF T
  <2>2. \A i \in 0 .. n : i \in T
    BY <1>4, <1>5, Upwards
  <2>3. QED BY <2>1, <2>2
<1>7. PICK r : r = Selected(list, set)
  OBVIOUS
<1>8. r = upTo[n]
  BY <1>1, <1>2, <1>7, SelectedIsPicked
<1>9. OK(n)
  BY <1>6
<1>10. \A x : x \in Range(list) <=> \E k \in 1 .. n : list[k] = x
  BY <1>1, ListIs
<1>11. Range(r) = Range(list) \cap set
  <2>1. \A x : x \in Range(r) <=> (x \in set /\ \E k \in 1 .. n : list[k] = x)
    BY <1>8, <1>9
  <2>2. QED BY <1>10, <2>1
<1>12. QED BY <1>7, <1>8, <1>9, <1>11

\* ---- the graph of a lattice ----

LEMMA LinkIs == \A l \in AllLinks : From(l) \in AllNodes /\ To(l) \in AllNodes /\ From(l) < To(l)
BY DEF AllLinks, From, To

LEMMA NodesAre ==
  /\ Start \in AllNodes /\ End \in AllNodes
  /\ \A n \in AllNodes : n \in Nat /\ Start <= n /\ n <= End
BY LatticeAssumption DEF AllNodes, Start, End

LEMMA LinksFinite == IsFiniteSet(AllLinks) /\ Cardinality(AllLinks) \in Nat
<1>1. IsFiniteSet(AllNodes)
  BY LatticeAssumption, FS_Interval DEF AllNodes
<1>2. IsFiniteSet(AllNodes \X AllNodes)
  BY <1>1, FS_Product
<1>3. AllLinks \in SUBSET (AllNodes \X AllNodes)
  BY DEF AllLinks
<1>4. QED BY <1>2, <1>3, FS_Subset, FS_CardinalityType

Dags == [nodes : SUBSET AllNodes, early : SUBSET AllNodes, exits : [AllNodes -> Seq(AllLinks)],
         entries : [AllNodes -> Seq(AllLinks)], ascr : [AllLinks -> Int]]

\* The lists of d hold the links E: each once in the exits of the node it leaves, and once
\* in the entries of the node it enters.
Agreeing(d, E) ==
  /\ d \in Dags /\ E \subseteq AllLinks
  /\ \A n \in AllNodes : Once(d.exits[n]) /\ Once(d.entries[n])
  /\ \A n \in AllNodes : Range(d.exits[n]) = {l \in E : From(l) = n}
  /\ \A n \in AllNodes : Range(d.entries[n]) = {l \in E : To(l) = n}
  /\ \A l \in E : From(l) \in d.nodes

LEMMA LinksAre ==
  ASSUME NEW d, NEW E, Agreeing(d, E)
  PROVE  Links(d) = E
<1>1. d.nodes \subseteq AllNodes
  BY DEF Agreeing, Dags
<1>2. \A l : l \in Links(d) <=> \E n \in d.nodes : l \in Range(d.exits[n])
  BY DEF Links
<1>3. \A n \in d.nodes : Range(d.exits[n]) = {l \in E : From(l) = n}
  BY <1>1 DEF Agreeing
<1>4. \A l \in E : From(l) \in d.nodes
  BY DEF Agreeing
<1>5. QED BY <1>2, <1>3, <1>4

\* A link is a new one, or in both lists already.
LEMMA LinkedAgrees ==
  ASSUME NEW d, NEW E, Agreeing(d, E), NEW l \in AllLinks, NEW s \in Int, From(l) \in d.nodes
  PROVE  Agreeing(Linked(d, l, s), E \cup {l}) /\ Linked(d, l, s).nodes = d.nodes
<1>1. PICK f, t : f = From(l) /\ t = To(l) /\ f \in AllNodes /\ t \in AllNodes
  BY LinkIs
<1>2. /\ d \in Dags /\ d.nodes \in SUBSET AllNodes /\ d.exits \in [AllNodes -> Seq(AllLinks)]
      /\ d.entries \in [AllNodes -> Seq(AllLinks)] /\ d.ascr \in [AllLinks -> Int]
  BY DEF Agreeing, Dags
<1>3. PICK r : r = Linked(d, l, s)
  OBVIOUS
<1>4. l \in Range(d.exits[f]) <=> l \in E
  BY <1>1 DEF Agreeing
<1>5. CASE l \in E
  <2>1. r = [d EXCEPT !.ascr[l] = IF s > @ THEN s ELSE @]
    BY <1>1, <1>3, <1>4, <1>5 DEF Linked
  <2>2. r.ascr \in [AllLinks -> Int]
    BY <1>2, <2>1 DEF Dags
  <2>3. r \in Dags /\ r.nodes = d.nodes /\ r.exits = d.exits /\ r.entries = d.entries
    BY <1>2, <2>1, <2>2 DEF Dags
  <2>4. E \cup {l} = E
    BY <1>5
  <2>5. QED BY <1>3, <2>3, <2>4 DEF Agreeing
<1>6. CASE l \notin E
  <2>1. PICK one : one = <<l>> /\ one \in Seq(AllLinks) /\ Range(one) = {l} /\ Once(one)
    <3>1. PICK one : one = <<l>>
      OBVIOUS
    <3>2. one \in Seq(AllLinks) /\ Len(one) = 1 /\ one[1] = l
      BY <3>1
    <3>3. \A i \in 1 .. 1 : i = 1
      OBVIOUS
    <3>4. \A x : x \in Range(one) <=> \E i \in 1 .. 1 : one[i] = x
      BY <3>2, ListIs
    <3>5. 1 \in 1 .. 1
      OBVIOUS
    <3>6. Range(one) = {l}
      BY <3>2, <3>3, <3>4, <3>5
    <3>7. Once(one)
      BY <3>2, <3>3 DEF Once
    <3>8. QED BY <3>1, <3>2, <3>6, <3>7
  <2>2. PICK xs, ys : xs = one \o d.exits[f] /\ ys = one \o d.entries[t]
    OBVIOUS
  <2>3. xs \in Seq(AllLinks) /\ Range(xs) = {l} \cup {m \in E : From(m) = f} /\ Once(xs)
    <3>1. d.exits[f] \in Seq(AllLinks) /\ Once(d.exits[f]) /\ Range(d.exits[f]) = {m \in E : From(m) = f}
      BY <1>1, <1>2 DEF Agreeing
    <3>2. PICK s2 : s2 = d.exits[f]
      OBVIOUS
    <3>3. s2 \in Seq(AllLinks) /\ Once(s2) /\ Range(s2) = {m \in E : From(m) = f}
      BY <3>1, <3>2
    <3>4. Range(one) \cap Range(s2) = {}
      BY <1>6, <2>1, <3>3
    <3>5. xs = one \o s2
      BY <2>2, <3>2
    <3>6. xs \in Seq(AllLinks) /\ Range(xs) = Range(one) \cup Range(s2) /\ Once(xs)
      BY <2>1, <3>3, <3>4, <3>5, BothIs
    <3>7. QED BY <2>1, <3>3, <3>6
  <2>4. ys \in Seq(AllLinks) /\ Range(ys) = {l} \cup {m \in E : To(m) = t} /\ Once(ys)
    <3>1. d.entries[t] \in Seq(AllLinks) /\ Once(d.entries[t]) /\ Range(d.entries[t]) = {m \in E : To(m) = t}
      BY <1>1, <1>2 DEF Agreeing
    <3>2. PICK s2 : s2 = d.entries[t]
      OBVIOUS
    <3>3. s2 \in Seq(AllLinks) /\ Once(s2) /\ Range(s2) = {m \in E : To(m) = t}
      BY <3>1, <3>2
    <3>4. Range(one) \cap Range(s2) = {}
      BY <1>6, <2>1, <3>3
    <3>5. ys = one \o s2
      BY <2>2, <3>2
    <3>6. ys \in Seq(AllLinks) /\ Range(ys) = Range(one) \cup Range(s2) /\ Once(ys)
      BY <2>1, <3>3, <3>4, <3>5, BothIs
    <3>7. QED BY <2>1, <3>3, <3>6
  <2>5. r = [d EXCEPT !.exits[f] = one \o @, !.entries[t] = one \o @, !.ascr[l] = s]
    BY <1>1, <1>3, <1>4, <1>6, <2>1 DEF Linked
  <2>6. /\ r.nodes = d.nodes /\ r.ascr = [d.ascr EXCEPT ![l] = s]
        /\ r.exits = [d.exits EXCEPT ![f] = xs] /\ r.entries = [d.entries EXCEPT ![t] = ys]
    BY <1>2, <2>2, <2>5 DEF Dags
  <2>7. /\ r.exits \in [AllNodes -> Seq(AllLinks)] /\ r.entries \in [AllNodes -> Seq(AllLinks)]
        /\ r.ascr \in [AllLinks -> Int]
    BY <1>1, <1>2, <2>3, <2>4, <2>6
  <2>8. r \in Dags
    BY <1>2, <2>5, <2>6, <2>7 DEF Dags
  <2>9. \A n \in AllNodes : Once(r.exits[n]) /\ Once(r.entries[n])
    BY <1>1, <1>2, <2>3, <2>4, <2>6 DEF Agreeing
  <2>10. \A n \in AllNodes : Range(r.exits[n]) = {m \in E \cup {l} : From(m) = n}
    <3>1. ASSUME NEW n \in AllNodes, n = f PROVE Range(r.exits[n]) = {m \in E \cup {l} : From(m) = n}
      BY <1>1, <1>2, <2>3, <2>6, <3>1
    <3>2. ASSUME NEW n \in AllNodes, n # f PROVE Range(r.exits[n]) = {m \in E \cup {l} : From(m) = n}
      <4>1. r.exits[n] = d.exits[n]
        BY <1>2, <2>6, <3>2
      <4>2. Range(d.exits[n]) = {m \in E : From(m) = n}
        BY DEF Agreeing
      <4>3. QED BY <1>1, <3>2, <4>1, <4>2
    <3>3. QED BY <3>1, <3>2
  <2>11. \A n \in AllNodes : Range(r.entries[n]) = {m \in E \cup {l} : To(m) = n}
    <3>1. ASSUME NEW n \in AllNodes, n = t PROVE Range(r.entries[n]) = {m \in E \cup {l} : To(m) = n}
      BY <1>1, <1>2, <2>4, <2>6, <3>1
    <3>2. ASSUME NEW n \in AllNodes, n # t PROVE Range(r.entries[n]) = {m \in E \cup {l} : To(m) = n}
      <4>1. r.entries[n] = d.entries[n]
        BY <1>2, <2>6, <3>2
      <4>2. Range(d.entries[n]) = {m \in E : To(m) = n}
        BY DEF Agreeing
      <4>3. QED BY <1>1, <3>2, <4>1, <4>2
    <3>3. QED BY <3>1, <3>2
  <2>12. \A m \in E \cup {l} : m \in AllLinks /\ From(m) \in r.nodes
    BY <2>6 DEF Agreeing
  <2>13. QED BY <1>3, <2>6, <2>8, <2>9, <2>10, <2>11, <2>12 DEF Agreeing
<1>7. QED BY <1>5, <1>6

LEMMA EmptyList == /\ <<>> \in Seq(AllLinks) /\ Range(<<>>) = {} /\ Once(<<>>)
<1>1. PICK r : r = <<>> /\ r \in Seq(AllLinks) /\ Len(r) = 0
  BY EmptySeq
<1>2. \A i \in 1 .. 0 : FALSE
  OBVIOUS
<1>3. \A x : ~(x \in Range(r))
  BY <1>1, <1>2, ListIs
<1>4. Once(r)
  BY <1>1, <1>2 DEF Once
<1>5. QED BY <1>1, <1>3, <1>4

\* The links between some nodes.
Within(E, ns) == {l \in E : From(l) \in ns /\ To(l) \in ns}

LEMMA KeptAgrees ==
  ASSUME NEW d, NEW E, Agreeing(d, E), NEW ns \in SUBSET AllNodes
  PROVE  Agreeing(Kept(d, ns), Within(E, ns)) /\ Kept(d, ns).nodes = ns
<1>1. /\ d \in Dags /\ d.nodes \in SUBSET AllNodes /\ d.exits \in [AllNodes -> Seq(AllLinks)]
      /\ d.entries \in [AllNodes -> Seq(AllLinks)] /\ d.ascr \in [AllLinks -> Int]
      /\ E \subseteq AllLinks
  BY DEF Agreeing, Dags
<1>2. PICK outs : outs = [n \in AllNodes |-> IF n \notin ns THEN <<>>
                            ELSE Selected(d.exits[n], {l \in AllLinks : To(l) \in ns})]
  OBVIOUS
<1>3. PICK ins : ins = [n \in AllNodes |-> IF n \notin ns THEN <<>>
                            ELSE Selected(d.entries[n], {l \in AllLinks : From(l) \in ns})]
  OBVIOUS
<1>4. PICK r : r = Kept(d, ns)
  OBVIOUS
<1>5. r = [d EXCEPT !.nodes = ns, !.exits = outs, !.entries = ins]
  BY <1>2, <1>3, <1>4, Zenon DEF Kept
<1>6. r.nodes = ns /\ r.exits = outs /\ r.entries = ins /\ r.ascr = d.ascr
  BY <1>1, <1>5 DEF Dags
<1>7. ASSUME NEW n \in AllNodes
      PROVE  outs[n] \in Seq(AllLinks) /\ Once(outs[n]) /\ Range(outs[n]) = {l \in Within(E, ns) : From(l) = n}
  <2>1. CASE n \notin ns
    <3>1. outs[n] = <<>>
      BY <1>2, <2>1
    <3>2. {l \in Within(E, ns) : From(l) = n} = {}
      BY <2>1 DEF Within
    <3>3. QED BY <3>1, <3>2, EmptyList
  <2>2. CASE n \in ns
    <3>1. PICK set : set = {l \in AllLinks : To(l) \in ns}
      OBVIOUS
    <3>2. outs[n] = Selected(d.exits[n], set)
      BY <1>2, <2>2, <3>1
    <3>3. d.exits[n] \in Seq(AllLinks) /\ Once(d.exits[n]) /\ Range(d.exits[n]) = {l \in E : From(l) = n}
      BY <1>1 DEF Agreeing
    <3>4. outs[n] \in Seq(AllLinks) /\ Once(outs[n]) /\ Range(outs[n]) = Range(d.exits[n]) \cap set
      BY <3>2, <3>3, SelectedIs
    <3>5. Range(outs[n]) = {l \in Within(E, ns) : From(l) = n}
      BY <1>1, <2>2, <3>1, <3>3, <3>4 DEF Within
    <3>6. QED BY <3>4, <3>5
  <2>3. QED BY <2>1, <2>2
<1>8. ASSUME NEW n \in AllNodes
      PROVE  ins[n] \in Seq(AllLinks) /\ Once(ins[n]) /\ Range(ins[n]) = {l \in Within(E, ns) : To(l) = n}
  <2>1. CASE n \notin ns
    <3>1. ins[n] = <<>>
      BY <1>3, <2>1
    <3>2. {l \in Within(E, ns) : To(l) = n} = {}
      BY <2>1 DEF Within
    <3>3. QED BY <3>1, <3>2, EmptyList
  <2>2. CASE n \in ns
    <3>1. PICK set : set = {l \in AllLinks : From(l) \in ns}
      OBVIOUS
    <3>2. ins[n] = Selected(d.entries[n], set)
      BY <1>3, <2>2, <3>1
    <3>3. d.entries[n] \in Seq(AllLinks) /\ Once(d.entries[n]) /\ Range(d.entries[n]) = {l \in E : To(l) = n}
      BY <1>1 DEF Agreeing
    <3>4. ins[n] \in Seq(AllLinks) /\ Once(ins[n]) /\ Range(ins[n]) = Range(d.entries[n]) \cap set
      BY <3>2, <3>3, SelectedIs
    <3>5. Range(ins[n]) = {l \in Within(E, ns) : To(l) = n}
      BY <1>1, <2>2, <3>1, <3>3, <3>4 DEF Within
    <3>6. QED BY <3>4, <3>5
  <2>3. QED BY <2>1, <2>2
<1>9. r \in Dags
  <2>1. outs \in [AllNodes -> Seq(AllLinks)] /\ ins \in [AllNodes -> Seq(AllLinks)]
    BY <1>2, <1>3, <1>7, <1>8
  <2>2. QED BY <1>1, <1>5, <2>1 DEF Dags
<1>10. \A l \in Within(E, ns) : l \in AllLinks /\ From(l) \in ns
  BY <1>1 DEF Within
<1>11. QED BY <1>4, <1>6, <1>7, <1>8, <1>9, <1>10 DEF Agreeing

LEMMA CutAgrees ==
  ASSUME NEW d, NEW E, Agreeing(d, E), NEW l \in AllLinks
  PROVE  Agreeing(Cut(d, l), E \ {l}) /\ Cut(d, l).nodes = d.nodes
<1>1. PICK f, t : f = From(l) /\ t = To(l) /\ f \in AllNodes /\ t \in AllNodes
  BY LinkIs
<1>2. /\ d \in Dags /\ d.nodes \in SUBSET AllNodes /\ d.exits \in [AllNodes -> Seq(AllLinks)]
      /\ d.entries \in [AllNodes -> Seq(AllLinks)] /\ d.ascr \in [AllLinks -> Int]
      /\ E \subseteq AllLinks
  BY DEF Agreeing, Dags
<1>3. PICK others : others = AllLinks \ {l}
  OBVIOUS
<1>4. PICK xs, ys : xs = Reverse(Selected(d.exits[f], others)) /\ ys = Reverse(Selected(d.entries[t], others))
  OBVIOUS
<1>5. xs \in Seq(AllLinks) /\ Range(xs) = {m \in E \ {l} : From(m) = f} /\ Once(xs)
  <2>1. d.exits[f] \in Seq(AllLinks) /\ Once(d.exits[f]) /\ Range(d.exits[f]) = {m \in E : From(m) = f}
    BY <1>1, <1>2 DEF Agreeing
  <2>2. PICK s : s = Selected(d.exits[f], others)
    OBVIOUS
  <2>3. s \in Seq(AllLinks) /\ Once(s) /\ Range(s) = Range(d.exits[f]) \cap others
    BY <2>1, <2>2, SelectedIs
  <2>4. Range(s) = {m \in E \ {l} : From(m) = f}
    BY <1>2, <1>3, <2>1, <2>3
  <2>5. QED BY <1>4, <2>2, <2>3, <2>4, ReverseIs
<1>6. ys \in Seq(AllLinks) /\ Range(ys) = {m \in E \ {l} : To(m) = t} /\ Once(ys)
  <2>1. d.entries[t] \in Seq(AllLinks) /\ Once(d.entries[t]) /\ Range(d.entries[t]) = {m \in E : To(m) = t}
    BY <1>1, <1>2 DEF Agreeing
  <2>2. PICK s : s = Selected(d.entries[t], others)
    OBVIOUS
  <2>3. s \in Seq(AllLinks) /\ Once(s) /\ Range(s) = Range(d.entries[t]) \cap others
    BY <2>1, <2>2, SelectedIs
  <2>4. Range(s) = {m \in E \ {l} : To(m) = t}
    BY <1>2, <1>3, <2>1, <2>3
  <2>5. QED BY <1>4, <2>2, <2>3, <2>4, ReverseIs
<1>7. PICK r : r = Cut(d, l)
  OBVIOUS
<1>8. r = [d EXCEPT !.exits[f] = Reverse(Selected(@, others)), !.entries[t] = Reverse(Selected(@, others))]
  BY <1>1, <1>3, <1>7, Zenon DEF Cut
<1>9. /\ r.nodes = d.nodes /\ r.ascr = d.ascr
      /\ r.exits = [d.exits EXCEPT ![f] = xs] /\ r.entries = [d.entries EXCEPT ![t] = ys]
  BY <1>2, <1>4, <1>8 DEF Dags
<1>10. r.exits \in [AllNodes -> Seq(AllLinks)] /\ r.entries \in [AllNodes -> Seq(AllLinks)]
  BY <1>1, <1>2, <1>5, <1>6, <1>9
<1>11. r \in Dags
  BY <1>2, <1>8, <1>9, <1>10 DEF Dags
<1>12. \A n \in AllNodes : Once(r.exits[n]) /\ Once(r.entries[n])
  BY <1>1, <1>2, <1>5, <1>6, <1>9 DEF Agreeing
<1>13. \A n \in AllNodes : Range(r.exits[n]) = {m \in E \ {l} : From(m) = n}
  <2>1. ASSUME NEW n \in AllNodes, n = f PROVE Range(r.exits[n]) = {m \in E \ {l} : From(m) = n}
    BY <1>1, <1>2, <1>5, <1>9, <2>1
  <2>2. ASSUME NEW n \in AllNodes, n # f PROVE Range(r.exits[n]) = {m \in E \ {l} : From(m) = n}
    <3>1. r.exits[n] = d.exits[n]
      BY <1>2, <1>9, <2>2
    <3>2. Range(d.exits[n]) = {m \in E : From(m) = n}
      BY DEF Agreeing
    <3>3. QED BY <1>1, <2>2, <3>1, <3>2
  <2>3. QED BY <2>1, <2>2
<1>14. \A n \in AllNodes : Range(r.entries[n]) = {m \in E \ {l} : To(m) = n}
  <2>1. ASSUME NEW n \in AllNodes, n = t PROVE Range(r.entries[n]) = {m \in E \ {l} : To(m) = n}
    BY <1>1, <1>2, <1>6, <1>9, <2>1
  <2>2. ASSUME NEW n \in AllNodes, n # t PROVE Range(r.entries[n]) = {m \in E \ {l} : To(m) = n}
    <3>1. r.entries[n] = d.entries[n]
      BY <1>2, <1>9, <2>2
    <3>2. Range(d.entries[n]) = {m \in E : To(m) = n}
      BY DEF Agreeing
    <3>3. QED BY <1>1, <2>2, <3>1, <3>2
  <2>3. QED BY <2>1, <2>2
<1>15. \A m \in E \ {l} : m \in AllLinks /\ From(m) \in r.nodes
  BY <1>2, <1>9 DEF Agreeing
<1>16. QED BY <1>7, <1>9, <1>11, <1>12, <1>13, <1>14, <1>15 DEF Agreeing

\* ---- what reaches the end, and what is reached from the start ----

Backwards(E, ns) == End \in ns /\ \A l \in E : To(l) \in ns => From(l) \in ns
Forwards(E, ns) == Start \in ns /\ \A l \in E : From(l) \in ns => To(l) \in ns

LEMMA ReachingIs ==
  ASSUME NEW d, NEW E, Agreeing(d, E)
  PROVE  /\ Reaching(d) \in SUBSET AllNodes /\ Backwards(E, Reaching(d))
         /\ \A ns \in SUBSET AllNodes : Backwards(E, ns) => Reaching(d) \subseteq ns
<1>1. ASSUME NEW ns \in SUBSET AllNodes PROVE EndAndBefore(d, ns) <=> Backwards(E, ns)
  <2>1. \A n \in ns : Range(d.entries[n]) = {l \in E : To(l) = n}
    BY <1>1 DEF Agreeing
  <2>2. QED BY <2>1 DEF EndAndBefore, Backwards
<1>2. PICK R : R = Reaching(d)
  OBVIOUS
<1>3. R \in SUBSET AllNodes /\ \A n \in R, ns \in SUBSET AllNodes : EndAndBefore(d, ns) => n \in ns
  BY <1>2 DEF Reaching
<1>4. \A n \in AllNodes : (\A ns \in SUBSET AllNodes : EndAndBefore(d, ns) => n \in ns) => n \in R
  BY <1>2 DEF Reaching
<1>5. \A ns \in SUBSET AllNodes : Backwards(E, ns) => R \subseteq ns
  BY <1>1, <1>3
<1>6. End \in R
  <2>1. \A ns \in SUBSET AllNodes : EndAndBefore(d, ns) => End \in ns
    BY DEF EndAndBefore
  <2>2. QED BY <1>4, <2>1, NodesAre
<1>7. ASSUME NEW l \in E, To(l) \in R PROVE From(l) \in R
  <2>1. ASSUME NEW ns \in SUBSET AllNodes, EndAndBefore(d, ns) PROVE From(l) \in ns
    <3>1. Backwards(E, ns) /\ To(l) \in ns
      BY <1>1, <1>3, <1>7, <2>1
    <3>2. QED BY <3>1 DEF Backwards
  <2>2. From(l) \in AllNodes
    BY LinkIs DEF Agreeing
  <2>3. QED BY <1>4, <2>1, <2>2
<1>8. QED BY <1>2, <1>3, <1>5, <1>6, <1>7 DEF Backwards

LEMMA ReachedIs ==
  ASSUME NEW d, NEW E, Agreeing(d, E)
  PROVE  /\ Reached(d) \in SUBSET AllNodes /\ Forwards(E, Reached(d))
         /\ \A ns \in SUBSET AllNodes : Forwards(E, ns) => Reached(d) \subseteq ns
<1>1. ASSUME NEW ns \in SUBSET AllNodes PROVE StartAndAfter(d, ns) <=> Forwards(E, ns)
  <2>1. \A n \in ns : Range(d.exits[n]) = {l \in E : From(l) = n}
    BY <1>1 DEF Agreeing
  <2>2. QED BY <2>1 DEF StartAndAfter, Forwards
<1>2. PICK R : R = Reached(d)
  OBVIOUS
<1>3. R \in SUBSET AllNodes /\ \A n \in R, ns \in SUBSET AllNodes : StartAndAfter(d, ns) => n \in ns
  BY <1>2 DEF Reached
<1>4. \A n \in AllNodes : (\A ns \in SUBSET AllNodes : StartAndAfter(d, ns) => n \in ns) => n \in R
  BY <1>2 DEF Reached
<1>5. \A ns \in SUBSET AllNodes : Forwards(E, ns) => R \subseteq ns
  BY <1>1, <1>3
<1>6. Start \in R
  <2>1. \A ns \in SUBSET AllNodes : StartAndAfter(d, ns) => Start \in ns
    BY DEF StartAndAfter
  <2>2. QED BY <1>4, <2>1, NodesAre
<1>7. ASSUME NEW l \in E, From(l) \in R PROVE To(l) \in R
  <2>1. ASSUME NEW ns \in SUBSET AllNodes, StartAndAfter(d, ns) PROVE To(l) \in ns
    <3>1. Forwards(E, ns) /\ From(l) \in ns
      BY <1>1, <1>3, <1>7, <2>1
    <3>2. QED BY <3>1 DEF Forwards
  <2>2. To(l) \in AllNodes
    BY LinkIs DEF Agreeing
  <2>3. QED BY <1>4, <2>1, <2>2
<1>8. QED BY <1>2, <1>3, <1>5, <1>6, <1>7 DEF Forwards

\* Every node is on a path from the start to the end.
Trimmed(d, E) ==
  /\ Start \in d.nodes /\ d.nodes = Reached(d) \cap Reaching(d)
  /\ \A l \in E : To(l) \in d.nodes

\* When the nodes are kept that reach the end, they still do.
LEMMA KeptReaching ==
  ASSUME NEW d, NEW E, Agreeing(d, E)
  PROVE  Reaching(Kept(d, Reaching(d))) = Reaching(d)
<1>1. PICK R : R = Reaching(d)
  OBVIOUS
<1>2. /\ R \in SUBSET AllNodes /\ Backwards(E, R)
      /\ \A ns \in SUBSET AllNodes : Backwards(E, ns) => R \subseteq ns
  BY <1>1, ReachingIs
<1>3. PICK r, F : r = Kept(d, R) /\ F = Within(E, R) /\ Agreeing(r, F)
  BY <1>2, KeptAgrees
<1>4. PICK T : T = Reaching(r)
  OBVIOUS
<1>5. /\ T \in SUBSET AllNodes /\ Backwards(F, T)
      /\ \A ns \in SUBSET AllNodes : Backwards(F, ns) => T \subseteq ns
  BY <1>3, <1>4, ReachingIs
<1>6. T \subseteq R
  <2>1. Backwards(F, R)
    BY <1>2, <1>3 DEF Backwards, Within
  <2>2. QED BY <1>2, <1>5, <2>1
<1>7. R \subseteq T
  <2>1. Backwards(E, T \cap R)
    <3>1. End \in T \cap R
      BY <1>2, <1>5 DEF Backwards
    <3>2. ASSUME NEW l \in E, To(l) \in T \cap R PROVE From(l) \in T \cap R
      <4>1. From(l) \in R
        BY <1>2, <3>2 DEF Backwards
      <4>2. l \in F
        BY <1>3, <3>2, <4>1 DEF Within
      <4>3. QED BY <1>5, <3>2, <4>1, <4>2 DEF Backwards
    <3>3. QED BY <3>1, <3>2 DEF Backwards
  <2>2. T \cap R \in SUBSET AllNodes
    BY <1>2
  <2>3. QED BY <1>2, <2>1, <2>2
<1>8. QED BY <1>1, <1>3, <1>4, <1>6, <1>7

\* And are reached from the start if they were.
LEMMA KeptReached ==
  ASSUME NEW d, NEW E, Agreeing(d, E), Start \in Reaching(d), Reaching(d) \subseteq Reached(d)
  PROVE  Reaching(d) \subseteq Reached(Kept(d, Reaching(d)))
<1>1. PICK R, A : R = Reaching(d) /\ A = Reached(d) /\ R \subseteq A /\ Start \in R
  OBVIOUS
<1>2. R \in SUBSET AllNodes /\ Backwards(E, R)
  BY <1>1, ReachingIs
<1>3. \A ns \in SUBSET AllNodes : Forwards(E, ns) => A \subseteq ns
  BY <1>1, ReachedIs
<1>4. PICK r, F : r = Kept(d, R) /\ F = Within(E, R) /\ Agreeing(r, F)
  BY <1>2, KeptAgrees
<1>5. PICK T : T = Reached(r)
  OBVIOUS
<1>6. T \in SUBSET AllNodes /\ Forwards(F, T)
  BY <1>4, <1>5, ReachedIs
<1>7. PICK ns : ns = T \cup (AllNodes \ R)
  OBVIOUS
<1>8. Forwards(E, ns)
  <2>1. Start \in ns
    BY <1>6, <1>7 DEF Forwards
  <2>2. ASSUME NEW l \in E, From(l) \in ns PROVE To(l) \in ns
    <3>1. To(l) \in AllNodes /\ (To(l) \in R => From(l) \in R)
      BY <1>2, LinkIs DEF Backwards, Agreeing
    <3>2. CASE To(l) \notin R
      BY <1>7, <3>1, <3>2
    <3>3. CASE To(l) \in R
      <4>1. l \in F /\ From(l) \in T
        BY <1>4, <1>7, <2>2, <3>1, <3>3 DEF Within
      <4>2. QED BY <1>6, <1>7, <4>1 DEF Forwards
    <3>4. QED BY <3>2, <3>3
  <2>3. QED BY <2>1, <2>2 DEF Forwards
<1>9. R \subseteq ns
  BY <1>1, <1>3, <1>6, <1>7, <1>8
<1>10. QED BY <1>1, <1>4, <1>5, <1>7, <1>9

LEMMA KeptIsTrimmed ==
  ASSUME NEW d, NEW E, Agreeing(d, E), Start \in Reaching(d),
         Reaching(d) \subseteq Reached(Kept(d, Reaching(d)))
  PROVE  LET r == Kept(d, Reaching(d))
             F == Within(E, Reaching(d))
         IN Agreeing(r, F) /\ Trimmed(r, F)
<1>1. PICK R, r, F : R = Reaching(d) /\ r = Kept(d, R) /\ F = Within(E, R)
  OBVIOUS
<1>2. R \in SUBSET AllNodes /\ Reaching(r) = R
  BY <1>1, ReachingIs, KeptReaching
<1>3. Agreeing(r, F) /\ r.nodes = R
  BY <1>1, <1>2, KeptAgrees
<1>4. \A l \in F : To(l) \in R
  BY <1>1 DEF Within
<1>5. R \subseteq Reached(r) /\ Start \in R
  BY <1>1
<1>6. QED BY <1>1, <1>2, <1>3, <1>4, <1>5 DEF Trimmed

\* A node that is not the end has links out of it, one that is not the start links into it.
LEMMA TrimmedHasLinks ==
  ASSUME NEW d, NEW E, Agreeing(d, E), Trimmed(d, E)
  PROVE  /\ End \in d.nodes
         /\ \A n \in d.nodes : n # End => \E l \in E : From(l) = n
         /\ \A n \in d.nodes : n # Start => \E l \in E : To(l) = n
<1>1. PICK R, A : R = Reaching(d) /\ A = Reached(d) /\ d.nodes = A \cap R /\ Start \in d.nodes
  BY DEF Trimmed
<1>2. /\ R \in SUBSET AllNodes /\ Backwards(E, R)
      /\ \A ns \in SUBSET AllNodes : Backwards(E, ns) => R \subseteq ns
  BY <1>1, ReachingIs
<1>3. /\ A \in SUBSET AllNodes /\ Forwards(E, A)
      /\ \A ns \in SUBSET AllNodes : Forwards(E, ns) => A \subseteq ns
  BY <1>1, ReachedIs
<1>4. ASSUME NEW n \in R, n # End PROVE \E l \in E : From(l) = n
  <2>1. ASSUME \A l \in E : From(l) # n PROVE FALSE
    <3>1. Backwards(E, R \ {n})
      BY <1>2, <1>4, <2>1 DEF Backwards
    <3>2. R \ {n} \in SUBSET AllNodes
      BY <1>2
    <3>3. QED BY <1>2, <1>4, <3>1, <3>2
  <2>2. QED BY <2>1
<1>5. ASSUME NEW n \in A, n # Start PROVE \E l \in E : To(l) = n
  <2>1. ASSUME \A l \in E : To(l) # n PROVE FALSE
    <3>1. Forwards(E, A \ {n})
      BY <1>3, <1>5, <2>1 DEF Forwards
    <3>2. A \ {n} \in SUBSET AllNodes
      BY <1>3
    <3>3. QED BY <1>3, <1>5, <3>1, <3>2
  <2>2. QED BY <2>1
<1>6. End \in A
  <2>1. ASSUME End \notin A PROVE FALSE
    <3>1. Backwards(E, R \ A)
      <4>1. End \in R \ A
        BY <1>2, <2>1 DEF Backwards
      <4>2. \A l \in E : To(l) \in R \ A => From(l) \in R \ A
        BY <1>2, <1>3 DEF Backwards, Forwards
      <4>3. QED BY <4>1, <4>2 DEF Backwards
    <3>2. R \ A \in SUBSET AllNodes
      BY <1>2
    <3>3. R \subseteq R \ A
      BY <1>2, <3>1, <3>2
    <3>4. QED BY <1>1, <3>3
  <2>2. QED BY <2>1
<1>7. QED BY <1>1, <1>2, <1>4, <1>5, <1>6 DEF Backwards

\* ---- links below the beam are taken out ----

\* Dags with the nodes ns whose lists agree.
Sound(ns) == {d \in Dags : d.nodes = ns /\ \E E \in SUBSET AllLinks : Agreeing(d, E)}

LEMMA SoundIs ==
  ASSUME NEW d, NEW ns
  PROVE  /\ \A E : Agreeing(d, E) /\ d.nodes = ns => d \in Sound(ns)
         /\ d \in Sound(ns) => d.nodes = ns /\ \E E : Agreeing(d, E)
BY DEF Sound, Agreeing

\* What is left of d when link i has been looked at.
CutOne(beam, links, i, d) == IF 100 * Share(links[i]) < beam * norm THEN Cut(d, links[i]) ELSE d
CutTo(beam, links) ==
  CHOOSE after : after = [i \in 0 .. Len(links) |->
                            IF i = 0 THEN dag ELSE CutOne(beam, links, i, after[i - 1])]

LEMMA CutBelowIsCutTo ==
  ASSUME NEW beam, NEW links
  PROVE  CutBelow(beam, links) = CutTo(beam, links)[Len(links)]
BY Zenon DEF CutBelow, CutTo, CutOne

LEMMA CutOneIsSound ==
  ASSUME NEW beam, NEW links, NEW i, links[i] \in AllLinks, NEW ns, NEW d \in Sound(ns)
  PROVE  CutOne(beam, links, i, d) \in Sound(ns)
<1>1. PICK E : Agreeing(d, E) /\ d.nodes = ns
  BY SoundIs
<1>2. PICK l : l = links[i] /\ l \in AllLinks
  OBVIOUS
<1>3. Agreeing(Cut(d, l), E \ {l}) /\ Cut(d, l).nodes = ns
  BY <1>1, <1>2, CutAgrees
<1>4. Cut(d, l) \in Sound(ns)
  BY <1>3, SoundIs
<1>5. CutOne(beam, links, i, d) = Cut(d, l) \/ CutOne(beam, links, i, d) = d
  BY Zenon, <1>2 DEF CutOne
<1>6. QED BY <1>4, <1>5

LEMMA CutBelowIs ==
  ASSUME NEW beam, NEW links \in Seq(AllLinks), NEW E, Agreeing(dag, E)
  PROVE  CutBelow(beam, links) \in Sound(dag.nodes)
<1>1. PICK n \in Nat : n = Len(links)
  BY ListIs
<1>2. PICK V, d : V = Sound(dag.nodes) /\ d = dag /\ d \in V
  BY SoundIs
<1>3. PICK g : g = [i \in 1 .. n |-> [x \in V |-> CutOne(beam, links, i, x)]]
  OBVIOUS
<1>4. \A i \in 1 .. n, x \in V : CutOne(beam, links, i, x) \in V
  <2>1. \A i \in 1 .. n : links[i] \in AllLinks
    BY <1>1, ListIs
  <2>2. QED BY <1>2, <2>1, CutOneIsSound
<1>5. g \in [1 .. n -> [V -> V]]
  BY <1>3, <1>4
<1>6. PICK f : Chain(f, n, V, d, g)
  BY <1>2, <1>5, Iteration
<1> DEFINE Is(h) == h = [i \in 0 .. Len(links) |->
                           IF i = 0 THEN dag ELSE CutOne(beam, links, i, h[i - 1])]
<1>7. Is(f)
  <2>1. \A i \in 0 .. n : i # 0 => i \in 1 .. n /\ i - 1 \in 0 .. n
    OBVIOUS
  <2>2. ASSUME NEW i \in 0 .. n, i # 0 PROVE f[i] = CutOne(beam, links, i, f[i - 1])
    <3>1. i \in 1 .. n /\ f[i - 1] \in V /\ f[i] = g[i][f[i - 1]]
      BY <1>6, <2>1, <2>2 DEF Chain
    <3>2. g[i] = [x \in V |-> CutOne(beam, links, i, x)]
      BY <1>3, <3>1
    <3>3. QED BY <3>1, <3>2
  <2>3. f = [i \in 0 .. n |-> f[i]]
    BY <1>6 DEF Chain
  <2>4. f[0] = dag
    BY <1>2, <1>6 DEF Chain
  <2>5. QED BY <1>1, <2>2, <2>3, <2>4, Zenon
<1>8. Is(CutTo(beam, links))
  <2>1. CutTo(beam, links) = CHOOSE h : Is(h)
    BY DEF CutTo
  <2> HIDE DEF Is
  <2>2. QED BY <1>7, <2>1
<1>9. PICK after : after = CutTo(beam, links)
  OBVIOUS
<1>10. \A i \in 0 .. n : after[i] = IF i = 0 THEN d ELSE CutOne(beam, links, i, after[i - 1])
  <2>1. after = [i \in 0 .. n |-> IF i = 0 THEN d ELSE CutOne(beam, links, i, after[i - 1])]
    BY <1>1, <1>2, <1>8, <1>9
  <2>2. QED BY <2>1, Zenon
<1> DEFINE T == {i \in 0 .. n : after[i] \in V}
<1>11. 0 \in T
  <2>1. 0 \in 0 .. n
    BY <1>1
  <2>2. QED BY <1>2, <1>10, <2>1
<1>12. ASSUME NEW i \in 1 .. n, i - 1 \in T PROVE i \in T
  <2>1. i \in 0 .. n /\ i # 0
    BY <1>1
  <2>2. after[i] = CutOne(beam, links, i, after[i - 1])
    BY <1>10, <2>1
  <2>3. after[i - 1] \in V
    BY <1>12
  <2>4. QED BY <1>4, <2>1, <2>2, <2>3
<1>13. n \in T
  <2>1. n \in 0 .. n
    OBVIOUS
  <2> HIDE DEF T
  <2>2. \A i \in 0 .. n : i \in T
    BY <1>11, <1>12, Upwards
  <2>3. QED BY <2>1, <2>2
<1>14. CutBelow(beam, links) = after[n]
  BY <1>1, <1>9, CutBelowIsCutTo
<1>15. QED BY <1>2, <1>13, <1>14

\* ---- a walk over a network, in either direction ----

LEMMA LengthIs ==
  ASSUME NEW S, NEW s \in Seq(S), Once(s)
  PROVE  IsFiniteSet(Range(s)) /\ Cardinality(Range(s)) = Len(s)
<1>1. PICK n \in Nat : n = Len(s)
  BY ListIs
<1>2. PICK R : R = Range(s)
  OBVIOUS
<1>3. s \in [1 .. n -> S] /\ \A x : x \in R <=> \E i \in 1 .. n : s[i] = x
  BY <1>1, <1>2, ListIs
<1>4. s \in [1 .. n -> R]
  <2>1. \A i \in 1 .. n : s[i] \in R
    BY <1>3
  <2>2. QED BY <1>3, <2>1
<1>5. s \in Surjection(1 .. n, R)
  BY <1>3, <1>4 DEF Surjection
<1>6. s \in Injection(1 .. n, R)
  <2>1. \A i, j \in 1 .. n : s[i] = s[j] => i = j
    BY <1>1 DEF Once
  <2>2. QED BY <1>4, <2>1 DEF Injection, IsInjective
<1>7. IsFiniteSet(1 .. n) /\ Cardinality(1 .. n) = n
  <2>1. n \in Int /\ 1 \in Int /\ (1 > n => n = 0) /\ n - 1 + 1 = n
    OBVIOUS
  <2>2. QED BY <2>1, FS_Interval
<1>8. QED BY <1>1, <1>2, <1>5, <1>6, <1>7, FS_Surjection

\* The links E between nodes, each from src to dst, listed at both; from a to b there are
\* no dead ends and no cycles.
Network(outs, ins, E, src, dst, a, b) ==
  /\ outs \in [AllNodes -> Seq(AllLinks)] /\ ins \in [AllNodes -> Seq(AllLinks)]
  /\ E \subseteq AllLinks /\ src \in [AllLinks -> AllNodes] /\ dst \in [AllLinks -> AllNodes]
  /\ \A n \in AllNodes : Once(outs[n]) /\ Once(ins[n])
  /\ \A n \in AllNodes : Range(outs[n]) = {l \in E : src[l] = n}
  /\ \A n \in AllNodes : Range(ins[n]) = {l \in E : dst[l] = n}
  /\ a \in AllNodes /\ b \in AllNodes
  /\ \E rank \in [AllNodes -> Nat] : \A l \in E : rank[src[l]] < rank[dst[l]]
  /\ \A l \in E : src[l] # b /\ dst[l] # a
  /\ \A l \in E : src[l] = a \/ \E m \in E : dst[m] = src[l]
  /\ \A l \in E : dst[l] = b \/ \E m \in E : src[m] = dst[l]

\* All links into node n are among ls.
Ready(E, dst, ls, n) == \A m \in E : dst[m] = n => m \in ls
Missing(E, dst, ls, n) == {l \in E : dst[l] = n} \ ls

\* The links sn have been given, those in q are next: these are the links out of nodes
\* into which all links have been given.  inf has the number of the others.
Walking(E, src, dst, q, inf, sn) ==
  /\ q \in Seq(AllLinks) /\ sn \in Seq(AllLinks)
  /\ Once(q) /\ Once(sn) /\ Range(q) \cap Range(sn) = {}
  /\ inf \in [AllNodes -> Int]
  /\ \A n \in AllNodes : inf[n] = Cardinality(Missing(E, dst, Range(sn), n))
  /\ Range(q) \cup Range(sn) \subseteq E
  /\ \A l \in E : l \in Range(q) \cup Range(sn) <=> Ready(E, dst, Range(sn), src[l])
  /\ \A i \in 1 .. Len(sn) : \A m \in E : dst[m] = src[sn[i]] => \E k \in 1 .. i - 1 : sn[k] = m

LEMMA WalkBegins ==
  ASSUME NEW outs, NEW ins, NEW E, NEW src, NEW dst, NEW a, NEW b,
         Network(outs, ins, E, src, dst, a, b)
  PROVE  Walking(E, src, dst, outs[a], Counts(ins), <<>>)
<1>1. PICK q, inf, sn : q = outs[a] /\ inf = Counts(ins) /\ sn = <<>>
  OBVIOUS
<1>2. sn \in Seq(AllLinks) /\ Range(sn) = {} /\ Once(sn) /\ Len(sn) = 0
  BY <1>1, EmptyList, EmptySeq
<1>3. q \in Seq(AllLinks) /\ Once(q) /\ Range(q) = {l \in E : src[l] = a}
  BY <1>1 DEF Network
<1>4. \A n \in AllNodes : inf[n] \in Int /\ inf[n] = Cardinality(Missing(E, dst, Range(sn), n))
  <2>1. ASSUME NEW n \in AllNodes
        PROVE  inf[n] \in Int /\ inf[n] = Cardinality(Missing(E, dst, Range(sn), n))
    <3>1. ins[n] \in Seq(AllLinks) /\ Once(ins[n]) /\ Range(ins[n]) = {l \in E : dst[l] = n}
      BY DEF Network
    <3>2. Len(ins[n]) \in Nat /\ Cardinality(Range(ins[n])) = Len(ins[n])
      BY <3>1, LengthIs, ListIs
    <3>3. Missing(E, dst, Range(sn), n) = Range(ins[n])
      BY <1>2, <3>1 DEF Missing
    <3>4. inf[n] = Len(ins[n])
      BY <1>1 DEF Counts
    <3>5. QED BY <3>2, <3>3, <3>4
  <2>2. QED BY <2>1
<1>5. inf \in [AllNodes -> Int]
  <2>1. inf = [n \in AllNodes |-> inf[n]]
    BY <1>1 DEF Counts
  <2>2. QED BY <1>4, <2>1
<1>6. \A l \in E : l \in Range(q) \cup Range(sn) <=> Ready(E, dst, Range(sn), src[l])
  <2>1. ASSUME NEW l \in E PROVE src[l] = a <=> Ready(E, dst, {}, src[l])
    BY DEF Network, Ready
  <2>2. QED BY <1>2, <1>3, <2>1
<1>7. \A i \in 1 .. Len(sn) : FALSE
  BY <1>2
<1>8. QED BY <1>1, <1>2, <1>3, <1>4, <1>5, <1>6, <1>7 DEF Walking

\* When all links into the last node have been given, all links have.
LEMMA AllAtTheLast ==
  ASSUME NEW outs, NEW ins, NEW E, NEW src, NEW dst, NEW a, NEW b,
         Network(outs, ins, E, src, dst, a, b), NEW ls,
         \A l \in E \cap ls : Ready(E, dst, ls, src[l]), Ready(E, dst, ls, b)
  PROVE  E \subseteq ls
<1>1. PICK rank \in [AllNodes -> Nat] : \A l \in E : rank[src[l]] < rank[dst[l]]
  BY DEF Network
<1>2. /\ E \subseteq AllLinks /\ src \in [AllLinks -> AllNodes] /\ dst \in [AllLinks -> AllNodes]
      /\ \A l \in E : dst[l] = b \/ \E m \in E : src[m] = dst[l]
  BY DEF Network
<1>4. PICK top \in Nat : \A n \in AllNodes : rank[n] <= top
  <2>1. PICK ranks : ranks = {rank[n] : n \in AllNodes}
    OBVIOUS
  <2>2. PICK N \in Nat : AllNodes = 1 .. N
    BY LatticeAssumption DEF AllNodes
  <2> DEFINE S == {i \in 0 .. N : \E t \in Nat : \A n \in 1 .. i : rank[n] <= t}
  <2>3. 0 \in S
    OBVIOUS
  <2>4. ASSUME NEW i \in 1 .. N, i - 1 \in S PROVE i \in S
    <3>1. PICK t \in Nat : \A n \in 1 .. i - 1 : rank[n] <= t
      BY <2>4
    <3>2. PICK r \in Nat : r = rank[i]
      BY <2>2
    <3>3. t + r \in Nat /\ t <= t + r /\ r <= t + r
      OBVIOUS
    <3>4. ASSUME NEW n \in 1 .. i PROVE rank[n] <= t + r
      <4>1. CASE n = i
        BY <3>2, <3>3, <4>1
      <4>2. CASE n # i
        <5>1. n \in 1 .. i - 1 /\ n \in AllNodes
          BY <2>2, <4>2
        <5>2. rank[n] <= t /\ rank[n] \in Nat
          BY <3>1, <5>1
        <5>3. QED BY <3>3, <5>2
      <4>3. QED BY <4>1, <4>2
    <3>5. i \in 0 .. N
      OBVIOUS
    <3>6. QED BY <3>3, <3>4, <3>5
  <2>5. N \in S
    <3>1. N \in 0 .. N
      OBVIOUS
    <3> HIDE DEF S
    <3>2. \A i \in 0 .. N : i \in S
      BY <2>3, <2>4, Upwards
    <3>3. QED BY <3>1, <3>2
  <2>6. QED BY <2>2, <2>5
<1>5. ASSUME NEW x \in E, x \notin ls PROVE FALSE
  <2> DEFINE S == {top - rank[dst[l]] : l \in E \ ls}
  <2>1. S \in SUBSET Nat
    <3>1. ASSUME NEW l \in E PROVE top - rank[dst[l]] \in Nat
      <4>1. dst[l] \in AllNodes
        BY <1>2
      <4>2. PICK r \in Nat : r = rank[dst[l]] /\ r <= top
        BY <1>4, <4>1
      <4>3. QED BY <4>2
    <3>2. QED BY <3>1
  <2>2. S # {}
    BY <1>5
  <2>3. PICK k \in S : \A j \in S : k <= j
    <3> HIDE DEF S
    <3>1. QED BY <2>1, <2>2, Smallest
  <2>4. PICK l \in E \ ls : k = top - rank[dst[l]]
    BY <2>3
  <2>5. dst[l] # b
    BY <2>4 DEF Ready
  <2>6. PICK m \in E : src[m] = dst[l]
    BY <1>2, <2>4, <2>5
  <2>7. m \notin ls
    BY <2>4, <2>6 DEF Ready
  <2>8. PICK j \in Nat : j = rank[dst[l]]
    BY <1>2, <2>4
  <2>9. PICK i \in Nat : i = rank[dst[m]]
    BY <1>2, <2>6
  <2>10. j < i
    BY <1>1, <2>6, <2>8, <2>9
  <2>11. top - i \in S
    BY <2>6, <2>7, <2>9
  <2>12. k <= top - i
    <3> HIDE DEF S
    <3>1. QED BY <2>3, <2>11
  <2>13. QED BY <2>4, <2>8, <2>10, <2>12
<1>6. QED BY <1>5

\* A walk ends when all links have been given.
LEMMA WalkEnds ==
  ASSUME NEW outs, NEW ins, NEW E, NEW src, NEW dst, NEW a, NEW b,
         Network(outs, ins, E, src, dst, a, b),
         NEW inf, NEW sn, Walking(E, src, dst, <<>>, inf, sn)
  PROVE  Range(sn) = E
<1>1. PICK rank \in [AllNodes -> Nat] : \A l \in E : rank[src[l]] < rank[dst[l]]
  BY DEF Network
<1>2. E \subseteq AllLinks /\ src \in [AllLinks -> AllNodes] /\ dst \in [AllLinks -> AllNodes]
  BY DEF Network
<1>3. PICK ls : ls = Range(sn)
  OBVIOUS
<1>4. ls \subseteq E /\ \A l \in E : l \in ls <=> Ready(E, dst, ls, src[l])
  BY <1>3, EmptyList DEF Walking
<1>5. ASSUME NEW x \in E, x \notin ls PROVE FALSE
  <2> DEFINE S == {rank[src[l]] : l \in E \ ls}
  <2>1. S \in SUBSET Nat
    BY <1>1, <1>2
  <2>2. S # {}
    BY <1>5
  <2>3. PICK k \in S : \A j \in S : k <= j
    <3> HIDE DEF S
    <3>1. QED BY <2>1, <2>2, Smallest
  <2>4. PICK l \in E \ ls : k = rank[src[l]]
    BY <2>3
  <2>5. PICK m \in E : dst[m] = src[l] /\ m \notin ls
    BY <1>4, <2>4 DEF Ready
  <2>6. PICK i \in Nat, j \in Nat : i = rank[src[m]] /\ j = rank[dst[m]]
    BY <1>1, <1>2, <2>5
  <2>7. i < j /\ j = k
    BY <1>1, <2>4, <2>5, <2>6
  <2>8. i \in S
    BY <2>5, <2>6
  <2>9. k <= i
    <3> HIDE DEF S
    <3>1. QED BY <2>3, <2>8
  <2>10. QED BY <2>6, <2>7, <2>9
<1>6. QED BY <1>3, <1>4, <1>5

\* The state of a traversal.
Traversals == [q : Seq(AllLinks), info : [AllNodes -> Int], link : AllLinks \cup {NoLink}]

LEMMA PulledType ==
  ASSUME NEW t \in Traversals, t.q # <<>>, NEW n \in AllNodes, NEW goal,
         NEW lists \in [AllNodes -> Seq(AllLinks)]
  PROVE  Pulled(t, n, goal, lists) \in Traversals
<1>1. PICK q, inf : q = t.q /\ inf = t.info /\ q \in Seq(AllLinks) /\ inf \in [AllNodes -> Int] /\ q # <<>>
  BY DEF Traversals
<1>2. Head(q) \in AllLinks /\ Tail(q) \in Seq(AllLinks)
  BY <1>1, HeadTail
<1>3. lists[n] \in Seq(AllLinks)
  OBVIOUS
<1>4. Tail(q) \o lists[n] \in Seq(AllLinks)
  BY <1>2, <1>3, BothIs
<1>5. PICK fanin \in Int : fanin = inf[n] - 1
  BY <1>1
<1>6. PICK r : r = IF fanin # 0 THEN Tail(q) ELSE IF n = goal THEN <<>> ELSE Tail(q) \o lists[n]
  OBVIOUS
<1>7. r \in Seq(AllLinks)
  BY <1>2, <1>4, <1>6, EmptyList
<1>8. [inf EXCEPT ![n] = fanin] \in [AllNodes -> Int]
  BY <1>1, <1>5
<1>9. Pulled(t, n, goal, lists) = [q |-> r, info |-> [inf EXCEPT ![n] = fanin], link |-> Head(q)]
  BY <1>1, <1>5, <1>6, Zenon DEF Pulled
<1>10. QED BY <1>2, <1>7, <1>8, <1>9 DEF Traversals

\* The next link of a walk: no link before it is one that comes later, and the count of the
\* node behind it says when all links there have been given.
LEMMA WalkGoesOn ==
  ASSUME NEW outs, NEW ins, NEW E, NEW src, NEW dst, NEW a, NEW b,
         Network(outs, ins, E, src, dst, a, b),
         NEW t \in Traversals, NEW sn, t.q # <<>>, Walking(E, src, dst, t.q, t.info, sn),
         NEW p, p = Pulled(t, dst[Head(t.q)], b, outs)
  PROVE  Walking(E, src, dst, p.q, p.info, Append(sn, p.link)) /\ p.link = Head(t.q)
<1>1. /\ outs \in [AllNodes -> Seq(AllLinks)] /\ E \subseteq AllLinks
      /\ src \in [AllLinks -> AllNodes] /\ dst \in [AllLinks -> AllNodes]
      /\ \A n \in AllNodes : Once(outs[n])
      /\ \A n \in AllNodes : Range(outs[n]) = {l \in E : src[l] = n}
      /\ \A l \in E : src[l] # b /\ dst[l] # a
      /\ \E rank \in [AllNodes -> Nat] : \A l \in E : rank[src[l]] < rank[dst[l]]
  BY DEF Network
<1>2. PICK q, inf, ls : q = t.q /\ inf = t.info /\ ls = Range(sn) /\ q # <<>>
  OBVIOUS
<1>3. /\ q \in Seq(AllLinks) /\ sn \in Seq(AllLinks)
      /\ Once(q) /\ Once(sn) /\ Range(q) \cap ls = {}
      /\ inf \in [AllNodes -> Int]
      /\ \A n \in AllNodes : inf[n] = Cardinality(Missing(E, dst, ls, n))
      /\ Range(q) \cup ls \subseteq E
      /\ \A l \in E : l \in Range(q) \cup ls <=> Ready(E, dst, ls, src[l])
      /\ \A i \in 1 .. Len(sn) : \A m \in E : dst[m] = src[sn[i]] => \E k \in 1 .. i - 1 : sn[k] = m
  BY <1>2 DEF Walking
<1>4. PICK l, rest, n : l = Head(q) /\ rest = Tail(q) /\ n = dst[l]
  OBVIOUS
<1>5. /\ l \in AllLinks /\ rest \in Seq(AllLinks) /\ Range(q) = {l} \cup Range(rest)
      /\ Once(rest) /\ l \notin Range(rest)
  BY <1>2, <1>3, <1>4, HeadTail
<1>6. l \in E /\ l \notin ls /\ n \in AllNodes
  BY <1>1, <1>3, <1>4, <1>5
<1>7. PICK fanin, inf2 : fanin \in Int /\ fanin = inf[n] - 1 /\ inf2 = [inf EXCEPT ![n] = fanin]
  <2>1. inf[n] - 1 \in Int
    BY <1>3, <1>6
  <2>2. QED BY Zenon, <2>1
<1>8. PICK q2 : q2 = IF fanin # 0 THEN rest ELSE IF n = b THEN <<>> ELSE rest \o outs[n]
  OBVIOUS
<1>9. p = [q |-> q2, info |-> inf2, link |-> l]
  BY <1>2, <1>4, <1>7, <1>8, Zenon DEF Pulled
<1>10. p.q = q2 /\ p.info = inf2 /\ p.link = l
  BY <1>9
<1>11. PICK sn2, ls2 : sn2 = Append(sn, l) /\ ls2 = ls \cup {l}
  OBVIOUS
<1>12. sn2 \in Seq(AllLinks) /\ Behind(sn2, sn, l) /\ Range(sn2) = ls2 /\ Once(sn2)
  <2>1. sn2 \in Seq(AllLinks) /\ Behind(sn2, sn, l)
    BY <1>3, <1>5, <1>11, AppendIs
  <2>2. QED BY <1>2, <1>3, <1>6, <1>11, <2>1 DEF Behind
<1>13. ls2 \subseteq E
  BY <1>3, <1>6, <1>11
\* The counts.
<1>14. \A x \in AllNodes : inf2[x] = Cardinality(Missing(E, dst, ls2, x))
  <2>1. ASSUME NEW x \in AllNodes, x = n PROVE inf2[x] = Cardinality(Missing(E, dst, ls2, x))
    <3>1. PICK M : M = Missing(E, dst, ls, n)
      OBVIOUS
    <3>2. IsFiniteSet(M)
      <4>1. M \in SUBSET AllLinks
        BY <1>1, <3>1 DEF Missing
      <4>2. QED BY <4>1, LinksFinite, FS_Subset
    <3>3. l \in M
      BY <1>4, <1>6, <3>1 DEF Missing
    <3>4. Missing(E, dst, ls2, n) = M \ {l}
      BY <1>11, <3>1 DEF Missing
    <3>5. Cardinality(M \ {l}) = Cardinality(M) - 1
      BY <3>2, <3>3, FS_RemoveElement
    <3>6. inf[n] = Cardinality(M)
      BY <1>3, <1>6, <3>1
    <3>7. QED BY <1>3, <1>6, <1>7, <2>1, <3>4, <3>5, <3>6
  <2>2. ASSUME NEW x \in AllNodes, x # n PROVE inf2[x] = Cardinality(Missing(E, dst, ls2, x))
    <3>1. Missing(E, dst, ls2, x) = Missing(E, dst, ls, x)
      BY <1>4, <1>11, <2>2 DEF Missing
    <3>2. QED BY <1>3, <1>7, <2>2, <3>1
  <2>3. QED BY <2>1, <2>2
<1>15. inf2 \in [AllNodes -> Int]
  BY <1>3, <1>7
<1>16. fanin = 0 <=> Ready(E, dst, ls2, n)
  <2>1. PICK M : M = Missing(E, dst, ls2, n)
    OBVIOUS
  <2>2. fanin = Cardinality(M)
    BY <1>3, <1>6, <1>7, <1>14, <2>1
  <2>3. IsFiniteSet(M)
    <3>1. M \in SUBSET AllLinks
      BY <1>1, <2>1 DEF Missing
    <3>2. QED BY <3>1, LinksFinite, FS_Subset
  <2>4. Cardinality(M) = 0 <=> M = {}
    BY <2>3, FS_EmptySet
  <2>5. M = {} <=> Ready(E, dst, ls2, n)
    BY <2>1 DEF Missing, Ready
  <2>6. QED BY <2>2, <2>4, <2>5
<1>17. ~Ready(E, dst, ls, n)
  BY <1>4, <1>6 DEF Ready
<1>18. \A x : x # n => (Ready(E, dst, ls2, x) <=> Ready(E, dst, ls, x))
  BY <1>4, <1>11 DEF Ready
\* The order.
<1>19. \A i \in 1 .. Len(sn2) : \A m \in E : dst[m] = src[sn2[i]] => \E k \in 1 .. i - 1 : sn2[k] = m
  <2>1. PICK N \in Nat : N = Len(sn)
    BY <1>3, ListIs
  <2>2. Len(sn2) = N + 1 /\ sn2[N + 1] = l /\ \A i \in 1 .. N : sn2[i] = sn[i]
    BY <1>12, <2>1 DEF Behind
  <2>3. ASSUME NEW i \in 1 .. N, NEW m \in E, dst[m] = src[sn2[i]] PROVE \E k \in 1 .. i - 1 : sn2[k] = m
    <3>1. PICK k \in 1 .. i - 1 : sn[k] = m
      BY <1>3, <2>1, <2>2, <2>3
    <3>2. k \in 1 .. N
      BY <2>1
    <3>3. QED BY <2>2, <3>1, <3>2
  <2>4. ASSUME NEW m \in E, dst[m] = src[l] PROVE \E k \in 1 .. N : sn2[k] = m
    <3>1. Ready(E, dst, ls, src[l])
      BY <1>3, <1>5, <1>6
    <3>2. m \in ls
      BY <2>4, <3>1 DEF Ready
    <3>3. PICK k \in 1 .. N : sn[k] = m
      BY <1>2, <1>3, <2>1, <3>2, ListIs
    <3>4. QED BY <2>2, <3>3
  <2>5. \A i \in 1 .. N + 1 : i = N + 1 \/ i \in 1 .. N
    BY <2>1
  <2>6. N + 1 - 1 = N
    BY <2>1
  <2>7. QED BY <2>2, <2>3, <2>4, <2>5, <2>6
\* The queue.
<1> DEFINE QueueOK == /\ q2 \in Seq(AllLinks) /\ Once(q2) /\ Range(q2) \cap ls2 = {} /\ Range(q2) \subseteq E
                      /\ \A x \in E : x \in Range(q2) \cup ls2 <=> Ready(E, dst, ls2, src[x])
<1>20. ASSUME QueueOK PROVE Walking(E, src, dst, q2, inf2, sn2)
  <2>1. /\ q2 \in Seq(AllLinks) /\ Once(q2) /\ Range(q2) \cap Range(sn2) = {}
        /\ Range(q2) \cup Range(sn2) \subseteq E
        /\ \A x \in E : x \in Range(q2) \cup Range(sn2) <=> Ready(E, dst, Range(sn2), src[x])
    BY <1>12, <1>13, <1>20
  <2>2. \A x \in AllNodes : inf2[x] = Cardinality(Missing(E, dst, Range(sn2), x))
    BY <1>12, <1>14
  <2>3. sn2 \in Seq(AllLinks) /\ Once(sn2)
    BY <1>12
  <2> HIDE DEF QueueOK
  <2>4. QED BY Zenon, <1>15, <1>19, <2>1, <2>2, <2>3 DEF Walking
<1>21. ASSUME Walking(E, src, dst, q2, inf2, sn2)
       PROVE  Walking(E, src, dst, p.q, p.info, Append(sn, p.link)) /\ p.link = Head(t.q)
  <2>1. p.link = Head(t.q) /\ Append(sn, p.link) = sn2
    BY <1>2, <1>4, <1>10, <1>11
  <2>2. QED BY Zenon, <1>10, <1>21, <2>1
<1>22. CASE fanin # 0
  <2>1. q2 = rest
    BY <1>8, <1>22
  <2>2. Range(q2) \cup ls2 = Range(q) \cup ls /\ Range(q2) \cap ls2 = {} /\ Range(q2) \subseteq E
    BY <1>3, <1>5, <1>11, <2>1
  <2>3. \A x \in E : Ready(E, dst, ls2, src[x]) <=> Ready(E, dst, ls, src[x])
    BY <1>16, <1>17, <1>18, <1>22
  <2>4. QueueOK
    BY <1>3, <1>5, <2>1, <2>2, <2>3
  <2>5. QED BY <1>20, <1>21, <2>4
<1>23. CASE fanin = 0 /\ n # b
  <2>1. q2 = rest \o outs[n]
    BY <1>8, <1>23
  <2>2. outs[n] \in Seq(AllLinks) /\ Once(outs[n]) /\ Range(outs[n]) = {x \in E : src[x] = n}
    BY <1>1, <1>6
  <2>3. \A x \in E : src[x] = n => x \notin Range(q) \cup ls
    BY <1>3, <1>17
  <2>4. Range(rest) \cap Range(outs[n]) = {}
    BY <1>5, <2>2, <2>3
  <2>5. q2 \in Seq(AllLinks) /\ Once(q2) /\ Range(q2) = Range(rest) \cup Range(outs[n])
    BY <1>5, <2>1, <2>2, <2>4, BothIs
  <2>6. src[l] # n
    BY <1>3, <1>5, <1>6, <2>3
  <2>7. Range(q2) \cap ls2 = {} /\ Range(q2) \subseteq E
    BY <1>3, <1>5, <1>11, <2>2, <2>3, <2>5, <2>6
  <2>8. ASSUME NEW x \in E PROVE x \in Range(q2) \cup ls2 <=> Ready(E, dst, ls2, src[x])
    <3>1. CASE src[x] = n
      BY <1>16, <1>23, <2>2, <2>5, <3>1
    <3>2. CASE src[x] # n
      <4>1. Ready(E, dst, ls2, src[x]) <=> Ready(E, dst, ls, src[x])
        BY <1>18, <3>2
      <4>2. x \in Range(q2) \cup ls2 <=> x \in Range(q) \cup ls
        BY <1>5, <1>11, <2>2, <2>5, <3>2
      <4>3. QED BY <1>3, <4>1, <4>2
    <3>3. QED BY <3>1, <3>2
  <2>9. QueueOK
    BY <2>5, <2>7, <2>8
  <2>10. QED BY <1>20, <1>21, <2>9
<1>24. CASE fanin = 0 /\ n = b
  <2>1. q2 = <<>>
    BY <1>8, <1>24
  <2>2. \A x \in E \cap ls2 : Ready(E, dst, ls2, src[x])
    <3>1. \A x \in E \cap ls2 : x \in Range(q) \cup ls
      BY <1>5, <1>11
    <3>2. \A x \in E \cap ls2 : Ready(E, dst, ls, src[x])
      BY <1>3, <3>1
    <3>3. QED BY <1>11, <3>2 DEF Ready
  <2>3. E \subseteq ls2
    BY <1>16, <1>24, <2>2, AllAtTheLast
  <2>4. \A x \in E : Ready(E, dst, ls2, src[x])
    BY <2>3 DEF Ready
  <2>5. QueueOK
    BY <2>1, <2>3, <2>4, EmptyList
  <2>6. QED BY <1>20, <1>21, <2>5
<1>25. QED BY <1>22, <1>23, <1>24

\* ---- the two directions ----

FromOf == [l \in AllLinks |-> From(l)]
ToOf == [l \in AllLinks |-> To(l)]

LEMMA EndsOf ==
  /\ FromOf \in [AllLinks -> AllNodes] /\ ToOf \in [AllLinks -> AllNodes]
  /\ \A l \in AllLinks : FromOf[l] = From(l) /\ ToOf[l] = To(l)
BY LinkIs DEF FromOf, ToOf

LEMMA ForwardNetwork ==
  ASSUME NEW d, NEW E, Agreeing(d, E), Trimmed(d, E)
  PROVE  Network(d.exits, d.entries, E, FromOf, ToOf, Start, End)
<1>1. PICK src, dst : src = FromOf /\ dst = ToOf
  OBVIOUS
<1>2. /\ src \in [AllLinks -> AllNodes] /\ dst \in [AllLinks -> AllNodes]
      /\ \A l \in AllLinks : src[l] = From(l) /\ dst[l] = To(l)
  BY <1>1, EndsOf
<1>3. /\ d.exits \in [AllNodes -> Seq(AllLinks)] /\ d.entries \in [AllNodes -> Seq(AllLinks)]
      /\ E \subseteq AllLinks
      /\ \A n \in AllNodes : Once(d.exits[n]) /\ Once(d.entries[n])
  BY DEF Agreeing, Dags
<1>4. \A n \in AllNodes : Range(d.exits[n]) = {l \in E : src[l] = n} /\ Range(d.entries[n]) = {l \in E : dst[l] = n}
  <2>1. ASSUME NEW n \in AllNodes
        PROVE  {l \in E : From(l) = n} = {l \in E : src[l] = n} /\ {l \in E : To(l) = n} = {l \in E : dst[l] = n}
    BY <1>2, <1>3
  <2>2. QED BY <2>1 DEF Agreeing
<1>5. \E rank \in [AllNodes -> Nat] : \A l \in E : rank[src[l]] < rank[dst[l]]
  <2>1. PICK rank : rank = [n \in AllNodes |-> n]
    OBVIOUS
  <2>2. rank \in [AllNodes -> Nat]
    BY <2>1, NodesAre
  <2>3. \A l \in E : rank[src[l]] < rank[dst[l]]
    BY <1>2, <1>3, <2>1, LinkIs
  <2>4. QED BY <2>2, <2>3
<1>6. ASSUME NEW l \in E PROVE src[l] # End /\ dst[l] # Start
  <2>1. PICK f, t : f = From(l) /\ t = To(l) /\ f \in AllNodes /\ t \in AllNodes /\ f < t
    BY <1>3, LinkIs
  <2>2. Start <= f /\ t <= End /\ f \in Nat /\ t \in Nat /\ Start \in Nat /\ End \in Nat
    BY <2>1, NodesAre
  <2>3. f # End /\ t # Start
    BY <2>1, <2>2
  <2>4. QED BY <1>2, <1>3, <2>1, <2>3
<1>7. ASSUME NEW l \in E
      PROVE  /\ src[l] = Start \/ \E m \in E : dst[m] = src[l]
             /\ dst[l] = End \/ \E m \in E : src[m] = dst[l]
  <2>1. From(l) \in d.nodes /\ To(l) \in d.nodes
    BY DEF Agreeing, Trimmed
  <2>2. /\ From(l) = Start \/ \E m \in E : To(m) = From(l)
        /\ To(l) = End \/ \E m \in E : From(m) = To(l)
    BY <2>1, TrimmedHasLinks
  <2>3. QED BY <1>2, <1>3, <2>2
<1>8. QED BY <1>1, <1>2, <1>3, <1>4, <1>5, <1>6, <1>7, NodesAre DEF Network

LEMMA ReverseNetwork ==
  ASSUME NEW d, NEW E, Agreeing(d, E), Trimmed(d, E)
  PROVE  Network(d.entries, d.exits, E, ToOf, FromOf, End, Start)
<1>1. PICK src, dst : src = ToOf /\ dst = FromOf
  OBVIOUS
<1>2. /\ src \in [AllLinks -> AllNodes] /\ dst \in [AllLinks -> AllNodes]
      /\ \A l \in AllLinks : src[l] = To(l) /\ dst[l] = From(l)
  BY <1>1, EndsOf
<1>3. Network(d.exits, d.entries, E, dst, src, Start, End)
  BY <1>1, ForwardNetwork
<1>4. E \subseteq AllLinks
  BY DEF Agreeing
<1>5. \E rank \in [AllNodes -> Nat] : \A l \in E : rank[src[l]] < rank[dst[l]]
  <2>1. PICK rank : rank = [n \in AllNodes |-> End - n]
    OBVIOUS
  <2>2. \A n \in AllNodes : End - n \in Nat
    BY NodesAre
  <2>3. rank \in [AllNodes -> Nat]
    BY <2>1, <2>2
  <2>4. ASSUME NEW l \in E PROVE rank[src[l]] < rank[dst[l]]
    <3>1. PICK f, t : f = From(l) /\ t = To(l) /\ f \in AllNodes /\ t \in AllNodes /\ f < t
      BY <1>4, LinkIs
    <3>2. f \in Nat /\ t \in Nat /\ End \in Nat
      BY <3>1, NodesAre
    <3>3. End - t < End - f
      BY <3>1, <3>2
    <3>4. rank[src[l]] = End - t /\ rank[dst[l]] = End - f
      BY <1>2, <1>4, <2>1, <3>1
    <3>5. QED BY <3>3, <3>4
  <2>5. QED BY <2>3, <2>4
<1>6. QED BY <1>1, <1>3, <1>5 DEF Network

\* ---- a whole traversal ----

Wholes == [t : Traversals, seen : Seq(AllLinks)]

LEMMA OneForwardIs ==
  ASSUME NEW d, NEW E, Agreeing(d, E), NEW w \in Wholes
  PROVE  OneForward(d, w) \in Wholes
<1>1. CASE w.t.q = <<>>
  BY <1>1 DEF OneForward
<1>2. CASE w.t.q # <<>>
  <2>1. PICK t : t = w.t /\ t \in Traversals /\ t.q # <<>> /\ t.q \in Seq(AllLinks)
    BY <1>2 DEF Wholes, Traversals
  <2>2. Head(t.q) \in AllLinks
    BY <2>1, HeadTail
  <2>3. PICK n : n = To(Head(t.q)) /\ n \in AllNodes
    BY <2>2, LinkIs
  <2>4. PICK p : p = Pulled(t, n, End, d.exits)
    OBVIOUS
  <2>5. p \in Traversals /\ p.link = Head(t.q)
    <3>1. d.exits \in [AllNodes -> Seq(AllLinks)]
      BY DEF Agreeing, Dags
    <3>2. p \in Traversals
      BY <2>1, <2>3, <2>4, <3>1, PulledType
    <3>3. p.link = Head(t.q)
      BY <2>4 DEF Pulled
    <3>4. QED BY <3>2, <3>3
  <2>6. Append(w.seen, p.link) \in Seq(AllLinks)
    BY <2>2, <2>5, AppendIs DEF Wholes
  <2>7. OneForward(d, w) = [t |-> p, seen |-> Append(w.seen, p.link)]
    BY <1>2, <2>1, <2>3, <2>4 DEF OneForward, Further, ForwardNext
  <2>8. QED BY <2>5, <2>6, <2>7 DEF Wholes
<1>3. QED BY <1>1, <1>2

ForwardTo(d) ==
  CHOOSE after : after = [i \in 0 .. Cardinality(AllLinks) |->
                            IF i = 0 THEN [t |-> Forward(d), seen |-> <<>>] ELSE OneForward(d, after[i - 1])]

LEMMA AllForwardIsForwardTo ==
  ASSUME NEW d
  PROVE  AllForward(d) = ForwardTo(d)[Cardinality(AllLinks)]
BY Zenon DEF AllForward, ForwardTo

LEMMA ForwardIs ==
  ASSUME NEW d, NEW E, Agreeing(d, E)
  PROVE  [t |-> Forward(d), seen |-> <<>>] \in Wholes
<1>1. d.exits \in [AllNodes -> Seq(AllLinks)] /\ d.entries \in [AllNodes -> Seq(AllLinks)]
  BY DEF Agreeing, Dags
<1>2. d.exits[Start] \in Seq(AllLinks)
  BY <1>1, NodesAre
<1>3. \A n \in AllNodes : Len(d.entries[n]) \in Int
  BY <1>1, ListIs
<1>4. Counts(d.entries) \in [AllNodes -> Int]
  BY <1>3 DEF Counts
<1>5. Forward(d) \in Traversals
  BY <1>2, <1>4 DEF Forward, Traversals
<1>6. QED BY <1>5, EmptyList DEF Wholes

LEMMA ForwardToIs ==
  ASSUME NEW d, NEW E, Agreeing(d, E)
  PROVE  LET after == ForwardTo(d)
         IN /\ after[0] = [t |-> Forward(d), seen |-> <<>>]
            /\ \A i \in 1 .. Cardinality(AllLinks) : after[i] = OneForward(d, after[i - 1])
<1>1. PICK n \in Nat : n = Cardinality(AllLinks)
  BY LinksFinite
<1>2. PICK V, first : V = Wholes /\ first = [t |-> Forward(d), seen |-> <<>>] /\ first \in V
  BY ForwardIs
<1>3. PICK g : g = [i \in 1 .. n |-> [w \in V |-> OneForward(d, w)]]
  OBVIOUS
<1>4. \A w \in V : OneForward(d, w) \in V
  BY <1>2, OneForwardIs
<1>5. g \in [1 .. n -> [V -> V]]
  BY <1>3, <1>4
<1>6. PICK f : Chain(f, n, V, first, g)
  BY <1>2, <1>5, Iteration
<1> DEFINE Is(h) == h = [i \in 0 .. Cardinality(AllLinks) |->
                           IF i = 0 THEN [t |-> Forward(d), seen |-> <<>>] ELSE OneForward(d, h[i - 1])]
<1>7. Is(f)
  <2>1. \A i \in 0 .. n : i # 0 => i \in 1 .. n /\ i - 1 \in 0 .. n
    OBVIOUS
  <2>2. ASSUME NEW i \in 0 .. n, i # 0 PROVE f[i] = OneForward(d, f[i - 1])
    <3>1. i \in 1 .. n /\ f[i - 1] \in V /\ f[i] = g[i][f[i - 1]]
      BY <1>6, <2>1, <2>2 DEF Chain
    <3>2. g[i] = [w \in V |-> OneForward(d, w)]
      BY <1>3, <3>1
    <3>3. QED BY <3>1, <3>2
  <2>3. f = [i \in 0 .. n |-> f[i]]
    BY <1>6 DEF Chain
  <2>4. f[0] = [t |-> Forward(d), seen |-> <<>>]
    BY <1>2, <1>6 DEF Chain
  <2>5. QED BY <1>1, <2>2, <2>3, <2>4, Zenon
<1>8. Is(ForwardTo(d))
  <2>1. ForwardTo(d) = CHOOSE h : Is(h)
    BY DEF ForwardTo
  <2> HIDE DEF Is
  <2>2. QED BY <1>7, <2>1
<1>9. PICK after : after = ForwardTo(d)
  OBVIOUS
<1>10. \A i \in 0 .. n : after[i] = IF i = 0 THEN first ELSE OneForward(d, after[i - 1])
  <2>1. after = [i \in 0 .. n |-> IF i = 0 THEN first ELSE OneForward(d, after[i - 1])]
    BY <1>1, <1>2, <1>8, <1>9
  <2>2. QED BY <2>1, Zenon
<1>11. \A i \in 1 .. n : i \in 0 .. n /\ i # 0
  BY <1>1
<1>12. 0 \in 0 .. n
  BY <1>1
<1>13. QED BY <1>1, <1>2, <1>9, <1>10, <1>11, <1>12

\* A whole traversal gives all links.
LEMMA AllForwardIs ==
  ASSUME NEW d, NEW E, Agreeing(d, E), Trimmed(d, E)
  PROVE  AllForward(d).seen \in Seq(AllLinks) /\ Range(AllForward(d).seen) = E
<1>1. PICK N \in Nat : N = Cardinality(AllLinks)
  BY LinksFinite
<1>2. PICK after : after = ForwardTo(d)
  OBVIOUS
<1>3. /\ after[0] = [t |-> Forward(d), seen |-> <<>>]
      /\ \A i \in 1 .. N : after[i] = OneForward(d, after[i - 1])
  BY <1>1, <1>2, ForwardToIs
<1>4. Network(d.exits, d.entries, E, FromOf, ToOf, Start, End)
  BY ForwardNetwork
<1> DEFINE OK(i, w) == /\ w \in Wholes /\ Walking(E, FromOf, ToOf, w.t.q, w.t.info, w.seen)
                       /\ w.t.q = <<>> \/ Len(w.seen) = i
           T == {i \in 0 .. N : OK(i, after[i])}
<1>5. 0 \in T
  <2>1. PICK w : w = after[0]
    OBVIOUS
  <2>2. w \in Wholes
    BY <1>3, <2>1, ForwardIs
  <2>3. w.t.q = d.exits[Start] /\ w.t.info = Counts(d.entries) /\ w.seen = <<>>
    BY <1>3, <2>1 DEF Forward
  <2>4. Walking(E, FromOf, ToOf, w.t.q, w.t.info, w.seen)
    BY <1>4, <2>3, WalkBegins
  <2>5. Len(w.seen) = 0
    BY <2>3, EmptySeq
  <2>6. 0 \in 0 .. N
    OBVIOUS
  <2>7. QED BY <2>1, <2>2, <2>4, <2>5, <2>6
<1>6. ASSUME NEW i \in 1 .. N, i - 1 \in T PROVE i \in T
  <2>1. PICK w, x : w = after[i - 1] /\ x = after[i]
    OBVIOUS
  <2>2. OK(i - 1, w)
    BY <1>6, <2>1
  <2>3. x = OneForward(d, w) /\ i \in 0 .. N
    BY <1>3, <2>1
  <2>4. x \in Wholes
    BY <2>2, <2>3, OneForwardIs
  <2>5. CASE w.t.q = <<>>
    <3>1. x = w
      BY <2>3, <2>5 DEF OneForward
    <3>2. QED BY <2>1, <2>2, <2>3, <2>5, <3>1
  <2>6. CASE w.t.q # <<>>
    <3>1. PICK t, sn : t = w.t /\ sn = w.seen /\ t \in Traversals /\ t.q # <<>> /\ t.q \in Seq(AllLinks) /\ sn \in Seq(AllLinks)
      BY <2>2, <2>6 DEF Wholes, Traversals
    <3>2. Head(t.q) \in AllLinks
      BY <3>1, HeadTail
    <3>3. ToOf[Head(t.q)] = To(Head(t.q))
      BY <3>2, EndsOf
    <3>4. PICK p : p = Pulled(t, ToOf[Head(t.q)], End, d.exits)
      OBVIOUS
    <3>5. Walking(E, FromOf, ToOf, t.q, t.info, sn)
      BY <2>2, <3>1
    <3>6. Walking(E, FromOf, ToOf, p.q, p.info, Append(sn, p.link)) /\ p.link = Head(t.q)
      BY SMTT(30), <1>4, <3>1, <3>4, <3>5, WalkGoesOn
    <3>7. x = [t |-> p, seen |-> Append(sn, p.link)]
      BY <2>3, <2>6, <3>1, <3>3, <3>4 DEF OneForward, Further, ForwardNext
    <3>8. Len(sn) = i - 1
      BY <2>2, <2>6, <3>1
    <3>9. PICK sn2 : sn2 = Append(sn, p.link) /\ Behind(sn2, sn, p.link)
      <4>1. PICK l : l = p.link /\ l \in AllLinks
        BY <3>2, <3>6
      <4>2. sn \in Seq(AllLinks)
        BY <3>1
      <4>3. PICK new : new = Append(sn, l)
        OBVIOUS
      <4>4. Behind(new, sn, l)
        BY <4>1, <4>2, <4>3, AppendIs
      <4>5. QED BY <4>1, <4>3, <4>4
    <3>10. Len(sn2) = i
      BY <3>8, <3>9 DEF Behind
    <3>11. x.t = p /\ x.seen = sn2
      BY <3>7, <3>9
    <3>12. OK(i, x)
      BY <2>4, <3>6, <3>9, <3>10, <3>11
    <3>13. QED BY <2>1, <2>3, <3>12
  <2>7. QED BY <2>5, <2>6
<1>7. N \in T
  <2>1. N \in 0 .. N
    OBVIOUS
  <2> HIDE DEF T
  <2>2. \A i \in 0 .. N : i \in T
    BY <1>5, <1>6, Upwards
  <2>3. QED BY <2>1, <2>2
<1>8. PICK w : w = AllForward(d)
  OBVIOUS
<1>9. OK(N, w)
  <2>1. w = after[N]
    BY <1>1, <1>2, <1>8, AllForwardIsForwardTo
  <2>2. QED BY <1>7, <2>1
<1>10. PICK q, inf, sn : q = w.t.q /\ inf = w.t.info /\ sn = w.seen
  OBVIOUS
<1>11. Walking(E, FromOf, ToOf, q, inf, sn) /\ (q = <<>> \/ Len(sn) = N)
  BY <1>9, <1>10
<1>12. /\ q \in Seq(AllLinks) /\ sn \in Seq(AllLinks) /\ Once(sn) /\ Range(q) \cap Range(sn) = {}
       /\ Range(sn) \subseteq E
  BY <1>11 DEF Walking
<1>13. q = <<>>
  <2>1. ASSUME q # <<>> PROVE FALSE
    <3>1. PICK l : l = Head(q) /\ l \in AllLinks /\ l \in Range(q)
      BY <1>12, <2>1, HeadTail
    <3>2. l \notin Range(sn)
      BY <1>12, <3>1
    <3>3. Cardinality(Range(sn)) = N
      BY <1>11, <1>12, <2>1, LengthIs
    <3>4. Range(sn) \in SUBSET AllLinks
      BY <1>12, ListIs
    <3>5. AllLinks = Range(sn)
      BY <1>1, <3>3, <3>4, LinksFinite, FS_Subset
    <3>6. QED BY <3>1, <3>2, <3>5
  <2>2. QED BY <2>1
<1>14. Range(sn) = E
  BY <1>4, <1>11, <1>13, WalkEnds
<1>15. QED BY <1>8, <1>10, <1>12, <1>14

\* What pruning leaves, when it leaves no node alone.
LEMMA PrunedIs ==
  ASSUME NEW E, Agreeing(dag, E), Trimmed(dag, E), NEW beam,
         Start \in Pruned(beam).nodes, Pruned(beam).nodes \subseteq Reached(Pruned(beam))
  PROVE  \E F : Agreeing(Pruned(beam), F) /\ Trimmed(Pruned(beam), F)
<1>1. PICK links : links = AllForward(dag).seen
  OBVIOUS
<1>2. links \in Seq(AllLinks) /\ Range(links) = E
  BY <1>1, AllForwardIs
<1>3. PICK cut, looked : cut = CutBelow(beam, links) /\ looked = {From(l) : l \in Range(links)}
  OBVIOUS
<1>4. PICK F : Agreeing(cut, F)
  BY <1>2, <1>3, CutBelowIs, SoundIs
<1>5. PICK R : R = Reaching(cut)
  OBVIOUS
<1>6. R \in SUBSET AllNodes /\ End \in R
  BY <1>4, <1>5, ReachingIs DEF Backwards
<1>7. dag.nodes \ looked \subseteq {End}
  <2>1. \A n \in dag.nodes : n # End => \E l \in E : From(l) = n
    BY TrimmedHasLinks
  <2>2. QED BY <1>2, <1>3, <2>1
<1>8. R \cup (dag.nodes \ looked) = R
  BY <1>6, <1>7
<1>9. Pruned(beam) = Kept(cut, R \cup (dag.nodes \ looked))
  BY <1>1, <1>3, <1>5, Zenon DEF Pruned
<1>10. Pruned(beam) = Kept(cut, R)
  BY <1>8, <1>9
<1>11. Kept(cut, R).nodes = R
  BY <1>4, <1>6, KeptAgrees
<1>12. Start \in R /\ R \subseteq Reached(Kept(cut, R))
  BY <1>10, <1>11
<1>13. Agreeing(Kept(cut, R), Within(F, R)) /\ Trimmed(Kept(cut, R), Within(F, R))
  BY <1>4, <1>5, <1>12, KeptIsTrimmed
<1>14. QED BY <1>10, <1>13

\* ---- the invariant ----

\* Of a client that prunes no lattice so that a node or the start is cut off.
PrunesWithCare == "orphans" \notin Tolerated /\ "start pruned" \notin Tolerated

LatticeInvOf(E) ==
  /\ Agreeing(dag, E)
  /\ Built => Trimmed(dag, E)
  /\ ~Built => dag.nodes = AllNodes /\ walk = "none"
  /\ walk \in {"none", "forward", "reverse"}
  /\ walk = "forward" => Walking(E, FromOf, ToOf, queue, info, seen)
  /\ walk = "reverse" => Walking(E, ToOf, FromOf, queue, info, seen)
LatticeInv == LatticeInvOf(Links(dag))

\* The links need not be named.
LEMMA LatticeInvWith ==
  /\ \A E : LatticeInvOf(E) => LatticeInv
  /\ LatticeInv => \E E : LatticeInvOf(E)
<1>1. ASSUME NEW E, LatticeInvOf(E) PROVE LatticeInv
  <2>1. Links(dag) = E
    BY <1>1, LinksAre DEF LatticeInvOf
  <2>2. QED BY <1>1, <2>1 DEF LatticeInv
<1>2. QED BY <1>1 DEF LatticeInv

LEMMA ForwardGoesOn ==
  ASSUME NEW d, NEW E, Agreeing(d, E), Trimmed(d, E), NEW t \in Traversals, t.q # <<>>, NEW sn,
         Walking(E, FromOf, ToOf, t.q, t.info, sn), NEW p, p = ForwardNext(d, t)
  PROVE  Walking(E, FromOf, ToOf, p.q, p.info, Append(sn, p.link))
<1>1. Network(d.exits, d.entries, E, FromOf, ToOf, Start, End)
  BY ForwardNetwork
<1>2. Head(t.q) \in AllLinks
  BY HeadTail DEF Traversals
<1>3. ToOf[Head(t.q)] = To(Head(t.q))
  BY <1>2, EndsOf
<1>4. p = Pulled(t, ToOf[Head(t.q)], End, d.exits)
  BY <1>3 DEF ForwardNext
<1>5. QED BY <1>1, <1>4, WalkGoesOn

LEMMA ReverseGoesOn ==
  ASSUME NEW d, NEW E, Agreeing(d, E), Trimmed(d, E), NEW t \in Traversals, t.q # <<>>, NEW sn,
         Walking(E, ToOf, FromOf, t.q, t.info, sn), NEW p, p = ReverseNext(d, t)
  PROVE  Walking(E, ToOf, FromOf, p.q, p.info, Append(sn, p.link))
<1>1. Network(d.entries, d.exits, E, ToOf, FromOf, End, Start)
  BY ReverseNetwork
<1>2. Head(t.q) \in AllLinks
  BY HeadTail DEF Traversals
<1>3. FromOf[Head(t.q)] = From(Head(t.q))
  BY <1>2, EndsOf
<1>4. p = Pulled(t, FromOf[Head(t.q)], Start, d.entries)
  BY <1>3 DEF ReverseNext
<1>5. QED BY <1>1, <1>4, WalkGoesOn

\* The first link of a walk.
LEMMA ForwardStarts ==
  ASSUME NEW d, NEW E, Agreeing(d, E), Trimmed(d, E), NEW p, p = ForwardNext(d, Forward(d))
  PROVE  Walking(E, FromOf, ToOf, p.q, p.info, <<p.link>>)
<1>1. PICK t : t = Forward(d)
  OBVIOUS
<1>2. t \in Traversals /\ t.q = d.exits[Start] /\ t.info = Counts(d.entries)
  <2>1. PICK w : w = [t |-> Forward(d), seen |-> <<>>]
    OBVIOUS
  <2>2. w.t \in Traversals
    BY <2>1, ForwardIs DEF Wholes
  <2>3. QED BY <1>1, <2>1, <2>2 DEF Forward
<1>3. t.q # <<>>
  <2>1. Start \in d.nodes /\ Start # End
    BY LatticeAssumption DEF Trimmed, Start, End
  <2>2. PICK l \in E : From(l) = Start
    BY <2>1, TrimmedHasLinks
  <2>3. l \in Range(t.q)
    BY <1>2, <2>2, NodesAre DEF Agreeing
  <2>4. QED BY <2>3, EmptyList
<1>4. Walking(E, FromOf, ToOf, t.q, t.info, <<>>)
  BY <1>2, ForwardNetwork, WalkBegins
<1>5. Walking(E, FromOf, ToOf, p.q, p.info, Append(<<>>, p.link))
  BY <1>1, <1>2, <1>3, <1>4, ForwardGoesOn
<1>6. Append(<<>>, p.link) = <<p.link>>
  OBVIOUS
<1>7. QED BY <1>5, <1>6

LEMMA ReverseStarts ==
  ASSUME NEW d, NEW E, Agreeing(d, E), Trimmed(d, E), NEW p, p = ReverseNext(d, Backward(d))
  PROVE  Walking(E, ToOf, FromOf, p.q, p.info, <<p.link>>)
<1>1. PICK t : t = Backward(d)
  OBVIOUS
<1>2. t \in Traversals /\ t.q = d.entries[End] /\ t.info = Counts(d.exits)
  <2>1. d.exits \in [AllNodes -> Seq(AllLinks)] /\ d.entries \in [AllNodes -> Seq(AllLinks)]
    BY DEF Agreeing, Dags
  <2>2. d.entries[End] \in Seq(AllLinks)
    BY <2>1, NodesAre
  <2>3. \A n \in AllNodes : Len(d.exits[n]) \in Int
    BY <2>1, ListIs
  <2>4. Counts(d.exits) \in [AllNodes -> Int]
    BY <2>3 DEF Counts
  <2>5. QED BY <1>1, <2>2, <2>4 DEF Backward, Traversals
<1>3. t.q # <<>>
  <2>1. End \in d.nodes /\ Start # End
    BY LatticeAssumption, TrimmedHasLinks DEF Start, End
  <2>2. PICK l \in E : To(l) = End
    BY <2>1, TrimmedHasLinks
  <2>3. l \in Range(t.q)
    BY <1>2, <2>2, NodesAre DEF Agreeing
  <2>4. QED BY <2>3, EmptyList
<1>4. Walking(E, ToOf, FromOf, t.q, t.info, <<>>)
  BY <1>2, ReverseNetwork, WalkBegins
<1>5. Walking(E, ToOf, FromOf, p.q, p.info, Append(<<>>, p.link))
  BY <1>1, <1>2, <1>3, <1>4, ReverseGoesOn
<1>6. Append(<<>>, p.link) = <<p.link>>
  OBVIOUS
<1>7. QED BY <1>5, <1>6

LEMMA LatticeInit == Init => LatticeInv
<1> SUFFICES ASSUME Init PROVE LatticeInv
  OBVIOUS
<1>1. stage = "building" /\ walk = "none"
  BY DEF Init
<1>2. PICK early \in SUBSET AllNodes :
        dag = [nodes |-> AllNodes, early |-> early, exits |-> [n \in AllNodes |-> <<>>],
               entries |-> [n \in AllNodes |-> <<>>], ascr |-> [l \in AllLinks |-> 0]]
  BY LatticeAssumption DEF Init
<1>3. dag.nodes = AllNodes /\ \A n \in AllNodes : dag.exits[n] = <<>> /\ dag.entries[n] = <<>>
  BY <1>2
<1>4. dag \in Dags
  BY <1>2, EmptyList DEF Dags
<1>5. Agreeing(dag, {})
  BY <1>3, <1>4, EmptyList DEF Agreeing
<1>6. LatticeInvOf({})
  BY <1>1, <1>3, <1>5 DEF LatticeInvOf, Built
<1>7. QED BY <1>6, LatticeInvWith

\* When the lattice is built and stays, and no walk is left, the rest does not matter.
LEMMA WithoutWalk ==
  ASSUME LatticeInv, Built, dag' = dag, stage' # "building", walk' = "none"
  PROVE  LatticeInv'
<1>1. PICK E : LatticeInvOf(E)
  BY LatticeInvWith
<1>2. Agreeing(dag, E) /\ Trimmed(dag, E)
  BY <1>1 DEF LatticeInvOf
<1>3. Links(dag') = E /\ Agreeing(dag', E) /\ Trimmed(dag', E)
  BY <1>2, LinksAre
<1>4. Links(dag)' = E
  BY <1>3 DEF Links
<1>5. QED BY <1>3, <1>4 DEF LatticeInv, LatticeInvOf, Built

LEMMA LinkStep ==
  ASSUME LatticeInv, NEW l \in AllLinks, NEW score \in Scores[l], Link(l, score)
  PROVE  LatticeInv'
<1>1. PICK E : LatticeInvOf(E)
  BY LatticeInvWith
<1>2. stage = "building" /\ stage' = stage /\ walk' = walk /\ dag' = Linked(dag, l, score)
  BY DEF Link, walking
<1>3. Agreeing(dag, E) /\ dag.nodes = AllNodes /\ walk = "none"
  BY <1>1, <1>2 DEF LatticeInvOf, Built
<1>4. score \in Int /\ From(l) \in dag.nodes
  BY <1>3, LatticeAssumption, LinkIs
<1>5. PICK F, d : F = E \cup {l} /\ d = dag' /\ Agreeing(d, F) /\ d.nodes = AllNodes
  <2>1. PICK g, h : g = dag /\ h = Linked(g, l, score)
    OBVIOUS
  <2>2. Agreeing(h, E \cup {l}) /\ h.nodes = g.nodes
    BY <1>3, <1>4, <2>1, LinkedAgrees
  <2>3. QED BY <1>2, <1>3, <2>1, <2>2
<1>6. Links(dag)' = F
  <2>1. Links(d) = F
    BY <1>5, LinksAre
  <2>2. QED BY <1>5, <2>1 DEF Links
<1>7. QED BY <1>2, <1>3, <1>5, <1>6 DEF LatticeInv, LatticeInvOf, Built

LEMMA BuildStep ==
  ASSUME LatticeInv, Build
  PROVE  LatticeInv'
<1>1. PICK E : LatticeInvOf(E)
  BY LatticeInvWith
<1>2. /\ stage = "building" /\ stage' = "built" /\ walk' = walk /\ Start \in Reaching(dag)
      /\ Reaching(dag) \subseteq Reached(dag) /\ dag' = Kept(dag, Reaching(dag))
  BY DEF Build, walking
<1>3. Agreeing(dag, E) /\ walk = "none"
  BY <1>1, <1>2 DEF LatticeInvOf, Built
<1>4. Reaching(dag) \subseteq Reached(Kept(dag, Reaching(dag)))
  BY <1>2, <1>3, KeptReached
<1>5. PICK F, d : F = Within(E, Reaching(dag)) /\ d = dag' /\ Agreeing(d, F) /\ Trimmed(d, F)
  BY <1>2, <1>3, <1>4, KeptIsTrimmed
<1>6. Links(dag)' = F
  <2>1. Links(d) = F
    BY <1>5, LinksAre
  <2>2. QED BY <1>5, <2>1 DEF Links
<1>7. QED BY <1>2, <1>3, <1>5, <1>6 DEF LatticeInv, LatticeInvOf, Built

LEMMA PruneStep ==
  ASSUME LatticeInv, PrunesWithCare, NEW beam, Prune(beam)
  PROVE  LatticeInv'
<1>1. PICK E : LatticeInvOf(E)
  BY LatticeInvWith
<1>2. PICK d : d = Pruned(beam)
  OBVIOUS
<1>3. /\ stage = "posterior" /\ stage' = "built" /\ walk' = "none" /\ dag' = d
      /\ Start \notin d.nodes => May("start pruned")
      /\ Start \in d.nodes /\ ~(d.nodes \subseteq Reached(d)) => May("orphans")
  BY <1>2 DEF Prune
<1>4. Start \in d.nodes /\ d.nodes \subseteq Reached(d)
  BY <1>3 DEF May, PrunesWithCare
<1>5. Agreeing(dag, E) /\ Trimmed(dag, E)
  BY <1>1, <1>3 DEF LatticeInvOf, Built
<1>6. PICK F : Agreeing(d, F) /\ Trimmed(d, F)
  BY <1>2, <1>4, <1>5, PrunedIs
<1>7. Links(dag)' = F
  <2>1. Links(d) = F
    BY <1>6, LinksAre
  <2>2. QED BY <1>3, <2>1 DEF Links
<1>8. QED BY <1>3, <1>6, <1>7 DEF LatticeInv, LatticeInvOf, Built

LEMMA WalkStartStep ==
  ASSUME LatticeInv, NEW direction \in {"forward", "reverse"}, WalkStart(direction)
  PROVE  LatticeInv'
<1>1. PICK E : LatticeInvOf(E)
  BY LatticeInvWith
<1>2. PICK t : t = IF direction = "forward" THEN ForwardNext(dag, Forward(dag))
                   ELSE ReverseNext(dag, Backward(dag))
  OBVIOUS
<1>3. /\ stage = "built" /\ stage' = stage /\ dag' = dag /\ walk' = direction
      /\ queue' = t.q /\ info' = t.info /\ seen' = <<t.link>>
  BY <1>2 DEF WalkStart, Traversed
<1>4. Agreeing(dag, E) /\ Trimmed(dag, E)
  BY <1>1, <1>3 DEF LatticeInvOf, Built
<1>5. Links(dag)' = E
  <2>1. Links(dag) = E
    BY <1>4, LinksAre
  <2>2. QED BY <1>3, <2>1 DEF Links
<1>6. direction = "forward" => Walking(E, FromOf, ToOf, t.q, t.info, <<t.link>>)
  BY <1>2, <1>4, ForwardStarts
<1>7. direction = "reverse" => Walking(E, ToOf, FromOf, t.q, t.info, <<t.link>>)
  BY <1>2, <1>4, ReverseStarts
<1>8. QED BY <1>3, <1>4, <1>5, <1>6, <1>7 DEF LatticeInv, LatticeInvOf, Built

LEMMA WalkNextStep ==
  ASSUME LatticeInv, WalkNext
  PROVE  LatticeInv'
<1>1. PICK E : LatticeInvOf(E)
  BY LatticeInvWith
<1>2. PICK t : t = [q |-> queue, info |-> info, link |-> NoLink]
  OBVIOUS
<1>3. PICK p : p = IF walk = "forward" THEN ForwardNext(dag, t) ELSE ReverseNext(dag, t)
  OBVIOUS
<1>4. /\ walk # "none" /\ queue # <<>> /\ stage' = stage /\ dag' = dag /\ walk' = walk
      /\ queue' = p.q /\ info' = p.info /\ seen' = Append(seen, p.link)
  BY <1>2, <1>3 DEF WalkNext, Give, Traversed
<1>5. Built /\ Agreeing(dag, E) /\ Trimmed(dag, E) /\ walk \in {"forward", "reverse"}
  BY <1>1, <1>4 DEF LatticeInvOf
<1>6. Links(dag)' = E
  <2>1. Links(dag) = E
    BY <1>5, LinksAre
  <2>2. QED BY <1>4, <2>1 DEF Links
<1>7. t.q = queue /\ t.info = info
  BY <1>2
<1>8. walk = "forward" => Walking(E, FromOf, ToOf, t.q, t.info, seen)
  BY <1>1, <1>7 DEF LatticeInvOf
<1>9. walk = "reverse" => Walking(E, ToOf, FromOf, t.q, t.info, seen)
  BY <1>1, <1>7 DEF LatticeInvOf
<1>10. t \in Traversals
  <2>1. queue \in Seq(AllLinks) /\ info \in [AllNodes -> Int]
    BY <1>5, <1>7, <1>8, <1>9 DEF Walking
  <2>2. QED BY <1>2, <2>1 DEF Traversals
<1>11. walk = "forward" => Walking(E, FromOf, ToOf, p.q, p.info, Append(seen, p.link))
  BY <1>3, <1>4, <1>5, <1>7, <1>8, <1>10, ForwardGoesOn
<1>12. walk = "reverse" => Walking(E, ToOf, FromOf, p.q, p.info, Append(seen, p.link))
  BY <1>3, <1>4, <1>5, <1>7, <1>9, <1>10, ReverseGoesOn
<1>13. Agreeing(dag', E) /\ (Built' => Trimmed(dag', E)) /\ Built'
  BY <1>4, <1>5 DEF Built
<1>14. QED BY <1>4, <1>5, <1>6, <1>11, <1>12, <1>13 DEF LatticeInv, LatticeInvOf

LEMMA LatticeStep ==
  ASSUME LatticeInv, PrunesWithCare, [Next]_vars
  PROVE  LatticeInv'
<1>1. CASE \E l \in AllLinks : \E score \in Scores[l] : Link(l, score)
  BY <1>1, LinkStep
<1>2. CASE Build
  BY <1>2, BuildStep
<1>3. ASSUME NEW lm \in BOOLEAN, BestPath(lm) PROVE LatticeInv'
  <2>1. Built /\ dag' = dag /\ stage' = "bestpath" /\ walk' = "none"
    BY <1>3 DEF BestPath, MayTraverse
  <2>2. QED BY <2>1, WithoutWalk
<1>4. CASE Posterior
  <2>1. Built /\ dag' = dag /\ stage' = "posterior" /\ walk' = "none"
    BY <1>4 DEF Posterior, MayTraverse
  <2>2. QED BY <2>1, WithoutWalk
<1>5. CASE \E beam \in Beams : Prune(beam)
  BY <1>5, PruneStep
<1>6. CASE \E direction \in {"forward", "reverse"} : WalkStart(direction)
  BY <1>6, WalkStartStep
<1>7. CASE WalkNext
  BY <1>7, WalkNextStep
<1>8. ASSUME NEW lm \in BOOLEAN, NBestStart(lm) PROVE LatticeInv'
  <2>1. Built /\ dag' = dag /\ stage' = stage /\ walk' = "none"
    BY <1>8 DEF NBestStart, Built
  <2>2. QED BY <2>1, WithoutWalk DEF Built
<1>9. CASE NBestNext \/ UNCHANGED vars
  <2>1. dag' = dag /\ stage' = stage /\ queue' = queue /\ walk' = walk /\ seen' = seen /\ info' = info
    BY <1>9 DEF NBestNext, vars, walking
  <2>2. QED BY <2>1 DEF LatticeInv, LatticeInvOf, Built, Links
<1>10. QED BY <1>1, <1>2, <1>3, <1>4, <1>5, <1>6, <1>7, <1>8, <1>9 DEF Next

\* The inductive invariant: the lists agree, a built lattice has no dead ends, and a walk
\* under way has given, and holds in its queue, exactly the links it may.
THEOREM LatticeIsInvariant ==
  ASSUME PrunesWithCare
  PROVE  Spec => []LatticeInv
<1>1. LatticeInv /\ [Next]_vars => LatticeInv'
  BY LatticeStep
<1>2. QED BY <1>1, LatticeInit, PTL DEF Spec

\* ---- the two properties ----

LEMMA InvGivesLinksAgree == LatticeInv => LinksAgree
<1> SUFFICES ASSUME LatticeInv PROVE LinksAgree
  OBVIOUS
<1>1. PICK E : LatticeInvOf(E)
  BY LatticeInvWith
<1>2. Agreeing(dag, E) /\ Links(dag) = E
  BY <1>1, LinksAre DEF LatticeInvOf
<1>3. \A n \in AllNodes : dag.exits[n] \in Seq(AllLinks) /\ dag.entries[n] \in Seq(AllLinks)
  BY <1>2 DEF Agreeing, Dags
<1>4. ASSUME NEW n \in AllNodes
      PROVE  /\ \A i, j \in DOMAIN dag.exits[n] : dag.exits[n][i] = dag.exits[n][j] => i = j
             /\ \A i, j \in DOMAIN dag.entries[n] : dag.entries[n][i] = dag.entries[n][j] => i = j
  <2>1. PICK x, y : x = dag.exits[n] /\ y = dag.entries[n]
    OBVIOUS
  <2>2. x \in Seq(AllLinks) /\ y \in Seq(AllLinks) /\ Once(x) /\ Once(y)
    BY <1>2, <1>3, <2>1 DEF Agreeing
  <2>3. DOMAIN x = 1 .. Len(x) /\ DOMAIN y = 1 .. Len(y)
    BY <2>2, ListIs
  <2>4. QED BY <2>1, <2>2, <2>3 DEF Once
<1>5. \A n \in AllNodes : /\ Range(dag.exits[n]) = {l \in Links(dag) : From(l) = n}
                          /\ Range(dag.entries[n]) = {l \in Links(dag) : To(l) = n}
  BY <1>2 DEF Agreeing
<1>6. Built => Trimmed(dag, E)
  BY <1>1 DEF LatticeInvOf
<1>7. Built => \A l \in Links(dag) : From(l) \in dag.nodes /\ To(l) \in dag.nodes
  BY <1>2, <1>6 DEF Agreeing, Trimmed
<1>8. Built => dag.nodes = Reached(dag) \cap Reaching(dag)
  BY <1>6 DEF Trimmed
<1>9. QED BY <1>4, <1>5, <1>7, <1>8 DEF LinksAgree

\* What a walk in one direction has given so far.
LEMMA WalkedInOrder ==
  ASSUME NEW E, NEW src, NEW dst, NEW q, NEW inf, NEW sn, Walking(E, src, dst, q, inf, sn)
  PROVE  /\ \A i, j \in DOMAIN sn : sn[i] = sn[j] => i = j
         /\ \A i \in DOMAIN sn : {l \in E : dst[l] = src[sn[i]]} \subseteq Range(SubSeq(sn, 1, i - 1))
<1>1. /\ sn \in Seq(AllLinks) /\ Once(sn)
      /\ \A i \in 1 .. Len(sn) : \A m \in E : dst[m] = src[sn[i]] => \E k \in 1 .. i - 1 : sn[k] = m
  BY DEF Walking
<1>2. PICK n \in Nat : n = Len(sn) /\ DOMAIN sn = 1 .. n /\ sn \in [1 .. n -> AllLinks]
  BY <1>1, ListIs
<1>3. ASSUME NEW i \in 1 .. n, NEW m \in E, dst[m] = src[sn[i]]
      PROVE  m \in Range(SubSeq(sn, 1, i - 1))
  <2>1. PICK k \in 1 .. i - 1 : sn[k] = m
    BY <1>1, <1>2, <1>3
  <2>2. PICK N \in Int : N = i - 1 /\ N >= 1
    BY <2>1
  <2>3. \A j \in 1 .. N : sn[j] \in AllLinks
    BY <1>2, <2>2
  <2>4. PICK r : r = SubSeq(sn, 1, N)
    OBVIOUS
  <2>5. /\ r \in Seq(AllLinks) /\ Len(r) = IF 1 <= N THEN N - 1 + 1 ELSE 0
        /\ \A j \in 1 .. N - 1 + 1 : r[j] = sn[1 + j - 1]
    BY <2>3, <2>4, SubSeqProperties
  <2>6. Len(r) = N /\ k \in 1 .. N /\ k \in 1 .. N - 1 + 1 /\ 1 + k - 1 = k
    BY <2>1, <2>2, <2>5
  <2>7. r[k] = m
    BY <2>1, <2>5, <2>6
  <2>8. m \in Range(r)
    BY <2>5, <2>6, <2>7, ListIs
  <2>9. QED BY <2>2, <2>4, <2>8
<1>4. QED BY <1>1, <1>2, <1>3 DEF Once

LEMMA InvGivesWalksComplete == LatticeInv => WalksComplete
<1> SUFFICES ASSUME LatticeInv, walk # "none" PROVE
      /\ \A i, j \in DOMAIN seen : seen[i] = seen[j] => i = j
      /\ \A i \in DOMAIN seen :
           {l \in Links(dag) : IF walk = "forward" THEN To(l) = From(seen[i])
                               ELSE From(l) = To(seen[i])} \subseteq Range(SubSeq(seen, 1, i - 1))
      /\ queue = <<>> => Range(seen) = Links(dag)
  BY DEF WalksComplete
<1>1. PICK E : LatticeInvOf(E)
  BY LatticeInvWith
<1>2. Agreeing(dag, E) /\ Trimmed(dag, E) /\ Links(dag) = E /\ walk \in {"forward", "reverse"}
  BY <1>1, LinksAre DEF LatticeInvOf
<1>3. E \subseteq AllLinks
  BY <1>2 DEF Agreeing
<1>4. CASE walk = "forward"
  <2>1. Walking(E, FromOf, ToOf, queue, info, seen)
    BY <1>1, <1>4 DEF LatticeInvOf
  <2>2. seen \in Seq(AllLinks)
    BY <2>1 DEF Walking
  <2>3. ASSUME NEW i \in DOMAIN seen
        PROVE  {l \in E : To(l) = From(seen[i])} = {l \in E : ToOf[l] = FromOf[seen[i]]}
    <3>1. seen[i] \in AllLinks
      BY <2>2, ListIs
    <3>2. QED BY <1>3, <3>1, EndsOf
  <2>4. queue = <<>> => Range(seen) = E
    BY <1>2, <2>1, ForwardNetwork, WalkEnds
  <2>5. /\ \A i, j \in DOMAIN seen : seen[i] = seen[j] => i = j
        /\ \A i \in DOMAIN seen : {l \in E : ToOf[l] = FromOf[seen[i]]} \subseteq Range(SubSeq(seen, 1, i - 1))
    BY <2>1, WalkedInOrder
  <2>6. \A i \in DOMAIN seen : {l \in E : To(l) = From(seen[i])} \subseteq Range(SubSeq(seen, 1, i - 1))
    BY <2>3, <2>5
  <2>7. QED BY <1>2, <1>4, <2>4, <2>5, <2>6
<1>5. CASE walk = "reverse"
  <2>1. Walking(E, ToOf, FromOf, queue, info, seen)
    BY <1>1, <1>5 DEF LatticeInvOf
  <2>2. seen \in Seq(AllLinks)
    BY <2>1 DEF Walking
  <2>3. ASSUME NEW i \in DOMAIN seen
        PROVE  {l \in E : From(l) = To(seen[i])} = {l \in E : FromOf[l] = ToOf[seen[i]]}
    <3>1. seen[i] \in AllLinks
      BY <2>2, ListIs
    <3>2. QED BY <1>3, <3>1, EndsOf
  <2>4. queue = <<>> => Range(seen) = E
    BY <1>2, <2>1, ReverseNetwork, WalkEnds
  <2>5. /\ \A i, j \in DOMAIN seen : seen[i] = seen[j] => i = j
        /\ \A i \in DOMAIN seen : {l \in E : FromOf[l] = ToOf[seen[i]]} \subseteq Range(SubSeq(seen, 1, i - 1))
    BY <2>1, WalkedInOrder
  <2>6. \A i \in DOMAIN seen : {l \in E : From(l) = To(seen[i])} \subseteq Range(SubSeq(seen, 1, i - 1))
    BY <2>3, <2>5
  <2>7. QED BY <1>2, <1>5, <2>4, <2>5, <2>6
<1>6. QED BY <1>2, <1>4, <1>5

\* Through linking, building and pruning the exits and the entries of the nodes hold the
\* same links, each once, and every node of the lattice is on a path from its start to its
\* end: what test_posterior.c verifies by hand of one lattice.
THEOREM LinksStayTogether ==
  ASSUME PrunesWithCare
  PROVE  Spec => []LinksAgree
BY LatticeIsInvariant, InvGivesLinksAgree, PTL

\* A client that walks a lattice, forward or in reverse, with other calls before and after,
\* is given every link once, and none before all links into the node it leaves.
THEOREM WalksAreComplete ==
  ASSUME PrunesWithCare
  PROVE  Spec => []WalksComplete
BY LatticeIsInvariant, InvGivesWalksComplete, PTL
=============================================================================
