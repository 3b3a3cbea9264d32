-------------------------- MODULE KwsSearch_proofs --------------------------
(***************************************************************************)
(* Detections of a phrase do not overlap, and what is in the hypothesis    *)
(* stays in it, for every topology without skips, every keyphrase list and *)
(* all sounds.                                                             *)
(*                                                                         *)
(* A history is the frame in which a phrase began.  Where no state can be  *)
(* skipped two ways through a chain of HMMs do not pass each other without *)
(* meeting, so a state has no earlier history than those after it          *)
(* (Ordered, Since), and the detections of a phrase begin one after the    *)
(* other.  So a new detection overlaps none but the newest of its phrase.  *)
(***************************************************************************)
EXTENDS KwsSearch, WellFoundedInduction, FiniteSetTheorems, SequenceTheorems, TLAPS

\* ---- natural numbers, sequences of values, greatest values ----

LEMMA Smallest ==
  ASSUME NEW S \in SUBSET Nat, S # {}
  PROVE  \E n \in S : \A m \in S : n <= m
<1>1. PICK R : R = OpToRel(<, Nat)
  OBVIOUS
<1>2. PICK n \in S : \A m \in S : ~(<<m, n>> \in R)
  <2>1. IsWellFoundedOn(R, Nat)
    BY <1>1, NatLessThanWellFounded
  <2>2. QED
    BY <2>1, WFMin
<1>3. ASSUME NEW m \in S PROVE n <= m
  <2>1. ~(m < n)
    BY <1>1, <1>2 DEF OpToRel
  <2>2. QED
    BY <2>1
<1>4. QED
  BY <1>3

\* The N values made from b, each of the one before by a function of its own.
Chain(f, N, V, b, g) ==
  f \in [0 .. N -> V] /\ f[0] = b /\ \A i \in 1 .. N : f[i] = g[i][f[i - 1]]

LEMMA Iteration ==
  ASSUME NEW N \in Nat, NEW V, NEW b \in V, NEW g \in [1 .. N -> [V -> V]]
  PROVE  \E f : Chain(f, N, V, b, g)
<1> USE DEF Chain
<1> DEFINE UpTo(m) == \E f \in [0 .. m -> V] : f[0] = b /\ \A i \in 1 .. m : f[i] = g[i][f[i - 1]]
<1> DEFINE S == {m \in 0 .. N : ~UpTo(m)}
<1>1. CASE S = {}
  <2>1. N \in 0 .. N
    OBVIOUS
  <2>2. UpTo(N)
    <3> HIDE DEF UpTo
    <3>1. QED BY <1>1, <2>1
  <2>3. QED BY <2>2
<1>2. CASE S # {}
  <2>1. S \in SUBSET Nat
    OBVIOUS
  <2>2. PICK m \in S : \A k \in S : m <= k
    BY <1>2, <2>1, Smallest
  <2>3. m \in 0 .. N /\ ~UpTo(m)
    OBVIOUS
  <2>4. CASE m = 0
    <3>1. PICK f \in [0 .. 0 -> V] : f = [i \in 0 .. 0 |-> b]
      OBVIOUS
    <3>2. f[0] = b /\ \A i \in 1 .. 0 : f[i] = g[i][f[i - 1]]
      BY <3>1
    <3>3. QED
      BY <2>3, <2>4, <3>2
  <2>5. CASE m # 0
    <3>1. PICK l \in 0 .. N : m = l + 1
      BY <2>3, <2>5, m - 1 \in 0 .. N
    <3>2. UpTo(l)
      <4>1. ~(m <= l)
        BY <3>1
      <4>2. l \notin S
        BY <2>2, <4>1
      <4> HIDE DEF UpTo
      <4>3. QED BY <3>1, <4>2
    <3>3. PICK f \in [0 .. l -> V] : f[0] = b /\ \A i \in 1 .. l : f[i] = g[i][f[i - 1]]
      BY <3>2
    <3>4. m \in 1 .. N /\ f[l] \in V /\ g[m][f[l]] \in V
      BY <2>3, <3>1
    <3>5. PICK h : h = [i \in 0 .. m |-> IF i = m THEN g[m][f[l]] ELSE f[i]]
      OBVIOUS
    <3>6. h \in [0 .. m -> V]
      BY <2>3, <3>1, <3>4, <3>5
    <3>7. h[0] = b
      BY <2>3, <2>5, <3>3, <3>5
    <3>8. \A i \in 1 .. m : h[i] = g[i][h[i - 1]]
      <4>1. ASSUME NEW i \in 1 .. m PROVE h[i] = g[i][h[i - 1]]
        <5>1. i - 1 \in 0 .. l /\ h[i - 1] = f[i - 1]
          BY <2>3, <3>1, <3>5
        <5>2. CASE i = m
          BY <3>1, <3>5, <5>1, <5>2
        <5>3. CASE i # m
          <6>1. i \in 1 .. l /\ h[i] = f[i]
            BY <2>3, <3>1, <3>5, <5>3
          <6>2. QED BY <3>3, <5>1, <6>1
        <5>4. QED BY <5>2, <5>3
      <4>2. QED BY <4>1
    <3>9. UpTo(m)
      BY <3>6, <3>7, <3>8
    <3>10. QED BY <2>3, <3>9
  <2>6. QED BY <2>4, <2>5
<1>3. QED BY <1>1, <1>2

\* The values of a function on a finite set.
LEMMA ImageFinite ==
  ASSUME NEW S, IsFiniteSet(S), NEW f, f \in [S -> {f[x] : x \in S}]
  PROVE  IsFiniteSet({f[x] : x \in S})
<1> DEFINE T == {f[x] : x \in S}
<1>1. \A t \in T : \E x \in S : f[x] = t
  OBVIOUS
<1>2. f \in Surjection(S, T)
  BY <1>1 DEF Surjection
<1> HIDE DEF T
<1>3. IsFiniteSet(T)
  BY <1>2, FS_Surjection
<1>4. QED BY <1>3 DEF T

\* The greatest of a finite set of integers.
LEMMA Greatest ==
  ASSUME NEW S \in SUBSET Int, IsFiniteSet(S), S # {}
  PROVE  Max(S) \in S /\ \A y \in S : y <= Max(S)
<1> DEFINE R == StrictSubsetOrdering(S)
<1> DEFINE Above(x) == {y \in S : x <= y}
<1> DEFINE T == {Above(x) : x \in S}
<1>1. IsWellFoundedOn(R, FiniteSubsetsOf(S))
  BY FS_StrictSubsetOrderingWellFounded
<1>2. T \subseteq FiniteSubsetsOf(S) /\ T # {}
  <2>1. ASSUME NEW x \in S PROVE Above(x) \in FiniteSubsetsOf(S)
    <3>1. Above(x) \in SUBSET S
      OBVIOUS
    <3>2. IsFiniteSet(Above(x))
      BY <3>1, FS_Subset
    <3>3. QED BY <3>1, <3>2 DEF FiniteSubsetsOf
  <2> HIDE DEF Above
  <2>2. QED BY <2>1
<1>3. PICK t \in T : \A u \in T : ~ (<<u, t>> \in R)
  <2> HIDE DEF R, T
  <2>1. QED BY <1>1, <1>2, WFMin
<1>4. PICK x \in S : t = Above(x)
  OBVIOUS
<1>5. ASSUME NEW y \in S, x < y PROVE FALSE
  <2>1. Above(y) \subseteq Above(x)
    <3>1. x \in Int /\ y \in Int /\ \A z \in S : z \in Int
      OBVIOUS
    <3>2. ASSUME NEW z \in S, y <= z PROVE x <= z
      BY <1>5, <3>1, <3>2
    <3>3. QED BY <3>2
  <2>2. x \in Above(x) /\ x \notin Above(y)
    BY <1>5
  <2>3. Above(y) \in T /\ Above(y) \in SUBSET S /\ Above(x) \in SUBSET S
    OBVIOUS
  <2>4. <<Above(y), Above(x)>> \in R
    BY <2>1, <2>2, <2>3 DEF StrictSubsetOrdering
  <2>5. QED BY <1>3, <1>4, <2>3, <2>4
<1>6. x \in Int /\ \A y \in S : y \in Int /\ ~(x < y)
  BY <1>5
<1>7. \A y \in S : x >= y
  BY <1>6
<1>8. Max(S) \in S /\ \A y \in S : Max(S) >= y
  BY <1>7 DEF Max
<1>9. Max(S) \in Int /\ \A y \in S : y \in Int
  BY <1>8
<1>10. QED BY <1>8, <1>9

\* ---- the arrivals in a state of an HMM without skips ----

\* No transition has a score above zero.
TopologyOK(c) ==
  /\ c.n \in Nat \ {0}
  /\ \A j \in Inner(c), k \in 0 .. c.n : c.tp[<<j, k>>] \in Int /\ c.tp[<<j, k>>] <= 0

\* Transitions are from a state to itself or the next.
Bakis(c) == \A j \in Inner(c), k \in 0 .. c.n : k > j + 1 => ~Present(c.tp[<<j, k>>])

\* An arrival in k, and what a better one from state j makes of it.
Arrivals == [score : Int, from : Int]
Improved(c, st, k, j, a) ==
  IF Present(c.tp[<<j, k>>]) /\ st[j] + c.tp[<<j, k>>] > a.score
  THEN [score |-> st[j] + c.tp[<<j, k>>], from |-> j] ELSE a

\* The states are tried one after another.
Tried(c, st, k, stay) ==
  CHOOSE best : best = [i \in 0 .. k |-> IF i = 0 THEN [score |-> stay, from |-> k]
                                         ELSE Improved(c, st, k, k - i, best[i - 1])]

LEMMA ArrivalFields ==
  /\ \A s, f \in Int : [score |-> s, from |-> f] \in Arrivals
  /\ \A a \in Arrivals : a.score \in Int /\ a.from \in Int
BY Zenon DEF Arrivals

LEMMA ArrivalIsTried ==
  ASSUME NEW c, NEW st, NEW k, NEW stay
  PROVE  Arrival(c, st, k, stay) = Tried(c, st, k, stay)[k]
BY Zenon DEF Arrival, Tried, Improved

LEMMA ImprovedType ==
  ASSUME NEW c, TopologyOK(c), NEW st \in [Inner(c) -> Int], NEW k \in 0 .. c.n,
         NEW j \in Inner(c), NEW a \in Arrivals
  PROVE  Improved(c, st, k, j, a) \in Arrivals
<1>1. st[j] \in Int /\ c.tp[<<j, k>>] \in Int
  BY DEF TopologyOK
<1>2. st[j] + c.tp[<<j, k>>] \in Int /\ j \in Int
  BY <1>1 DEF Inner
<1>3. [score |-> st[j] + c.tp[<<j, k>>], from |-> j] \in Arrivals
  BY <1>2, ArrivalFields
<1>4. QED
  BY <1>3 DEF Improved

LEMMA TriedIs ==
  ASSUME NEW c, TopologyOK(c), NEW st \in [Inner(c) -> Int], NEW k \in 0 .. c.n, NEW stay \in Int
  PROVE  LET best == Tried(c, st, k, stay)
         IN /\ best \in [0 .. k -> Arrivals]
            /\ best[0] = [score |-> stay, from |-> k]
            /\ \A i \in 1 .. k : best[i] = Improved(c, st, k, k - i, best[i - 1])
<1>1. k \in Nat /\ k \in Int
  BY DEF TopologyOK
<1>2. PICK first : first = [score |-> stay, from |-> k]
  OBVIOUS
<1>3. first \in Arrivals
  BY <1>1, <1>2, ArrivalFields
<1>4. \A i \in 1 .. k : k - i \in Inner(c)
  BY <1>1 DEF Inner, TopologyOK
<1>5. PICK g : g = [i \in 1 .. k |-> [a \in Arrivals |-> Improved(c, st, k, k - i, a)]]
  OBVIOUS
<1>6. g \in [1 .. k -> [Arrivals -> Arrivals]]
  BY <1>4, <1>5, ImprovedType
<1>7. PICK f : Chain(f, k, Arrivals, first, g)
  BY <1>1, <1>3, <1>6, Iteration
<1>8. ASSUME NEW i \in 1 .. k PROVE f[i] = Improved(c, st, k, k - i, f[i - 1])
  <2>1. i - 1 \in 0 .. k
    BY <1>1
  <2>2. f[i - 1] \in Arrivals
    BY <1>7, <2>1 DEF Chain
  <2>3. QED BY <1>5, <1>7, <2>2 DEF Chain
<1> DEFINE Is(h) == h = [i \in 0 .. k |-> IF i = 0 THEN [score |-> stay, from |-> k]
                                         ELSE Improved(c, st, k, k - i, h[i - 1])]
<1>9. Is(f)
  <2>1. \A i \in 0 .. k : i # 0 => i \in 1 .. k
    BY <1>1
  <2>2. ASSUME NEW i \in 0 .. k
        PROVE f[i] = IF i = 0 THEN [score |-> stay, from |-> k] ELSE Improved(c, st, k, k - i, f[i - 1])
    BY <1>2, <1>7, <1>8, <2>1 DEF Chain
  <2>3. f = [i \in 0 .. k |-> f[i]]
    BY <1>7 DEF Chain
  <2>4. QED BY <2>2, <2>3, Zenon
<1>10. Is(Tried(c, st, k, stay))
  <2>1. Tried(c, st, k, stay) = CHOOSE h : Is(h)
    BY DEF Tried
  <2> HIDE DEF Is
  <2>2. QED BY <1>9, <2>1
<1>11. PICK best : best = Tried(c, st, k, stay)
  OBVIOUS
<1>12. Is(best)
  BY <1>10, <1>11
<1>13. best[0] = [score |-> stay, from |-> k]
  BY <1>1, <1>12
<1>14. \A i \in 1 .. k : best[i] = Improved(c, st, k, k - i, best[i - 1])
  <2>1. ASSUME NEW i \in 1 .. k PROVE best[i] = Improved(c, st, k, k - i, best[i - 1])
    <3>1. i \in 0 .. k /\ i # 0
      BY <1>1
    <3>2. QED BY <1>12, <3>1
  <2>2. QED BY <2>1
<1>15. best \in [0 .. k -> Arrivals]
  <2> DEFINE S == {i \in 0 .. k : best[i] \notin Arrivals}
  <2>1. CASE S = {}
    <3>1. best = [i \in 0 .. k |-> best[i]]
      BY <1>12
    <3>2. QED BY <2>1, <3>1
  <2>2. CASE S # {}
    <3>1. S \in SUBSET Nat
      BY <1>1
    <3>2. PICK i \in S : \A m \in S : i <= m
      BY <2>2, <3>1, Smallest
    <3>3. i # 0
      BY <1>2, <1>3, <1>13
    <3>4. i \in 1 .. k /\ i - 1 \in 0 .. k /\ ~(i <= i - 1)
      BY <1>1, <3>3
    <3>5. best[i - 1] \in Arrivals
      BY <3>2, <3>4
    <3>6. best[i] \in Arrivals
      BY <1>4, <1>14, <3>4, <3>5, ImprovedType
    <3>7. QED BY <3>6
  <2>3. QED BY <2>1, <2>2
<1>16. QED
  BY <1>11, <1>13, <1>14, <1>15

\* The best arrival in a state is from the state before it, or it stays.
LEMMA ArrivalIs ==
  ASSUME NEW c, TopologyOK(c), Bakis(c), NEW st \in [Inner(c) -> Int], NEW k \in 0 .. c.n,
         NEW stay \in Int
  PROVE  Arrival(c, st, k, stay)
           = IF k = 0 THEN [score |-> stay, from |-> k]
             ELSE Improved(c, st, k, k - 1, [score |-> stay, from |-> k])
<1>1. k \in Nat /\ k \in Int
  BY DEF TopologyOK
<1>2. PICK best : best = Tried(c, st, k, stay)
  OBVIOUS
<1>3. /\ best[0] = [score |-> stay, from |-> k]
      /\ \A i \in 1 .. k : best[i] = Improved(c, st, k, k - i, best[i - 1])
  BY <1>2, TriedIs
<1>4. CASE k = 0
  BY <1>2, <1>3, <1>4, ArrivalIsTried
<1>5. CASE k # 0
  <2>1. 1 \in 1 .. k /\ 1 - 1 = 0
    BY <1>1, <1>5
  <2>2. best[1] = Improved(c, st, k, k - 1, best[0])
    BY <1>3, <2>1
  <2> DEFINE S == {i \in 1 .. k : best[i] # best[1]}
  <2>3. CASE S = {}
    <3>1. k \in 1 .. k
      BY <1>1, <1>5
    <3>2. best[k] = best[1]
      BY <2>3, <3>1
    <3>3. QED BY <1>2, <1>3, <1>5, <2>2, <3>2, ArrivalIsTried
  <2>4. CASE S # {}
    <3>1. S \in SUBSET Nat
      BY <1>1
    <3>2. PICK i \in S : \A m \in S : i <= m
      BY <2>4, <3>1, Smallest
    <3>3. i \in 1 .. k /\ i # 1
      BY <3>2
    <3>4. i - 1 \in 1 .. k /\ ~(i <= i - 1) /\ k - i \in Inner(c) /\ k > (k - i) + 1
      BY <1>1, <3>3 DEF Inner, TopologyOK
    <3>5. best[i - 1] = best[1]
      BY <3>2, <3>4
    <3>6. ~Present(c.tp[<<k - i, k>>])
      BY <3>4 DEF Bakis
    <3>7. best[i] = best[i - 1]
      BY <1>3, <3>3, <3>6 DEF Improved
    <3>8. QED BY <3>2, <3>5, <3>7
  <2>5. QED BY <2>3, <2>4
<1>6. QED BY <1>4, <1>5

\* ---- one HMM evaluated ----

HmmRec(c) ==
  [score : [Inner(c) -> Int], hist : [Inner(c) -> Int], out : Int, outHist : Int, best : Int, frame : Int]

\* The score and the history of state j, and of what left the HMM for j = n.
Score(c, h, j) == IF j = c.n THEN h.out ELSE h.score[j]
Hist(c, h, j) == IF j = c.n THEN h.outHist ELSE h.hist[j]

\* State j is reached from itself or the one before it; nothing good comes of a bad score.
Follows(c, h, g, j, i) ==
  /\ i = j \/ (j > 0 /\ i = j - 1)
  /\ Hist(c, g, j) = Hist(c, h, i)
  /\ Score(c, h, i) <= WORST_SCORE => Score(c, g, j) <= WORST_SCORE
Evolves(c, h, g) ==
  /\ g \in HmmRec(c) /\ g.frame = h.frame
  /\ \A j \in 0 .. c.n : \E i \in 0 .. c.n : Follows(c, h, g, j, i)

LEMMA HmmFields ==
  ASSUME NEW c, NEW h \in HmmRec(c)
  PROVE  /\ h.score \in [Inner(c) -> Int] /\ h.hist \in [Inner(c) -> Int]
         /\ h.out \in Int /\ h.outHist \in Int /\ h.best \in Int /\ h.frame \in Int
BY Zenon DEF HmmRec

LEMMA MakeHmm ==
  ASSUME NEW c, NEW score \in [Inner(c) -> Int], NEW hist \in [Inner(c) -> Int],
         NEW out \in Int, NEW outHist \in Int, NEW best \in Int, NEW fr \in Int
  PROVE  [score |-> score, hist |-> hist, out |-> out, outHist |-> outHist, best |-> best, frame |-> fr]
           \in HmmRec(c)
BY Zenon DEF HmmRec

\* The scores of the states with the frame's, and the best arrivals of hmm_vit_eval_anytopo.
Heads(c, h, sen) ==
  [j \in Inner(c) |-> IF j = 0 THEN h.score[0] + sen[0] ELSE Clipped(h.score[j] + sen[j])]
Stays(c, st, k) == IF Present(c.tp[<<k, k>>]) THEN st[k] + c.tp[<<k, k>>] ELSE WORST_SCORE
Into(c, st) == [k \in Inner(c) |-> Arrival(c, st, k, Stays(c, st, k))]
Outof(c, st) == Arrival(c, st, c.n, WORST_SCORE)

LEMMA EvalAnyFields ==
  ASSUME NEW c, NEW h, NEW sen
  PROVE  LET into == Into(c, Heads(c, h, sen))
             out == Outof(c, Heads(c, h, sen))
         IN EvalAny(c, h, sen) =
              [score |-> [k \in Inner(c) |-> into[k].score],
               hist |-> [k \in Inner(c) |-> h.hist[into[k].from]],
               out |-> out.score, outHist |-> IF out.from = c.n THEN h.outHist ELSE h.hist[out.from],
               best |-> Max({out.score} \cup {into[k].score : k \in Inner(c)}), frame |-> h.frame]
BY Zenon DEF EvalAny, Heads, Into, Outof, Stays

LEMMA ArrivalCases ==
  ASSUME NEW c, TopologyOK(c), Bakis(c), NEW st \in [Inner(c) -> Int], NEW k \in 0 .. c.n,
         NEW stay \in Int, NEW a, a = Arrival(c, st, k, stay)
  PROVE  /\ a \in Arrivals
         /\ \/ a.from = k /\ a.score = stay
            \/ k > 0 /\ a.from = k - 1 /\ a.score = st[k - 1] + c.tp[<<k - 1, k>>]
         /\ k > 0 /\ Present(c.tp[<<k - 1, k>>]) => a.score >= st[k - 1] + c.tp[<<k - 1, k>>]
<1>1. k \in Int /\ k \in Nat
  BY DEF TopologyOK
<1>2. PICK b : b = [score |-> stay, from |-> k]
  OBVIOUS
<1>3. b \in Arrivals /\ b.from = k /\ b.score = stay
  BY <1>1, <1>2, ArrivalFields
<1>4. CASE k = 0
  <2>1. a = b
    BY <1>2, <1>4, ArrivalIs
  <2>2. QED BY <1>3, <1>4, <2>1
<1>5. CASE k # 0
  <2>1. a = Improved(c, st, k, k - 1, b)
    BY <1>2, <1>5, ArrivalIs
  <2>2. k > 0 /\ k - 1 \in Inner(c)
    BY <1>1, <1>5 DEF Inner, TopologyOK
  <2>3. PICK s \in Int : s = st[k - 1] + c.tp[<<k - 1, k>>]
    BY <2>2 DEF TopologyOK
  <2>4. a \in Arrivals
    BY <1>3, <2>1, <2>2, ImprovedType
  <2>5. CASE Present(c.tp[<<k - 1, k>>]) /\ s > b.score
    <3>1. a = [score |-> s, from |-> k - 1]
      BY <2>1, <2>3, <2>5 DEF Improved
    <3>2. a.score = s /\ a.from = k - 1
      BY <3>1
    <3>3. QED BY <2>2, <2>3, <2>4, <3>2
  <2>6. CASE ~(Present(c.tp[<<k - 1, k>>]) /\ s > b.score)
    <3>1. a = b
      BY <2>1, <2>3, <2>6 DEF Improved
    <3>2. Present(c.tp[<<k - 1, k>>]) => stay >= s
      BY <1>3, <2>3, <2>6
    <3>3. QED BY <1>3, <2>3, <2>4, <3>1, <3>2
  <2>7. QED BY <2>5, <2>6
<1>6. QED BY <1>4, <1>5

LEMMA HeadsAre ==
  ASSUME NEW c, TopologyOK(c), NEW h \in HmmRec(c), NEW v \in Int, v <= 0,
         NEW st, st = Heads(c, h, [j \in Inner(c) |-> v])
  PROVE  /\ st \in [Inner(c) -> Int]
         /\ \A j \in Inner(c) : /\ st[j] >= h.score[j] + v
                                /\ h.score[j] <= WORST_SCORE => st[j] <= WORST_SCORE
<1>1. 0 \in Inner(c) /\ WORST_SCORE \in Int
  BY KwsAssumption DEF TopologyOK, Inner
<1>2. st = [j \in Inner(c) |-> IF j = 0 THEN h.score[0] + v ELSE Clipped(h.score[j] + v)]
  BY <1>1 DEF Heads
<1>3. ASSUME NEW j \in Inner(c)
      PROVE  st[j] \in Int /\ st[j] >= h.score[j] + v /\ (h.score[j] <= WORST_SCORE => st[j] <= WORST_SCORE)
  <2>1. PICK s \in Int : s = h.score[j]
    BY HmmFields
  <2>2. st[j] = IF j = 0 THEN s + v ELSE IF s + v < WORST_SCORE THEN WORST_SCORE ELSE s + v
    BY <1>2, <2>1 DEF Clipped
  <2>3. QED BY <1>1, <2>1, <2>2
<1>4. st \in [Inner(c) -> Int]
  BY <1>2, <1>3
<1>5. QED BY <1>3, <1>4

\* Where a frame costs no more than Loss a state is no further below the one before it;
\* hmm_vit_eval_3st_lr leaves the HMM only when state 1 has been reached.
Descends(c, h, g, v, Loss) ==
  /\ Score(c, g, 0) >= Score(c, h, 0) - Loss
  /\ \A j \in 1 .. c.n : (j = 3 /\ c.n = 3 => h.score[1] + v > WORST_SCORE) =>
       Score(c, g, j) >= Score(c, h, j - 1) - Loss
Costs(c, v, Loss) ==
  \A j \in Inner(c) : /\ Present(c.tp[<<j, j>>]) /\ Present(c.tp[<<j, j + 1>>])
                      /\ v + c.tp[<<j, j>>] >= -Loss /\ v + c.tp[<<j, j + 1>>] >= -Loss

LEMMA EvalAnyEvolves ==
  ASSUME NEW c, TopologyOK(c), Bakis(c), NEW h \in HmmRec(c), NEW v \in Int, v <= 0,
         NEW g, g = EvalAny(c, h, [j \in Inner(c) |-> v])
  PROVE  /\ Evolves(c, h, g)
         /\ \A Loss \in Nat : Costs(c, v, Loss) => Descends(c, h, g, v, Loss)
<1>1. PICK st : st = Heads(c, h, [j \in Inner(c) |-> v])
  OBVIOUS
<1>2. /\ st \in [Inner(c) -> Int]
      /\ \A j \in Inner(c) : /\ st[j] >= h.score[j] + v
                             /\ h.score[j] <= WORST_SCORE => st[j] <= WORST_SCORE
  BY <1>1, HeadsAre
<1>3. PICK n \in Nat : n = c.n /\ n > 0 /\ Inner(c) = 0 .. n - 1
  BY DEF TopologyOK, Inner
<1>4. WORST_SCORE \in Int
  BY KwsAssumption
<1>5. /\ h.score \in [Inner(c) -> Int] /\ h.hist \in [Inner(c) -> Int]
      /\ h.out \in Int /\ h.outHist \in Int /\ h.best \in Int /\ h.frame \in Int
  BY HmmFields
<1>6. PICK into : into = Into(c, st)
  OBVIOUS
<1>7. PICK out : out = Outof(c, st)
  OBVIOUS
<1>8. ASSUME NEW k \in Inner(c)
      PROVE  /\ Stays(c, st, k) \in Int
             /\ st[k] <= WORST_SCORE => Stays(c, st, k) <= WORST_SCORE
             /\ Present(c.tp[<<k, k>>]) => Stays(c, st, k) = st[k] + c.tp[<<k, k>>]
  <2>1. k \in 0 .. c.n
    BY <1>3
  <2>2. PICK s \in Int : s = st[k]
    BY <1>2
  <2>3. PICK t \in Int : t = c.tp[<<k, k>>] /\ t <= 0
    BY <2>1 DEF TopologyOK
  <2>4. QED BY <1>4, <2>2, <2>3 DEF Stays
<1>9. ASSUME NEW k \in Inner(c)
      PROVE  /\ into[k] \in Arrivals
             /\ \/ into[k].from = k /\ into[k].score = Stays(c, st, k)
                \/ k > 0 /\ into[k].from = k - 1 /\ into[k].score = st[k - 1] + c.tp[<<k - 1, k>>]
             /\ k > 0 /\ Present(c.tp[<<k - 1, k>>]) => into[k].score >= st[k - 1] + c.tp[<<k - 1, k>>]
  <2>1. k \in 0 .. c.n
    BY <1>3
  <2>2. into[k] = Arrival(c, st, k, Stays(c, st, k))
    BY <1>6 DEF Into
  <2>0. PICK a : a = into[k]
    OBVIOUS
  <2>3. PICK stay \in Int : stay = Stays(c, st, k)
    BY <1>8
  <2>4. a = Arrival(c, st, k, stay)
    BY <2>0, <2>2, <2>3
  <2>5. /\ a \in Arrivals
        /\ \/ a.from = k /\ a.score = stay
           \/ k > 0 /\ a.from = k - 1 /\ a.score = st[k - 1] + c.tp[<<k - 1, k>>]
        /\ k > 0 /\ Present(c.tp[<<k - 1, k>>]) => a.score >= st[k - 1] + c.tp[<<k - 1, k>>]
    BY <1>2, <2>1, <2>4, ArrivalCases
  <2>6. QED BY <2>0, <2>3, <2>5
<1>10. /\ out \in Arrivals
       /\ \/ out.from = n /\ out.score = WORST_SCORE
          \/ out.from = n - 1 /\ out.score = st[n - 1] + c.tp[<<n - 1, n>>]
       /\ Present(c.tp[<<n - 1, n>>]) => out.score >= st[n - 1] + c.tp[<<n - 1, n>>]
  <2>1. n \in 0 .. c.n
    BY <1>3
  <2>2. out = Arrival(c, st, n, WORST_SCORE)
    BY <1>3, <1>7 DEF Outof
  <2>3. /\ out \in Arrivals
        /\ \/ out.from = n /\ out.score = WORST_SCORE
           \/ n > 0 /\ out.from = n - 1 /\ out.score = st[n - 1] + c.tp[<<n - 1, n>>]
        /\ n > 0 /\ Present(c.tp[<<n - 1, n>>]) => out.score >= st[n - 1] + c.tp[<<n - 1, n>>]
    BY <1>2, <1>4, <2>1, <2>2, ArrivalCases
  <2>4. QED BY <1>3, <2>3
<1>11. PICK best : best = Max({out.score} \cup {into[k].score : k \in Inner(c)})
  OBVIOUS
<1>12. best \in Int
  <2>1. {into[k].score : k \in Inner(c)} \in SUBSET Int
    BY <1>9, ArrivalFields
  <2>2. IsFiniteSet({into[k].score : k \in Inner(c)})
    <3>1. IsFiniteSet(Inner(c))
      BY <1>3, FS_Interval
    <3>2. PICK f : f = [k \in Inner(c) |-> into[k].score]
      OBVIOUS
    <3>3. f \in [Inner(c) -> {f[k] : k \in Inner(c)}]
      BY <3>2
    <3>4. {into[k].score : k \in Inner(c)} = {f[k] : k \in Inner(c)}
      BY <3>2
    <3>5. IsFiniteSet({f[k] : k \in Inner(c)})
      BY <3>1, <3>3, ImageFinite
    <3>6. QED BY <3>4, <3>5
  <2>3. IsFiniteSet({out.score})
    BY FS_Singleton
  <2>4. IsFiniteSet({out.score} \cup {into[k].score : k \in Inner(c)})
    BY <2>2, <2>3, FS_Union
  <2>5. out.score \in Int
    BY <1>10, ArrivalFields
  <2>6. QED BY <1>11, <2>1, <2>4, <2>5, Greatest
<1>13. PICK sc, hi : sc = [k \in Inner(c) |-> into[k].score]
                     /\ hi = [k \in Inner(c) |-> h.hist[into[k].from]]
  OBVIOUS
<1>14. PICK oh : oh = IF out.from = c.n THEN h.outHist ELSE h.hist[out.from]
  OBVIOUS
<1>15. g = [score |-> sc, hist |-> hi, out |-> out.score, outHist |-> oh, best |-> best, frame |-> h.frame]
  BY <1>1, <1>6, <1>7, <1>11, <1>13, <1>14, EvalAnyFields
<1>16. sc \in [Inner(c) -> Int]
  BY <1>9, <1>13, ArrivalFields
<1>17. hi \in [Inner(c) -> Int]
  <2>1. ASSUME NEW k \in Inner(c) PROVE into[k].from \in Inner(c)
    <3>1. k \in 0 .. n - 1
      BY <1>3
    <3>2. k > 0 => k - 1 \in 0 .. n - 1
      BY <1>3, <3>1
    <3>3. QED BY <1>3, <1>9, <3>2
  <2>2. QED BY <1>5, <1>13, <2>1
<1>18. oh \in Int
  <2>1. n - 1 \in Inner(c)
    BY <1>3
  <2>2. QED BY <1>3, <1>5, <1>10, <1>14, <2>1
<1>19. out.score \in Int
  BY <1>10, ArrivalFields
<1>20. g \in HmmRec(c)
  BY <1>5, <1>12, <1>15, <1>16, <1>17, <1>18, <1>19, MakeHmm
<1>21. g.score = sc /\ g.hist = hi /\ g.out = out.score /\ g.outHist = oh /\ g.frame = h.frame
  BY <1>15
<1>22. ASSUME NEW k \in Inner(c) PROVE \E i \in 0 .. c.n : Follows(c, h, g, k, i)
  <2>1. k \in 0 .. n /\ k # n /\ Score(c, g, k) = into[k].score /\ Hist(c, g, k) = h.hist[into[k].from]
    BY <1>3, <1>13, <1>21 DEF Score, Hist
  <2>2. CASE into[k].from = k /\ into[k].score = Stays(c, st, k)
    <3>1. Hist(c, h, k) = h.hist[k] /\ Score(c, h, k) = h.score[k]
      BY <1>3, <2>1 DEF Score, Hist
    <3>2. h.score[k] <= WORST_SCORE => into[k].score <= WORST_SCORE
      BY <1>2, <1>8, <2>2
    <3>3. Follows(c, h, g, k, k)
      BY <2>1, <2>2, <3>1, <3>2 DEF Follows
    <3>4. QED BY <1>3, <2>1, <3>3
  <2>3. CASE k > 0 /\ into[k].from = k - 1 /\ into[k].score = st[k - 1] + c.tp[<<k - 1, k>>]
    <3>1. PICK i \in Inner(c) : i = k - 1
      BY <1>3, <2>3
    <3>2. i \in 0 .. n /\ Hist(c, h, i) = h.hist[i] /\ Score(c, h, i) = h.score[i]
      BY <1>3, <3>1 DEF Score, Hist
    <3>3. PICK s \in Int : s = st[i] /\ (h.score[i] <= WORST_SCORE => s <= WORST_SCORE)
      BY <1>2, <3>1
    <3>4. PICK t \in Int : t = c.tp[<<i, k>>] /\ t <= 0
      BY <1>3, <2>1, <3>1 DEF TopologyOK
    <3>5. into[k].score = s + t
      BY <2>3, <3>1, <3>3, <3>4
    <3>6. s <= WORST_SCORE => into[k].score <= WORST_SCORE
      BY <1>4, <3>3, <3>4, <3>5
    <3>7. Follows(c, h, g, k, i)
      BY <2>1, <2>3, <3>1, <3>2, <3>3, <3>6 DEF Follows
    <3>8. QED BY <1>3, <3>2, <3>7
  <2>4. QED BY <1>9, <2>2, <2>3
<1>23. \E i \in 0 .. c.n : Follows(c, h, g, c.n, i)
  <2>1. Score(c, g, c.n) = out.score /\ Hist(c, g, c.n) = oh
    BY <1>21 DEF Score, Hist
  <2>2. CASE out.from = n /\ out.score = WORST_SCORE
    <3>1. Follows(c, h, g, c.n, c.n)
      BY <1>3, <1>4, <1>14, <2>1, <2>2 DEF Follows, Hist
    <3>2. QED BY <1>3, <3>1
  <2>3. CASE out.from = n - 1 /\ out.score = st[n - 1] + c.tp[<<n - 1, n>>]
    <3>1. PICK i \in Inner(c) : i = n - 1
      <4>1. n - 1 \in 0 .. n - 1
        BY <1>3
      <4>2. QED BY <1>3, <4>1
    <3>2. i \in 0 .. n /\ i # n /\ Hist(c, h, i) = h.hist[i] /\ Score(c, h, i) = h.score[i]
      BY <1>3, <3>1 DEF Score, Hist
    <3>3. PICK s \in Int : s = st[i] /\ (h.score[i] <= WORST_SCORE => s <= WORST_SCORE)
      BY <1>2, <3>1
    <3>4. PICK t \in Int : t = c.tp[<<i, n>>] /\ t <= 0
      BY <1>3, <3>1 DEF TopologyOK
    <3>5. out.score = s + t
      BY <2>3, <3>1, <3>3, <3>4
    <3>6. s <= WORST_SCORE => out.score <= WORST_SCORE
      BY <1>4, <3>3, <3>4, <3>5
    <3>7. oh = h.hist[i]
      BY <1>3, <1>14, <2>3, <3>1, <3>2
    <3>8. Follows(c, h, g, c.n, i)
      BY <1>3, <2>1, <3>1, <3>2, <3>3, <3>6, <3>7 DEF Follows
    <3>9. QED BY <1>3, <3>2, <3>8
  <2>4. QED BY <1>10, <2>2, <2>3
<1>24. Evolves(c, h, g)
  <2>1. \A j \in 0 .. c.n : j = c.n \/ j \in Inner(c)
    BY <1>3
  <2>2. QED BY <1>20, <1>21, <1>22, <1>23, <2>1 DEF Evolves
<1>25. ASSUME NEW Loss \in Nat, Costs(c, v, Loss) PROVE Descends(c, h, g, v, Loss)
  <2>1. Score(c, g, 0) >= Score(c, h, 0) - Loss
    <3>1. PICK z \in Inner(c) : z = 0
      BY <1>3
    <3>2. Score(c, g, z) = into[z].score /\ Score(c, h, z) = h.score[z]
      <4>1. z # c.n
        BY <1>3, <3>1
      <4>2. Score(c, g, z) = g.score[z] /\ Score(c, h, z) = h.score[z]
        BY <4>1 DEF Score
      <4>3. QED BY <1>13, <1>21, <4>2
    <3>3. PICK s \in Int, u \in Int : s = h.score[z] /\ u = st[z] /\ u >= s + v
      BY <1>2, <1>5
    <3>4. PICK t \in Int : t = c.tp[<<z, z>>] /\ v + t >= -Loss
      <4>1. z \in 0 .. c.n
        BY <1>3, <3>1
      <4>2. c.tp[<<z, z>>] \in Int
        BY <4>1 DEF TopologyOK
      <4>3. QED BY <1>25, <4>2 DEF Costs
    <3>5. into[z].score = u + t
      <4>1. ~(z > 0)
        BY <3>1
      <4>2. Present(c.tp[<<z, z>>])
        BY <1>25 DEF Costs
      <4>3. into[z].score = Stays(c, st, z)
        BY <1>9, <4>1
      <4>4. QED BY <1>8, <3>3, <3>4, <4>2, <4>3
    <3>6. u + t >= s - Loss
      BY <3>3, <3>4
    <3>7. QED BY <3>1, <3>2, <3>3, <3>5, <3>6
  <2>2. ASSUME NEW j \in 1 .. c.n PROVE Score(c, g, j) >= Score(c, h, j - 1) - Loss
    <3>1. PICK i \in Inner(c) : i = j - 1 /\ j = i + 1
      BY <1>3
    <3>2. Score(c, h, i) = h.score[i]
      BY <1>3, <3>1 DEF Score
    <3>3. PICK s \in Int, u \in Int : s = h.score[i] /\ u = st[i] /\ u >= s + v
      BY <1>2, <1>5
    <3>4. PICK t \in Int : t = c.tp[<<i, j>>] /\ v + t >= -Loss
      <4>1. j \in 0 .. c.n
        BY <1>3
      <4>2. c.tp[<<i, j>>] \in Int
        BY <4>1 DEF TopologyOK
      <4>3. v + c.tp[<<i, j>>] >= -Loss
        BY <1>25, <3>1 DEF Costs
      <4>4. QED BY <4>2, <4>3
    <3>5. Present(c.tp[<<i, j>>])
      BY <1>25, <3>1 DEF Costs
    <3>6. PICK w \in Int : w = Score(c, g, j) /\ w >= u + t
      <4>1. CASE j = n
        <5>1. Score(c, g, j) = out.score /\ i = n - 1
          BY <1>3, <1>21, <3>1, <4>1 DEF Score
        <5>2. QED BY <1>10, <1>19, <3>3, <3>4, <3>5, <4>1, <5>1
      <4>2. CASE j # n
        <5>1. j \in Inner(c) /\ j > 0
          BY <1>3, <4>2
        <5>2. Score(c, g, j) = into[j].score
          BY <1>3, <1>13, <1>21, <4>2, <5>1 DEF Score
        <5>3. into[j].score \in Int
          BY <1>9, <5>1, ArrivalFields
        <5>4. into[j].score >= u + t
          BY <1>9, <3>1, <3>3, <3>4, <3>5, <5>1
        <5>5. QED BY <5>2, <5>3, <5>4
      <4>3. QED BY <4>1, <4>2
    <3>7. w >= s - Loss
      BY <3>3, <3>4, <3>6
    <3>8. QED BY <3>1, <3>2, <3>3, <3>6, <3>7
  <2>3. QED BY <2>1, <2>2 DEF Descends
<1>26. QED BY <1>24, <1>25

\* ---- hmm_vit_eval_3st_lr ----

Sums(c, h, sen) == [j \in Inner(c) |-> h.score[j] + sen[j]]
SkipOut(c, s) == IF s[1] > WORST_SCORE /\ Present(c.tp[<<1, 3>>]) THEN s[1] + c.tp[<<1, 3>>] ELSE NoScore
SkipIn(c, s) == IF Present(c.tp[<<0, 2>>]) THEN s[0] + c.tp[<<0, 2>>] ELSE SkipOut(c, s)
Out3(c, s) == Clipped(Max({s[2] + c.tp[<<2, 3>>], SkipOut(c, s)}))
Score3(c, s) ==
  [j \in Inner(c) |->
     Clipped(IF j = 2 THEN Max({s[2] + c.tp[<<2, 2>>], s[1] + c.tp[<<1, 2>>], SkipIn(c, s)})
             ELSE IF j = 1 THEN Max({s[1] + c.tp[<<1, 1>>], s[0] + c.tp[<<0, 1>>]})
             ELSE s[0] + c.tp[<<0, 0>>])]
Hist3(c, h, s) ==
  [j \in Inner(c) |->
     IF j = 2 THEN IF SkipIn(c, s) > Max({s[2] + c.tp[<<2, 2>>], s[1] + c.tp[<<1, 2>>]}) THEN h.hist[0]
                   ELSE IF s[2] + c.tp[<<2, 2>>] > s[1] + c.tp[<<1, 2>>] THEN h.hist[2] ELSE h.hist[1]
     ELSE IF j = 1 /\ s[1] + c.tp[<<1, 1>>] > s[0] + c.tp[<<0, 1>>] THEN h.hist[1] ELSE h.hist[0]]
OutHist3(c, h, s) ==
  IF ~(s[1] > WORST_SCORE) THEN h.outHist
  ELSE IF s[2] + c.tp[<<2, 3>>] > SkipOut(c, s) THEN h.hist[2] ELSE h.hist[1]

LEMMA Eval3Fields ==
  ASSUME NEW c, NEW h, NEW sen
  PROVE  LET s == Sums(c, h, sen)
         IN Eval3(c, h, sen) =
              [score |-> Score3(c, s), hist |-> Hist3(c, h, s),
               out |-> IF s[1] > WORST_SCORE THEN Out3(c, s) ELSE h.out, outHist |-> OutHist3(c, h, s),
               best |-> Max({IF s[1] > WORST_SCORE THEN Out3(c, s) ELSE WORST_SCORE}
                            \cup {Score3(c, s)[j] : j \in Inner(c)}),
               frame |-> h.frame]
BY Zenon DEF Eval3, Sums, SkipOut, SkipIn, Out3, Score3, Hist3, OutHist3

LEMMA MaxOfTwo ==
  ASSUME NEW a \in Int, NEW b \in Int
  PROVE  Max({a, b}) = IF a >= b THEN a ELSE b
<1>1. Max({a, b}) \in {a, b} /\ \A y \in {a, b} : y <= Max({a, b})
  <2>1. {a, b} = {a} \cup {b}
    OBVIOUS
  <2>2. IsFiniteSet({a, b})
    <3>1. IsFiniteSet({a}) /\ IsFiniteSet({b})
      BY FS_Singleton
    <3>2. IsFiniteSet({a} \cup {b})
      BY <3>1, FS_Union
    <3>3. QED BY <2>1, <3>2
  <2>3. {a, b} \in SUBSET Int /\ {a, b} # {}
    OBVIOUS
  <2>4. QED BY <2>2, <2>3, Greatest
<1>2. PICK m \in Int : m = Max({a, b})
  BY <1>1
<1>3. (m = a \/ m = b) /\ a <= m /\ b <= m
  BY <1>1, <1>2
<1>4. QED BY <1>2, <1>3

LEMMA MaxOfThree ==
  ASSUME NEW a \in Int, NEW b \in Int, NEW d \in Int, d <= a
  PROVE  Max({a, b, d}) = IF a >= b THEN a ELSE b
<1>1. Max({a, b, d}) \in {a, b, d} /\ \A y \in {a, b, d} : y <= Max({a, b, d})
  <2>1. {a, b, d} = {a} \cup ({b} \cup {d})
    OBVIOUS
  <2>2. IsFiniteSet({a, b, d})
    <3>1. IsFiniteSet({a}) /\ IsFiniteSet({b}) /\ IsFiniteSet({d})
      BY FS_Singleton
    <3>2. IsFiniteSet({b} \cup {d})
      BY <3>1, FS_Union
    <3>3. IsFiniteSet({a} \cup ({b} \cup {d}))
      BY <3>1, <3>2, FS_Union
    <3>4. QED BY <2>1, <3>3
  <2>3. {a, b, d} \in SUBSET Int /\ {a, b, d} # {}
    OBVIOUS
  <2>4. QED BY <2>2, <2>3, Greatest
<1>2. PICK m \in Int : m = Max({a, b, d})
  BY <1>1
<1>3. (m = a \/ m = b \/ m = d) /\ a <= m /\ b <= m
  BY <1>1, <1>2
<1>4. QED BY <1>2, <1>3

\* The scores of three states are never below the worst.
Floor(c, h) == c.n = 3 => \A j \in 0 .. c.n : Score(c, h, j) >= WORST_SCORE

\* What a frame makes of three states with sums s0, s1, s2 and without skips.
EvaluatesThree(c, h, g, s0, s1, s2, t00, t01, t11, t12, t22, t23) ==
  /\ g.score = [j \in Inner(c) |->
                  Clipped(IF j = 2 THEN IF s2 + t22 >= s1 + t12 THEN s2 + t22 ELSE s1 + t12
                          ELSE IF j = 1 THEN IF s1 + t11 >= s0 + t01 THEN s1 + t11 ELSE s0 + t01
                          ELSE s0 + t00)]
  /\ g.hist = [j \in Inner(c) |->
                 IF j = 2 THEN IF s2 + t22 > s1 + t12 THEN h.hist[2] ELSE h.hist[1]
                 ELSE IF j = 1 /\ s1 + t11 > s0 + t01 THEN h.hist[1] ELSE h.hist[0]]
  /\ g.out = IF s1 > WORST_SCORE THEN Clipped(s2 + t23) ELSE h.out
  /\ g.outHist = IF s1 > WORST_SCORE THEN h.hist[2] ELSE h.outHist
  /\ g.frame = h.frame
  /\ g.best \in Int

LEMMA ThreeStates ==
  ASSUME NEW c, TopologyOK(c), c.n = 3, Bakis(c), NEW h \in HmmRec(c), Floor(c, h),
         NEW v \in Int, v <= 0, NEW Loss \in Nat, Costs(c, v, Loss), NoScore < WORST_SCORE - Loss,
         NEW g, g = Eval3(c, h, [j \in Inner(c) |-> v])
  PROVE  EvaluatesThree(c, h, g, h.score[0] + v, h.score[1] + v, h.score[2] + v,
                        c.tp[<<0, 0>>], c.tp[<<0, 1>>], c.tp[<<1, 1>>],
                        c.tp[<<1, 2>>], c.tp[<<2, 2>>], c.tp[<<2, 3>>])
<1>0. PICK s0, s1, s2, t00, t01, t11, t12, t22, t23 :
        /\ s0 = h.score[0] + v /\ s1 = h.score[1] + v /\ s2 = h.score[2] + v
        /\ t00 = c.tp[<<0, 0>>] /\ t01 = c.tp[<<0, 1>>] /\ t11 = c.tp[<<1, 1>>]
        /\ t12 = c.tp[<<1, 2>>] /\ t22 = c.tp[<<2, 2>>] /\ t23 = c.tp[<<2, 3>>]
  OBVIOUS
<1>1. Inner(c) = {0, 1, 2} /\ WORST_SCORE \in Int /\ NoScore \in Int
  BY KwsAssumption DEF Inner, NoScore
<1>2. \A j \in Inner(c), k \in 0 .. 3 : c.tp[<<j, k>>] \in Int /\ c.tp[<<j, k>>] <= 0
  BY DEF TopologyOK
<1>3. /\ t00 \in Int /\ t01 \in Int /\ t11 \in Int /\ t12 \in Int /\ t22 \in Int /\ t23 \in Int
      /\ v + t22 >= -Loss /\ v + t23 >= -Loss
  BY <1>0, <1>1, <1>2 DEF Costs
<1>4. /\ h.score[0] \in Int /\ h.score[1] \in Int /\ h.score[2] \in Int
      /\ h.score[2] >= WORST_SCORE
  BY <1>1, HmmFields DEF Floor, Score
<1>5. s0 \in Int /\ s1 \in Int /\ s2 \in Int
  BY <1>0, <1>4
<1>6. s2 + t22 > NoScore /\ s2 + t23 > NoScore
  BY <1>0, <1>1, <1>3, <1>4
<1>7. PICK s : s = Sums(c, h, [j \in Inner(c) |-> v])
  OBVIOUS
<1>8. s[0] = s0 /\ s[1] = s1 /\ s[2] = s2
  BY <1>0, <1>1, <1>7 DEF Sums
<1>9. SkipOut(c, s) = NoScore /\ SkipIn(c, s) = NoScore
  BY <1>1 DEF SkipOut, SkipIn, Bakis
<1>10. Out3(c, s) = Clipped(s2 + t23)
  <2>1. Max({s2 + t23, NoScore}) = s2 + t23
    BY <1>1, <1>3, <1>5, <1>6, MaxOfTwo
  <2>2. QED BY <1>0, <1>8, <1>9, <2>1 DEF Out3
<1>11. Max({s2 + t22, s1 + t12}) = IF s2 + t22 >= s1 + t12 THEN s2 + t22 ELSE s1 + t12
  BY <1>3, <1>5, MaxOfTwo
<1>12. Max({s1 + t11, s0 + t01}) = IF s1 + t11 >= s0 + t01 THEN s1 + t11 ELSE s0 + t01
  BY <1>3, <1>5, MaxOfTwo
<1>13. Max({s2 + t22, s1 + t12, NoScore}) = IF s2 + t22 >= s1 + t12 THEN s2 + t22 ELSE s1 + t12
  <2>1. PICK a \in Int, b \in Int : a = s2 + t22 /\ b = s1 + t12
    BY <1>3, <1>5
  <2>2. NoScore \in Int /\ NoScore <= a
    BY <1>1, <1>6, <2>1
  <2>3. QED BY <2>1, <2>2, MaxOfThree
<1>14. ~(NoScore > Max({s2 + t22, s1 + t12}))
  BY <1>1, <1>3, <1>5, <1>6, <1>11
<1>15. Score3(c, s) = [j \in Inner(c) |->
                         Clipped(IF j = 2 THEN IF s2 + t22 >= s1 + t12 THEN s2 + t22 ELSE s1 + t12
                                 ELSE IF j = 1 THEN IF s1 + t11 >= s0 + t01 THEN s1 + t11 ELSE s0 + t01
                                 ELSE s0 + t00)]
  BY <1>0, <1>8, <1>9, <1>12, <1>13, Zenon DEF Score3
<1>16. Hist3(c, h, s) = [j \in Inner(c) |->
                           IF j = 2 THEN IF s2 + t22 > s1 + t12 THEN h.hist[2] ELSE h.hist[1]
                           ELSE IF j = 1 /\ s1 + t11 > s0 + t01 THEN h.hist[1] ELSE h.hist[0]]
  BY <1>0, <1>8, <1>9, <1>14, Zenon DEF Hist3
<1>17. OutHist3(c, h, s) = IF s1 > WORST_SCORE THEN h.hist[2] ELSE h.outHist
  <2>1. s[2] + c.tp[<<2, 3>>] > SkipOut(c, s)
    BY <1>0, <1>6, <1>8, <1>9
  <2>2. QED BY <1>8, <2>1 DEF OutHist3
<1>18. g = [score |-> Score3(c, s), hist |-> Hist3(c, h, s),
            out |-> IF s1 > WORST_SCORE THEN Out3(c, s) ELSE h.out, outHist |-> OutHist3(c, h, s),
            best |-> Max({IF s1 > WORST_SCORE THEN Out3(c, s) ELSE WORST_SCORE}
                         \cup {Score3(c, s)[j] : j \in Inner(c)}),
            frame |-> h.frame]
  BY <1>7, <1>8, Eval3Fields
<1>19. g.best \in Int
  <2>1. PICK a, b0, b1, b2 : /\ a = IF s1 > WORST_SCORE THEN Out3(c, s) ELSE WORST_SCORE
                             /\ b0 = Score3(c, s)[0] /\ b1 = Score3(c, s)[1] /\ b2 = Score3(c, s)[2]
    OBVIOUS
  <2>2. a \in Int /\ b0 \in Int /\ b1 \in Int /\ b2 \in Int
    BY <1>1, <1>3, <1>5, <1>10, <1>15, <2>1 DEF Clipped
  <2>3. {Score3(c, s)[j] : j \in Inner(c)} = {b0, b1, b2}
    BY <1>1, <2>1
  <2>4. {a} \cup {b0, b1, b2} = {a} \cup ({b0} \cup ({b1} \cup {b2}))
    OBVIOUS
  <2>5. IsFiniteSet({a} \cup {b0, b1, b2})
    BY <2>4, FS_Singleton, FS_Union
  <2>6. {a} \cup {b0, b1, b2} \in SUBSET Int /\ {a} \cup {b0, b1, b2} # {}
    BY <2>2
  <2>7. g.best = Max({a} \cup {Score3(c, s)[j] : j \in Inner(c)})
    BY <1>18, <2>1
  <2>8. QED BY <2>3, <2>5, <2>6, <2>7, Greatest
<1>20. /\ g.score = Score3(c, s) /\ g.hist = Hist3(c, h, s) /\ g.frame = h.frame
       /\ g.out = (IF s1 > WORST_SCORE THEN Out3(c, s) ELSE h.out) /\ g.outHist = OutHist3(c, h, s)
  BY <1>18
<1>21. EvaluatesThree(c, h, g, s0, s1, s2, t00, t01, t11, t12, t22, t23)
  BY <1>10, <1>15, <1>16, <1>17, <1>19, <1>20 DEF EvaluatesThree
<1>22. QED BY <1>0, <1>21

LEMMA Eval3Evolves ==
  ASSUME NEW c, TopologyOK(c), c.n = 3, Bakis(c), NEW h \in HmmRec(c), Floor(c, h),
         NEW v \in Int, v <= 0, NEW Loss \in Nat, Costs(c, v, Loss), NoScore < WORST_SCORE - Loss,
         NEW g, g = Eval3(c, h, [j \in Inner(c) |-> v])
  PROVE  Evolves(c, h, g) /\ Floor(c, g) /\ Descends(c, h, g, v, Loss)
<1>1. Inner(c) = {0, 1, 2} /\ WORST_SCORE \in Int /\ 0 .. c.n = {0, 1, 2, 3}
  BY KwsAssumption DEF Inner
<1>2. /\ h.score \in [Inner(c) -> Int] /\ h.hist \in [Inner(c) -> Int]
      /\ h.out \in Int /\ h.outHist \in Int /\ h.best \in Int /\ h.frame \in Int
  BY HmmFields
<1>3. PICK h0 \in Int, h1 \in Int, h2 \in Int : h0 = h.score[0] /\ h1 = h.score[1] /\ h2 = h.score[2]
  BY <1>1, <1>2
<1>4. PICK t00 \in Int, t01 \in Int, t11 \in Int, t12 \in Int, t22 \in Int, t23 \in Int :
        /\ t00 = c.tp[<<0, 0>>] /\ t01 = c.tp[<<0, 1>>] /\ t11 = c.tp[<<1, 1>>]
        /\ t12 = c.tp[<<1, 2>>] /\ t22 = c.tp[<<2, 2>>] /\ t23 = c.tp[<<2, 3>>]
  BY <1>1 DEF TopologyOK
<1>5. t00 <= 0 /\ t01 <= 0 /\ t11 <= 0 /\ t12 <= 0 /\ t22 <= 0 /\ t23 <= 0
  BY <1>1, <1>4 DEF TopologyOK
<1>6. /\ v + t00 >= -Loss /\ v + t01 >= -Loss /\ v + t11 >= -Loss
      /\ v + t12 >= -Loss /\ v + t22 >= -Loss /\ v + t23 >= -Loss
  BY <1>1, <1>4 DEF Costs
<1>7. PICK s0 \in Int, s1 \in Int, s2 \in Int : s0 = h0 + v /\ s1 = h1 + v /\ s2 = h2 + v
  BY <1>3
<1>8. /\ g.score = [j \in Inner(c) |->
                      Clipped(IF j = 2 THEN IF s2 + t22 >= s1 + t12 THEN s2 + t22 ELSE s1 + t12
                              ELSE IF j = 1 THEN IF s1 + t11 >= s0 + t01 THEN s1 + t11 ELSE s0 + t01
                              ELSE s0 + t00)]
      /\ g.hist = [j \in Inner(c) |->
                     IF j = 2 THEN IF s2 + t22 > s1 + t12 THEN h.hist[2] ELSE h.hist[1]
                     ELSE IF j = 1 /\ s1 + t11 > s0 + t01 THEN h.hist[1] ELSE h.hist[0]]
      /\ g.out = IF s1 > WORST_SCORE THEN Clipped(s2 + t23) ELSE h.out
      /\ g.outHist = IF s1 > WORST_SCORE THEN h.hist[2] ELSE h.outHist
      /\ g.frame = h.frame
      /\ g.best \in Int
  <2>1. EvaluatesThree(c, h, g, s0, s1, s2, t00, t01, t11, t12, t22, t23)
    BY <1>3, <1>4, <1>7, ThreeStates
  <2>2. QED BY <2>1 DEF EvaluatesThree
<1>9. PICK g0, g1, g2, g3 : g0 = g.score[0] /\ g1 = g.score[1] /\ g2 = g.score[2] /\ g3 = g.out
  OBVIOUS
<1>10. /\ g0 = Clipped(s0 + t00)
       /\ g1 = Clipped(IF s1 + t11 >= s0 + t01 THEN s1 + t11 ELSE s0 + t01)
       /\ g2 = Clipped(IF s2 + t22 >= s1 + t12 THEN s2 + t22 ELSE s1 + t12)
       /\ g3 = IF s1 > WORST_SCORE THEN Clipped(s2 + t23) ELSE h.out
  BY <1>1, <1>8, <1>9
<1>11. g0 \in Int /\ g1 \in Int /\ g2 \in Int /\ g3 \in Int
  BY <1>1, <1>2, <1>10 DEF Clipped
<1>12. /\ g.hist[0] = h.hist[0]
       /\ g.hist[1] = IF s1 + t11 > s0 + t01 THEN h.hist[1] ELSE h.hist[0]
       /\ g.hist[2] = IF s2 + t22 > s1 + t12 THEN h.hist[2] ELSE h.hist[1]
  BY <1>1, <1>8
<1>13. g \in HmmRec(c)
  <2>1. PICK sc, hi, oh, bs : sc = g.score /\ hi = g.hist /\ oh = g.outHist /\ bs = g.best
    OBVIOUS
  <2>2. g = [score |-> sc, hist |-> hi, out |-> g3, outHist |-> oh, best |-> bs, frame |-> h.frame]
    <3>2. PICK s : s = Sums(c, h, [j \in Inner(c) |-> v])
      OBVIOUS
    <3>3. PICK o, b : /\ o = (IF s[1] > WORST_SCORE THEN Out3(c, s) ELSE h.out)
                      /\ b = Max({IF s[1] > WORST_SCORE THEN Out3(c, s) ELSE WORST_SCORE}
                                 \cup {Score3(c, s)[j] : j \in Inner(c)})
      OBVIOUS
    <3>4. g = [score |-> Score3(c, s), hist |-> Hist3(c, h, s), out |-> o,
               outHist |-> OutHist3(c, h, s), best |-> b, frame |-> h.frame]
      BY <3>2, <3>3, Eval3Fields
    <3>5. QED BY <1>9, <2>1, <3>4
  <2>3. sc \in [Inner(c) -> Int]
    <3>1. sc = [j \in Inner(c) |-> sc[j]]
      BY <1>8, <2>1
    <3>2. \A j \in Inner(c) : sc[j] \in Int
      BY <1>1, <1>9, <1>11, <2>1
    <3>3. QED BY <3>1, <3>2
  <2>4. hi \in [Inner(c) -> Int]
    <3>1. hi = [j \in Inner(c) |-> hi[j]]
      BY <1>8, <2>1
    <3>2. \A j \in Inner(c) : hi[j] \in Int
      BY <1>1, <1>2, <1>12, <2>1
    <3>3. QED BY <3>1, <3>2
  <2>5. oh \in Int /\ bs \in Int
    BY <1>1, <1>2, <1>8, <2>1
  <2>6. PICK fr \in Int : fr = h.frame
    BY <1>2
  <2>7. g = [score |-> sc, hist |-> hi, out |-> g3, outHist |-> oh, best |-> bs, frame |-> fr]
    BY <2>2, <2>6
  <2>8. [score |-> sc, hist |-> hi, out |-> g3, outHist |-> oh, best |-> bs, frame |-> fr] \in HmmRec(c)
    BY <1>11, <2>3, <2>4, <2>5, MakeHmm
  <2>9. QED BY <2>7, <2>8
<1>14. /\ Score(c, g, 0) = g0 /\ Score(c, g, 1) = g1 /\ Score(c, g, 2) = g2 /\ Score(c, g, 3) = g3
       /\ Score(c, h, 0) = h0 /\ Score(c, h, 1) = h1 /\ Score(c, h, 2) = h2 /\ Score(c, h, 3) = h.out
  BY <1>3, <1>9 DEF Score
<1>15. /\ \A j \in {0, 1, 2} : Hist(c, g, j) = g.hist[j] /\ Hist(c, h, j) = h.hist[j]
       /\ Hist(c, g, 3) = g.outHist /\ Hist(c, h, 3) = h.outHist
  BY DEF Hist
<1>16. Follows(c, h, g, 0, 0)
  <2>1. h0 <= WORST_SCORE => g0 <= WORST_SCORE
    BY <1>1, <1>3, <1>5, <1>7, <1>10 DEF Clipped
  <2>2. QED BY <1>12, <1>14, <1>15, <2>1 DEF Follows
<1>17. Follows(c, h, g, 1, 1) \/ Follows(c, h, g, 1, 0)
  <2>1. CASE s1 + t11 > s0 + t01
    <3>1. h1 <= WORST_SCORE => g1 <= WORST_SCORE
      BY <1>1, <1>3, <1>5, <1>7, <1>10, <2>1 DEF Clipped
    <3>2. Follows(c, h, g, 1, 1)
      BY <1>12, <1>14, <1>15, <2>1, <3>1 DEF Follows
    <3>3. QED BY <3>2
  <2>2. CASE ~(s1 + t11 > s0 + t01)
    <3>1. h0 <= WORST_SCORE => g1 <= WORST_SCORE
      BY <1>1, <1>3, <1>5, <1>7, <1>10, <2>2 DEF Clipped
    <3>2. Follows(c, h, g, 1, 0)
      BY <1>12, <1>14, <1>15, <2>2, <3>1 DEF Follows
    <3>3. QED BY <3>2
  <2>3. QED BY <2>1, <2>2
<1>18. Follows(c, h, g, 2, 2) \/ Follows(c, h, g, 2, 1)
  <2>1. CASE s2 + t22 > s1 + t12
    <3>1. h2 <= WORST_SCORE => g2 <= WORST_SCORE
      BY <1>1, <1>3, <1>5, <1>7, <1>10, <2>1 DEF Clipped
    <3>2. Follows(c, h, g, 2, 2)
      BY <1>12, <1>14, <1>15, <2>1, <3>1 DEF Follows
    <3>3. QED BY <3>2
  <2>2. CASE ~(s2 + t22 > s1 + t12)
    <3>1. h1 <= WORST_SCORE => g2 <= WORST_SCORE
      BY <1>1, <1>3, <1>5, <1>7, <1>10, <2>2 DEF Clipped
    <3>2. Follows(c, h, g, 2, 1)
      BY <1>12, <1>14, <1>15, <2>2, <3>1 DEF Follows
    <3>3. QED BY <3>2
  <2>3. QED BY <2>1, <2>2
<1>19. Follows(c, h, g, 3, 3) \/ Follows(c, h, g, 3, 2)
  <2>1. CASE s1 > WORST_SCORE
    <3>1. h2 <= WORST_SCORE => g3 <= WORST_SCORE
      BY <1>1, <1>3, <1>5, <1>7, <1>10, <2>1 DEF Clipped
    <3>2. g.outHist = h.hist[2]
      BY <1>8, <2>1
    <3>3. Follows(c, h, g, 3, 2)
      BY <1>14, <1>15, <3>1, <3>2 DEF Follows
    <3>4. QED BY <3>3
  <2>2. CASE ~(s1 > WORST_SCORE)
    <3>1. g3 = h.out /\ g.outHist = h.outHist
      BY <1>8, <1>9, <2>2
    <3>2. Follows(c, h, g, 3, 3)
      BY <1>14, <1>15, <3>1 DEF Follows
    <3>3. QED BY <3>2
  <2>3. QED BY <2>1, <2>2
<1>20. Evolves(c, h, g)
  <2>1. \A j \in {0, 1, 2, 3} : \E i \in {0, 1, 2, 3} : Follows(c, h, g, j, i)
    BY <1>16, <1>17, <1>18, <1>19
  <2>2. QED BY <1>1, <1>8, <1>13, <2>1 DEF Evolves
<1>21. Floor(c, g)
  <2>1. h.out >= WORST_SCORE
    BY <1>1, <1>14 DEF Floor
  <2>2. g0 >= WORST_SCORE /\ g1 >= WORST_SCORE /\ g2 >= WORST_SCORE /\ g3 >= WORST_SCORE
    BY <1>1, <1>2, <1>10, <1>11, <2>1 DEF Clipped
  <2>3. QED BY <1>1, <1>14, <2>2 DEF Floor
<1>22. Descends(c, h, g, v, Loss)
  <2>1. g0 >= h0 - Loss
    BY <1>1, <1>6, <1>7, <1>10 DEF Clipped
  <2>2. g1 >= h0 - Loss
    BY <1>1, <1>6, <1>7, <1>10 DEF Clipped
  <2>3. g2 >= h1 - Loss
    BY <1>1, <1>6, <1>7, <1>10 DEF Clipped
  <2>4. h.score[1] + v > WORST_SCORE => g3 >= h2 - Loss
    BY <1>1, <1>3, <1>6, <1>7, <1>10 DEF Clipped
  <2>5. ASSUME NEW j \in 1 .. c.n, j = 3 /\ c.n = 3 => h.score[1] + v > WORST_SCORE
        PROVE Score(c, g, j) >= Score(c, h, j - 1) - Loss
    <3>1. j = 1 \/ j = 2 \/ j = 3
      OBVIOUS
    <3>2. CASE j = 1
      BY <1>14, <2>2, <3>2
    <3>3. CASE j = 2
      BY <1>14, <2>3, <3>3
    <3>4. CASE j = 3
      BY <1>14, <2>4, <2>5, <3>4
    <3>5. QED BY <3>1, <3>2, <3>3, <3>4
  <2>6. QED BY <1>14, <2>1, <2>5 DEF Descends
<1>23. QED BY <1>20, <1>21, <1>22

\* An HMM without skips, evaluated.
LEMMA VitEvalEvolves ==
  ASSUME NEW c, TopologyOK(c), c.n # 5, Bakis(c), NEW h \in HmmRec(c), Floor(c, h),
         NEW v \in Int, v <= 0, NEW Loss \in Nat, Costs(c, v, Loss), NoScore < WORST_SCORE - Loss,
         NEW g, g = VitEval(c, h, [j \in Inner(c) |-> v])
  PROVE  Evolves(c, h, g) /\ Floor(c, g) /\ Descends(c, h, g, v, Loss)
<1>1. CASE c.n = 3
  <2>1. g = Eval3(c, h, [j \in Inner(c) |-> v])
    BY <1>1 DEF VitEval
  <2>2. QED BY <1>1, <2>1, Eval3Evolves
<1>2. CASE c.n # 3
  <2>1. g = EvalAny(c, h, [j \in Inner(c) |-> v])
    BY <1>2 DEF VitEval
  <2>2. Evolves(c, h, g) /\ Descends(c, h, g, v, Loss)
    BY <2>1, EvalAnyEvolves
  <2>3. QED BY <1>2, <2>2 DEF Floor
<1>3. QED BY <1>1, <1>2

\* ---- the chain of HMMs of a phrase ----

Since(a, b) == a # None => a >= b

\* Histories are frames before fr, and there is one where a score is no bad one.
HmmOK(c, h, fr) ==
  /\ h \in HmmRec(c) /\ Floor(c, h)
  /\ h.frame = None \/ h.frame > 0
  /\ ~Active(h) => h = Cleared(c)
  /\ \A j \in 0 .. c.n : /\ Hist(c, h, j) \in None .. fr - 1
                         /\ Hist(c, h, j) = None => Score(c, h, j) <= WORST_SCORE

\* The states of the HMMs of a chain are in the order in which a phrase goes through them.
Ordered(c, chain, m) ==
  \A i1, i2 \in 1 .. m : \A j1, j2 \in 0 .. c.n :
    i1 < i2 \/ (i1 = i2 /\ j1 < j2) => Since(Hist(c, chain[i1], j1), Hist(c, chain[i2], j2))
ChainOK(c, chain, m, fr) ==
  /\ chain = [i \in 1 .. m |-> chain[i]]
  /\ \A i \in 1 .. m : HmmOK(c, chain[i], fr)
  /\ Ordered(c, chain, m)

\* Whatever is in the chain began in frame x or later.
AllSince(c, chain, m, x) == \A i \in 1 .. m : \A j \in 0 .. c.n : Since(Hist(c, chain[i], j), x)

\* An HMM as it is after evaluation and pruning.
Moved(c, h, g) == g = Cleared(c) \/ g = h \/ (Active(h) /\ Evolves(c, h, g) /\ Floor(c, g))

LEMMA ClearedIs ==
  ASSUME NEW c, c.n \in Nat \ {0}, WORST_SCORE \in Int, NEW fr \in Nat
  PROVE  /\ HmmOK(c, Cleared(c), fr) /\ ~Active(Cleared(c))
         /\ \A j \in 0 .. c.n : Hist(c, Cleared(c), j) = None /\ Score(c, Cleared(c), j) = WORST_SCORE
<1>1. PICK h : h = Cleared(c)
  OBVIOUS
<1>2. PICK score \in [Inner(c) -> Int] : score = [j \in Inner(c) |-> WORST_SCORE]
  OBVIOUS
<1>0. None \in Int
  BY DEF None
<1>3. PICK hist \in [Inner(c) -> Int] : hist = [j \in Inner(c) |-> None]
  BY <1>0
<1>4. h = [score |-> score, hist |-> hist, out |-> WORST_SCORE, outHist |-> None, best |-> WORST_SCORE,
           frame |-> None]
  BY <1>1, <1>2, <1>3, Zenon DEF Cleared
<1>6. h \in HmmRec(c)
  BY <1>0, <1>4, MakeHmm
<1>7. /\ h.score = score /\ h.hist = hist /\ h.out = WORST_SCORE /\ h.outHist = None
      /\ h.frame = None
  BY <1>4, Zenon
<1>8. ASSUME NEW j \in 0 .. c.n PROVE Hist(c, h, j) = None /\ Score(c, h, j) = WORST_SCORE
  <2>1. j # c.n => j \in Inner(c)
    BY DEF Inner
  <2>2. QED BY <1>2, <1>3, <1>7, <2>1 DEF Hist, Score
<1>9. Floor(c, h)
  BY <1>8 DEF Floor
<1>10. ~Active(h)
  BY <1>7 DEF Active, None
<1>11. None \in None .. fr - 1
  BY DEF None
<1>12. HmmOK(c, h, fr)
  BY <1>1, <1>6, <1>7, <1>8, <1>9, <1>11 DEF HmmOK
<1>13. QED BY <1>1, <1>8, <1>10, <1>12

\* Each history after a move is one from the same state or the one before, or none.
LEMMA MovedHist ==
  ASSUME NEW c, c.n \in Nat \ {0}, WORST_SCORE \in Int, NEW fr \in Nat,
         NEW h, HmmOK(c, h, fr), NEW g, Moved(c, h, g), NEW j \in 0 .. c.n
  PROVE  \/ Hist(c, g, j) = None /\ Score(c, g, j) <= WORST_SCORE
         \/ \E i \in 0 .. c.n : /\ i = j \/ (j > 0 /\ i = j - 1)
                                /\ Hist(c, g, j) = Hist(c, h, i)
                                /\ Score(c, h, i) <= WORST_SCORE => Score(c, g, j) <= WORST_SCORE
<1>1. CASE g = Cleared(c)
  BY <1>1, ClearedIs
<1>2. CASE g = h
  BY <1>2
<1>3. CASE Evolves(c, h, g)
  BY <1>3, Zenon DEF Evolves, Follows
<1>4. QED BY <1>1, <1>2, <1>3 DEF Moved

LEMMA MovedOK ==
  ASSUME NEW c, c.n \in Nat \ {0}, WORST_SCORE \in Int, NEW fr \in Nat,
         NEW h, HmmOK(c, h, fr), NEW g, Moved(c, h, g)
  PROVE  HmmOK(c, g, fr)
<1>1. CASE g = Cleared(c)
  BY <1>1, ClearedIs
<1>2. CASE g = h
  BY <1>2
<1>3. CASE Active(h) /\ Evolves(c, h, g) /\ Floor(c, g)
  <2>1. g \in HmmRec(c) /\ Floor(c, g) /\ Active(g) /\ g.frame > 0
    BY <1>3 DEF Evolves, Active
  <2>2. ASSUME NEW j \in 0 .. c.n
        PROVE  /\ Hist(c, g, j) \in None .. fr - 1
               /\ Hist(c, g, j) = None => Score(c, g, j) <= WORST_SCORE
    <3>1. CASE Hist(c, g, j) = None /\ Score(c, g, j) <= WORST_SCORE
      BY <3>1 DEF None
    <3>2. CASE ~(Hist(c, g, j) = None /\ Score(c, g, j) <= WORST_SCORE)
      <4>1. PICK i \in 0 .. c.n : /\ Hist(c, g, j) = Hist(c, h, i)
                                  /\ Score(c, h, i) <= WORST_SCORE => Score(c, g, j) <= WORST_SCORE
        BY <3>2, MovedHist
      <4>2. QED BY <4>1 DEF HmmOK
    <3>3. QED BY <3>1, <3>2
  <2>3. QED BY <2>1, <2>2 DEF HmmOK
<1>4. QED BY <1>1, <1>2, <1>3 DEF Moved

LEMMA ChainMoved ==
  ASSUME NEW c, c.n \in Nat \ {0}, WORST_SCORE \in Int, NEW fr \in Nat, NEW m \in Nat,
         NEW chain, ChainOK(c, chain, m, fr), NEW new, new = [i \in 1 .. m |-> new[i]],
         \A i \in 1 .. m : Moved(c, chain[i], new[i])
  PROVE  /\ ChainOK(c, new, m, fr)
         /\ \A x \in Int : AllSince(c, chain, m, x) => AllSince(c, new, m, x)
<1>1. \A i \in 1 .. m : HmmOK(c, chain[i], fr) /\ HmmOK(c, new[i], fr)
  BY MovedOK DEF ChainOK
<1>2. ASSUME NEW i1 \in 1 .. m, NEW i2 \in 1 .. m, NEW j1 \in 0 .. c.n, NEW j2 \in 0 .. c.n,
             i1 < i2 \/ (i1 = i2 /\ j1 < j2)
      PROVE  Since(Hist(c, new[i1], j1), Hist(c, new[i2], j2))
  <2>1. PICK a \in Int : a = Hist(c, new[i1], j1) /\ a >= None
    BY <1>1 DEF HmmOK, None
  <2>2. PICK b \in Int : b = Hist(c, new[i2], j2) /\ b >= None
    BY <1>1 DEF HmmOK, None
  <2>3. CASE a = None \/ b = None
    BY <2>1, <2>2, <2>3 DEF Since
  <2>4. CASE a # None /\ b # None
    <3>1. PICK k1 \in 0 .. c.n : (k1 = j1 \/ (j1 > 0 /\ k1 = j1 - 1)) /\ a = Hist(c, chain[i1], k1)
      BY <1>1, <2>1, <2>4, MovedHist
    <3>2. PICK k2 \in 0 .. c.n : (k2 = j2 \/ (j2 > 0 /\ k2 = j2 - 1)) /\ b = Hist(c, chain[i2], k2)
      BY <1>1, <2>2, <2>4, MovedHist
    <3>3. CASE i1 < i2 \/ k1 < k2
      <4>1. i1 < i2 \/ (i1 = i2 /\ k1 < k2)
        BY <1>2, <3>3
      <4>2. Since(Hist(c, chain[i1], k1), Hist(c, chain[i2], k2))
        BY <4>1 DEF ChainOK, Ordered
      <4>3. QED BY <2>1, <2>2, <3>1, <3>2, <4>2
    <3>4. CASE ~(i1 < i2 \/ k1 < k2)
      <4>1. i1 = i2 /\ k1 = k2
        BY <1>2, <3>1, <3>2, <3>4
      <4>2. a = b
        BY <3>1, <3>2, <4>1
      <4>3. QED BY <2>1, <2>2, <4>2 DEF Since
    <3>5. QED BY <3>3, <3>4
  <2>5. QED BY <2>3, <2>4
<1>3. ChainOK(c, new, m, fr)
  BY <1>1, <1>2 DEF ChainOK, Ordered
<1>4. ASSUME NEW x \in Int, AllSince(c, chain, m, x), NEW i \in 1 .. m, NEW j \in 0 .. c.n
      PROVE  Since(Hist(c, new[i], j), x)
  <2>1. CASE Hist(c, new[i], j) = None
    BY <2>1 DEF Since
  <2>2. CASE Hist(c, new[i], j) # None
    <3>1. PICK k \in 0 .. c.n : Hist(c, new[i], j) = Hist(c, chain[i], k)
      BY <1>1, <2>2, MovedHist
    <3>2. QED BY <1>4, <3>1 DEF AllSince
  <2>3. QED BY <2>1, <2>2
<1>5. QED BY <1>3, <1>4 DEF AllSince

LEMMA EnteringIs ==
  ASSUME NEW c, c.n \in Nat \ {0}, WORST_SCORE \in Int, NEW fr \in Nat, NEW h, HmmOK(c, h, fr),
         NEW s \in Int, NEW x \in None .. fr, NEW nf \in Nat \ {0},
         x = None => s <= WORST_SCORE, c.n = 3 => s >= WORST_SCORE,
         NEW g, g = Entering(h, s, x, nf)
  PROVE  /\ HmmOK(c, g, fr + 1) /\ Hist(c, g, 0) = x /\ Score(c, g, 0) = s
         /\ \A j \in 1 .. c.n : Hist(c, g, j) = Hist(c, h, j) /\ Score(c, g, j) = Score(c, h, j)
<1>1. h \in HmmRec(c) /\ 0 \in Inner(c) /\ c.n # 0 /\ None \in Int /\ x \in Int
  BY DEF HmmOK, Inner, None
<1>2. PICK score \in [Inner(c) -> Int] : score = [h.score EXCEPT ![0] = s]
  BY <1>1, HmmFields
<1>3. PICK hist \in [Inner(c) -> Int] : hist = [h.hist EXCEPT ![0] = x]
  BY <1>1, HmmFields
<1>4. g = [score |-> score, hist |-> hist, out |-> h.out, outHist |-> h.outHist, best |-> h.best,
           frame |-> nf]
  BY <1>1, <1>2, <1>3 DEF Entering, HmmRec
<1>5. nf \in Int
  OBVIOUS
<1>6. g \in HmmRec(c)
  BY <1>1, <1>4, <1>5, HmmFields, MakeHmm
<1>7. g.score = score /\ g.hist = hist /\ g.out = h.out /\ g.outHist = h.outHist /\ g.frame = nf
  BY <1>4
<1>8. h.score \in [Inner(c) -> Int] /\ h.hist \in [Inner(c) -> Int]
  BY <1>1, HmmFields
<1>9. Hist(c, g, 0) = x /\ Score(c, g, 0) = s
  BY <1>1, <1>2, <1>3, <1>7, <1>8 DEF Hist, Score
<1>10. ASSUME NEW j \in 1 .. c.n PROVE Hist(c, g, j) = Hist(c, h, j) /\ Score(c, g, j) = Score(c, h, j)
  <2>1. j # 0 /\ (j # c.n => j \in Inner(c))
    BY DEF Inner
  <2>2. QED BY <1>2, <1>3, <1>7, <1>8, <2>1 DEF Hist, Score
<1>11. ASSUME NEW j \in 0 .. c.n
       PROVE  /\ Hist(c, g, j) \in None .. fr
              /\ Hist(c, g, j) = None => Score(c, g, j) <= WORST_SCORE
  <2>1. CASE j = 0
    BY <1>9, <2>1
  <2>2. CASE j # 0
    <3>1. j \in 1 .. c.n
      BY <2>2
    <3>2. QED BY <1>1, <1>10, <3>1 DEF HmmOK
  <2>3. QED BY <2>1, <2>2
<1>12. Floor(c, g)
  <2>1. ASSUME c.n = 3, NEW j \in 0 .. c.n PROVE Score(c, g, j) >= WORST_SCORE
    <3>1. CASE j = 0
      BY <1>9, <2>1, <3>1
    <3>2. CASE j # 0
      <4>1. j \in 1 .. c.n /\ Score(c, h, j) >= WORST_SCORE
        BY <2>1, <3>2 DEF HmmOK, Floor
      <4>2. QED BY <1>10, <4>1
    <3>3. QED BY <3>1, <3>2
  <2>2. QED BY <2>1 DEF Floor
<1>13. Active(g) /\ g.frame > 0
  BY <1>7 DEF Active
<1>14. (fr + 1) - 1 = fr
  OBVIOUS
<1>15. HmmOK(c, g, fr + 1)
  BY <1>6, <1>11, <1>12, <1>13, <1>14 DEF HmmOK
<1>16. QED BY <1>9, <1>10, <1>15

LEMMA LaterOK ==
  ASSUME NEW c, NEW fr \in Nat, NEW h, HmmOK(c, h, fr)
  PROVE  HmmOK(c, h, fr + 1)
<1>1. \A x \in None .. fr - 1 : x \in None .. (fr + 1) - 1
  BY DEF None
<1>2. QED BY <1>1 DEF HmmOK

\* What an HMM of a chain is after the entries, and where its histories are from.
Came(c, chain, new, i, fr) ==
  /\ HmmOK(c, new, fr + 1)
  /\ \A j \in 1 .. c.n : Hist(c, new, j) = Hist(c, chain[i], j)
  /\ \/ Hist(c, new, 0) = Hist(c, chain[i], 0)
     \/ i = 1 /\ Hist(c, new, 0) = fr
     \/ i > 1 /\ Hist(c, new, 0) = Hist(c, chain[i - 1], c.n)

LEMMA EnteredCame ==
  ASSUME case.n \in Nat \ {0}, WORST_SCORE \in Int, frame \in Nat, NEW m \in Nat,
         NEW chain, ChainOK(case, chain, m, frame), NEW out \in Int, out > WORST_SCORE,
         NEW new, new = PhraseEntered(chain, out), NEW i \in 1 .. m
  PROVE  Came(case, chain, new[i], i, frame)
<1>1. chain = [l \in 1 .. m |-> chain[l]] /\ \A l \in 1 .. m : HmmOK(case, chain[l], frame)
  BY DEF ChainOK
<1>2. DOMAIN chain = 1 .. m
  BY <1>1
<1>3. new[i] = IF i = 1 THEN IF out > chain[i].score[0] THEN Entering(chain[i], out, frame, frame + 1) ELSE chain[i]
               ELSE IF Active(chain[i - 1]) /\ (~Active(chain[i]) \/ chain[i - 1].out > chain[i].score[0])
                    THEN Entering(chain[i], chain[i - 1].out, chain[i - 1].outHist, frame + 1) ELSE chain[i]
  BY <1>2, Zenon DEF PhraseEntered
<1>4. frame + 1 \in Nat \ {0} /\ frame \in None .. frame /\ frame # None /\ out >= WORST_SCORE
  BY DEF None
<1>5. CASE new[i] = chain[i]
  BY <1>1, <1>5, LaterOK DEF Came
<1>6. CASE i = 1 /\ new[i] = Entering(chain[i], out, frame, frame + 1)
  <2>1. HmmOK(case, chain[i], frame)
    BY <1>1
  <2> DEFINE g == Entering(chain[i], out, frame, frame + 1)
  <2>2. /\ HmmOK(case, g, frame + 1) /\ Hist(case, g, 0) = frame
        /\ \A j \in 1 .. case.n : Hist(case, g, j) = Hist(case, chain[i], j)
    BY <1>4, <2>1, EnteringIs
  <2>3. QED BY <1>6, <2>2 DEF Came
<1>7. CASE i > 1 /\ new[i] = Entering(chain[i], chain[i - 1].out, chain[i - 1].outHist, frame + 1)
  <2>1. i - 1 \in 1 .. m /\ HmmOK(case, chain[i], frame) /\ case.n \in 0 .. case.n
    BY <1>1, <1>7
  <2>2. HmmOK(case, chain[i - 1], frame)
    BY <1>1, <2>1
  <2>3. Hist(case, chain[i - 1], case.n) = chain[i - 1].outHist /\ Score(case, chain[i - 1], case.n) = chain[i - 1].out
    BY DEF Hist, Score
  <2>4. PICK s \in Int : s = chain[i - 1].out
    BY <2>2, HmmFields DEF HmmOK
  <2>5. PICK x \in None .. frame - 1 : x = chain[i - 1].outHist
    BY <2>1, <2>2, <2>3 DEF HmmOK
  <2>6. x \in None .. frame
    BY <2>5 DEF None
  <2>7. (x = None => s <= WORST_SCORE) /\ (case.n = 3 => s >= WORST_SCORE)
    BY <2>1, <2>2, <2>3, <2>4, <2>5 DEF HmmOK, Floor
  <2> DEFINE g == Entering(chain[i], s, x, frame + 1)
  <2>8. /\ HmmOK(case, g, frame + 1) /\ Hist(case, g, 0) = x
        /\ \A j \in 1 .. case.n : Hist(case, g, j) = Hist(case, chain[i], j)
    <3>1. PICK h, e : h = chain[i] /\ e = Entering(h, s, x, frame + 1)
      OBVIOUS
    <3>2. HmmOK(case, h, frame) /\ frame + 1 \in Nat \ {0}
      BY <2>1, <3>1
    <3>3. /\ HmmOK(case, e, frame + 1) /\ Hist(case, e, 0) = x
          /\ \A j \in 1 .. case.n : Hist(case, e, j) = Hist(case, h, j)
      BY <2>6, <2>7, <3>1, <3>2, EnteringIs
    <3>4. QED BY <3>1, <3>3
  <2>9. new[i] = g
    BY <1>7, <2>4, <2>5
  <2>10. QED BY <1>7, <2>3, <2>5, <2>8, <2>9 DEF Came
<1>8. QED BY <1>3, <1>5, <1>6, <1>7

LEMMA ChainEntered ==
  ASSUME case.n \in Nat \ {0}, WORST_SCORE \in Int, frame \in Nat, NEW m \in Nat,
         NEW chain, ChainOK(case, chain, m, frame), NEW out \in Int, out > WORST_SCORE,
         NEW new, new = PhraseEntered(chain, out)
  PROVE  /\ ChainOK(case, new, m, frame + 1)
         /\ \A x \in Int : x <= frame /\ AllSince(case, chain, m, x) => AllSince(case, new, m, x)
<1>1. \A i \in 1 .. m : Came(case, chain, new[i], i, frame)
  BY EnteredCame
<1>2. DOMAIN chain = 1 .. m /\ new = [i \in 1 .. m |-> new[i]]
  <2>1. DOMAIN chain = 1 .. m
    BY DEF ChainOK
  <2>2. QED BY <2>1 DEF PhraseEntered
<1>3. PICK n \in Nat : n = case.n /\ n > 0
  OBVIOUS
<1> DEFINE H(i, j) == Hist(case, chain[i], j)
<1>4. \A i \in 1 .. m : \A j \in 0 .. n : H(i, j) \in None .. frame - 1
  BY <1>3 DEF ChainOK, HmmOK
<1>5. \A i1, i2 \in 1 .. m : \A j1, j2 \in 0 .. n :
        i1 < i2 \/ (i1 = i2 /\ j1 < j2) => Since(H(i1, j1), H(i2, j2))
  BY <1>3 DEF ChainOK, Ordered
<1> DEFINE N(i, j) == Hist(case, new[i], j)
<1>6. ASSUME NEW i \in 1 .. m, NEW j \in 0 .. n
      PROVE  \/ N(i, j) = H(i, j)
             \/ j = 0 /\ i = 1 /\ N(i, j) = frame
             \/ j = 0 /\ i > 1 /\ N(i, j) = H(i - 1, n)
  <2>1. j # 0 => j \in 1 .. n
    BY <1>3
  <2>2. QED BY <1>1, <1>3, <2>1 DEF Came
<1> HIDE DEF H, N
<1>7. ASSUME NEW i1 \in 1 .. m, NEW i2 \in 1 .. m, NEW j1 \in 0 .. n, NEW j2 \in 0 .. n,
             i1 < i2 \/ (i1 = i2 /\ j1 < j2)
      PROVE  Since(N(i1, j1), N(i2, j2))
  <2>1. CASE j1 = 0 /\ i1 = 1 /\ N(i1, j1) = frame
    <3>1. \/ N(i2, j2) = H(i2, j2)
          \/ j2 = 0 /\ i2 > 1 /\ N(i2, j2) = H(i2 - 1, n)
      BY <1>6, <1>7, <2>1
    <3>2. i2 > 1 => i2 - 1 \in 1 .. m
      OBVIOUS
    <3>3. n \in 0 .. n
      BY <1>3
    <3>4. N(i2, j2) \in None .. frame - 1
      BY <1>4, <3>1, <3>2, <3>3
    <3>5. QED BY <2>1, <3>4 DEF Since, None
  <2>2. CASE ~(j1 = 0 /\ i1 = 1 /\ N(i1, j1) = frame)
    <3>1. PICK k1 \in 1 .. m, l1 \in 0 .. n : /\ N(i1, j1) = H(k1, l1)
                                              /\ (k1 = i1 /\ l1 = j1) \/ (k1 = i1 - 1 /\ l1 = n)
      <4>1. CASE N(i1, j1) = H(i1, j1)
        BY <4>1
      <4>2. CASE i1 > 1 /\ N(i1, j1) = H(i1 - 1, n)
        <5>1. i1 - 1 \in 1 .. m /\ n \in 0 .. n
          BY <1>3, <4>2
        <5>2. QED BY <4>2, <5>1
      <4>3. QED BY <1>6, <2>2, <4>1, <4>2
    <3>2. PICK k2 \in 1 .. m, l2 \in 0 .. n : /\ N(i2, j2) = H(k2, l2)
                                              /\ (k2 = i2 /\ l2 = j2) \/ (k2 = i2 - 1 /\ l2 = n /\ i1 < i2)
      <4>1. CASE N(i2, j2) = H(i2, j2)
        BY <4>1
      <4>2. CASE i2 > 1 /\ j2 = 0 /\ N(i2, j2) = H(i2 - 1, n)
        <5>1. i2 - 1 \in 1 .. m /\ n \in 0 .. n /\ i1 < i2
          BY <1>3, <1>7, <4>2
        <5>2. QED BY <4>2, <5>1
      <4>3. ~(j2 = 0 /\ i2 = 1)
        BY <1>7
      <4>4. QED BY <1>6, <4>1, <4>2, <4>3
    <3>3. k1 < k2 \/ (k1 = k2 /\ l1 <= l2)
      BY <1>3, <1>7, <3>1, <3>2
    <3>4. CASE k1 = k2 /\ l1 = l2
      <4>1. PICK a \in Int : a = H(k1, l1)
        BY <1>4
      <4>2. N(i1, j1) = a /\ N(i2, j2) = a
        BY <3>1, <3>2, <3>4, <4>1
      <4>3. QED BY <4>1, <4>2 DEF Since
    <3>5. CASE k1 < k2 \/ (k1 = k2 /\ l1 < l2)
      BY <1>5, <3>1, <3>2, <3>5
    <3>6. QED BY <3>3, <3>4, <3>5
  <2>3. QED BY <2>1, <2>2
<1>8. ChainOK(case, new, m, frame + 1)
  BY <1>1, <1>2, <1>3, <1>7 DEF ChainOK, Came, Ordered, N
<1>9. ASSUME NEW x \in Int, x <= frame, AllSince(case, chain, m, x)
      PROVE  AllSince(case, new, m, x)
  <2>1. \A i \in 1 .. m : \A j \in 0 .. n : Since(H(i, j), x)
    BY <1>3, <1>9 DEF AllSince, H
  <2>2. ASSUME NEW i \in 1 .. m, NEW j \in 0 .. n PROVE Since(N(i, j), x)
    <3>1. CASE N(i, j) = H(i, j)
      BY <2>1, <3>1
    <3>2. CASE N(i, j) = frame
      BY <1>9, <3>2 DEF Since
    <3>3. CASE i > 1 /\ N(i, j) = H(i - 1, n)
      <4>1. i - 1 \in 1 .. m /\ n \in 0 .. n
        BY <1>3, <3>3
      <4>2. QED BY <2>1, <3>3, <4>1
    <3>4. QED BY <1>6, <3>1, <3>2, <3>3
  <2>3. QED BY <1>3, <2>2 DEF AllSince, N
<1>10. QED BY <1>8, <1>9

\* ---- the list of detections ----

Spots == [keyphrase : Nat, sf : Nat, ef : Nat, prob : Int]

\* Detections up to frame fr, those of a phrase one before the other.
Timed(list, fr) == \A i \in 1 .. Len(list) : list[i].sf < list[i].ef /\ list[i].ef <= fr
InOrder(list) ==
  \A i, j \in 1 .. Len(list) :
    i < j /\ list[i].keyphrase = list[j].keyphrase => list[j].ef <= list[i].sf

LEMMA SpotFields ==
  \A d \in Spots : d.keyphrase \in Nat /\ d.sf \in Nat /\ d.ef \in Nat /\ d.prob \in Int
BY DEF Spots

\* The places in which a new detection may be: before all, or for the first it competes with.
AddedFirst(list, d, new) == (\A i \in 1 .. Len(list) : ~Competes(list[i], d)) /\ new = <<d>> \o list
AddedFor(list, d, new, r) ==
  /\ r \in 1 .. Len(list) /\ Competes(list[r], d)
  /\ \A i \in 1 .. r - 1 : ~Competes(list[i], d)
  /\ new = list \/ new = [list EXCEPT ![r] = d]

LEMMA AddedWhere ==
  ASSUME NEW list \in Seq(Spots), NEW d \in Spots, NEW new, new = Added(list, d)
  PROVE  AddedFirst(list, d, new) \/ \E r \in 1 .. Len(list) : AddedFor(list, d, new, r)
<1>1. Len(list) \in Nat /\ DOMAIN list = 1 .. Len(list)
  BY LenProperties
<1>2. PICK rivals : rivals = {i \in 1 .. Len(list) : Competes(list[i], d)}
  OBVIOUS
<1>3. new = IF rivals = {} THEN <<d>> \o list
            ELSE IF list[Min(rivals)].prob < d.prob THEN [list EXCEPT ![Min(rivals)] = d] ELSE list
  BY <1>1, <1>2, Zenon DEF Added
<1>4. CASE rivals = {}
  BY <1>2, <1>3, <1>4 DEF AddedFirst
<1>5. CASE rivals # {}
  <2>1. rivals \in SUBSET Nat
    BY <1>1, <1>2
  <2>2. \E r \in rivals : \A y \in rivals : r <= y
    BY <1>5, <2>1, Smallest
  <2>3. Min(rivals) \in rivals /\ \A y \in rivals : Min(rivals) <= y
    BY <2>2, Zenon DEF Min
  <2>4. PICK r : r = Min(rivals)
    OBVIOUS
  <2>5. r \in 1 .. Len(list) /\ Competes(list[r], d)
    BY <1>2, <2>3, <2>4
  <2>6. ASSUME NEW i \in 1 .. r - 1 PROVE ~Competes(list[i], d)
    <3>1. i \in 1 .. Len(list) /\ ~(r <= i)
      BY <1>1, <2>5
    <3>2. i \notin rivals
      BY <2>3, <2>4, <3>1
    <3>3. QED BY <1>2, <3>1, <3>2
  <2>7. new = list \/ new = [list EXCEPT ![r] = d]
    BY <1>3, <1>5, <2>4
  <2>8. QED BY <2>5, <2>6, <2>7 DEF AddedFor
<1>6. QED BY <1>4, <1>5

LEMMA FirstIs ==
  ASSUME NEW list \in Seq(Spots), NEW d \in Spots, NEW new, new = <<d>> \o list
  PROVE  /\ new \in Seq(Spots) /\ Len(new) = Len(list) + 1 /\ new[1] = d
         /\ \A i \in 1 .. Len(list) : new[i + 1] = list[i]
         /\ \A i \in 1 .. Len(new) : i = 1 \/ (i - 1 \in 1 .. Len(list) /\ new[i] = list[i - 1])
<1>1. <<d>> \in Seq(Spots) /\ Len(<<d>>) = 1 /\ <<d>>[1] = d
  OBVIOUS
<1>2. Len(list) \in Nat
  BY LenProperties
<1>3. /\ new \in Seq(Spots) /\ Len(new) = 1 + Len(list)
      /\ \A i \in 1 .. 1 + Len(list) : new[i] = IF i <= 1 THEN d ELSE list[i - 1]
  BY <1>1, ConcatProperties
<1>4. QED BY <1>2, <1>3

\* Nothing is taken off the list but for the new one, which it competes with.
Keeps(list, d, new) ==
  /\ new \in Seq(Spots)
  /\ Range(new) \subseteq Range(list) \cup {d}
  /\ \A e \in Range(list) : e \in Range(new) \/ (Competes(e, d) /\ d \in Range(new))

LEMMA AddedKeeps ==
  ASSUME NEW list \in Seq(Spots), NEW d \in Spots, NEW new, new = Added(list, d)
  PROVE  Keeps(list, d, new)
<1>1. Len(list) \in Nat /\ DOMAIN list = 1 .. Len(list)
  BY LenProperties
<1>2. CASE AddedFirst(list, d, new)
  <2>1. /\ new \in Seq(Spots) /\ Len(new) = Len(list) + 1 /\ new[1] = d
        /\ \A i \in 1 .. Len(list) : new[i + 1] = list[i]
        /\ \A i \in 1 .. Len(new) : i = 1 \/ (i - 1 \in 1 .. Len(list) /\ new[i] = list[i - 1])
    BY <1>2, FirstIs DEF AddedFirst
  <2>2. DOMAIN new = 1 .. Len(new)
    BY <2>1, LenProperties
  <2>3. ASSUME NEW i \in 1 .. Len(list) PROVE list[i] \in Range(new)
    <3>1. i + 1 \in DOMAIN new
      BY <1>1, <2>1, <2>2
    <3>2. QED BY <2>1, <3>1 DEF Range
  <2>4. ASSUME NEW i \in 1 .. Len(new) PROVE new[i] \in Range(list) \cup {d}
    BY <1>1, <2>1 DEF Range
  <2>5. QED BY <1>1, <2>1, <2>2, <2>3, <2>4 DEF Keeps, Range
<1>3. ASSUME NEW r \in 1 .. Len(list), AddedFor(list, d, new, r) PROVE Keeps(list, d, new)
  <2>1. CASE new = list
    BY <2>1 DEF Keeps
  <2>2. CASE new = [list EXCEPT ![r] = d]
    <3>1. /\ new \in Seq(Spots) /\ Len(new) = Len(list)
          /\ \A j \in 1 .. Len(list) : new[j] = IF j = r THEN d ELSE list[j]
      BY <2>2, ExceptSeq
    <3>2. DOMAIN new = 1 .. Len(list)
      BY <3>1, LenProperties
    <3>3. d \in Range(new) /\ Competes(list[r], d)
      BY <1>3, <3>1, <3>2 DEF Range, AddedFor
    <3>4. ASSUME NEW j \in 1 .. Len(list), j # r PROVE list[j] \in Range(new)
      BY <3>1, <3>2, <3>4 DEF Range
    <3>5. ASSUME NEW j \in 1 .. Len(list) PROVE new[j] \in Range(list) \cup {d}
      BY <1>1, <3>1 DEF Range
    <3>6. QED BY <1>1, <3>1, <3>2, <3>3, <3>4, <3>5 DEF Keeps, Range
  <2>3. QED BY <1>3, <2>1, <2>2 DEF AddedFor
<1>4. QED BY <1>2, <1>3, AddedWhere

\* A detection that ends now and begins no earlier than the others of its phrase overlaps
\* none but the newest of them.
LEMMA AddedInOrder ==
  ASSUME NEW list \in Seq(Spots), NEW d \in Spots, NEW new, new = Added(list, d),
         Timed(list, d.ef), d.sf < d.ef, InOrder(list),
         \A i \in 1 .. Len(list) : list[i].keyphrase = d.keyphrase => list[i].sf <= d.sf
  PROVE  Timed(new, d.ef) /\ InOrder(new)
<1>1. Len(list) \in Nat /\ DOMAIN list = 1 .. Len(list) /\ \A i \in 1 .. Len(list) : list[i] \in Spots
  BY LenProperties
<1>2. PICK key \in Nat, from \in Nat, to \in Nat : key = d.keyphrase /\ from = d.sf /\ to = d.ef
  BY SpotFields
<1>3. \A i \in 1 .. Len(list) :
        /\ list[i].keyphrase \in Nat /\ list[i].sf \in Nat /\ list[i].ef \in Nat
        /\ list[i].sf < list[i].ef /\ list[i].ef <= to
        /\ list[i].keyphrase = key => list[i].sf <= from
        /\ Competes(list[i], d) <=> list[i].keyphrase = key /\ list[i].sf < to /\ list[i].ef > from
  BY <1>1, <1>2, SpotFields DEF Timed, Competes
<1>4. \A i, j \in 1 .. Len(list) :
        i < j /\ list[i].keyphrase = list[j].keyphrase => list[j].ef <= list[i].sf
  BY DEF InOrder
<1>5. ASSUME NEW i \in 1 .. Len(list), list[i].keyphrase = key, ~Competes(list[i], d)
      PROVE  list[i].ef <= from
  BY <1>2, <1>3, <1>5
<1>6. CASE AddedFirst(list, d, new)
  <2>1. /\ Len(new) = Len(list) + 1 /\ new[1] = d
        /\ \A i \in 1 .. Len(new) : i = 1 \/ (i - 1 \in 1 .. Len(list) /\ new[i] = list[i - 1])
    BY <1>6, FirstIs DEF AddedFirst
  <2>2. ASSUME NEW i \in 1 .. Len(new) PROVE new[i].sf < new[i].ef /\ new[i].ef <= d.ef
    <3>1. CASE i = 1
      BY <1>2, <2>1, <3>1
    <3>2. CASE i # 1
      <4>1. PICK l \in 1 .. Len(list) : new[i] = list[l]
        BY <2>1, <3>2
      <4>2. QED BY <1>2, <1>3, <4>1
    <3>3. QED BY <3>1, <3>2
  <2>3. ASSUME NEW i \in 1 .. Len(new), NEW j \in 1 .. Len(new), i < j,
               new[i].keyphrase = new[j].keyphrase
        PROVE  new[j].ef <= new[i].sf
    <3>1. j # 1 /\ j - 1 \in 1 .. Len(list) /\ new[j] = list[j - 1]
      BY <2>1, <2>3
    <3>2. CASE i = 1
      <4>1. new[i] = d /\ list[j - 1].keyphrase = key /\ ~Competes(list[j - 1], d)
        BY <1>2, <1>6, <2>1, <2>3, <3>1, <3>2 DEF AddedFirst
      <4>2. QED BY <1>2, <1>5, <3>1, <4>1
    <3>3. CASE i # 1
      <4>1. i - 1 \in 1 .. Len(list) /\ new[i] = list[i - 1] /\ i - 1 < j - 1
        BY <2>1, <2>3, <3>3
      <4>2. QED BY <1>4, <2>3, <3>1, <4>1
    <3>4. QED BY <3>2, <3>3
  <2>4. QED BY <2>2, <2>3 DEF Timed, InOrder
<1>7. ASSUME NEW r \in 1 .. Len(list), AddedFor(list, d, new, r)
      PROVE  Timed(new, d.ef) /\ InOrder(new)
  <2>1. CASE new = list
    BY <2>1
  <2>2. CASE new = [list EXCEPT ![r] = d]
    <3>1. /\ Len(new) = Len(list)
          /\ \A j \in 1 .. Len(list) : new[j] = IF j = r THEN d ELSE list[j]
      BY <2>2, ExceptSeq
    <3>2. list[r].keyphrase = key /\ list[r].ef > from /\ \A i \in 1 .. r - 1 : ~Competes(list[i], d)
      BY <1>3, <1>7 DEF AddedFor
    <3>3. ASSUME NEW i \in 1 .. Len(list) PROVE new[i].sf < new[i].ef /\ new[i].ef <= d.ef
      BY <1>2, <1>3, <3>1
    <3>4. ASSUME NEW i \in 1 .. Len(list), NEW j \in 1 .. Len(list), i < j,
                 new[i].keyphrase = new[j].keyphrase
          PROVE  new[j].ef <= new[i].sf
      <4>1. CASE j = r
        <5>1. i \in 1 .. r - 1 /\ i # r /\ new[i] = list[i] /\ list[i].keyphrase = key
          BY <1>1, <1>2, <3>1, <3>4, <4>1
        <5>2. ~Competes(list[i], d)
          BY <3>2, <5>1
        <5>3. list[i].ef <= from
          BY <1>5, <5>1, <5>2
        <5>4. list[r].ef <= list[i].sf
          BY <1>4, <3>2, <3>4, <4>1, <5>1
        <5>5. FALSE
          BY <1>3, <3>2, <5>3, <5>4
        <5>6. QED BY <5>5
      <4>2. CASE i = r /\ j # r
        <5>1. new[j] = list[j] /\ new[i] = d /\ list[j].keyphrase = key
          BY <1>2, <3>1, <3>4, <4>2
        <5>2. list[j].ef <= list[r].sf /\ list[r].sf <= from
          BY <1>3, <1>4, <3>2, <3>4, <4>2, <5>1
        <5>3. QED BY <1>2, <1>3, <5>1, <5>2
      <4>3. CASE i # r /\ j # r
        BY <1>4, <3>1, <3>4, <4>3
      <4>4. QED BY <4>1, <4>2, <4>3
    <3>5. QED BY <3>1, <3>3, <3>4 DEF Timed, InOrder
  <2>3. QED BY <1>7, <2>1, <2>2 DEF AddedFor
<1>8. QED BY <1>6, <1>7, AddedWhere

\* ---- the detections of a frame ----

\* The list after phrase k, and after each of the phrases.
With(phrases, out, k, list) ==
  IF Spotted(phrases, out, k) THEN Added(list, Detection(phrases, out, k)) ELSE list
UpTo(phrases, out) ==
  CHOOSE upTo : upTo = [k \in 0 .. Len(case.keyphrases) |->
                          IF k = 0 THEN detect_list ELSE With(phrases, out, k, upTo[k - 1])]

LEMMA DetectedIsUpTo ==
  ASSUME NEW phrases, NEW out
  PROVE  Detected(phrases, out) = UpTo(phrases, out)[Len(case.keyphrases)]
BY Zenon DEF Detected, UpTo, With

\* What is detected is typed, begins before this frame and after what was detected before.
SpotsOK(phrases, out) ==
  \A k \in 1 .. Len(case.keyphrases) : Spotted(phrases, out, k) =>
    LET d == Detection(phrases, out, k)
    IN /\ d \in Spots /\ d.keyphrase = k /\ d.ef = frame /\ d.sf < frame
       /\ \A e \in Range(detect_list) : e.keyphrase = k => e.sf <= d.sf

\* The list after phrase k.
DetectedOK(phrases, out, k, list) ==
  /\ list \in Seq(Spots) /\ Timed(list, frame) /\ InOrder(list)
  /\ \A e \in Range(list) :
       \/ e \in Range(detect_list)
       \/ \E l \in 1 .. k : Spotted(phrases, out, l) /\ e = Detection(phrases, out, l)
  /\ \A d \in Range(detect_list) :
       \/ d \in Range(list)
       \/ d.keyphrase <= k /\ \E e \in Range(list) : e.ef = frame /\ Competes(d, e)

LEMMA WithOK ==
  ASSUME NEW N \in Nat, N = Len(case.keyphrases), frame \in Nat, NEW phrases, NEW out,
         SpotsOK(phrases, out), detect_list \in Seq(Spots),
         NEW k \in 1 .. N, NEW list, DetectedOK(phrases, out, k - 1, list)
  PROVE  DetectedOK(phrases, out, k, With(phrases, out, k, list))
<1>1. /\ list \in Seq(Spots) /\ Timed(list, frame) /\ InOrder(list)
      /\ \A e \in Range(list) :
           \/ e \in Range(detect_list)
           \/ \E l \in 1 .. k - 1 : Spotted(phrases, out, l) /\ e = Detection(phrases, out, l)
      /\ \A d \in Range(detect_list) :
           \/ d \in Range(list)
           \/ d.keyphrase <= k - 1 /\ \E e \in Range(list) : e.ef = frame /\ Competes(d, e)
  BY DEF DetectedOK
<1>2. \A l \in 1 .. k - 1 : l \in 1 .. k /\ l # k /\ l \in 1 .. N
  OBVIOUS
<1>3. \A e \in Range(detect_list) : e \in Spots /\ e.keyphrase \in Nat
  BY LenProperties, SpotFields DEF Range
<1>4. CASE ~Spotted(phrases, out, k)
  <2>1. With(phrases, out, k, list) = list
    BY <1>4 DEF With
  <2>2. ASSUME NEW d \in Range(detect_list), d.keyphrase <= k - 1 PROVE d.keyphrase <= k
    BY <1>3, <2>2
  <2>3. QED BY <1>1, <1>2, <2>1, <2>2 DEF DetectedOK
<1>5. CASE Spotted(phrases, out, k)
  <2>1. PICK d : d = Detection(phrases, out, k)
    OBVIOUS
  <2>2. /\ d \in Spots /\ d.keyphrase = k /\ d.ef = frame /\ d.sf < frame
        /\ \A e \in Range(detect_list) : e.keyphrase = k => e.sf <= d.sf
    BY <1>5, <2>1 DEF SpotsOK
  <2>3. PICK new : new = Added(list, d)
    OBVIOUS
  <2>4. With(phrases, out, k, list) = new
    BY <1>5, <2>1, <2>3 DEF With
  <2>5. ASSUME NEW e \in Range(list), e.keyphrase = k PROVE e \in Range(detect_list)
    <3>1. ASSUME NEW l \in 1 .. k - 1, Spotted(phrases, out, l), e = Detection(phrases, out, l)
          PROVE FALSE
      <4>1. e.keyphrase = l
        BY <1>2, <3>1 DEF SpotsOK
      <4>2. QED BY <1>2, <2>5, <4>1
    <3>2. QED BY <1>1, <3>1
  <2>6. \A i \in 1 .. Len(list) : list[i].keyphrase = d.keyphrase => list[i].sf <= d.sf
    <3>1. \A i \in 1 .. Len(list) : list[i] \in Range(list)
      BY <1>1, LenProperties DEF Range
    <3>2. QED BY <2>2, <2>5, <3>1
  <2>7. Timed(new, frame) /\ InOrder(new)
    BY <1>1, <2>2, <2>3, <2>6, AddedInOrder
  <2>8. /\ new \in Seq(Spots) /\ Range(new) \subseteq Range(list) \cup {d}
        /\ \A e \in Range(list) : e \in Range(new) \/ (Competes(e, d) /\ d \in Range(new))
    BY <1>1, <2>2, <2>3, AddedKeeps DEF Keeps
  <2>9. ASSUME NEW e \in Range(new)
        PROVE  \/ e \in Range(detect_list)
               \/ \E l \in 1 .. k : Spotted(phrases, out, l) /\ e = Detection(phrases, out, l)
    BY <1>1, <1>2, <1>5, <2>1, <2>8
  <2>10. ASSUME NEW e \in Range(detect_list)
         PROVE  \/ e \in Range(new)
                \/ e.keyphrase <= k /\ \E f \in Range(new) : f.ef = frame /\ Competes(e, f)
    <3>1. CASE e \in Range(list)
      <4>1. Competes(e, d) => e.keyphrase = k /\ d.ef = frame
        BY <2>2 DEF Competes
      <4>2. e.keyphrase = k => e.keyphrase <= k
        OBVIOUS
      <4>3. QED BY <2>8, <3>1, <4>1, <4>2
    <3>2. ASSUME e.keyphrase <= k - 1, NEW f \in Range(list), f.ef = frame, Competes(e, f)
          PROVE  e.keyphrase <= k /\ f \in Range(new)
      <4>1. f.keyphrase = e.keyphrase /\ e.keyphrase # k
        BY <1>3, <3>2 DEF Competes
      <4>2. ~Competes(f, d)
        BY <2>2, <4>1 DEF Competes
      <4>3. QED BY <1>3, <2>8, <3>2, <4>2
    <3>3. QED BY <1>1, <3>1, <3>2
  <2>11. QED BY <2>4, <2>7, <2>8, <2>9, <2>10 DEF DetectedOK
<1>6. QED BY <1>4, <1>5

LEMMA UpToIs ==
  ASSUME NEW N \in Nat, N = Len(case.keyphrases), NEW phrases, NEW out,
         SpotsOK(phrases, out), detect_list \in Seq(Spots)
  PROVE  /\ UpTo(phrases, out)[0] = detect_list
         /\ \A k \in 1 .. N : UpTo(phrases, out)[k] = With(phrases, out, k, UpTo(phrases, out)[k - 1])
<1>1. PICK g : g = [k \in 1 .. N |-> [l \in Seq(Spots) |-> With(phrases, out, k, l)]]
  OBVIOUS
<1>2. ASSUME NEW k \in 1 .. N, NEW l \in Seq(Spots) PROVE With(phrases, out, k, l) \in Seq(Spots)
  <2>1. CASE Spotted(phrases, out, k)
    <3>1. Detection(phrases, out, k) \in Spots
      BY <2>1 DEF SpotsOK
    <3>2. QED BY <2>1, <3>1, AddedKeeps DEF With, Keeps
  <2>2. QED BY <2>1 DEF With
<1>3. g \in [1 .. N -> [Seq(Spots) -> Seq(Spots)]]
  BY <1>1, <1>2
<1>4. PICK f : Chain(f, N, Seq(Spots), detect_list, g)
  BY <1>3, Iteration
<1>5. ASSUME NEW k \in 1 .. N PROVE f[k] = With(phrases, out, k, f[k - 1])
  <2>1. k - 1 \in 0 .. N
    OBVIOUS
  <2>2. f[k - 1] \in Seq(Spots)
    BY <1>4, <2>1 DEF Chain
  <2>3. QED BY <1>1, <1>4, <2>2 DEF Chain
<1> DEFINE Is(h) == h = [k \in 0 .. Len(case.keyphrases) |->
                           IF k = 0 THEN detect_list ELSE With(phrases, out, k, h[k - 1])]
<1>6. Is(f)
  <2>1. ASSUME NEW k \in 0 .. N
        PROVE f[k] = IF k = 0 THEN detect_list ELSE With(phrases, out, k, f[k - 1])
    <3>1. k # 0 => k \in 1 .. N
      OBVIOUS
    <3>2. QED BY <1>4, <1>5, <3>1 DEF Chain
  <2>2. f = [k \in 0 .. N |-> f[k]]
    BY <1>4 DEF Chain
  <2>3. QED BY <2>1, <2>2, Zenon
<1>7. Is(UpTo(phrases, out))
  <2>1. UpTo(phrases, out) = CHOOSE h : Is(h)
    BY DEF UpTo
  <2> HIDE DEF Is
  <2>2. QED BY <1>6, <2>1
<1>8. PICK h : h = UpTo(phrases, out)
  OBVIOUS
<1>9. Is(h)
  BY <1>7, <1>8
<1>10. h[0] = detect_list
  BY <1>9
<1>11. ASSUME NEW k \in 1 .. N PROVE h[k] = With(phrases, out, k, h[k - 1])
  <2>1. k \in 0 .. N /\ k # 0
    OBVIOUS
  <2>2. QED BY <1>9, <2>1
<1>12. QED BY <1>8, <1>10, <1>11

LEMMA DetectedIs ==
  ASSUME NEW N \in Nat, N = Len(case.keyphrases), frame \in Nat, NEW phrases, NEW out,
         SpotsOK(phrases, out), detect_list \in Seq(Spots), Timed(detect_list, frame), InOrder(detect_list)
  PROVE  DetectedOK(phrases, out, N, Detected(phrases, out))
<1>1. PICK h : h = UpTo(phrases, out)
  OBVIOUS
<1>2. h[0] = detect_list /\ \A k \in 1 .. N : h[k] = With(phrases, out, k, h[k - 1])
  BY <1>1, UpToIs
<1>3. DetectedOK(phrases, out, 0, h[0])
  BY <1>2 DEF DetectedOK
<1> DEFINE S == {k \in 0 .. N : ~DetectedOK(phrases, out, k, h[k])}
<1>4. CASE S = {}
  <2>1. N \in 0 .. N
    OBVIOUS
  <2>2. DetectedOK(phrases, out, N, h[N])
    BY <1>4, <2>1
  <2>3. QED BY <1>1, <2>2, DetectedIsUpTo
<1>5. CASE S # {}
  <2>1. S \in SUBSET Nat
    OBVIOUS
  <2>2. PICK k \in S : \A l \in S : k <= l
    BY <1>5, <2>1, Smallest
  <2>3. k # 0
    BY <1>3, <2>2
  <2>4. k \in 1 .. N /\ k - 1 \in 0 .. N /\ ~(k <= k - 1)
    BY <2>3
  <2>5. DetectedOK(phrases, out, k - 1, h[k - 1])
    BY <2>2, <2>4
  <2>6. DetectedOK(phrases, out, k, h[k])
    BY <1>2, <2>4, <2>5, WithOK
  <2>7. QED BY <2>6
<1>6. QED BY <1>4, <1>5

\* ---- a frame, in a search that is served ----

\* What is used of a case, and of a sound.
CaseFacts(c, Loss) ==
  /\ TopologyOK(c) /\ Bakis(c) /\ c.n \in Nat \ {0} /\ c.n # 5
  /\ WORST_SCORE \in Int /\ WORST_SCORE < 0 /\ MaxFrames \in Nat
  /\ NoScore < WORST_SCORE - Loss /\ WORST_SCORE + MaxFrames * Loss < 0
  /\ c.plp \in Int /\ c.plp <= 0 /\ c.delay \in Nat
  /\ Len(c.keyphrases) \in Nat /\ DOMAIN c.keyphrases = 1 .. Len(c.keyphrases)
  /\ \A k \in 1 .. Len(c.keyphrases) :
       /\ Len(c.keyphrases[k].ssids) \in Nat
       /\ c.keyphrases[k].threshold \in Int
       /\ WORST_SCORE + MaxFrames * Loss < c.keyphrases[k].threshold
SoundFacts(c, Loss, sound) ==
  /\ \A s \in DOMAIN sound : /\ sound[s] \in Int /\ sound[s] <= 0 /\ sound[s] >= -Loss
                             /\ Costs(c, sound[s], Loss)
  /\ CiPhones \subseteq DOMAIN sound
  /\ \A k \in 1 .. Len(c.keyphrases) : \A i \in 1 .. Len(c.keyphrases[k].ssids) :
       c.keyphrases[k].ssids[i] \in DOMAIN sound

LEMMA CasesAre ==
  ASSUME NEW c \in Cases, ~Skips(c), NEW Loss \in Nat, Modest(c, Loss)
  PROVE  CaseFacts(c, Loss) /\ \A sound \in Sounds : SoundFacts(c, Loss, sound)
<1>1. CaseOK(c) /\ \A sound \in Sounds : SoundOK(sound)
  BY KwsAssumption
<1>2. PICK n \in Nat \ {0} : n = c.n
  BY <1>1 DEF CaseOK
<1>3. \A j \in Inner(c), k \in 0 .. c.n : <<j, k>> \in DOMAIN c.tp
  BY <1>1 DEF CaseOK
<1>4. TopologyOK(c)
  BY <1>1, <1>3 DEF CaseOK, TopologyOK
<1>5. Bakis(c) /\ c.n # 5
  BY DEF Bakis, Skips
<1>6. PICK any \in Sounds : TRUE
  BY KwsAssumption
<1>7. Len(c.keyphrases) \in Nat /\ DOMAIN c.keyphrases = 1 .. Len(c.keyphrases)
  BY <1>1 DEF CaseOK
<1>8. ASSUME NEW k \in 1 .. Len(c.keyphrases)
      PROVE  /\ Len(c.keyphrases[k].ssids) \in Nat
             /\ c.keyphrases[k].threshold \in Int
             /\ WORST_SCORE + MaxFrames * Loss < c.keyphrases[k].threshold
             /\ \A sound \in Sounds : \A i \in 1 .. Len(c.keyphrases[k].ssids) :
                  c.keyphrases[k].ssids[i] \in DOMAIN sound
  <2>1. \A sound \in Sounds : c.keyphrases[k].ssids \in Seq(DOMAIN sound)
    BY <1>1, <1>7 DEF CaseOK
  <2>2. Len(c.keyphrases[k].ssids) \in Nat
    BY <1>6, <2>1, LenProperties
  <2>3. \A sound \in Sounds : \A i \in 1 .. Len(c.keyphrases[k].ssids) :
          c.keyphrases[k].ssids[i] \in DOMAIN sound
    BY <2>1, ElementOfSeq
  <2>4. QED BY <1>1, <1>7, <2>2, <2>3 DEF CaseOK, Modest
<1>9. ASSUME NEW sound \in Sounds, NEW s \in DOMAIN sound
      PROVE  /\ sound[s] \in Int /\ sound[s] <= 0 /\ sound[s] >= -Loss
             /\ Costs(c, sound[s], Loss)
  <2>1. PICK v \in Int : v = sound[s] /\ v <= 0
    BY <1>1 DEF SoundOK
  <2>2. Costs(c, v, Loss)
    BY <2>1 DEF Modest, Costs
  <2>3. 0 \in Inner(c) /\ 0 \in 0 .. c.n
    BY <1>2 DEF Inner
  <2>4. PICK t \in Int : t = c.tp[<<0, 0>>] /\ t <= 0
    BY <1>4, <2>3 DEF TopologyOK
  <2>5. v + t >= -Loss
    BY <2>2, <2>3, <2>4 DEF Costs
  <2>6. QED BY <2>1, <2>2, <2>4, <2>5
<1>10. NoScore < WORST_SCORE - Loss /\ WORST_SCORE + MaxFrames * Loss < 0
  BY DEF Modest
<1>11. c.plp \in Int /\ c.plp <= 0 /\ c.delay \in Nat
  BY <1>1 DEF CaseOK
<1>12. CaseFacts(c, Loss)
  BY <1>2, <1>4, <1>5, <1>7, <1>8, <1>10, <1>11, KwsAssumption DEF CaseFacts
<1>13. ASSUME NEW sound \in Sounds PROVE SoundFacts(c, Loss, sound)
  BY <1>1, <1>8, <1>9 DEF SoundFacts, SoundOK
<1>14. QED BY <1>12, <1>13

\* In frame f of an utterance the way from the start has gone f states into an HMM of the loop.
Reached(c, h, f, Loss) ==
  \A j \in 0 .. c.n : IF j <= f THEN Score(c, h, j) >= -(Loss * f) ELSE Score(c, h, j) <= WORST_SCORE

LEMMA LossGrows ==
  ASSUME NEW Loss \in Nat, NEW f \in Nat, NEW M \in Nat, f < M
  PROVE  /\ Loss * f \in Nat /\ Loss * (f + 1) = Loss * f + Loss /\ Loss * (f + 1) \in Nat
         /\ Loss * (f + 1) <= M * Loss
<1>1. Loss * (f + 1) = Loss * f + Loss /\ Loss * f \in Nat
  OBVIOUS
<1>2. PICK r \in Nat : M = (f + 1) + r
  <2>1. M - (f + 1) \in Nat /\ M = (f + 1) + (M - (f + 1))
    OBVIOUS
  <2>2. QED BY <2>1
<1>3. M * Loss = Loss * (f + 1) + Loss * r /\ Loss * r \in Nat
  BY <1>2
<1>4. QED BY <1>1, <1>3

LEMMA ReachedOn ==
  ASSUME NEW c, NEW Loss \in Nat, CaseFacts(c, Loss), NEW f \in Nat, f < MaxFrames,
         NEW h \in HmmRec(c), Floor(c, h), Reached(c, h, f, Loss),
         NEW v \in Int, v <= 0, v >= -Loss, Costs(c, v, Loss),
         NEW g, g = VitEval(c, h, [j \in Inner(c) |-> v])
  PROVE  g \in HmmRec(c) /\ Floor(c, g) /\ Reached(c, g, f + 1, Loss)
<1>1. Evolves(c, h, g) /\ Floor(c, g) /\ Descends(c, h, g, v, Loss)
  BY VitEvalEvolves DEF CaseFacts
<1>2. PICK n \in Nat : n = c.n /\ n > 0
  BY DEF CaseFacts
<1>3. PICK a \in Nat, b \in Nat : a = Loss * f /\ b = Loss * (f + 1) /\ b = a + Loss /\ b <= MaxFrames * Loss
  <2>1. MaxFrames \in Nat
    BY DEF CaseFacts
  <2>2. QED BY <2>1, LossGrows
<1>4. PICK w \in Int : w = WORST_SCORE /\ w + b < 0
  <2>1. PICK M \in Nat : M = MaxFrames * Loss /\ b <= M
    BY <1>3 DEF CaseFacts
  <2>2. PICK v1 \in Int : v1 = WORST_SCORE
    BY DEF CaseFacts
  <2>3. v1 + M < 0
    BY <2>1, <2>2 DEF CaseFacts
  <2>4. v1 + b < 0
    BY <2>1, <2>3
  <2>5. QED BY <2>2, <2>4
<1>5. g \in HmmRec(c) /\ Inner(c) = 0 .. n - 1
  BY <1>1, <1>2 DEF Evolves, Inner
<1>6. \A j \in 0 .. n : Score(c, g, j) \in Int /\ Score(c, h, j) \in Int
  BY <1>2, <1>5, HmmFields DEF Score
<1>7. \A j \in 0 .. n : IF j <= f THEN Score(c, h, j) >= -a ELSE Score(c, h, j) <= w
  BY <1>2, <1>3, <1>4 DEF Reached
<1>8. ASSUME NEW j \in 0 .. n, j <= f + 1 PROVE Score(c, g, j) >= -b
  <2>1. CASE j = 0
    <3>1. Score(c, g, 0) >= Score(c, h, 0) - Loss
      BY <1>1 DEF Descends
    <3>2. Score(c, h, 0) >= -a
      BY <1>7, <2>1
    <3>3. QED BY <1>3, <1>6, <2>1, <3>1, <3>2
  <2>2. CASE j # 0
    <3>1. j \in 1 .. n /\ j - 1 \in 0 .. n /\ j - 1 <= f
      BY <1>8, <2>2
    <3>2. Score(c, h, j - 1) >= -a
      BY <1>7, <3>1
    <3>3. j = 3 /\ n = 3 => h.score[1] + v > WORST_SCORE
      <4>1. ASSUME j = 3, n = 3 PROVE h.score[1] >= -a /\ h.score[1] \in Int
        <5>1. 1 <= f /\ 1 \in 0 .. n /\ Score(c, h, 1) = h.score[1]
          BY <1>2, <3>1, <4>1 DEF Score
        <5>2. QED BY <1>6, <1>7, <5>1
      <4>2. QED BY <1>3, <1>4, <4>1
    <3>4. Score(c, g, j) >= Score(c, h, j - 1) - Loss
      BY <1>1, <1>2, <3>1, <3>3 DEF Descends
    <3>5. QED BY <1>3, <1>6, <3>1, <3>2, <3>4
  <2>3. QED BY <2>1, <2>2
<1>9. ASSUME NEW j \in 0 .. n, ~(j <= f + 1) PROVE Score(c, g, j) <= w
  <2>1. PICK i \in 0 .. n : Follows(c, h, g, j, i)
    BY <1>1, <1>2 DEF Evolves
  <2>2. ~(i <= f)
    BY <1>9, <2>1 DEF Follows
  <2>3. Score(c, h, i) <= WORST_SCORE
    BY <1>4, <1>7, <2>2
  <2>4. QED BY <1>4, <2>1, <2>3 DEF Follows
<1>10. Reached(c, g, f + 1, Loss)
  BY <1>2, <1>3, <1>4, <1>8, <1>9 DEF Reached
<1>11. QED BY <1>1, <1>5, <1>10

\* The chains of the phrases after evaluation and pruning, as Step has them.
Left(sound) ==
  LET evaluated == PhrasesEvaluated(sound)
      best == BestOf(LoopEvaluated(sound), evaluated)
  IN [k \in Phrases |-> [i \in DOMAIN evaluated[k] |-> Pruned(evaluated[k][i], best)]]
OutOf(sound) == Max({WORST_SCORE} \cup {LoopEvaluated(sound)[p].out : p \in CiPhones})

LEMMA StepIs ==
  ASSUME NEW sound, Step(sound)
  PROVE  /\ running /\ frame < MaxFrames
         /\ IF OutOf(sound) <= WORST_SCORE
            THEN pl_hmms' = LoopEvaluated(sound) /\ hmms' = Left(sound) /\ UNCHANGED detect_list
            ELSE /\ detect_list' = Detected(Left(sound), OutOf(sound))
                 /\ pl_hmms' = [p \in CiPhones |-> LoopEntered(LoopEvaluated(sound)[p], OutOf(sound))]
                 /\ hmms' = [k \in Phrases |-> PhraseEntered(Left(sound)[k], OutOf(sound))]
         /\ frame' = frame + 1
         /\ UNCHANGED <<case, running>>
BY Zenon DEF Step, Left, OutOf

\* Every chain is in order, every HMM of the loop as far as it can be.
ChainsOK ==
  /\ hmms = [k \in Phrases |-> hmms[k]]
  /\ \A k \in Phrases : ChainOK(case, hmms[k], Length(k), frame)
LoopOK(Loss) ==
  /\ pl_hmms = [p \in CiPhones |-> pl_hmms[p]]
  /\ \A p \in CiPhones : /\ pl_hmms[p] \in HmmRec(case) /\ Floor(case, pl_hmms[p])
                         /\ running => Reached(case, pl_hmms[p], frame, Loss)

\* The detections are one after the other, and no HMM of a phrase has begun before one of it.
ListOK ==
  /\ detect_list \in Seq(Spots) /\ Timed(detect_list, frame) /\ InOrder(detect_list)
  /\ \A e \in Range(detect_list) : e.keyphrase \in Phrases /\
       AllSince(case, hmms[e.keyphrase], Length(e.keyphrase), e.sf)

KwsInv(Loss) ==
  /\ case \in Cases /\ ~Skips(case)
  /\ frame \in Nat /\ running \in BOOLEAN
  /\ LoopOK(Loss) /\ ChainsOK /\ ListOK

LEMMA LeftMoved ==
  ASSUME NEW Loss \in Nat, CaseFacts(case, Loss), NEW sound, SoundFacts(case, Loss, sound),
         frame \in Nat, ChainsOK, NEW k \in Phrases
  PROVE  /\ ChainOK(case, Left(sound)[k], Length(k), frame)
         /\ \A x \in Int : AllSince(case, hmms[k], Length(k), x) =>
                           AllSince(case, Left(sound)[k], Length(k), x)
<1>1. PICK m \in Nat : m = Length(k)
  BY DEF CaseFacts, Phrases, Length
<1>2. ChainOK(case, hmms[k], m, frame)
  BY <1>1 DEF ChainsOK
<1>3. DOMAIN hmms[k] = 1 .. m
  BY <1>2 DEF ChainOK
<1>4. PICK best : best = BestOf(LoopEvaluated(sound), PhrasesEvaluated(sound))
  OBVIOUS
<1>5. PICK evaluated : evaluated = PhrasesEvaluated(sound)[k]
  OBVIOUS
<1>6. evaluated = [i \in 1 .. m |->
        IF Active(hmms[k][i]) THEN Eval(hmms[k][i], sound, case.keyphrases[k].ssids[i]) ELSE hmms[k][i]]
  BY <1>3, <1>5, Zenon DEF PhrasesEvaluated
<1>7. PICK new : new = Left(sound)[k]
  OBVIOUS
<1>8. new = [i \in DOMAIN evaluated |-> Pruned(evaluated[i], best)]
  BY <1>4, <1>5, <1>7, Zenon DEF Left
<1>9. DOMAIN evaluated = 1 .. m
  BY <1>6
<1>10. new = [i \in 1 .. m |-> new[i]]
  BY <1>8, <1>9
<1>11. ASSUME NEW i \in 1 .. m PROVE Moved(case, hmms[k][i], new[i])
  <2>1. new[i] = Pruned(evaluated[i], best)
    BY <1>8, <1>9
  <2>2. new[i] = Cleared(case) \/ new[i] = evaluated[i]
    BY <2>1 DEF Pruned
  <2>3. CASE ~Active(hmms[k][i])
    BY <1>6, <2>2, <2>3 DEF Moved
  <2>4. CASE Active(hmms[k][i])
    <3>1. evaluated[i] = Eval(hmms[k][i], sound, case.keyphrases[k].ssids[i])
      BY <1>6, <2>4
    <3>2. case.keyphrases[k].ssids[i] \in DOMAIN sound
      BY <1>1 DEF SoundFacts, CaseFacts, Phrases, Length
    <3>3. PICK v : v = sound[case.keyphrases[k].ssids[i]]
      OBVIOUS
    <3>4. v \in Int /\ v <= 0 /\ Costs(case, v, Loss)
      BY <3>2, <3>3 DEF SoundFacts
    <3>5. evaluated[i] = VitEval(case, hmms[k][i], [j \in Inner(case) |-> v])
      BY <3>1, <3>3 DEF Eval
    <3>6. hmms[k][i] \in HmmRec(case) /\ Floor(case, hmms[k][i])
      BY <1>2 DEF ChainOK, HmmOK
    <3>7. Evolves(case, hmms[k][i], evaluated[i]) /\ Floor(case, evaluated[i])
      BY <3>4, <3>5, <3>6, VitEvalEvolves DEF CaseFacts
    <3>8. QED BY <2>2, <2>4, <3>7 DEF Moved
  <2>5. QED BY <2>3, <2>4
<1>12. case.n \in Nat \ {0} /\ WORST_SCORE \in Int
  BY DEF CaseFacts
<1>13. QED BY <1>1, <1>2, <1>7, <1>10, <1>11, <1>12, ChainMoved

LEMMA LoopMoved ==
  ASSUME NEW Loss \in Nat, CaseFacts(case, Loss), NEW sound, SoundFacts(case, Loss, sound),
         frame \in Nat, frame < MaxFrames, running, LoopOK(Loss), NEW p \in CiPhones
  PROVE  LET g == LoopEvaluated(sound)[p]
         IN g \in HmmRec(case) /\ Floor(case, g) /\ Reached(case, g, frame + 1, Loss)
<1>1. p \in DOMAIN sound
  BY DEF SoundFacts
<1>2. PICK v : v = sound[p]
  OBVIOUS
<1>3. v \in Int /\ v <= 0 /\ v >= -Loss /\ Costs(case, v, Loss)
  BY <1>1, <1>2 DEF SoundFacts
<1>4. LoopEvaluated(sound)[p] = VitEval(case, pl_hmms[p], [j \in Inner(case) |-> v])
  BY <1>2 DEF LoopEvaluated, Eval
<1>5. /\ pl_hmms[p] \in HmmRec(case) /\ Floor(case, pl_hmms[p])
      /\ Reached(case, pl_hmms[p], frame, Loss)
  BY DEF LoopOK
<1>6. QED BY <1>3, <1>4, <1>5, ReachedOn

\* What leaves the loop, if it is no bad score, is the score of a way from the start.
LEMMA OutIs ==
  ASSUME NEW Loss \in Nat, CaseFacts(case, Loss), NEW sound, SoundFacts(case, Loss, sound),
         frame \in Nat, frame < MaxFrames, running, LoopOK(Loss)
  PROVE  /\ OutOf(sound) \in Int
         /\ OutOf(sound) > WORST_SCORE => OutOf(sound) >= -(MaxFrames * Loss)
<1>1. IsFiniteSet(CiPhones)
  BY KwsAssumption
<1>2. PICK f : f = [p \in CiPhones |-> LoopEvaluated(sound)[p].out]
  OBVIOUS
<1>3. \A p \in CiPhones : /\ f[p] \in Int /\ f[p] = Score(case, LoopEvaluated(sound)[p], case.n)
                          /\ Reached(case, LoopEvaluated(sound)[p], frame + 1, Loss)
  BY <1>2, LoopMoved, HmmFields DEF Score
<1>4. f \in [CiPhones -> {f[p] : p \in CiPhones}]
  BY <1>2
<1>5. IsFiniteSet({f[p] : p \in CiPhones})
  BY <1>1, <1>4, ImageFinite
<1>6. IsFiniteSet({WORST_SCORE})
  BY FS_Singleton
<1>7. IsFiniteSet({WORST_SCORE} \cup {f[p] : p \in CiPhones})
  BY <1>5, <1>6, FS_Union
<1>8. {f[p] : p \in CiPhones} = {LoopEvaluated(sound)[p].out : p \in CiPhones}
  BY <1>2
<1>9. PICK S : S = {WORST_SCORE} \cup {f[p] : p \in CiPhones}
  OBVIOUS
<1>10. OutOf(sound) = Max(S)
  BY <1>8, <1>9 DEF OutOf
<1>11. S \in SUBSET Int /\ IsFiniteSet(S) /\ S # {}
  BY <1>3, <1>7, <1>9 DEF CaseFacts
<1>12. Max(S) \in S
  BY <1>11, Greatest
<1>13. OutOf(sound) \in Int
  BY <1>10, <1>11, <1>12
<1>14. ASSUME OutOf(sound) > WORST_SCORE PROVE OutOf(sound) >= -(MaxFrames * Loss)
  <2>1. OutOf(sound) # WORST_SCORE
    BY <1>13, <1>14 DEF CaseFacts
  <2>2. PICK p \in CiPhones : OutOf(sound) = f[p]
    BY <1>9, <1>10, <1>12, <2>1
  <2>3. PICK a \in Int, M \in Nat : a = Loss * (frame + 1) /\ M = MaxFrames * Loss /\ a <= M
    <3>1. PICK N \in Nat : N = MaxFrames
      BY DEF CaseFacts
    <3>2. frame < N
      BY <3>1
    <3>3. Loss * (frame + 1) \in Nat /\ Loss * (frame + 1) <= N * Loss
      BY <3>2, LossGrows
    <3>4. N * Loss \in Nat
      OBVIOUS
    <3>5. QED BY <3>1, <3>3, <3>4
  <2>4. PICK n \in Nat : n = case.n
    BY DEF CaseFacts
  <2>5. IF n <= frame + 1 THEN f[p] >= -a ELSE f[p] <= WORST_SCORE
    BY <1>3, <2>3, <2>4 DEF Reached
  <2>6. PICK o \in Int, w \in Int : o = OutOf(sound) /\ w = WORST_SCORE
    BY <1>13 DEF CaseFacts
  <2>7. o > w /\ o = f[p]
    BY <1>14, <2>2, <2>6
  <2>8. n <= frame + 1
    BY <2>5, <2>6, <2>7
  <2>9. o >= -a
    BY <2>5, <2>7, <2>8
  <2>10. QED BY <2>3, <2>6, <2>9
<1>15. QED BY <1>13, <1>14

LEMMA LastIs ==
  ASSUME NEW m \in Nat, NEW s, s = [i \in 1 .. m |-> s[i]]
  PROVE  Len(s) = m /\ Last(s) = s[m]
<1>1. PICK V : V = {s[i] : i \in 1 .. m}
  OBVIOUS
<1>2. s \in [1 .. m -> V]
  BY <1>1
<1>3. s \in Seq(V)
  BY <1>2, SeqDef
<1>4. Len(s) \in Nat /\ DOMAIN s = 1 .. Len(s) /\ DOMAIN s = 1 .. m
  BY <1>2, <1>3, LenProperties
<1>5. Len(s) = m
  BY <1>4
<1>6. QED BY <1>5 DEF Last

\* A phrase is detected only with a way from the loop through all of its HMMs.
LEMMA SpotsAre ==
  ASSUME NEW Loss \in Nat, CaseFacts(case, Loss), NEW sound, SoundFacts(case, Loss, sound),
         frame \in Nat, frame < MaxFrames, running, LoopOK(Loss), ChainsOK, ListOK,
         OutOf(sound) > WORST_SCORE
  PROVE  /\ SpotsOK(Left(sound), OutOf(sound))
         /\ \A k \in Phrases : Spotted(Left(sound), OutOf(sound), k) =>
              AllSince(case, Left(sound)[k], Length(k), Detection(Left(sound), OutOf(sound), k).sf)
<1> DEFINE d(k) == Detection(Left(sound), OutOf(sound), k)
<1>1. SUFFICES ASSUME NEW k \in Phrases, Spotted(Left(sound), OutOf(sound), k)
               PROVE  /\ d(k) \in Spots /\ d(k).keyphrase = k /\ d(k).ef = frame /\ d(k).sf < frame
                      /\ \A e \in Range(detect_list) : e.keyphrase = k => e.sf <= d(k).sf
                      /\ AllSince(case, Left(sound)[k], Length(k), d(k).sf)
  BY DEF SpotsOK, CaseFacts, Phrases
<1>2. PICK m \in Nat : m = Length(k) /\ m > 0
  BY <1>1 DEF Spotted, CaseFacts, Phrases, Length
<1>3. PICK chain : chain = Left(sound)[k]
  OBVIOUS
<1>4. ChainOK(case, chain, m, frame)
  BY <1>2, <1>3, LeftMoved
<1>5. Last(chain) = chain[m] /\ m \in 1 .. m
  BY <1>2, <1>4, LastIs DEF ChainOK
<1>6. HmmOK(case, chain[m], frame)
  BY <1>4, <1>5 DEF ChainOK
<1>7. PICK n \in Nat : n = case.n /\ n \in 0 .. case.n
  BY DEF CaseFacts
<1>8. PICK out \in Int : out = OutOf(sound) /\ out >= -(MaxFrames * Loss)
  BY OutIs
<1>9. PICK s \in Int : s = chain[m].out /\ s = Score(case, chain[m], n)
  BY <1>6, <1>7, HmmFields DEF HmmOK, Score
<1>10. s > WORST_SCORE
  <2>1. PICK t \in Int : t = case.keyphrases[k].threshold /\ WORST_SCORE + MaxFrames * Loss < t
    BY DEF CaseFacts, Phrases
  <2>2. s - out >= t
    BY <1>1, <1>3, <1>5, <1>8, <1>9, <2>1 DEF Spotted
  <2>3. PICK M \in Nat : M = MaxFrames * Loss
    BY DEF CaseFacts
  <2>4. PICK w \in Int : w = WORST_SCORE
    BY DEF CaseFacts
  <2>5. s > w
    BY <1>8, <2>1, <2>2, <2>3, <2>4
  <2>6. QED BY <2>4, <2>5
<1>11. PICK x \in Int : x = chain[m].outHist /\ x = Hist(case, chain[m], n) /\ 0 <= x /\ x < frame
  <2>1. chain[m].outHist = Hist(case, chain[m], n)
    BY <1>7 DEF Hist
  <2>2. PICK x \in None .. frame - 1 : x = Hist(case, chain[m], n)
    BY <1>6, <1>7 DEF HmmOK
  <2>3. x = None => s <= WORST_SCORE
    BY <1>6, <1>7, <1>9, <2>2 DEF HmmOK
  <2>4. x \in Int /\ 0 <= x /\ x < frame
    BY <1>9, <1>10, <2>2, <2>3 DEF None, CaseFacts
  <2>5. QED BY <2>1, <2>2, <2>4
<1>12. d(k) = [keyphrase |-> k, sf |-> x, ef |-> frame, prob |-> s - out - KWS_MAX]
  BY <1>3, <1>5, <1>8, <1>9, <1>11, Zenon DEF Detection
<1>13. x \in Nat /\ k \in Nat /\ s - out - KWS_MAX \in Int
  BY <1>11, KwsAssumption DEF CaseFacts, Phrases
<1>14. d(k) \in Spots /\ d(k).keyphrase = k /\ d(k).ef = frame /\ d(k).sf = x
  BY <1>12, <1>13 DEF Spots
<1>15. ASSUME NEW e \in Range(detect_list), e.keyphrase = k PROVE e.sf <= x
  <2>1. e \in Spots
    BY <1>15, LenProperties DEF ListOK, Range
  <2>2. PICK y \in Nat : y = e.sf
    BY <2>1, SpotFields
  <2>3. AllSince(case, hmms[k], Length(k), y)
    BY <1>15, <2>2 DEF ListOK
  <2>4. AllSince(case, chain, m, y)
    BY <1>2, <1>3, <2>2, <2>3, LeftMoved
  <2>5. Since(x, y)
    BY <1>5, <1>7, <1>11, <2>4 DEF AllSince
  <2>6. QED BY <1>11, <2>2, <2>5 DEF Since, None
<1>16. ASSUME NEW i \in 1 .. m, NEW j \in 0 .. n PROVE Since(Hist(case, chain[i], j), x)
  <2>1. CASE i = m /\ j = n
    BY <1>11, <2>1 DEF Since
  <2>2. CASE ~(i = m /\ j = n)
    <3>1. i < m \/ (i = m /\ j < n)
      BY <2>2
    <3>2. QED BY <1>4, <1>5, <1>7, <1>11, <3>1 DEF ChainOK, Ordered
  <2>3. QED BY <2>1, <2>2
<1>17. AllSince(case, chain, m, x)
  BY <1>7, <1>16 DEF AllSince
<1>18. QED BY <1>2, <1>3, <1>11, <1>14, <1>15, <1>17

\* Back in the loop an HMM is as far as it was.
LEMMA LoopEnteredIs ==
  ASSUME NEW Loss \in Nat, CaseFacts(case, Loss), frame \in Nat,
         NEW h \in HmmRec(case), Floor(case, h), Reached(case, h, frame + 1, Loss),
         NEW out \in Int, NEW g, g = LoopEntered(h, out)
  PROVE  g \in HmmRec(case) /\ Floor(case, g) /\ Reached(case, g, frame + 1, Loss)
<1>1. CASE g = h
  BY <1>1
<1>2. CASE out + case.plp > h.score[0] /\ g = Entering(h, out + case.plp, None, frame + 1)
  <2>1. PICK s \in Int : s = out + case.plp
    BY DEF CaseFacts
  <2>2. /\ h.score \in [Inner(case) -> Int] /\ h.hist \in [Inner(case) -> Int]
        /\ h.out \in Int /\ h.outHist \in Int /\ h.best \in Int /\ h.frame \in Int
    BY HmmFields
  <2>3. 0 \in Inner(case) /\ case.n # 0 /\ None \in Int /\ frame + 1 \in Int
    BY DEF CaseFacts, Inner, None
  <2>4. PICK score \in [Inner(case) -> Int] : score = [h.score EXCEPT ![0] = s]
    BY <2>2
  <2>5. PICK hist \in [Inner(case) -> Int] : hist = [h.hist EXCEPT ![0] = None]
    BY <2>2, <2>3
  <2>6. g = [score |-> score, hist |-> hist, out |-> h.out, outHist |-> h.outHist, best |-> h.best,
             frame |-> frame + 1]
    BY <1>2, <2>1, <2>4, <2>5 DEF Entering, HmmRec
  <2>7. g \in HmmRec(case)
    BY <2>2, <2>3, <2>6, MakeHmm
  <2>8. g.score = score /\ g.out = h.out
    BY <2>6
  <2>9. Score(case, g, 0) = s /\ Score(case, h, 0) = h.score[0] /\ h.score[0] \in Int /\ s > h.score[0]
    BY <1>2, <2>1, <2>2, <2>3, <2>4, <2>8 DEF Score
  <2>10. ASSUME NEW j \in 0 .. case.n, j # 0 PROVE Score(case, g, j) = Score(case, h, j)
    <3>1. j # case.n => j \in Inner(case)
      BY DEF Inner, CaseFacts
    <3>2. QED BY <2>2, <2>4, <2>8, <2>10, <3>1 DEF Score
  <2>11. Floor(case, g)
    <3>1. case.n = 3 => h.score[0] >= WORST_SCORE
      BY <2>9 DEF Floor
    <3>2. case.n = 3 => Score(case, g, 0) >= WORST_SCORE
      BY <2>9, <3>1 DEF CaseFacts
    <3>3. QED BY <2>10, <3>2 DEF Floor
  <2>12. Reached(case, g, frame + 1, Loss)
    <3>1. PICK a \in Int : a = Loss * (frame + 1)
      OBVIOUS
    <3>2. 0 \in 0 .. case.n /\ 0 <= frame + 1
      BY DEF CaseFacts
    <3>3. h.score[0] >= -a
      BY <2>9, <3>1, <3>2 DEF Reached
    <3>4. Score(case, g, 0) >= -a
      BY <2>9, <3>1, <3>3
    <3>5. QED BY <2>10, <3>1, <3>2, <3>4 DEF Reached
  <2>13. QED BY <2>7, <2>11, <2>12
<1>3. QED BY <1>1, <1>2 DEF LoopEntered

\* ---- the inductive invariant, action by action ----

LEMMA FreshChain ==
  ASSUME NEW c, c.n \in Nat \ {0}, WORST_SCORE \in Int, NEW fr \in Nat, NEW m \in Nat, NEW chain,
         chain = [i \in 1 .. m |-> chain[i]], \A i \in 1 .. m : chain[i] = Cleared(c)
  PROVE  ChainOK(c, chain, m, fr) /\ \A x : AllSince(c, chain, m, x)
<1>1. \A i \in 1 .. m : /\ HmmOK(c, chain[i], fr)
                        /\ \A j \in 0 .. c.n : Hist(c, chain[i], j) = None
  BY ClearedIs
<1>2. QED BY <1>1 DEF ChainOK, Ordered, AllSince, Since

LEMMA FreshOK ==
  ASSUME NEW Loss \in Nat, CaseFacts(case, Loss), frame \in Nat
  PROVE  /\ FreshLoop(case) = [p \in CiPhones |-> FreshLoop(case)[p]]
         /\ \A p \in CiPhones : FreshLoop(case)[p] \in HmmRec(case) /\ Floor(case, FreshLoop(case)[p])
         /\ FreshPhrases(case) = [k \in Phrases |-> FreshPhrases(case)[k]]
         /\ \A k \in Phrases : /\ ChainOK(case, FreshPhrases(case)[k], Length(k), frame)
                               /\ \A x : AllSince(case, FreshPhrases(case)[k], Length(k), x)
<1>1. /\ FreshLoop(case) = [p \in CiPhones |-> FreshLoop(case)[p]]
      /\ \A p \in CiPhones : FreshLoop(case)[p] = Cleared(case)
  BY DEF FreshLoop
<1>2. Cleared(case) \in HmmRec(case) /\ Floor(case, Cleared(case))
  BY ClearedIs DEF HmmOK, CaseFacts
<1>3. /\ FreshPhrases(case) = [k \in Phrases |-> FreshPhrases(case)[k]]
      /\ \A k \in Phrases : FreshPhrases(case)[k] = [i \in 1 .. Length(k) |-> Cleared(case)]
  BY DEF FreshPhrases, Phrases, Length
<1>4. ASSUME NEW k \in Phrases
      PROVE  /\ ChainOK(case, FreshPhrases(case)[k], Length(k), frame)
             /\ \A x : AllSince(case, FreshPhrases(case)[k], Length(k), x)
  <2>1. PICK m \in Nat : m = Length(k)
    BY DEF CaseFacts, Phrases, Length
  <2>2. PICK chain : chain = FreshPhrases(case)[k]
    OBVIOUS
  <2>3. chain = [i \in 1 .. m |-> Cleared(case)]
    BY <1>3, <2>1, <2>2
  <2>4. chain = [i \in 1 .. m |-> chain[i]] /\ \A i \in 1 .. m : chain[i] = Cleared(case)
    BY <2>3
  <2>5. case.n \in Nat \ {0} /\ WORST_SCORE \in Int
    BY DEF CaseFacts
  <2>6. ChainOK(case, chain, m, frame) /\ \A x : AllSince(case, chain, m, x)
    BY <2>4, <2>5, FreshChain
  <2>7. QED BY <2>1, <2>2, <2>6
<1>5. QED BY <1>1, <1>2, <1>3, <1>4

LEMMA EmptyList ==
  ASSUME NEW fr
  PROVE  /\ <<>> \in Seq(Spots) /\ Timed(<<>>, fr) /\ InOrder(<<>>) /\ Range(<<>>) = {}
<1>1. <<>> \in Seq(Spots) /\ Len(<<>>) = 0 /\ DOMAIN <<>> = {}
  OBVIOUS
<1>2. QED BY <1>1 DEF Timed, InOrder, Range

LEMMA InitInv ==
  ASSUME Tolerated = {}, NEW Loss \in Nat, \A c \in Cases : Modest(c, Loss), Init
  PROVE  KwsInv(Loss)
<1>1. case \in Cases /\ ~Skips(case)
  BY DEF Init, May
<1>2. CaseFacts(case, Loss)
  BY <1>1, CasesAre
<1>3. frame \in Nat /\ running = FALSE
  BY DEF Init
<1>4. LoopOK(Loss) /\ ChainsOK
  BY <1>2, <1>3, FreshOK DEF Init, LoopOK, ChainsOK
<1>5. ListOK
  BY EmptyList DEF Init, ListOK
<1>6. QED BY <1>1, <1>3, <1>4, <1>5 DEF KwsInv

LEMMA StartInv ==
  ASSUME Tolerated = {}, NEW Loss \in Nat, \A c \in Cases : Modest(c, Loss), KwsInv(Loss), Start
  PROVE  KwsInv(Loss)'
<1>1. CaseFacts(case, Loss)
  BY CasesAre DEF KwsInv
<1>2. frame' = 0 /\ case' = case /\ hmms' = hmms /\ detect_list' = <<>> /\ running' = TRUE
  BY DEF Start
<1>3. case.n \in Nat \ {0} /\ WORST_SCORE \in Int
  BY <1>1 DEF CaseFacts
<1>4. ASSUME NEW k \in Phrases PROVE ChainOK(case, hmms[k], Length(k), 0)
  <2>1. PICK m \in Nat : m = Length(k)
    BY <1>1 DEF CaseFacts, Phrases, Length
  <2>2. ChainOK(case, hmms[k], m, frame)
    BY <2>1 DEF KwsInv, ChainsOK
  <2>3. PICK chain : chain = hmms[k]
    OBVIOUS
  <2>4. chain = [i \in 1 .. m |-> chain[i]]
    BY <2>2, <2>3 DEF ChainOK
  <2>5. ASSUME NEW i \in 1 .. m PROVE chain[i] = Cleared(case)
    <3>1. chain[i] \in Range(hmms[k])
      BY <2>3, <2>4 DEF Range
    <3>2. ~Active(chain[i])
      BY <3>1 DEF Start, May
    <3>3. QED BY <2>2, <2>3, <3>2 DEF ChainOK, HmmOK
  <2>6. ChainOK(case, chain, m, 0)
    BY <1>3, <2>4, <2>5, FreshChain
  <2>7. QED BY <2>1, <2>3, <2>6
<1>5. ChainsOK'
  BY <1>2, <1>4 DEF KwsInv, ChainsOK, Phrases, Length
<1>6. ListOK'
  BY <1>2, EmptyList DEF ListOK
<1>7. PICK g : g = Entering(Cleared(case), 0, None, 0)
  OBVIOUS
<1>8. g \in HmmRec(case) /\ Floor(case, g) /\ Reached(case, g, 0, Loss)
  <2>1. PICK h : h = Cleared(case)
    OBVIOUS
  <2>2. /\ h \in HmmRec(case)
        /\ \A j \in 0 .. case.n : Score(case, h, j) = WORST_SCORE
    BY <1>3, <2>1, ClearedIs DEF HmmOK
  <2>3. /\ h.score \in [Inner(case) -> Int] /\ h.hist \in [Inner(case) -> Int]
        /\ h.out \in Int /\ h.outHist \in Int /\ h.best \in Int
    BY <2>2, HmmFields
  <2>4. 0 \in Inner(case) /\ case.n # 0 /\ None \in Int
    BY <1>3 DEF Inner, None
  <2>5. PICK score \in [Inner(case) -> Int] : score = [h.score EXCEPT ![0] = 0]
    <3>1. PICK z \in Int : z = 0
      OBVIOUS
    <3>2. PICK old \in [Inner(case) -> Int] : old = h.score
      BY <2>3
    <3>3. [old EXCEPT ![0] = z] \in [Inner(case) -> Int]
      OBVIOUS
    <3>4. QED BY <3>1, <3>2, <3>3
  <2>6. PICK hist \in [Inner(case) -> Int] : hist = [h.hist EXCEPT ![0] = None]
    BY <2>3, <2>4
  <2>7. g = [score |-> score, hist |-> hist, out |-> h.out, outHist |-> h.outHist, best |-> h.best,
             frame |-> 0]
    BY <1>7, <2>1, <2>2, <2>5, <2>6 DEF Entering, HmmRec
  <2>8. g \in HmmRec(case)
    <3>1. 0 \in Int
      OBVIOUS
    <3>2. QED BY <2>3, <2>4, <2>7, <3>1, MakeHmm
  <2>9. g.score = score /\ g.out = h.out
    BY <2>7, Zenon
  <2>10. Score(case, g, 0) = 0
    BY <2>3, <2>4, <2>5, <2>9 DEF Score
  <2>11. ASSUME NEW j \in 0 .. case.n, j # 0 PROVE Score(case, g, j) = WORST_SCORE
    <3>1. j # case.n => j \in Inner(case)
      BY <1>3 DEF Inner
    <3>2. QED BY <2>2, <2>3, <2>5, <2>9, <2>11, <3>1 DEF Score
  <2>12. WORST_SCORE < 0 /\ Loss * 0 = 0
    BY <1>1 DEF CaseFacts
  <2>13. \A j \in 0 .. case.n : j <= 0 => j = 0
    BY <1>3
  <2>14. QED BY <1>3, <2>8, <2>10, <2>11, <2>12, <2>13 DEF Floor, Reached
<1>9. pl_hmms' = [p \in CiPhones |-> g]
  BY <1>7 DEF Start
<1>10. LoopOK(Loss)'
  BY <1>2, <1>8, <1>9 DEF LoopOK
<1>11. QED BY <1>2, <1>5, <1>6, <1>10 DEF KwsInv

LEMMA ReinitInv ==
  ASSUME Tolerated = {}, NEW Loss \in Nat, \A c \in Cases : Modest(c, Loss), KwsInv(Loss), Reinit
  PROVE  KwsInv(Loss)'
<1>1. CaseFacts(case, Loss) /\ frame \in Nat
  BY CasesAre DEF KwsInv
<1>2. /\ frame' = frame /\ case' = case /\ detect_list' = detect_list /\ running' = running /\ ~running
      /\ pl_hmms' = FreshLoop(case) /\ hmms' = FreshPhrases(case)
  BY DEF Reinit, May
<1>3. LoopOK(Loss)' /\ ChainsOK'
  BY <1>1, <1>2, FreshOK DEF LoopOK, ChainsOK, Phrases, Length
<1>4. ASSUME NEW e \in Range(detect_list)
      PROVE  e.keyphrase \in Phrases /\ AllSince(case, FreshPhrases(case)[e.keyphrase], Length(e.keyphrase), e.sf)
  BY <1>1, FreshOK DEF KwsInv, ListOK
<1>5. ListOK'
  BY <1>2, <1>4 DEF KwsInv, ListOK, Phrases, Length
<1>6. QED BY <1>2, <1>3, <1>5 DEF KwsInv

LEMMA FinishInv ==
  ASSUME NEW Loss \in Nat, KwsInv(Loss), Finish \/ UNCHANGED vars
  PROVE  KwsInv(Loss)'
<1>1. /\ frame' = frame /\ case' = case /\ detect_list' = detect_list /\ pl_hmms' = pl_hmms /\ hmms' = hmms
      /\ running' = FALSE \/ running' = running
  BY DEF Finish, vars
<1>2. ChainsOK' /\ ListOK'
  BY <1>1, Zenon DEF KwsInv, ChainsOK, ListOK, Phrases, Length
<1>3. LoopOK(Loss)'
  <2>1. LoopOK(Loss)
    BY DEF KwsInv
  <2>2. CASE running' = running
    BY <1>1, <2>1, <2>2 DEF LoopOK
  <2>3. CASE running' = FALSE
    BY <1>1, <2>1, <2>3 DEF LoopOK
  <2>4. QED BY <1>1, <2>2, <2>3
<1>4. case' \in Cases /\ ~Skips(case') /\ frame' \in Nat /\ running' \in BOOLEAN
  BY <1>1 DEF KwsInv
<1>5. QED BY <1>2, <1>3, <1>4 DEF KwsInv

\* A frame in which nothing good leaves the loop, and one in which phrases are detected and begin.
LEMMA QuietInv ==
  ASSUME NEW Loss \in Nat, CaseFacts(case, Loss), NEW sound, SoundFacts(case, Loss, sound),
         KwsInv(Loss), Step(sound), OutOf(sound) <= WORST_SCORE
  PROVE  ChainsOK' /\ ListOK'
<1>1. /\ hmms' = Left(sound) /\ detect_list' = detect_list
      /\ frame' = frame + 1 /\ case' = case /\ frame \in Nat
  BY StepIs DEF KwsInv
<1>2. Left(sound) = [k \in Phrases |-> Left(sound)[k]]
  BY DEF Left
<1>3. ChainsOK /\ ListOK
  BY DEF KwsInv
<1>4. ASSUME NEW k \in Phrases
      PROVE  /\ ChainOK(case, Left(sound)[k], Length(k), frame + 1)
             /\ \A x \in Int : AllSince(case, hmms[k], Length(k), x) =>
                               AllSince(case, Left(sound)[k], Length(k), x)
  BY <1>1, <1>3, LeftMoved, LaterOK DEF ChainOK
<1>5. ChainsOK'
  BY <1>1, <1>2, <1>4 DEF ChainsOK, Phrases, Length
<1>6. Timed(detect_list, frame + 1)
  <2>1. \A i \in 1 .. Len(detect_list) : detect_list[i].ef \in Nat
    BY <1>3, LenProperties, SpotFields DEF ListOK
  <2>2. QED BY <1>1, <1>3, <2>1 DEF ListOK, Timed
<1>7. ASSUME NEW e \in Range(detect_list)
      PROVE  /\ e.keyphrase \in Phrases
             /\ AllSince(case, Left(sound)[e.keyphrase], Length(e.keyphrase), e.sf)
  <2>1. e \in Spots
    BY <1>3, LenProperties DEF ListOK, Range
  <2>2. e.sf \in Int
    BY <2>1, SpotFields
  <2>3. QED BY <1>3, <1>4, <2>2 DEF ListOK
<1>8. ListOK'
  BY <1>1, <1>3, <1>6, <1>7 DEF ListOK, Phrases, Length
<1>9. QED BY <1>5, <1>8

LEMMA SpottingInv ==
  ASSUME NEW Loss \in Nat, CaseFacts(case, Loss), NEW sound, SoundFacts(case, Loss, sound),
         KwsInv(Loss), Step(sound), OutOf(sound) > WORST_SCORE
  PROVE  ChainsOK' /\ ListOK'
<1>1. PICK out \in Int : out = OutOf(sound)
  BY OutIs, StepIs DEF KwsInv
<1>2. /\ detect_list' = Detected(Left(sound), out)
      /\ hmms' = [k \in Phrases |-> PhraseEntered(Left(sound)[k], out)]
      /\ frame' = frame + 1 /\ case' = case /\ frame \in Nat /\ frame < MaxFrames /\ running
  <2>1. ~(out <= WORST_SCORE) /\ WORST_SCORE \in Int
    BY <1>1 DEF CaseFacts
  <2>2. QED BY <1>1, <2>1, StepIs DEF KwsInv
<1>3. ChainsOK /\ ListOK /\ LoopOK(Loss)
  BY DEF KwsInv
<1>4. case.n \in Nat \ {0} /\ WORST_SCORE \in Int /\ out > WORST_SCORE
  BY <1>1 DEF CaseFacts
<1>5. ASSUME NEW k \in Phrases
      PROVE  /\ ChainOK(case, Left(sound)[k], Length(k), frame)
             /\ ChainOK(case, hmms'[k], Length(k), frame + 1)
             /\ \A x \in Int : AllSince(case, hmms[k], Length(k), x) =>
                               AllSince(case, Left(sound)[k], Length(k), x)
             /\ \A x \in Int : x <= frame /\ AllSince(case, Left(sound)[k], Length(k), x) =>
                               AllSince(case, hmms'[k], Length(k), x)
  <2>1. /\ ChainOK(case, Left(sound)[k], Length(k), frame)
        /\ \A x \in Int : AllSince(case, hmms[k], Length(k), x) =>
                          AllSince(case, Left(sound)[k], Length(k), x)
    BY <1>2, <1>3, LeftMoved
  <2>2. Length(k) \in Nat
    BY DEF CaseFacts, Phrases, Length
  <2>3. hmms'[k] = PhraseEntered(Left(sound)[k], out)
    BY <1>2
  <2>4. /\ ChainOK(case, hmms'[k], Length(k), frame + 1)
        /\ \A x \in Int : x <= frame /\ AllSince(case, Left(sound)[k], Length(k), x) =>
                          AllSince(case, hmms'[k], Length(k), x)
    BY <1>2, <1>4, <2>1, <2>2, <2>3, ChainEntered
  <2>5. QED BY <2>1, <2>4
<1>6. ChainsOK'
  <2>1. hmms' = [k \in Phrases |-> hmms'[k]]
    BY <1>2
  <2>2. QED BY <1>2, <1>5, <2>1 DEF ChainsOK, Phrases, Length
<1>7. /\ SpotsOK(Left(sound), out)
      /\ \A k \in Phrases : Spotted(Left(sound), out, k) =>
           AllSince(case, Left(sound)[k], Length(k), Detection(Left(sound), out, k).sf)
  BY <1>1, <1>2, <1>3, SpotsAre
<1>8. PICK N \in Nat : N = Len(case.keyphrases) /\ Phrases = 1 .. N
  BY DEF CaseFacts, Phrases
<1>9. detect_list \in Seq(Spots) /\ Timed(detect_list, frame) /\ InOrder(detect_list)
  BY <1>3 DEF ListOK
<1>10. PICK list : list = detect_list'
  OBVIOUS
<1>11. DetectedOK(Left(sound), out, N, list)
  BY <1>2, <1>7, <1>8, <1>9, <1>10, DetectedIs
<1>12. list \in Seq(Spots) /\ Timed(list, frame) /\ InOrder(list)
  BY <1>11 DEF DetectedOK
<1>13. Timed(list, frame + 1)
  <2>1. \A i \in 1 .. Len(list) : list[i].ef \in Nat
    BY <1>12, LenProperties, SpotFields
  <2>2. QED BY <1>2, <1>12, <2>1 DEF Timed
<1>14. ASSUME NEW e \in Range(list)
       PROVE  e.keyphrase \in Phrases /\ AllSince(case, hmms'[e.keyphrase], Length(e.keyphrase), e.sf)
  <2>1. e \in Spots
    BY <1>12, LenProperties DEF Range
  <2>2. PICK x \in Nat : x = e.sf
    BY <2>1, SpotFields
  <2>3. e.sf < frame /\ e.keyphrase \in Phrases
        /\ AllSince(case, Left(sound)[e.keyphrase], Length(e.keyphrase), e.sf)
    <3>1. CASE e \in Range(detect_list)
      <4>1. PICK i \in 1 .. Len(detect_list) : e = detect_list[i]
        BY <1>9, <3>1, LenProperties DEF Range
      <4>2. e.sf < e.ef /\ e.ef <= frame /\ e.ef \in Nat
        BY <1>9, <2>1, <4>1, SpotFields DEF Timed
      <4>3. e.keyphrase \in Phrases /\ AllSince(case, hmms[e.keyphrase], Length(e.keyphrase), x)
        BY <1>3, <2>2, <3>1 DEF ListOK
      <4>4. AllSince(case, Left(sound)[e.keyphrase], Length(e.keyphrase), x)
        BY <1>5, <4>3
      <4>5. QED BY <1>2, <2>2, <4>2, <4>3, <4>4
    <3>2. ASSUME NEW l \in 1 .. N, Spotted(Left(sound), out, l), e = Detection(Left(sound), out, l)
          PROVE  e.sf < frame /\ e.keyphrase = l /\ AllSince(case, Left(sound)[l], Length(l), e.sf)
      BY <1>7, <1>8, <3>2 DEF SpotsOK
    <3>3. QED BY <1>8, <1>11, <3>1, <3>2 DEF DetectedOK
  <2>4. x <= frame
    BY <1>2, <2>2, <2>3
  <2>5. QED BY <1>5, <2>2, <2>3, <2>4
<1>15. ListOK'
  BY <1>2, <1>10, <1>12, <1>13, <1>14 DEF ListOK, Phrases, Length
<1>16. QED BY <1>6, <1>15

LEMMA StepInv ==
  ASSUME NEW Loss \in Nat, \A c \in Cases : Modest(c, Loss), KwsInv(Loss),
         NEW sound \in Sounds, Step(sound)
  PROVE  KwsInv(Loss)'
<1>1. CaseFacts(case, Loss) /\ SoundFacts(case, Loss, sound)
  BY CasesAre DEF KwsInv
<1>2. frame' = frame + 1 /\ frame \in Nat /\ frame < MaxFrames /\ case' = case /\ running /\ running' = running
  BY StepIs DEF KwsInv
<1>3. PICK out \in Int : out = OutOf(sound)
  BY <1>1, <1>2, OutIs DEF KwsInv
<1>4. WORST_SCORE \in Int
  BY <1>1 DEF CaseFacts
<1>5. \A p \in CiPhones : /\ LoopEvaluated(sound)[p] \in HmmRec(case)
                          /\ Floor(case, LoopEvaluated(sound)[p])
                          /\ Reached(case, LoopEvaluated(sound)[p], frame + 1, Loss)
  BY <1>1, <1>2, LoopMoved DEF KwsInv
<1>6. CASE out <= WORST_SCORE
  <2>1. pl_hmms' = LoopEvaluated(sound)
    BY <1>3, <1>6, StepIs
  <2>2. LoopEvaluated(sound) = [p \in CiPhones |-> LoopEvaluated(sound)[p]]
    BY DEF LoopEvaluated
  <2>3. LoopOK(Loss)'
    BY <1>2, <1>5, <2>1, <2>2 DEF LoopOK
  <2>4. QED BY <1>1, <1>2, <1>3, <1>6, <2>3, QuietInv DEF KwsInv
<1>7. CASE out > WORST_SCORE
  <2>1. pl_hmms' = [p \in CiPhones |-> LoopEntered(LoopEvaluated(sound)[p], out)]
    BY <1>3, <1>4, <1>7, StepIs
  <2>2. ASSUME NEW p \in CiPhones
        PROVE  /\ pl_hmms'[p] \in HmmRec(case) /\ Floor(case, pl_hmms'[p])
               /\ Reached(case, pl_hmms'[p], frame + 1, Loss)
    BY <1>1, <1>2, <1>5, <2>1, LoopEnteredIs
  <2>3. LoopOK(Loss)'
    BY <1>2, <2>1, <2>2 DEF LoopOK
  <2>4. QED BY <1>1, <1>2, <1>3, <1>7, <2>3, SpottingInv DEF KwsInv
<1>8. QED BY <1>3, <1>4, <1>6, <1>7

LEMMA NextInv ==
  ASSUME Tolerated = {}, NEW Loss \in Nat, \A c \in Cases : Modest(c, Loss), KwsInv(Loss), [Next]_vars
  PROVE  KwsInv(Loss)'
BY StartInv, StepInv, FinishInv, ReinitInv DEF Next

\* ---- the theorems ----

THEOREM KwsInvariant ==
  ASSUME Tolerated = {}, NEW Loss \in Nat, \A c \in Cases : Modest(c, Loss)
  PROVE  Spec => []KwsInv(Loss)
<1>1. Init => KwsInv(Loss)
  BY InitInv
<1>2. KwsInv(Loss) /\ [Next]_vars => KwsInv(Loss)'
  BY NextInv
<1>3. QED BY <1>1, <1>2, PTL DEF Spec

\* A phrase is not detected twice in the same time (kws_detections_add compares a detection
\* with the first it overlaps only), whatever the phrases, their thresholds, the beam and the
\* sounds: where no state is skipped and the scores stay away from the worst.
THEOREM DetectionsAreDisjoint ==
  ASSUME Tolerated = {}, NEW Loss \in Nat, \A c \in Cases : Modest(c, Loss)
  PROVE  Spec => []DetectionsDisjoint
<1>1. KwsInv(Loss) => DetectionsDisjoint
  <2>1. SUFFICES ASSUME KwsInv(Loss) PROVE DetectionsDisjoint
    OBVIOUS
  <2>2. InOrder(detect_list) /\ DOMAIN detect_list = 1 .. Len(detect_list)
    BY <2>1, LenProperties DEF KwsInv, ListOK
  <2>3. QED BY <2>2 DEF DetectionsDisjoint, InOrder
<1>2. QED BY <1>1, KwsInvariant, PTL

\* A detection that has been in the hypothesis for kws_detections_hyp_str leaves it before
\* the end of the utterance only for one that is longer than the delay.
Kept ==
  running /\ running' =>
    \A d \in Hypothesis(detect_list) :
      d \in Hypothesis(detect_list)' \/
      \E e \in Range(detect_list') : e.ef = frame /\ Competes(d, e) /\ e.ef - e.sf > case.delay

LEMMA StepKeeps ==
  ASSUME NEW Loss \in Nat, \A c \in Cases : Modest(c, Loss), KwsInv(Loss),
         NEW sound \in Sounds, Step(sound)
  PROVE  Kept
<1>1. CaseFacts(case, Loss) /\ SoundFacts(case, Loss, sound)
  BY CasesAre DEF KwsInv
<1>2. frame' = frame + 1 /\ frame \in Nat /\ frame < MaxFrames /\ case' = case /\ running
  BY StepIs DEF KwsInv
<1>3. LoopOK(Loss) /\ ChainsOK /\ ListOK
  BY DEF KwsInv
<1>4. PICK delay \in Nat : delay = case.delay
  BY <1>1 DEF CaseFacts
<1>5. \A d \in Range(detect_list) : d.sf \in Nat /\ d.ef \in Nat
  BY <1>3, LenProperties, SpotFields DEF ListOK, Range
<1>6. ASSUME NEW d \in Hypothesis(detect_list), d \in Range(detect_list')
      PROVE  d \in Hypothesis(detect_list)'
  <2>1. d \in Range(detect_list) /\ d.ef < frame - delay
    BY <1>4, <1>6 DEF Hypothesis
  <2>2. d.ef < frame' - case'.delay
    BY <1>2, <1>4, <1>5, <2>1
  <2>3. QED BY <1>6, <2>2 DEF Hypothesis
<1>7. PICK out \in Int : out = OutOf(sound)
  BY <1>1, <1>2, <1>3, OutIs
<1>8. CASE out <= WORST_SCORE
  <2>1. detect_list' = detect_list
    BY <1>7, <1>8, StepIs
  <2>2. \A d \in Hypothesis(detect_list) : d \in Range(detect_list')
    BY <2>1 DEF Hypothesis
  <2>3. QED BY <1>6, <2>2 DEF Kept
<1>9. CASE ~(out <= WORST_SCORE)
  <2>1. detect_list' = Detected(Left(sound), out)
    BY <1>7, <1>9, StepIs
  <2>2. SpotsOK(Left(sound), out)
    <3>1. WORST_SCORE \in Int
      BY <1>1 DEF CaseFacts
    <3>2. OutOf(sound) > WORST_SCORE
      BY <1>7, <1>9, <3>1
    <3>3. QED BY <1>1, <1>2, <1>3, <1>7, <3>2, SpotsAre
  <2>3. PICK N \in Nat : N = Len(case.keyphrases)
    BY <1>1 DEF CaseFacts
  <2>4. DetectedOK(Left(sound), out, N, detect_list')
    BY <1>2, <1>3, <2>1, <2>2, <2>3, DetectedIs DEF ListOK
  <2>5. ASSUME NEW d \in Hypothesis(detect_list), d \notin Range(detect_list')
        PROVE  \E e \in Range(detect_list') : e.ef = frame /\ Competes(d, e) /\ e.ef - e.sf > case.delay
    <3>1. d \in Range(detect_list) /\ d.ef < frame - delay
      BY <1>4 DEF Hypothesis
    <3>2. PICK e \in Range(detect_list') : e.ef = frame /\ Competes(d, e)
      BY <2>4, <2>5, <3>1 DEF DetectedOK
    <3>3. e \in Spots
      BY <2>4, LenProperties DEF DetectedOK, Range
    <3>4. PICK x \in Nat : x = e.sf
      BY <3>3, SpotFields
    <3>5. d.ef > x /\ d.ef \in Nat
      BY <1>5, <3>1, <3>2, <3>4 DEF Competes
    <3>6. frame - x > delay
      BY <1>2, <3>1, <3>5
    <3>7. QED BY <1>4, <3>2, <3>4, <3>6
  <2>6. QED BY <1>6, <2>5 DEF Kept
<1>10. QED BY <1>8, <1>9

THEOREM HypothesisIsKept ==
  ASSUME Tolerated = {}, NEW Loss \in Nat, \A c \in Cases : Modest(c, Loss)
  PROVE  Spec => HypothesisStays
<1>1. KwsInv(Loss) /\ [Next]_vars => [Kept]_vars
  <2>1. SUFFICES ASSUME KwsInv(Loss), Next PROVE Kept
    OBVIOUS
  <2>2. CASE \E sound \in Sounds : Step(sound)
    BY <2>1, <2>2, StepKeeps
  <2>3. CASE Start \/ Finish \/ Reinit
    BY <2>3 DEF Start, Finish, Reinit, May, Kept
  <2>4. QED BY <2>1, <2>2, <2>3 DEF Next
<1>2. Spec => [][Kept]_vars
  BY <1>1, KwsInvariant, PTL DEF Spec
<1>3. QED BY <1>2 DEF HypothesisStays, Kept

=============================================================================
