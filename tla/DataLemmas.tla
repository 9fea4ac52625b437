----------------------------- MODULE DataLemmas -----------------------------
(***************************************************************************)
(* Facts about the data the models are made of, which mention no variable: *)
(* induction in a form that takes sets (the library's theorem on minimal   *)
(* elements of a well-founded relation, put to use for the naturals, for   *)
(* finite sets and for sorting), the ends and the pieces of a sequence,    *)
(* queues whose items each stand for a set of numbers, and lists of        *)
(* versions that name their parents.  The other proofs cite them.          *)
(***************************************************************************)
EXTENDS Integers, Sequences, FiniteSets, FiniteSetsExt, Functions, FunctionTheorems,
        FiniteSetTheorems, SequenceTheorems, WellFoundedInduction, TLAPS

Less == OpToRel(<, Nat)

(* What Less relates.                                                        *)
LEMMA LessPairs == \A k, m \in Nat : k < m => <<k, m>> \in Less
  BY DEF Less, OpToRel

(* A set of naturals that is not empty has a least element.                  *)
LEMMA LeastNatural ==
  ASSUME NEW T \in SUBSET Nat, T # {}
  PROVE  \E m \in T : \A k \in T : m <= k
  <1>1. IsWellFoundedOn(Less, Nat)
    BY NatLessThanWellFounded DEF Less
  <1>2. PICK m \in T : \A k \in T : ~(<<k, m>> \in Less)
    BY <1>1, WFMin
  <1>3. \A k \in T : ~(k < m)
    BY <1>2, LessPairs
  <1> QED
    BY <1>3

(* ... and, when it is bounded, a greatest one.                              *)
LEMMA GreatestNatural ==
  ASSUME NEW T \in SUBSET Nat, T # {}, NEW n \in Nat, \A k \in T : k <= n
  PROVE  \E m \in T : \A k \in T : k <= m
  <1> DEFINE Below == {n - k : k \in T}
  <1>1. Below \in SUBSET Nat /\ Below # {}
    <2>1. \A k \in T : n - k \in Nat
      OBVIOUS
    <2>2. PICK k \in T : TRUE
      OBVIOUS
    <2>3. n - k \in Below
      BY <2>2
    <2> QED
      BY <2>1, <2>3
  <1>2. PICK d \in Below : \A b \in Below : d <= b
    BY <1>1, LeastNatural
  <1>3. n - d \in T /\ d \in Nat
    BY <1>1
  <1>4. \A k \in T : d <= n - k /\ k \in Nat
    BY <1>2
  <1> QED
    BY <1>3, <1>4

(* Min and Max are what their names say.                                     *)
LEMMA MinIsLeast ==
  ASSUME NEW T \in SUBSET Nat, T # {}
  PROVE  Min(T) \in T /\ \A k \in T : Min(T) <= k
  BY LeastNatural DEF Min

(* A bounded set of naturals that is not empty: Max is in it, and above it.  *)
LEMMA MaxIsGreatest ==
  ASSUME NEW T \in SUBSET Nat, T # {}, NEW n \in Nat, \A k \in T : k <= n
  PROVE  Max(T) \in T /\ \A k \in T : k <= Max(T)
  <1>1. \E m \in T : \A k \in T : k <= m
    BY GreatestNatural
  <1>2. \E m \in T : \A k \in T : m >= k
    BY <1>1
  <1> QED
    BY <1>2 DEF Max

(* Induction over 0 .. n, F being the numbers for which the claim holds.     *)
LEMMA StepByStep ==
  ASSUME NEW n \in Nat, NEW F, 0 \in F, \A k \in 0 .. n - 1 : k \in F => k + 1 \in F
  PROVE  0 .. n \subseteq F
  <1> DEFINE Bad == {k \in 0 .. n : k \notin F}
  <1>1. SUFFICES ASSUME Bad # {} PROVE FALSE
    OBVIOUS
  <1>2. Bad \in SUBSET Nat
    OBVIOUS
  <1>3. PICK m \in Bad : \A k \in Bad : m <= k
    BY <1>1, <1>2, LeastNatural
  <1>4. m - 1 \in 0 .. n - 1 /\ m - 1 \in F
    BY <1>3
  <1> QED
    BY <1>3, <1>4

(* Induction over 1 .. n, the claim being known of all smaller numbers.      *)
LEMMA FromBelow ==
  ASSUME NEW n \in Nat, NEW F, \A m \in 1 .. n : (\A k \in 1 .. m - 1 : k \in F) => m \in F
  PROVE  1 .. n \subseteq F
  <1> DEFINE Bad == {k \in 1 .. n : k \notin F}
  <1>1. SUFFICES ASSUME Bad # {} PROVE FALSE
    OBVIOUS
  <1>2. Bad \in SUBSET Nat
    OBVIOUS
  <1>3. PICK m \in Bad : \A k \in Bad : m <= k
    BY <1>1, <1>2, LeastNatural
  <1>4. \A k \in 1 .. m - 1 : k \in F
    BY <1>3
  <1> QED
    BY <1>3, <1>4

(* A step taken n times from a: the function that a recursive definition over*)
(* 0 .. n chooses.                                                           *)
LEMMA Iterates ==
  ASSUME NEW n \in Nat, NEW S, NEW a \in S, NEW step \in [S -> S]
  PROVE  \E f \in [0 .. n -> S] : f[0] = a /\ \A k \in 1 .. n : f[k] = step[f[k - 1]]
  <1> DEFINE Upto(m) == \E f \in [0 .. m -> S] : f[0] = a /\ \A k \in 1 .. m : f[k] = step[f[k - 1]]
             F == {m \in 0 .. n : Upto(m)}
  <1>1. 0 \in F
    <2>1. [k \in 0 .. 0 |-> a] \in [0 .. 0 -> S] /\ [k \in 0 .. 0 |-> a][0] = a
      OBVIOUS
    <2>2. \A k \in 1 .. 0 : FALSE
      OBVIOUS
    <2>3. Upto(0)
      BY <2>1, <2>2
    <2> QED
      BY <2>3
  <1>2. ASSUME NEW m \in 0 .. n - 1, m \in F PROVE m + 1 \in F
    <2>1. PICK f \in [0 .. m -> S] : f[0] = a /\ \A k \in 1 .. m : f[k] = step[f[k - 1]]
      BY <1>2
    <2> DEFINE g == [k \in 0 .. m + 1 |-> IF k = m + 1 THEN step[f[m]] ELSE f[k]]
    <2>2. g \in [0 .. m + 1 -> S] /\ g[0] = a
      BY <2>1
    <2>3. ASSUME NEW k \in 1 .. m + 1 PROVE g[k] = step[g[k - 1]]
      <3>1. CASE k = m + 1
        BY <3>1
      <3>2. CASE k \in 1 .. m
        BY <2>1, <3>2
      <3> QED
        BY <3>1, <3>2
    <2>4. m + 1 \in 0 .. n
      OBVIOUS
    <2> QED
      BY <2>2, <2>3, <2>4
  <1> HIDE DEF F
  <1>3. n \in F
    BY <1>1, <1>2, StepByStep
  <1> QED
    BY <1>3 DEF F

(* A finite set with a strict total order R can be listed in that order.     *)
LEMMA SortedList ==
  ASSUME NEW S, IsFiniteSet(S), NEW R,
         \A x \in S : <<x, x>> \notin R,
         \A x, y, z \in S : <<x, y>> \in R /\ <<y, z>> \in R => <<x, z>> \in R,
         \A x, y \in S : x # y => <<x, y>> \in R \/ <<y, x>> \in R
  PROVE  \E f \in [1 .. Cardinality(S) -> S] :
            \A i, j \in 1 .. Cardinality(S) : i < j => <<f[i], f[j]>> \in R
  <1> DEFINE n == Cardinality(S)
             Before(x) == {y \in S : <<y, x>> \in R}
             rank == [x \in S |-> Cardinality(Before(x)) + 1]
  <1>1. n \in Nat
    BY FS_CardinalityType
  <1>2. \A x \in S : IsFiniteSet(Before(x)) /\ Cardinality(Before(x)) \in 0 .. n - 1
    <2> SUFFICES ASSUME NEW x \in S
                 PROVE  IsFiniteSet(Before(x)) /\ Cardinality(Before(x)) \in 0 .. n - 1
      OBVIOUS
    <2>1. Before(x) \in SUBSET S /\ Before(x) # S
      OBVIOUS
    <2>2. IsFiniteSet(Before(x)) /\ Cardinality(Before(x)) <= n /\ Cardinality(Before(x)) # n
      BY <2>1, FS_Subset
    <2> QED
      BY <1>1, <2>2, FS_CardinalityType
  <1>3. ASSUME NEW x \in S, NEW y \in S, <<x, y>> \in R
        PROVE  rank[x] < rank[y]
    <2>1. Before(x) \in SUBSET Before(y) /\ Before(x) # Before(y)
      BY <1>3
    <2>2. Cardinality(Before(x)) <= Cardinality(Before(y)) /\ Cardinality(Before(x)) # Cardinality(Before(y))
      BY <1>2, <2>1, FS_Subset
    <2> HIDE DEF Before
    <2> QED
      BY <1>1, <1>2, <2>2
  <1>4. rank \in Injection(S, 1 .. n)
    <2> HIDE DEF Before
    <2>1. rank \in [S -> 1 .. n]
      BY <1>1, <1>2
    <2> HIDE DEF rank
    <2>2. \A x, y \in S : rank[x] = rank[y] => x = y
      <3> SUFFICES ASSUME NEW x \in S, NEW y \in S, rank[x] = rank[y], x # y
                   PROVE  FALSE
        OBVIOUS
      <3>1. rank[x] \in Int /\ ~(rank[x] < rank[y]) /\ ~(rank[y] < rank[x])
        BY <1>1, <2>1
      <3> QED
        BY <1>3, <3>1
    <2> HIDE DEF rank
    <2> QED
      BY <2>1, <2>2 DEF Injection, IsInjective
  <1>5. IsFiniteSet(1 .. n) /\ Cardinality(1 .. n) = n
    BY <1>1, FS_Interval
  <1> HIDE DEF rank
  <1>6. rank \in Surjection(S, 1 .. n)
    BY <1>4, <1>5, FS_Injection
  <1> DEFINE f == [k \in 1 .. n |-> CHOOSE x \in S : rank[x] = k]
  <1>7. \A k \in 1 .. n : f[k] \in S /\ rank[f[k]] = k
    BY <1>6 DEF Surjection
  <1>8. ASSUME NEW i \in 1 .. n, NEW j \in 1 .. n, i < j
        PROVE  <<f[i], f[j]>> \in R
    <2>1. f[i] # f[j]
      BY <1>7, <1>8
    <2>2. ~(<<f[j], f[i]>> \in R)
      BY <1>1, <1>3, <1>7, <1>8
    <2> HIDE DEF f
    <2> QED
      BY <1>7, <2>1, <2>2
  <1>9. f \in [1 .. n -> S]
    BY <1>7
  <1> HIDE DEF f
  <1> QED
    BY <1>8, <1>9

-----------------------------------------------------------------------------
(* Sequences                                                               *)

(* What a concatenation holds, by place.                                   *)
LEMMA ConcatFacts ==
  ASSUME NEW S, NEW q \in Seq(S), NEW r \in Seq(S)
  PROVE  /\ q \o r \in Seq(S) /\ Len(q \o r) = Len(q) + Len(r) /\ Len(q) \in Nat /\ Len(r) \in Nat
         /\ \A i \in 1 .. Len(q) : (q \o r)[i] = q[i]
         /\ \A i \in 1 .. Len(r) : (q \o r)[Len(q) + i] = r[i]
OBVIOUS

(* What is left of a sequence without its head.                            *)
LEMMA TailFacts ==
  ASSUME NEW S, NEW q \in Seq(S), q # <<>>
  PROVE  /\ Tail(q) \in Seq(S) /\ Len(q) \in Nat \ {0} /\ Len(Tail(q)) = Len(q) - 1
         /\ Head(q) = q[1] /\ Head(q) \in S
         /\ \A i \in 1 .. Len(q) - 1 : Tail(q)[i] = q[i + 1]
OBVIOUS

(* What a sequence with one more item holds.                               *)
LEMMA AppendFacts ==
  ASSUME NEW S, NEW q \in Seq(S), NEW x \in S
  PROVE  /\ Append(q, x) \in Seq(S) /\ Len(Append(q, x)) = Len(q) + 1 /\ Len(q) \in Nat
         /\ \A i \in 1 .. Len(q) : Append(q, x)[i] = q[i]
         /\ Append(q, x)[Len(q) + 1] = x
OBVIOUS

(* Length, domain and members of a sequence.                               *)
LEMMA SeqFacts ==
  ASSUME NEW S, NEW q \in Seq(S)
  PROVE  Len(q) \in Nat /\ DOMAIN q = 1 .. Len(q) /\ \A i \in 1 .. Len(q) : q[i] \in S
OBVIOUS

(* A sequence of one.                                                      *)
LEMMA OneFacts ==
  ASSUME NEW S, NEW x \in S
  PROVE  <<x>> \in Seq(S) /\ Len(<<x>>) = 1 /\ <<x>>[1] = x
OBVIOUS

(* A sequence of two.                                                      *)
LEMMA TwoFacts ==
  ASSUME NEW S, NEW x \in S, NEW y \in S
  PROVE  <<x, y>> \in Seq(S) /\ Len(<<x, y>>) = 2 /\ <<x, y>>[1] = x /\ <<x, y>>[2] = y
OBVIOUS

(* Each item of a concatenation is one of its parts.                       *)
LEMMA ConcatMembers ==
  ASSUME NEW S, NEW q \in Seq(S), NEW r \in Seq(S)
  PROVE  /\ q \o r \in Seq(S) /\ Len(q) \in Nat /\ Len(r) \in Nat
         /\ DOMAIN q = 1 .. Len(q) /\ DOMAIN r = 1 .. Len(r) /\ DOMAIN (q \o r) = 1 .. Len(q) + Len(r)
         /\ \A i \in DOMAIN (q \o r) : \/ i \in DOMAIN q /\ (q \o r)[i] = q[i]
                                       \/ \E j \in DOMAIN r : i = Len(q) + j /\ (q \o r)[i] = r[j]
         /\ \A i \in DOMAIN q : i \in DOMAIN (q \o r) /\ (q \o r)[i] = q[i]
         /\ \A j \in DOMAIN r : Len(q) + j \in DOMAIN (q \o r) /\ (q \o r)[Len(q) + j] = r[j]
<1>1. /\ q \o r \in Seq(S) /\ Len(q) \in Nat /\ Len(r) \in Nat /\ Len(q \o r) = Len(q) + Len(r)
      /\ DOMAIN q = 1 .. Len(q) /\ DOMAIN r = 1 .. Len(r)
  OBVIOUS
<1>2. DOMAIN (q \o r) = 1 .. Len(q) + Len(r)
  BY <1>1
<1>3. \A i \in DOMAIN q : i \in DOMAIN (q \o r) /\ (q \o r)[i] = q[i]
  BY <1>1, <1>2
<1>4. \A j \in DOMAIN r : Len(q) + j \in DOMAIN (q \o r) /\ (q \o r)[Len(q) + j] = r[j]
  BY <1>1, <1>2, ConcatFacts
<1>5. ASSUME NEW i \in DOMAIN (q \o r), i \notin DOMAIN q
      PROVE  \E j \in DOMAIN r : i = Len(q) + j /\ (q \o r)[i] = r[j]
  <2>1. i - Len(q) \in DOMAIN r /\ i = Len(q) + (i - Len(q))
    BY <1>1, <1>2, <1>5
  <2> QED BY <1>4, <2>1
<1> QED BY <1>1, <1>2, <1>3, <1>4, <1>5

(* Each item of the tail is one of the sequence.                           *)
LEMMA TailMembers ==
  ASSUME NEW S, NEW q \in Seq(S), q # <<>>
  PROVE  /\ Tail(q) \in Seq(S) /\ Len(q) \in Nat \ {0} /\ DOMAIN q = 1 .. Len(q)
         /\ DOMAIN Tail(q) = 1 .. Len(q) - 1
         /\ \A i \in DOMAIN Tail(q) : i + 1 \in DOMAIN q /\ Tail(q)[i] = q[i + 1]
         /\ \A i \in DOMAIN q \ {1} : i - 1 \in DOMAIN Tail(q) /\ Tail(q)[i - 1] = q[i]
         /\ 1 \in DOMAIN q /\ Head(q) = q[1]
<1>1. /\ Tail(q) \in Seq(S) /\ Len(q) \in Nat \ {0} /\ DOMAIN q = 1 .. Len(q) /\ Head(q) = q[1]
      /\ Len(Tail(q)) = Len(q) - 1 /\ \A i \in 1 .. Len(q) - 1 : Tail(q)[i] = q[i + 1]
  BY TailFacts
<1>2. DOMAIN Tail(q) = 1 .. Len(q) - 1
  BY <1>1
<1>3. ASSUME NEW i \in DOMAIN q \ {1} PROVE i - 1 \in DOMAIN Tail(q) /\ Tail(q)[i - 1] = q[i]
  <2>1. i - 1 \in 1 .. Len(q) - 1 /\ (i - 1) + 1 = i
    BY <1>1
  <2> QED BY <1>1, <1>2, <2>1
<1>4. ASSUME NEW i \in DOMAIN Tail(q) PROVE i + 1 \in DOMAIN q /\ Tail(q)[i] = q[i + 1]
  BY <1>1, <1>2
<1> QED BY <1>1, <1>2, <1>3, <1>4

(* Append as a concatenation.                                              *)
LEMMA OneAppended ==
  ASSUME NEW S, NEW q \in Seq(S), NEW x \in S
  PROVE  Append(q, x) = q \o <<x>> /\ <<x>> \in Seq(S)
OBVIOUS

-----------------------------------------------------------------------------
(* Queues whose items stand for sets                                       *)

(* What the items of a queue stand for, val giving a set for each item.       *)
Whole(q, val) == UNION {val[q[i]] : i \in DOMAIN q}

Prior(q, val, n) == UNION {val[q[i]] : i \in {j \in DOMAIN q : j < n}}

Once(q, val) == \A i, j \in DOMAIN q : i # j => val[q[i]] \cap val[q[j]] = {}

(* The edits of its stream that come before an edit.                          *)
Lower(x) == {<<x[1], k>> : k \in 0 .. x[2] - 1}

(* No item of a queue of edits is ahead of the items before it and of base.   *)
Grounded(q, val, base) == \A p \in DOMAIN q : \A x \in val[q[p]] : Lower(x) \subseteq base
  \cup Prior(q, val, p)

(* Grounded on less is grounded on more.                                   *)
LEMMA GroundedMore ==
  ASSUME NEW q, NEW val, NEW a, NEW b, Grounded(q, val, a), a \subseteq b
  PROVE  Grounded(q, val, b)
BY DEF Grounded

(* Only the values of the items matter.                                    *)
LEMMA SameValues ==
  ASSUME NEW q, NEW v, NEW w, \A p \in DOMAIN q : v[q[p]] = w[q[p]]
  PROVE  Whole(q, v) = Whole(q, w) /\ \A b : Grounded(q, v, b) => Grounded(q, w, b)
<1>1. Whole(q, v) = Whole(q, w)
  BY DEF Whole
<1>2. \A p \in DOMAIN q : Prior(q, v, p) = Prior(q, w, p)
  BY DEF Prior
<1> QED BY <1>1, <1>2 DEF Grounded

(* An empty queue.                                                         *)
LEMMA NoItems == \A val : Whole(<<>>, val) = {} /\ Once(<<>>, val) /\ \A b : Grounded(<<>>, val, b)
<1>1. DOMAIN <<>> = {}
  OBVIOUS
<1> QED BY <1>1 DEF Whole, Once, Grounded

(* A queue of one.                                                         *)
LEMMA OneItem ==
  ASSUME NEW x, NEW val
  PROVE  Whole(<<x>>, val) = val[x] /\ Once(<<x>>, val)
<1>1. DOMAIN <<x>> = {1} /\ <<x>>[1] = x
  OBVIOUS
<1> QED BY <1>1 DEF Whole, Once

(* What two queues joined stand for.                                       *)
LEMMA WholeConcat ==
  ASSUME NEW S, NEW q \in Seq(S), NEW r \in Seq(S), NEW val
  PROVE  /\ Whole(q \o r, val) = Whole(q, val) \cup Whole(r, val)
         /\ Once(q, val) /\ Once(r, val) /\ Whole(q, val) \cap Whole(r, val) = {} => Once(q \o r, val)
<1>1. PICK c, n : c = q \o r /\ n = Len(q)
  OBVIOUS
<1>2. /\ n \in Nat /\ DOMAIN q = 1 .. n
      /\ \A i \in DOMAIN c : (i \in DOMAIN q /\ c[i] = q[i]) \/ \E j \in DOMAIN r : i = n + j /\ c[i] = r[j]
      /\ \A i \in DOMAIN q : i \in DOMAIN c /\ c[i] = q[i]
      /\ \A j \in DOMAIN r : n + j \in DOMAIN c /\ c[n + j] = r[j]
  BY <1>1, ConcatMembers
<1>3. Whole(c, val) = Whole(q, val) \cup Whole(r, val)
  <2>1. Whole(c, val) \subseteq Whole(q, val) \cup Whole(r, val)
    BY <1>2 DEF Whole
  <2>2. Whole(q, val) \subseteq Whole(c, val)
    BY <1>2 DEF Whole
  <2>3. Whole(r, val) \subseteq Whole(c, val)
    BY <1>2 DEF Whole
  <2> QED BY <2>1, <2>2, <2>3
<1>4. ASSUME Once(q, val), Once(r, val), Whole(q, val) \cap Whole(r, val) = {} PROVE Once(c, val)
  <2> SUFFICES ASSUME NEW i \in DOMAIN c, NEW j \in DOMAIN c, i # j PROVE val[c[i]] \cap val[c[j]] = {}
    BY DEF Once
  <2>1. \A k \in DOMAIN q : val[q[k]] \subseteq Whole(q, val)
    BY DEF Whole
  <2>2. \A k \in DOMAIN r : val[r[k]] \subseteq Whole(r, val)
    BY DEF Whole
  <2>3. CASE i \in DOMAIN q /\ c[i] = q[i]
    <3>1. CASE j \in DOMAIN q /\ c[j] = q[j]
      BY <1>4, <2>3, <3>1 DEF Once
    <3>2. CASE \E k \in DOMAIN r : j = n + k /\ c[j] = r[k]
      BY <1>4, <2>1, <2>2, <2>3, <3>2
    <3> QED BY <1>2, <3>1, <3>2
  <2>4. CASE \E k \in DOMAIN r : i = n + k /\ c[i] = r[k]
    <3>1. PICK k \in DOMAIN r : i = n + k /\ c[i] = r[k]
      BY <2>4
    <3>2. CASE j \in DOMAIN q /\ c[j] = q[j]
      BY <1>4, <2>1, <2>2, <3>1, <3>2
    <3>3. CASE \E l \in DOMAIN r : j = n + l /\ c[j] = r[l]
      <4>1. PICK l \in DOMAIN r : j = n + l /\ c[j] = r[l]
        BY <3>3
      <4>2. k # l
        BY <3>1, <4>1
      <4> QED BY <1>4, <3>1, <4>1, <4>2 DEF Once
    <3> QED BY <1>2, <3>2, <3>3
  <2> QED BY <1>2, <2>3, <2>4
<1> QED BY <1>1, <1>3, <1>4

(* Grounded queues joined.                                                 *)
LEMMA GroundedConcat ==
  ASSUME NEW S, NEW q \in Seq(S), NEW r \in Seq(S), NEW val, NEW b,
         Grounded(q, val, b), Grounded(r, val, b \cup Whole(q, val))
  PROVE  Grounded(q \o r, val, b)
<1>1. PICK c, n : c = q \o r /\ n = Len(q)
  OBVIOUS
<1>2. /\ n \in Nat /\ DOMAIN q = 1 .. n
      /\ \A i \in DOMAIN c : (i \in DOMAIN q /\ c[i] = q[i]) \/ \E j \in DOMAIN r : i = n + j /\ c[i] = r[j]
      /\ \A i \in DOMAIN q : i \in DOMAIN c /\ c[i] = q[i]
      /\ \A j \in DOMAIN r : n + j \in DOMAIN c /\ c[n + j] = r[j]
  BY <1>1, ConcatMembers
<1> DOMAIN r = 1 .. Len(r) /\ Len(r) \in Nat
  BY SeqFacts
<1>3. ASSUME NEW p \in DOMAIN q PROVE Prior(q, val, p) \subseteq Prior(c, val, p)
  BY <1>2 DEF Prior
<1>4. ASSUME NEW p \in DOMAIN r PROVE Whole(q, val) \cup Prior(r, val, p) \subseteq Prior(c, val, n + p)
  <2>1. \A i \in DOMAIN q : i \in DOMAIN c /\ i < n + p /\ c[i] = q[i]
    BY <1>2
  <2>2. \A i \in DOMAIN r : i < p => n + i \in DOMAIN c /\ n + i < n + p /\ c[n + i] = r[i]
    BY <1>2
  <2>3. Whole(q, val) \subseteq Prior(c, val, n + p)
    BY <2>1 DEF Whole, Prior
  <2>4. Prior(r, val, p) \subseteq Prior(c, val, n + p)
    BY <2>2 DEF Prior
  <2> QED BY <2>3, <2>4
<1>5. Grounded(c, val, b)
  <2> SUFFICES ASSUME NEW p \in DOMAIN c, NEW x \in val[c[p]] PROVE Lower(x) \subseteq b \cup Prior(c, val, p)
    BY DEF Grounded
  <2>1. CASE p \in DOMAIN q /\ c[p] = q[p]
    BY <1>3, <2>1 DEF Grounded
  <2>2. CASE \E j \in DOMAIN r : p = n + j /\ c[p] = r[j]
    BY <1>4, <2>2 DEF Grounded
  <2> QED BY <1>2, <2>1, <2>2
<1> QED BY <1>1, <1>5

(* What a queue without its head stands for.                               *)
LEMMA WholeTail ==
  ASSUME NEW S, NEW q \in Seq(S), q # <<>>, NEW val
  PROVE  /\ Whole(q, val) = val[q[1]] \cup Whole(Tail(q), val)
         /\ Once(q, val) => Once(Tail(q), val) /\ val[q[1]] \cap Whole(Tail(q), val) = {}
<1>1. PICK c : c = Tail(q)
  OBVIOUS
<1>2. /\ 1 \in DOMAIN q /\ Len(q) \in Nat /\ DOMAIN q = 1 .. Len(q) /\ DOMAIN c = 1 .. Len(q) - 1
      /\ \A i \in DOMAIN c : i + 1 \in DOMAIN q /\ c[i] = q[i + 1]
      /\ \A i \in DOMAIN q \ {1} : i - 1 \in DOMAIN c /\ c[i - 1] = q[i]
  BY <1>1, TailMembers
<1>3. Whole(q, val) = val[q[1]] \cup Whole(c, val)
  <2>1. Whole(q, val) \subseteq val[q[1]] \cup Whole(c, val)
    BY <1>2 DEF Whole
  <2>2. Whole(c, val) \subseteq Whole(q, val)
    BY <1>2 DEF Whole
  <2>3. val[q[1]] \subseteq Whole(q, val)
    BY <1>2 DEF Whole
  <2> QED BY <2>1, <2>2, <2>3
<1>4. ASSUME Once(q, val) PROVE Once(c, val) /\ val[q[1]] \cap Whole(c, val) = {}
  <2>1. \A i \in DOMAIN c : i + 1 # 1
    BY <1>2
  <2>2. \A i, j \in DOMAIN c : i # j => i + 1 # j + 1
    BY <1>2
  <2>3. Once(c, val)
    BY <1>2, <1>4, <2>2 DEF Once
  <2>4. \A i \in DOMAIN c : val[q[1]] \cap val[c[i]] = {}
    BY <1>2, <1>4, <2>1 DEF Once
  <2> QED BY <2>3, <2>4 DEF Whole
<1> QED BY <1>1, <1>3, <1>4

(* A grounded queue without its head.                                      *)
LEMMA GroundedTail ==
  ASSUME NEW S, NEW q \in Seq(S), q # <<>>, NEW val, NEW b, Grounded(q, val, b)
  PROVE  Grounded(Tail(q), val, b \cup val[q[1]]) /\ \A x \in val[q[1]] : Lower(x) \subseteq b
<1>1. PICK c : c = Tail(q)
  OBVIOUS
<1>2. /\ 1 \in DOMAIN q /\ Len(q) \in Nat /\ DOMAIN q = 1 .. Len(q) /\ DOMAIN c = 1 .. Len(q) - 1
      /\ \A i \in DOMAIN c : i + 1 \in DOMAIN q /\ c[i] = q[i + 1]
      /\ \A i \in DOMAIN q \ {1} : i - 1 \in DOMAIN c /\ c[i - 1] = q[i]
  BY <1>1, TailMembers
<1>3. ASSUME NEW p \in DOMAIN c PROVE Prior(q, val, p + 1) \subseteq val[q[1]] \cup Prior(c, val, p)
  <2>1. \A i \in DOMAIN q : i < p + 1 => i = 1 \/ (i - 1 \in DOMAIN c /\ i - 1 < p /\ c[i - 1] = q[i])
    BY <1>2
  <2> QED BY <2>1 DEF Prior
<1>4. Grounded(c, val, b \cup val[q[1]])
  BY <1>2, <1>3 DEF Grounded
<1>5. Prior(q, val, 1) = {}
  <2>1. \A i \in DOMAIN q : ~(i < 1)
    BY <1>2
  <2> QED BY <2>1 DEF Prior
<1> QED BY <1>1, <1>2, <1>4, <1>5 DEF Grounded

(* A queue of one that is grounded.                                        *)
LEMMA OneGrounded ==
  ASSUME NEW x, NEW val, NEW b, \A y \in val[x] : Lower(y) \subseteq b
  PROVE  Grounded(<<x>>, val, b)
<1>1. DOMAIN <<x>> = {1} /\ <<x>>[1] = x
  OBVIOUS
<1> QED BY <1>1 DEF Grounded

(* In a grounded queue nothing is ahead of the whole.                      *)
LEMMA PriorIsPart ==
  ASSUME NEW q, NEW val, NEW b, Grounded(q, val, b)
  PROVE  \A x \in Whole(q, val) : Lower(x) \subseteq b \cup Whole(q, val)
<1>1. \A p \in DOMAIN q : Prior(q, val, p) \subseteq Whole(q, val)
  BY DEF Prior, Whole
<1>2. \A p \in DOMAIN q : \A x \in val[q[p]] : Lower(x) \subseteq b \cup Whole(q, val)
  BY <1>1 DEF Grounded
<1> QED BY <1>2 DEF Whole

(* A queue with one more item.                                             *)
LEMMA OneMoreItem ==
  ASSUME NEW S, NEW q \in Seq(S), NEW x \in S, NEW val
  PROVE  /\ Append(q, x) \in Seq(S) /\ Whole(Append(q, x), val) = Whole(q, val) \cup val[x]
         /\ \A b : Grounded(q, val, b) /\ (\A y \in val[x] : Lower(y) \subseteq b \cup Whole(q, val))
                     => Grounded(Append(q, x), val, b)
<1>1. PICK r : r = <<x>>
  OBVIOUS
<1>2. Append(q, x) = q \o r /\ r \in Seq(S) /\ Append(q, x) \in Seq(S)
  BY <1>1, OneAppended
<1>3. Whole(q \o r, val) = Whole(q, val) \cup Whole(r, val)
  BY <1>2, WholeConcat
<1>4. Whole(r, val) = val[x]
  BY <1>1, OneItem
<1>5. ASSUME NEW b, Grounded(q, val, b), \A y \in val[x] : Lower(y) \subseteq b \cup Whole(q, val)
      PROVE  Grounded(q \o r, val, b)
  <2>1. Grounded(r, val, b \cup Whole(q, val))
    BY <1>1, <1>5, OneGrounded
  <2> QED BY <1>2, <1>5, <2>1, GroundedConcat
<1> QED BY <1>2, <1>3, <1>4, <1>5

-----------------------------------------------------------------------------
(* Versions in a list                                                      *)

(* AncestorsIn, the list of versions being a parameter.                      *)
Forebears(vs, known, v) ==
    LET anc[w \in 1 .. Len(vs)] ==
            IF w \in known
            THEN vs[w].parents \cup UNION {anc[p] : p \in vs[w].parents}
            ELSE {}
    IN  anc[v]

(* A list of versions whose parents come earlier.                            *)
Ordered(vs) == Len(vs) \in Nat /\ \A v \in 1 .. Len(vs) : vs[v].parents \subseteq 1 .. v - 1

(* The recursive function is what it says.                                 *)
LEMMA AncestorsStep ==
  ASSUME NEW vs, Ordered(vs), NEW K, NEW w \in 1 .. Len(vs)
  PROVE  Forebears(vs, K, w) = IF w \in K THEN vs[w].parents
           \cup UNION {Forebears(vs, K, p) : p \in vs[w].parents}
                                          ELSE {}
<1>1. PICK n : n = Len(vs)
  OBVIOUS
<1>2. n \in Nat /\ \A v \in 1 .. n : vs[v].parents \subseteq 1 .. v - 1 /\ vs[v].parents \subseteq 1 .. n
  BY <1>1 DEF Ordered
<1> DEFINE Eq(f, v) == IF v \in K THEN vs[v].parents \cup UNION {f[p] : p \in vs[v].parents} ELSE {}
           Upto(m) == \E f \in [1 .. n -> SUBSET (1 .. n)] : \A v \in 1 .. m : f[v] = Eq(f, v)
           F == {m \in 0 .. n : Upto(m)}
<1>3. 0 \in F
  <2>1. PICK z : z = [v \in 1 .. n |-> {}]
    OBVIOUS
  <2>2. z \in [1 .. n -> SUBSET (1 .. n)] /\ \A v \in 1 .. 0 : FALSE
    BY <2>1
  <2> HIDE DEF Eq
  <2>3. Upto(0)
    BY <2>2
  <2>4. 0 \in 0 .. n
    BY <1>2
  <2> HIDE DEF Upto
  <2> QED BY <2>3, <2>4
<1>4. ASSUME NEW m \in 0 .. n - 1, m \in F PROVE m + 1 \in F
  <2>1. PICK f \in [1 .. n -> SUBSET (1 .. n)] : \A v \in 1 .. m : f[v] = Eq(f, v)
    BY <1>4
  <2>2. m + 1 \in 1 .. n /\ m + 1 \in 0 .. n
    BY <1>2
  <2> DEFINE g == [f EXCEPT ![m + 1] = Eq(f, m + 1)]
  <2>3. Eq(f, m + 1) \in SUBSET (1 .. n)
    BY <1>2, <2>1, <2>2
  <2>4. g \in [1 .. n -> SUBSET (1 .. n)] /\ g[m + 1] = Eq(f, m + 1)
          /\ \A v \in 1 .. n \ {m + 1} : g[v] = f[v]
    <3> HIDE DEF Eq
    <3> QED BY <2>1, <2>2, <2>3
  <2>5. ASSUME NEW v \in 1 .. m + 1 PROVE g[v] = Eq(g, v)
    <3>1. \A p \in vs[v].parents : p \in 1 .. n \ {m + 1}
      BY <1>2, <2>2
    <3>2. \A p \in vs[v].parents : g[p] = f[p]
      <4> HIDE DEF g
      <4> QED BY <2>4, <3>1
    <3>3. Eq(g, v) = Eq(f, v)
      <4> HIDE DEF g
      <4> QED BY <3>2
    <3>4. v = m + 1 \/ (v \in 1 .. m /\ v \in 1 .. n \ {m + 1})
      <4>1. n \in Nat /\ m \in 0 .. n - 1 /\ v \in 1 .. m + 1
        BY <1>2
      <4> QED BY <4>1
    <3> HIDE DEF g, Eq
    <3> QED BY <2>1, <2>4, <3>3, <3>4
  <2> HIDE DEF g, Eq
  <2>6. Upto(m + 1)
    BY <2>4, <2>5
  <2> QED BY <2>2, <2>6
<1>5. n \in F
  <2> HIDE DEF F
  <2>1. 0 .. n \subseteq F
    BY <1>2, <1>3, <1>4, StepByStep
  <2> QED BY <1>2, <2>1
<1>6. PICK f \in [1 .. n -> SUBSET (1 .. n)] : \A v \in 1 .. n : f[v] = Eq(f, v)
  BY <1>5
<1>7. f = [v \in 1 .. n |-> Eq(f, v)]
  <2> HIDE DEF Eq
  <2> QED BY <1>6
<1> DEFINE anc == CHOOSE h : h = [v \in 1 .. n |-> Eq(h, v)]
<1>8. anc = [v \in 1 .. n |-> Eq(anc, v)]
  BY <1>7
<1>9. \A v : Forebears(vs, K, v) = anc[v]
  BY <1>1 DEF Forebears
<1> HIDE DEF anc
<1>10. anc[w] = Eq(anc, w)
  <2> HIDE DEF Eq
  <2> QED BY <1>1, <1>8
<1> QED BY <1>9, <1>10

(* Forebears come earlier.                                                 *)
LEMMA AncestorsBelow ==
  ASSUME NEW vs, Ordered(vs), NEW K
  PROVE  \A w \in 1 .. Len(vs) : Forebears(vs, K, w) \subseteq 1 .. w - 1
<1>1. PICK n : n = Len(vs)
  OBVIOUS
<1>2. n \in Nat /\ \A v \in 1 .. n : vs[v].parents \subseteq 1 .. v - 1
  BY <1>1 DEF Ordered
<1> DEFINE F == {w \in 1 .. n : Forebears(vs, K, w) \subseteq 1 .. w - 1}
<1>3. ASSUME NEW m \in 1 .. n, \A k \in 1 .. m - 1 : k \in F PROVE m \in F
  <2>1. Forebears(vs, K, m) \subseteq vs[m].parents \cup UNION {Forebears(vs, K, p) : p \in vs[m].parents}
    BY <1>1, AncestorsStep
  <2>2. \A p \in vs[m].parents : p \in 1 .. m - 1 /\ p \in F
    BY <1>2, <1>3
  <2>3. \A p \in vs[m].parents : Forebears(vs, K, p) \subseteq 1 .. p - 1
    BY <2>2
  <2>4. \A p \in 1 .. m - 1 : 1 .. p - 1 \subseteq 1 .. m - 1
    OBVIOUS
  <2> QED BY <1>2, <2>1, <2>2, <2>3, <2>4
<1> HIDE DEF F
<1>4. 1 .. n \subseteq F
  BY <1>2, <1>3, FromBelow
<1> QED BY <1>1, <1>4 DEF F

(* Forebears of ancestors are ancestors, and each is a parent of someone.  *)
LEMMA AncestorsJoin ==
  ASSUME NEW vs, Ordered(vs), NEW K
  PROVE  \A w \in 1 .. Len(vs) : \A y \in Forebears(vs, K, w) :
            /\ Forebears(vs, K, y) \subseteq Forebears(vs, K, w)
            /\ \E u \in K \cap (1 .. Len(vs)) : y \in vs[u].parents
<1>1. PICK n : n = Len(vs)
  OBVIOUS
<1>2. n \in Nat /\ \A v \in 1 .. n : vs[v].parents \subseteq 1 .. v - 1
  BY <1>1 DEF Ordered
<1> DEFINE F == {w \in 1 .. n : \A y \in Forebears(vs, K, w) : /\ Forebears(vs, K, y) \subseteq Forebears(vs, K, w)
                                                              /\ \E u \in K \cap (1 .. n) : y \in vs[u].parents}
<1>3. ASSUME NEW m \in 1 .. n, \A k \in 1 .. m - 1 : k \in F PROVE m \in F
  <2> SUFFICES ASSUME NEW y \in Forebears(vs, K, m)
               PROVE  /\ Forebears(vs, K, y) \subseteq Forebears(vs, K, m)
                      /\ \E u \in K \cap (1 .. n) : y \in vs[u].parents
    OBVIOUS
  <2>1. Forebears(vs, K, m) = IF m \in K THEN vs[m].parents
          \cup UNION {Forebears(vs, K, p) : p \in vs[m].parents}
                                         ELSE {}
    BY <1>1, AncestorsStep
  <2>2. \A p \in vs[m].parents : p \in 1 .. m - 1 /\ p \in F
    BY <1>2, <1>3
  <2>3. m \in K /\ (y \in vs[m].parents \/ \E p \in vs[m].parents : y \in Forebears(vs, K, p))
    BY <2>1
  <2>4. CASE y \in vs[m].parents
    BY <2>1, <2>3, <2>4
  <2>5. CASE \E p \in vs[m].parents : y \in Forebears(vs, K, p)
    <3>1. PICK p \in vs[m].parents : y \in Forebears(vs, K, p)
      BY <2>5
    <3>2. /\ Forebears(vs, K, y) \subseteq Forebears(vs, K, p)
          /\ \E u \in K \cap (1 .. n) : y \in vs[u].parents
      BY <2>2, <3>1
    <3> QED BY <2>1, <2>3, <3>1, <3>2
  <2> QED BY <2>3, <2>4, <2>5
<1> HIDE DEF F
<1>4. 1 .. n \subseteq F
  BY <1>2, <1>3, FromBelow
<1> QED BY <1>1, <1>4 DEF F

(* Who knows more sees more ancestors.                                     *)
LEMMA AncestorsMore ==
  ASSUME NEW vs, Ordered(vs), NEW K, NEW L, K \subseteq L
  PROVE  \A w \in 1 .. Len(vs) : Forebears(vs, K, w) \subseteq Forebears(vs, L, w)
<1>1. PICK n : n = Len(vs)
  OBVIOUS
<1>2. n \in Nat /\ \A v \in 1 .. n : vs[v].parents \subseteq 1 .. v - 1
  BY <1>1 DEF Ordered
<1> DEFINE F == {w \in 1 .. n : Forebears(vs, K, w) \subseteq Forebears(vs, L, w)}
<1>3. ASSUME NEW m \in 1 .. n, \A k \in 1 .. m - 1 : k \in F PROVE m \in F
  <2>1. Forebears(vs, K, m) = IF m \in K THEN vs[m].parents
          \cup UNION {Forebears(vs, K, p) : p \in vs[m].parents}
                                         ELSE {}
    BY <1>1, AncestorsStep
  <2>2. Forebears(vs, L, m) = IF m \in L THEN vs[m].parents
          \cup UNION {Forebears(vs, L, p) : p \in vs[m].parents}
                                         ELSE {}
    BY <1>1, AncestorsStep
  <2>3. \A p \in vs[m].parents : Forebears(vs, K, p) \subseteq Forebears(vs, L, p)
    BY <1>2, <1>3
  <2> QED BY <2>1, <2>2, <2>3
<1> HIDE DEF F
<1>4. 1 .. n \subseteq F
  BY <1>2, <1>3, FromBelow
<1> QED BY <1>1, <1>4 DEF F

(* What is asked of a version closed under parents does not depend on the    *)
(* rest.                                                                    *)
LEMMA AncestorsSame ==
  ASSUME NEW vs, Ordered(vs), NEW ws, Ordered(ws), Len(vs) <= Len(ws), NEW K, NEW L, NEW C \in SUBSET (1 .. Len(vs)),
         \A w \in C : w \in K /\ w \in L /\ vs[w].parents \subseteq C /\ ws[w].parents = vs[w].parents
  PROVE  \A w \in C : Forebears(ws, L, w) = Forebears(vs, K, w)
<1>1. PICK n : n = Len(vs)
  OBVIOUS
<1>2. n \in Nat /\ \A v \in 1 .. n : vs[v].parents \subseteq 1 .. v - 1 /\ v \in 1 .. Len(ws)
  BY <1>1 DEF Ordered
<1> DEFINE F == {w \in 1 .. n : w \in C => Forebears(ws, L, w) = Forebears(vs, K, w)}
<1>3. ASSUME NEW m \in 1 .. n, \A k \in 1 .. m - 1 : k \in F PROVE m \in F
  <2>1. CASE m \in C
    <3>1. Forebears(vs, K, m) = vs[m].parents \cup UNION {Forebears(vs, K, p) : p \in vs[m].parents}
      BY <1>1, <2>1, AncestorsStep
    <3>2. Forebears(ws, L, m) = vs[m].parents \cup UNION {Forebears(ws, L, p) : p \in vs[m].parents}
      BY <1>2, <2>1, AncestorsStep
    <3>3. \A p \in vs[m].parents : Forebears(ws, L, p) = Forebears(vs, K, p)
      BY <1>2, <1>3, <2>1
    <3> QED BY <3>1, <3>2, <3>3
  <2> QED BY <2>1
<1> HIDE DEF F
<1>4. 1 .. n \subseteq F
  BY <1>2, <1>3, FromBelow
<1> QED BY <1>1, <1>4 DEF F
=============================================================================
