---------------------------- MODULE SumTheorems ----------------------------
(***************************************************************************)
(* What SumFunctionOnSet of the community modules adds up, for any finite  *)
(* set: facts about the bills and the collected bytes of TrafficStats.     *)
(* The induction is carried by the well-founded order of finite sets: a    *)
(* statement about all subsets holds if it has no smallest exception.      *)
(***************************************************************************)
EXTENDS Integers, FiniteSets, Functions, FiniteSetTheorems, TLAPS

(* The index the fold takes next.                                          *)
Pick(s) == CHOOSE x \in s : TRUE

(* h gives the sum of f over every subset of S.                            *)
Sums(h, f, S) ==
    /\ h \in [SUBSET S -> Int]
    /\ h[{}] = 0
    /\ \A s \in SUBSET S : s # {} => h[s] = f[Pick(s)] + h[s \ {Pick(s)}]

LEMMA PickIn ==
    ASSUME NEW s, s # {}
    PROVE  Pick(s) \in s /\ s \ {Pick(s)} # s /\ s \ {Pick(s)} \in SUBSET s
BY DEF Pick

(* Any collection of subsets of a finite set has a smallest one.           *)
LEMMA SmallestSubset ==
    ASSUME NEW S, IsFiniteSet(S), NEW T, T \subseteq SUBSET S, T # {}
    PROVE  \E s \in T : \A t \in SUBSET s : t # s => t \notin T
<1>1. FiniteSubsetsOf(S) = SUBSET S
  BY FS_FiniteSubsetsOfFinite
<1>2. PICK s \in T : \A t \in T : <<t, s>> \notin StrictSubsetOrdering(S)
  BY <1>1, FS_StrictSubsetOrderingWellFounded, WFMin
<1>3. ASSUME NEW t \in SUBSET s, t # s, t \in T PROVE FALSE
  <2>1. <<t, s>> \in (SUBSET S) \X (SUBSET S)
    BY <1>3
  <2>2. <<t, s>> \in StrictSubsetOrdering(S)
    BY <1>3, <2>1 DEF StrictSubsetOrdering
  <2>3. QED
    BY <1>2, <1>3, <2>2
<1>4. QED
  BY <1>3

(* Two such functions agree where both are defined.                        *)
LEMMA SumsAgree ==
    ASSUME NEW S, IsFiniteSet(S), NEW R \in SUBSET S, NEW f, NEW h, NEW g,
           Sums(h, f, S), Sums(g, f, R)
    PROVE  \A s \in SUBSET R : h[s] = g[s]
<1> DEFINE T == {s \in SUBSET R : h[s] # g[s]}
<1> SUFFICES ASSUME T # {} PROVE FALSE
  OBVIOUS
<1>1. PICK s \in T : \A t \in SUBSET s : t # s => t \notin T
  <2>1. IsFiniteSet(R) /\ T \subseteq SUBSET R
    BY FS_Subset
  <2> HIDE DEF T
  <2>2. QED
    BY <2>1, SmallestSubset
<1>2. s # {}
  BY DEF Sums
<1>3. /\ s \ {Pick(s)} \in SUBSET R
      /\ h[s \ {Pick(s)}] = g[s \ {Pick(s)}]
  BY <1>1, <1>2, PickIn
<1>4. h[s] = g[s]
  BY <1>2, <1>3 DEF Sums
<1>5. QED
  BY <1>4

(* There is such a function, built up along the subsets.                   *)
LEMMA SumsExist ==
    ASSUME NEW S, IsFiniteSet(S), NEW f, \A x \in S : f[x] \in Int
    PROVE  \E h : Sums(h, f, S)
<1> DEFINE T == {s \in SUBSET S : ~ \E h : Sums(h, f, s)}
           Part(t) == CHOOSE h : Sums(h, f, t)
<1> SUFFICES ASSUME T # {} PROVE FALSE
  OBVIOUS
<1>1. PICK s \in T : \A t \in SUBSET s : t # s => t \notin T
  <2>1. T \subseteq SUBSET S
    OBVIOUS
  <2> HIDE DEF T
  <2>2. QED
    BY <2>1, SmallestSubset
<1>2. ASSUME NEW t \in SUBSET s, t # s PROVE Sums(Part(t), f, t)
  BY <1>1, <1>2
<1>3. s # {}
  <2> SUFFICES Sums([t \in SUBSET {} |-> 0], f, {})
    OBVIOUS
  <2>1. QED
    BY DEF Sums
<1> DEFINE u == s \ {Pick(s)}
           h == [t \in SUBSET s |-> IF t = s THEN f[Pick(s)] + Part(u)[u] ELSE Part(t)[t]]
<1>4. u \in SUBSET s /\ u # s /\ f[Pick(s)] \in Int
  BY <1>1, <1>3, PickIn
<1> HIDE DEF Part, u
<1>5. h \in [SUBSET s -> Int]
  <2>1. ASSUME NEW t \in SUBSET s, t # s PROVE Part(t)[t] \in Int
    BY <1>2, <2>1 DEF Sums
  <2>2. Part(u)[u] \in Int
    BY <1>4, <2>1
  <2>3. QED
    BY <1>4, <2>1, <2>2
<1>6. h[{}] = 0
  BY <1>2, <1>3 DEF Sums
<1>7. ASSUME NEW t \in SUBSET s, t # {}
      PROVE  h[t] = f[Pick(t)] + h[t \ {Pick(t)}]
  <2> DEFINE v == t \ {Pick(t)}
  <2>1. v \in SUBSET t /\ v \in SUBSET s /\ v # s
    BY <1>7, PickIn
  <2>2. CASE t = s
    BY <1>4, <2>1, <2>2 DEF u
  <2>3. CASE t # s
    <3>1. IsFiniteSet(t)
      BY <1>1, FS_Subset
    <3>2. Part(t)[v] = Part(v)[v]
      BY <1>2, <2>1, <2>3, <3>1, SumsAgree
    <3>3. Part(t)[t] = f[Pick(t)] + Part(t)[v]
      BY <1>2, <1>7, <2>3 DEF Sums
    <3>4. QED
      BY <2>1, <2>3, <3>2, <3>3
  <2>4. QED
    BY <2>2, <2>3
<1>8. Sums(h, f, s)
  BY <1>5, <1>6, <1>7 DEF Sums
<1>9. QED
  BY <1>8

(* The fold of the community modules computes it.                          *)
LEMMA SumIs ==
    ASSUME NEW S, IsFiniteSet(S), NEW f, \A x \in S : f[x] \in Int
    PROVE  \E h : Sums(h, f, S) /\ SumFunctionOnSet(f, S) = h[S]
<1> DEFINE Step(g) == [s \in SUBSET S |-> IF s = {} THEN 0
                                          ELSE f[Pick(s)] + g[s \ {Pick(s)}]]
           iter == CHOOSE g : g = Step(g)
<1>1. PICK h : Sums(h, f, S)
  BY SumsExist
<1>2. h = Step(h)
  BY <1>1 DEF Sums
<1>3. iter = Step(iter)
  <2> HIDE DEF Step
  <2>1. QED
    BY <1>2, Zenon
<1>4. /\ iter[{}] = 0
      /\ \A s \in SUBSET S : s # {} => iter[s] = f[Pick(s)] + iter[s \ {Pick(s)}]
  <2> HIDE DEF iter
  <2>1. QED
    BY <1>3
<1>5. iter[S] = h[S]
  <2> HIDE DEF iter
  <2> DEFINE T == {s \in SUBSET S : iter[s] # h[s]}
  <2> SUFFICES ASSUME T # {} PROVE FALSE
    OBVIOUS
  <2>1. PICK s \in T : \A t \in SUBSET s : t # s => t \notin T
    <3>1. T \subseteq SUBSET S
      OBVIOUS
    <3> HIDE DEF T
    <3>2. QED
      BY <3>1, SmallestSubset
  <2>2. s # {}
    BY <1>1, <1>4 DEF Sums
  <2>3. iter[s \ {Pick(s)}] = h[s \ {Pick(s)}]
    BY <2>1, <2>2, PickIn
  <2>4. QED
    BY <1>1, <1>4, <2>1, <2>2, <2>3 DEF Sums
<1>6. SumFunctionOnSet(f, S) = iter[S]
  BY DEF SumFunctionOnSet, FoldFunctionOnSet, MapThenFoldSet, Pick
<1>7. QED
  BY <1>1, <1>5, <1>6

(* The sum over nothing is zero, any other is one value and the sum of the *)
(* rest.                                                                   *)
THEOREM SumUnfolds ==
    ASSUME NEW S, IsFiniteSet(S), NEW f, \A x \in S : f[x] \in Int
    PROVE  /\ SumFunctionOnSet(f, S) \in Int
           /\ S = {} => SumFunctionOnSet(f, S) = 0
           /\ S # {} => SumFunctionOnSet(f, S)
                          = f[Pick(S)] + SumFunctionOnSet(f, S \ {Pick(S)})
<1>1. PICK h : Sums(h, f, S) /\ SumFunctionOnSet(f, S) = h[S]
  BY SumIs
<1>2. SumFunctionOnSet(f, S) \in Int /\ (S = {} => SumFunctionOnSet(f, S) = 0)
  BY <1>1 DEF Sums
<1>3. ASSUME S # {}
      PROVE  SumFunctionOnSet(f, S) = f[Pick(S)] + SumFunctionOnSet(f, S \ {Pick(S)})
  <2> DEFINE R == S \ {Pick(S)}
  <2>1. R \in SUBSET S /\ IsFiniteSet(R)
    BY FS_Subset
  <2>2. PICK g : Sums(g, f, R) /\ SumFunctionOnSet(f, R) = g[R]
    BY <2>1, SumIs
  <2>3. h[R] = g[R]
    BY <1>1, <2>1, <2>2, SumsAgree
  <2>4. QED
    BY <1>1, <1>3, <2>2, <2>3 DEF Sums
<1>4. QED
  BY <1>2, <1>3

(* Larger values have no smaller sum.                                      *)
THEOREM SumMonotone ==
    ASSUME NEW S, IsFiniteSet(S), NEW f, NEW g,
           \A x \in S : f[x] \in Int /\ g[x] \in Int /\ f[x] <= g[x]
    PROVE  SumFunctionOnSet(f, S) <= SumFunctionOnSet(g, S)
<1> DEFINE T == {s \in SUBSET S : ~(SumFunctionOnSet(f, s) <= SumFunctionOnSet(g, s))}
<1> SUFFICES ASSUME T # {} PROVE FALSE
  OBVIOUS
<1>1. PICK s \in T : \A t \in SUBSET s : t # s => t \notin T
  <2>1. T \subseteq SUBSET S
    OBVIOUS
  <2> HIDE DEF T
  <2>2. QED
    BY <2>1, SmallestSubset
<1>2. IsFiniteSet(s) /\ \A x \in s : f[x] \in Int /\ g[x] \in Int /\ f[x] <= g[x]
  BY FS_Subset
<1>3. s # {}
  BY <1>2, SumUnfolds
<1> DEFINE r == s \ {Pick(s)}
<1>4. Pick(s) \in s /\ r \in SUBSET s /\ r # s /\ IsFiniteSet(r)
  BY <1>2, <1>3, PickIn, FS_Subset
<1>5. SumFunctionOnSet(f, r) <= SumFunctionOnSet(g, r)
  BY <1>1, <1>4
<1>6. SumFunctionOnSet(f, r) \in Int /\ SumFunctionOnSet(g, r) \in Int
  BY <1>2, <1>4, SumUnfolds
<1>7. /\ SumFunctionOnSet(f, s) = f[Pick(s)] + SumFunctionOnSet(f, r)
      /\ SumFunctionOnSet(g, s) = g[Pick(s)] + SumFunctionOnSet(g, r)
  BY <1>2, <1>3, SumUnfolds
<1>8. QED
  BY <1>2, <1>4, <1>5, <1>6, <1>7

(* When all values but one are zero, the sum is that one.                  *)
THEOREM SumOfOne ==
    ASSUME NEW S, IsFiniteSet(S), NEW a \in S, NEW f, f[a] \in Int,
           \A x \in S \ {a} : f[x] = 0
    PROVE  SumFunctionOnSet(f, S) = f[a]
<1> DEFINE T == {s \in SUBSET S : SumFunctionOnSet(f, s) # IF a \in s THEN f[a] ELSE 0}
<1> SUFFICES ASSUME T # {} PROVE FALSE
  OBVIOUS
<1>1. PICK s \in T : \A t \in SUBSET s : t # s => t \notin T
  <2>1. T \subseteq SUBSET S
    OBVIOUS
  <2> HIDE DEF T
  <2>2. QED
    BY <2>1, SmallestSubset
<1>2. IsFiniteSet(s) /\ \A x \in s : f[x] \in Int
  BY FS_Subset
<1>3. s # {}
  BY <1>2, SumUnfolds
<1> DEFINE r == s \ {Pick(s)}
<1>4. Pick(s) \in s /\ r \in SUBSET s /\ r # s
  BY <1>3, PickIn
<1>5. SumFunctionOnSet(f, r) = IF a \in r THEN f[a] ELSE 0
  BY <1>1, <1>4
<1>6. SumFunctionOnSet(f, s) = f[Pick(s)] + SumFunctionOnSet(f, r)
  BY <1>2, <1>3, SumUnfolds
<1>7. QED
  <2>1. CASE Pick(s) = a
    BY <1>4, <1>5, <1>6, <2>1
  <2>2. CASE Pick(s) # a
    BY <1>4, <1>5, <1>6, <2>2
  <2>3. QED
    BY <2>1, <2>2

=============================================================================
