-------------------------- MODULE RetentionPlanProofs --------------------------
(***************************************************************************)
(* What a plan releases, for every store, budget and protection: the two    *)
(* passes of the planner release the oldest unprotected artifacts of a type *)
(* (PassesReleaseOldest), enough of them and no more.                       *)
(*                                                                         *)
(* A pass and a sum of bytes are computed by recursion over data.  Instead *)
(* of an induction principle, the proofs take a smallest counterexample:   *)
(* inclusion among the subsets of a finite set and < on numbers are well   *)
(* founded (FiniteSetTheorems, WellFoundedInduction).                      *)
(***************************************************************************)
EXTENDS RetentionGCProofs, FiniteSetTheorems

\* A class of subsets of a finite set has a member that includes no other.
LEMMA SmallestSet ==
    ASSUME NEW S, IsFiniteSet(S), NEW C, C \subseteq SUBSET S, C # {}
    PROVE  \E T \in C : \A U \in C : ~ (U \subseteq T /\ U # T)
<1>1. IsWellFoundedOn(StrictSubsetOrdering(S), SUBSET S)
  BY FS_StrictSubsetOrderingWellFounded, FS_FiniteSubsetsOfFinite
<1>2. \E T \in C : \A U \in C : ~ (<<U, T>> \in StrictSubsetOrdering(S))
  BY <1>1, WFMin
<1>3. QED BY <1>2 DEF StrictSubsetOrdering

\* What holds of a subset whenever it holds of the smaller ones holds of all.
LEMMA SetInduction ==
    ASSUME NEW S, IsFiniteSet(S), NEW F,
           \A T \in SUBSET S : (\A U \in SUBSET T : U # T => U \in F) => T \in F
    PROVE  SUBSET S \subseteq F
<1> DEFINE C == (SUBSET S) \ F
<1>1. SUFFICES ASSUME C # {} PROVE FALSE
  OBVIOUS
<1>2. C \subseteq SUBSET S
  OBVIOUS
<1>3. PICK T \in C : \A U \in C : ~ (U \subseteq T /\ U # T)
  <2> HIDE DEF C
  <2>1. QED BY <1>1, <1>2, SmallestSet
<1>4. \A U \in SUBSET T : U # T => U \in F
  BY <1>3
<1>5. QED BY <1>3, <1>4

\* What holds of 0, and of n + 1 whenever of n, holds of every number.
LEMMA NatInduct ==
    ASSUME NEW N, 0 \in N, \A n \in Nat : n \in N => n + 1 \in N
    PROVE  Nat \subseteq N
<1> DEFINE C == Nat \ N
<1>1. SUFFICES ASSUME C # {} PROVE FALSE
  OBVIOUS
<1>2. \E n \in C : \A m \in C : ~ (<<m, n>> \in OpToRel(<, Nat))
  <2>1. C \subseteq Nat
    OBVIOUS
  <2> HIDE DEF C
  <2>2. QED BY <1>1, <2>1, NatLessThanWellFounded, WFMin
<1>3. PICK n \in C : \A m \in C : ~ (m < n)
  BY <1>2 DEF OpToRel
<1>4. n # 0 /\ n \in Nat
  OBVIOUS
<1>5. n - 1 \in Nat /\ n - 1 < n
  BY <1>4
<1>6. n - 1 \in N
  BY <1>3, <1>5
<1>7. (n - 1) + 1 \in N
  BY <1>5, <1>6
<1>8. QED BY <1>4, <1>7

-----------------------------------------------------------------------------
(* Sums of bytes *)

First(s) == CHOOSE x \in s : TRUE
Value(g, s) == IF s = {} THEN 0 ELSE Size[First(s)] + g[s \ {First(s)}]
IsSum(g, S) == g = [s \in SUBSET S |-> Value(g, s)]

\* The sum that FiniteSetsExt chooses, as a function on the subsets.
LEMMA BytesIs ==
    ASSUME NEW S
    PROVE  Bytes(S) = (CHOOSE g : IsSum(g, S))[S]
BY DEF Bytes, MapThenSumSet, MapThenFoldSet, IsSum, Value, First

\* The member a sum takes next is one.
LEMMA FirstIs == \A s : s # {} => First(s) \in s
BY DEF First

\* The recurrence of a sum.
LEMMA SumAt ==
    ASSUME NEW S, NEW g, IsSum(g, S), NEW s \in SUBSET S
    PROVE  g[s] = Value(g, s)
BY DEF IsSum

\* The recurrence determines the sum.
LEMMA SumUnique ==
    ASSUME NEW S, IsFiniteSet(S), NEW g, NEW h, IsSum(g, S), IsSum(h, S)
    PROVE  \A s \in SUBSET S : g[s] = h[s]
<1> DEFINE F == {s \in SUBSET S : g[s] = h[s]}
<1>1. ASSUME NEW T \in SUBSET S, \A U \in SUBSET T : U # T => U \in F
      PROVE  T \in F
  <2>1. g[T] = Value(g, T) /\ h[T] = Value(h, T)
    BY SumAt
  <2>2. CASE T = {}
    BY <2>1, <2>2 DEF Value
  <2>3. CASE T # {}
    <3>1. T \ {First(T)} \in SUBSET T /\ T \ {First(T)} # T
      BY <2>3, FirstIs
    <3>2. g[T \ {First(T)}] = h[T \ {First(T)}]
      BY <1>1, <3>1
    <3>3. QED BY <2>1, <3>2 DEF Value
  <2>4. QED BY <2>2, <2>3
<1>2. SUBSET S \subseteq F
  <2> HIDE DEF F
  <2>1. QED BY <1>1, SetInduction
<1>3. QED BY <1>2

\* A sum on a set is, restricted, a sum on each of its subsets.
LEMMA SumRestricts ==
    ASSUME NEW S, NEW g, IsSum(g, S), NEW T \in SUBSET S
    PROVE  IsSum([s \in SUBSET T |-> g[s]], T)
<1> DEFINE h == [s \in SUBSET T |-> g[s]]
<1>1. ASSUME NEW s \in SUBSET T PROVE h[s] = Value(h, s)
  <2>1. h[s] = g[s] /\ g[s] = Value(g, s)
    BY SumAt
  <2>2. s \ {First(s)} \in SUBSET T
    OBVIOUS
  <2>3. QED BY <2>1, <2>2 DEF Value
<1>2. h = [s \in SUBSET T |-> Value(h, s)]
  BY <1>1
<1>3. QED BY <1>2 DEF IsSum

\* Bytes agrees with any sum on a larger set.
LEMMA BytesOfSum ==
    ASSUME NEW S, IsFiniteSet(S), NEW g, IsSum(g, S), NEW T \in SUBSET S
    PROVE  Bytes(T) = g[T]
<1>1. IsSum([s \in SUBSET T |-> g[s]], T)
  BY SumRestricts
<1>2. IsSum(CHOOSE h : IsSum(h, T), T)
  BY <1>1
<1>3. IsFiniteSet(T)
  BY FS_Subset
<1>4. (CHOOSE h : IsSum(h, T))[T] = [s \in SUBSET T |-> g[s]][T]
  <2> DEFINE h == CHOOSE k : IsSum(k, T)
             k == [s \in SUBSET T |-> g[s]]
  <2>1. IsSum(h, T) /\ IsSum(k, T)
    BY <1>1, <1>2
  <2>2. h[T] = k[T]
    <3> HIDE DEF h, k
    <3>1. QED BY <1>3, <2>1, SumUnique
  <2>3. QED BY <2>2
<1>5. QED BY <1>4, BytesIs

\* Every finite set has a sum.
LEMMA SumExists ==
    ASSUME NEW S, IsFiniteSet(S)
    PROVE  \E g : IsSum(g, S)
<1> DEFINE F == {T \in SUBSET S : \E g : IsSum(g, T)}
<1>1. ASSUME NEW T \in SUBSET S, \A U \in SUBSET T : U # T => U \in F
      PROVE  T \in F
  <2> DEFINE g == [s \in SUBSET T |->
                     IF s = {} THEN 0 ELSE Size[First(s)] + Bytes(s \ {First(s)})]
  <2>1. ASSUME NEW s \in SUBSET T, s # T PROVE Bytes(s) = g[s]
    <3>1. PICK h : IsSum(h, s)
      BY <1>1, <2>1
    <3>2. IsFiniteSet(s)
      BY FS_Subset
    <3>3. \A u \in SUBSET s : Bytes(u) = h[u]
      BY <3>1, <3>2, BytesOfSum
    <3>4. h[s] = Value(h, s)
      BY <3>1, SumAt
    <3>5. Bytes(s \ {First(s)}) = h[s \ {First(s)}]
      BY <3>3
    <3>6. QED BY <3>3, <3>4, <3>5 DEF Value
  <2>2. ASSUME NEW s \in SUBSET T PROVE g[s] = Value(g, s)
    <3>1. CASE s = {}
      BY <3>1 DEF Value
    <3>2. CASE s # {}
      <4>1. s \ {First(s)} \in SUBSET T /\ s \ {First(s)} # T
        BY <3>2, FirstIs
      <4>2. Bytes(s \ {First(s)}) = g[s \ {First(s)}]
        BY <2>1, <4>1
      <4>3. g[s] = Size[First(s)] + Bytes(s \ {First(s)})
        BY <3>2
      <4>4. QED
        <5> HIDE DEF g
        <5>1. QED BY <3>2, <4>2, <4>3 DEF Value
    <3>3. QED BY <3>1, <3>2
  <2>3. g = [s \in SUBSET T |-> Value(g, s)]
    BY <2>2
  <2>4. QED BY <2>3 DEF IsSum
<1>2. SUBSET S \subseteq F
  <2> HIDE DEF F
  <2>1. QED BY <1>1, SetInduction
<1>3. QED BY <1>2

\* Bytes by its recurrence.
LEMMA BytesDef ==
    ASSUME NEW S, IsFiniteSet(S)
    PROVE  Bytes(S) = IF S = {} THEN 0 ELSE Size[First(S)] + Bytes(S \ {First(S)})
<1>1. PICK g : IsSum(g, S)
  BY SumExists
<1>2. \A T \in SUBSET S : Bytes(T) = g[T]
  BY <1>1, BytesOfSum
<1>3. Bytes(S) = g[S] /\ Bytes(S \ {First(S)}) = g[S \ {First(S)}]
  BY <1>2
<1>4. g[S] = Value(g, S)
  BY <1>1, SumAt
<1>5. QED BY <1>3, <1>4 DEF Value

\* A set of artifacts is finite.
LEMMA SetOfArtifacts ==
    ASSUME NEW S \in SUBSET Artifacts
    PROVE  IsFiniteSet(S) /\ Cardinality(S) \in Nat
<1>1. IsFiniteSet(Artifacts)
  BY ConstantAssumption, FS_Interval DEF Artifacts
<1>2. IsFiniteSet(S)
  BY <1>1, FS_Subset
<1>3. QED BY <1>2, FS_CardinalityType

\* Induction over sets of artifacts.
LEMMA ArtifactInduction ==
    ASSUME NEW F,
           \A T \in SUBSET Artifacts : (\A U \in SUBSET T : U # T => U \in F) => T \in F
    PROVE  \A S \in SUBSET Artifacts : S \in F
<1>1. IsFiniteSet(Artifacts)
  BY SetOfArtifacts
<1>2. QED BY <1>1, SetInduction

\* A size in bytes is a number.
LEMMA BytesNat == \A S \in SUBSET Artifacts : Bytes(S) \in Nat
<1> DEFINE F == {S \in SUBSET Artifacts : Bytes(S) \in Nat}
<1>1. ASSUME NEW T \in SUBSET Artifacts, \A U \in SUBSET T : U # T => U \in F
      PROVE  T \in F
  <2>1. IsFiniteSet(T)
    BY SetOfArtifacts
  <2>2. CASE T = {}
    <3>1. Bytes(T) = 0
      BY <2>1, <2>2, BytesDef
    <3>2. QED BY <3>1
  <2>3. CASE T # {}
    <3>1. First(T) \in T
      BY <2>3, FirstIs
    <3>2. Bytes(T) = Size[First(T)] + Bytes(T \ {First(T)})
      BY <2>1, <2>3, BytesDef
    <3>3. Bytes(T \ {First(T)}) \in Nat
      BY <1>1, <3>1
    <3>4. Size[First(T)] \in Nat
      BY <3>1, ConstantAssumption
    <3>5. QED BY <3>2, <3>3, <3>4
  <2>4. QED BY <2>2, <2>3
<1>2. \A S \in SUBSET Artifacts : S \in F
  <2> HIDE DEF F
  <2>1. QED BY <1>1, ArtifactInduction
<1>3. QED BY <1>2

\* The size of a set, in terms of any of its members.
LEMMA BytesRemove ==
    ASSUME NEW S \in SUBSET Artifacts, NEW a \in S
    PROVE  Bytes(S) = Size[a] + Bytes(S \ {a})
<1> DEFINE F == {T \in SUBSET Artifacts : \A b \in T : Bytes(T) = Size[b] + Bytes(T \ {b})}
<1>1. ASSUME NEW T \in SUBSET Artifacts, \A U \in SUBSET T : U # T => U \in F
      PROVE  T \in F
  <2>1. IsFiniteSet(T)
    BY SetOfArtifacts
  <2>2. ASSUME NEW b \in T PROVE Bytes(T) = Size[b] + Bytes(T \ {b})
    <3> DEFINE c == First(T)
    <3>1. c \in T
      BY <2>2, FirstIs
    <3>2. Bytes(T) = Size[c] + Bytes(T \ {c})
      BY <2>1, <2>2, BytesDef
    <3> HIDE DEF c
    <3>3. CASE b = c
      BY <3>2, <3>3
    <3>4. CASE b # c
      <4>1. T \ {c} \in F /\ b \in T \ {c} /\ T \ {b} \in F /\ c \in T \ {b}
        BY <1>1, <3>1, <3>4
      <4>2. Bytes(T \ {c}) = Size[b] + Bytes((T \ {c}) \ {b})
        BY <4>1
      <4>3. (T \ {c}) \ {b} = (T \ {b}) \ {c}
        OBVIOUS
      <4>4. Bytes(T \ {b}) = Size[c] + Bytes((T \ {c}) \ {b})
        BY <4>1, <4>3
      <4>5. /\ Size[b] \in Nat /\ Size[c] \in Nat
            /\ Bytes((T \ {c}) \ {b}) \in Nat
        BY <3>1, ConstantAssumption, BytesNat
      <4>6. Bytes(T) = Size[c] + (Size[b] + Bytes((T \ {c}) \ {b}))
        BY <3>2, <4>2
      <4>7. Bytes(T) = Size[b] + (Size[c] + Bytes((T \ {c}) \ {b}))
        <5> DEFINE x == Bytes((T \ {c}) \ {b})
                   y == Size[b]
                   z == Size[c]
        <5>1. x \in Nat /\ y \in Nat /\ z \in Nat /\ Bytes(T) = z + (y + x)
          BY <4>5, <4>6
        <5> HIDE DEF x, y, z
        <5>2. Bytes(T) = y + (z + x)
          BY <5>1
        <5>3. QED BY <5>2 DEF x, y, z
      <4>8. QED BY <4>4, <4>7
    <3>5. QED BY <3>3, <3>4
  <2>3. QED BY <2>2
<1>2. \A T \in SUBSET Artifacts : T \in F
  <2> HIDE DEF F
  <2>1. QED BY <1>1, ArtifactInduction
<1>3. QED BY <1>2

\* Sizes of disjoint sets add up.
LEMMA BytesUnion ==
    ASSUME NEW S \in SUBSET Artifacts
    PROVE  \A T \in SUBSET Artifacts : S \cap T = {} => Bytes(S \cup T) = Bytes(S) + Bytes(T)
<1> DEFINE F == {T \in SUBSET Artifacts : S \cap T = {} => Bytes(S \cup T) = Bytes(S) + Bytes(T)}
<1>1. ASSUME NEW T \in SUBSET Artifacts, \A U \in SUBSET T : U # T => U \in F
      PROVE  T \in F
  <2>1. CASE T = {}
    <3>1. Bytes(T) = 0 /\ S \cup T = S
      BY <2>1, SetOfArtifacts, BytesDef
    <3>2. QED BY <3>1, BytesNat
  <2>2. CASE T # {} /\ S \cap T = {}
    <3>1. PICK a \in T : TRUE
      BY <2>2
    <3>2. Bytes(T) = Size[a] + Bytes(T \ {a})
      <4> HIDE DEF F
      <4>1. QED BY <3>1, BytesRemove
    <3>3. Bytes(S \cup T) = Size[a] + Bytes((S \cup T) \ {a})
      BY <3>1, BytesRemove
    <3>4. (S \cup T) \ {a} = S \cup (T \ {a}) /\ S \cap (T \ {a}) = {}
      BY <2>2, <3>1
    <3>5. Bytes(S \cup (T \ {a})) = Bytes(S) + Bytes(T \ {a})
      BY <1>1, <3>1, <3>4
    <3>6. Size[a] \in Nat /\ Bytes(S) \in Nat /\ Bytes(T \ {a}) \in Nat
      BY <3>1, ConstantAssumption, BytesNat
    <3>7. QED BY <3>2, <3>3, <3>4, <3>5, <3>6
  <2>3. QED BY <2>1, <2>2
<1>2. \A T \in SUBSET Artifacts : T \in F
  <2> HIDE DEF F
  <2>1. QED BY <1>1, ArtifactInduction
<1>3. QED BY <1>2

\* A part and what is left make up the size and the number of a set.
LEMMA Parts ==
    ASSUME NEW S \in SUBSET Artifacts, NEW T \in SUBSET S
    PROVE  /\ Bytes(S) = Bytes(T) + Bytes(S \ T)
           /\ Cardinality(S) = Cardinality(T) + Cardinality(S \ T)
           /\ Bytes(T) \in Nat /\ Bytes(S \ T) \in Nat
           /\ Cardinality(T) \in Nat /\ Cardinality(S \ T) \in Nat
<1>1. T \in SUBSET Artifacts /\ S \ T \in SUBSET Artifacts
  OBVIOUS
<1>2. T \cup (S \ T) = S /\ T \cap (S \ T) = {}
  OBVIOUS
<1>3. Bytes(S) = Bytes(T) + Bytes(S \ T)
  BY <1>1, <1>2, BytesUnion
<1>4. Cardinality(S) = Cardinality(T) + Cardinality(S \ T)
  <2>1. IsFiniteSet(T) /\ IsFiniteSet(S \ T)
    BY <1>1, SetOfArtifacts
  <2>2. Cardinality(T \cup (S \ T)) = Cardinality(T) + Cardinality(S \ T) - Cardinality({})
    BY <1>2, <2>1, FS_Union
  <2>3. Cardinality({}) = 0
    BY FS_EmptySet
  <2>4. Cardinality(T) \in Nat /\ Cardinality(S \ T) \in Nat
    BY <1>1, SetOfArtifacts
  <2>5. Cardinality(S) = Cardinality(T) + Cardinality(S \ T) - 0
    BY <1>2, <2>2, <2>3
  <2> DEFINE x == Cardinality(T)
             y == Cardinality(S \ T)
  <2>6. x \in Nat /\ y \in Nat /\ Cardinality(S) = x + y - 0
    BY <2>4, <2>5
  <2> HIDE DEF x, y
  <2>7. Cardinality(S) = x + y
    BY <2>6
  <2>8. QED BY <2>7 DEF x, y
<1>5. QED BY <1>1, <1>3, <1>4, BytesNat, SetOfArtifacts

\* A set of artifacts has an oldest one.
LEMMA Smallest ==
    ASSUME NEW S \in SUBSET Artifacts, S # {}
    PROVE  \E a \in S : \A b \in S : a <= b
<1>1. S \subseteq Nat
  BY ConstantAssumption DEF Artifacts
<1>2. \E a \in S : \A b \in S : ~ (<<b, a>> \in OpToRel(<, Nat))
  BY <1>1, NatLessThanWellFounded, WFMin
<1>3. PICK a \in S : \A b \in S : ~ (b < a)
  BY <1>1, <1>2 DEF OpToRel
<1>4. QED BY <1>1, <1>3

-----------------------------------------------------------------------------
(* Passes *)

\* total[S] is the sum of the weights of S.
Totals(total, weight) ==
    /\ total \in [SUBSET Artifacts -> Nat] /\ total[{}] = 0
    /\ \A S \in SUBSET Artifacts : \A a \in Artifacts \ S :
           total[S \cup {a}] = total[S] + weight[a]

UpTo(free, n) == {b \in free : b <= n}

Pass(free, weight, target, g) ==
    g = [n \in 0 .. MaxArtifacts |->
            IF n = 0 THEN 0
            ELSE g[n - 1] + (IF n \in free /\ g[n - 1] < target THEN weight[n] ELSE 0)]

\* What a pass marks, by the recurrence of its sum.
LEMMA MarkedByPass ==
    ASSUME NEW p, NEW kind, NEW weight, NEW target
    PROVE  LET g == CHOOSE g : Pass(Free(p, kind), weight, target, g)
           IN  Marked(p, kind, weight, target) = {n \in Free(p, kind) : g[n - 1] < target}
BY DEF Marked, Pass

\* There is a sum with that recurrence.
LEMMA PassExists ==
    ASSUME NEW free \in SUBSET Artifacts, NEW weight \in [Artifacts -> Nat], NEW target \in Int
    PROVE  \E g : Pass(free, weight, target, g)
<1> DEFINE Gain(g, n) == IF n \in free /\ g[n - 1] < target THEN weight[n] ELSE 0
           Begun(g, n) == /\ g \in [0 .. n -> Nat] /\ g[0] = 0
                          /\ \A k \in 1 .. n : g[k] = g[k - 1] + Gain(g, k)
           N == {n \in Nat : \E g : Begun(g, n)}
<1>1. 0 \in N
  <2> DEFINE g == [k \in 0 .. 0 |-> 0]
  <2>1. Begun(g, 0)
    OBVIOUS
  <2>2. QED BY <2>1
<1>2. ASSUME NEW n \in Nat, n \in N PROVE n + 1 \in N
  <2>1. PICK g : Begun(g, n)
    BY <1>2
  <2> DEFINE h == [k \in 0 .. n + 1 |-> IF k = n + 1 THEN g[n] + Gain(g, n + 1) ELSE g[k]]
  <2>2. Gain(g, n + 1) \in Nat
    BY <1>2
  <2>3. h \in [0 .. n + 1 -> Nat] /\ h[0] = 0
    BY <2>1, <2>2
  <2>4. ASSUME NEW k \in 1 .. n + 1 PROVE h[k] = h[k - 1] + Gain(h, k)
    <3>1. k - 1 \in 0 .. n /\ k \in 0 .. n + 1 /\ h[k - 1] = g[k - 1]
      OBVIOUS
    <3>2. Gain(h, k) = Gain(g, k)
      BY <3>1
    <3>3. CASE k = n + 1
      BY <3>1, <3>2, <3>3
    <3>4. CASE k # n + 1
      <4>1. k \in 1 .. n /\ h[k] = g[k]
        BY <3>1, <3>4
      <4>2. g[k] = g[k - 1] + Gain(g, k)
        BY <2>1, <4>1
      <4>3. QED BY <3>1, <3>2, <4>1, <4>2
    <3>5. QED BY <3>3, <3>4
  <2>5. Begun(h, n + 1)
    BY <2>3, <2>4
  <2>6. \E x : Begun(x, n + 1)
    <3> HIDE DEF h, Begun
    <3>1. QED BY <2>5
  <2>7. n + 1 \in Nat
    OBVIOUS
  <2>8. QED BY <2>6, <2>7
<1>3. MaxArtifacts \in N
  <2>1. Nat \subseteq N
    <3> HIDE DEF N
    <3>1. QED BY <1>1, <1>2, NatInduct
  <2>2. QED BY <2>1, ConstantAssumption
<1>4. PICK g : Begun(g, MaxArtifacts)
  BY <1>3
<1>5. g = [n \in 0 .. MaxArtifacts |-> IF n = 0 THEN 0 ELSE g[n - 1] + Gain(g, n)]
  <2>1. \A n \in 0 .. MaxArtifacts : g[n] = IF n = 0 THEN 0 ELSE g[n - 1] + Gain(g, n)
    BY <1>4, ConstantAssumption
  <2>2. g = [n \in 0 .. MaxArtifacts |-> g[n]]
    BY <1>4
  <2> HIDE DEF Gain
  <2>3. QED BY <2>1, <2>2
<1>6. QED BY <1>5 DEF Pass

\* A pass is below its target exactly while all the unprotected artifacts so far
\* are: it marks each of them until then, and its sum does not change after.
LEMMA PassSums ==
    ASSUME NEW free \in SUBSET Artifacts, NEW weight \in [Artifacts -> Nat], NEW target \in Int,
           NEW total, Totals(total, weight),
           NEW g, Pass(free, weight, target, g)
    PROVE  \A n \in 0 .. MaxArtifacts : g[n] < target <=> total[UpTo(free, n)] < target
<1> DEFINE Right(n) == /\ g[n] \in Nat
                       /\ g[n] < target => g[n] = total[UpTo(free, n)]
                       /\ g[n] >= target => total[UpTo(free, n)] >= target
           N == {n \in Nat : n <= MaxArtifacts => Right(n)}
<1>0. \A b \in free : b \in Nat /\ b >= 1
  BY ConstantAssumption DEF Artifacts
<1>1. \A n \in 0 .. MaxArtifacts :
          /\ UpTo(free, n) \in SUBSET Artifacts /\ total[UpTo(free, n)] \in Nat
  BY DEF UpTo, Totals
<1>2. 0 \in N
  <2>1. g[0] = 0
    BY ConstantAssumption DEF Pass
  <2>2. UpTo(free, 0) = {}
    BY <1>0 DEF UpTo
  <2>3. QED BY <2>1, <2>2 DEF Totals
<1>3. ASSUME NEW n \in Nat, n \in N PROVE n + 1 \in N
  <2>1. SUFFICES ASSUME n + 1 <= MaxArtifacts PROVE Right(n + 1)
    OBVIOUS
  <2>2. n \in 0 .. MaxArtifacts /\ n + 1 \in 0 .. MaxArtifacts /\ n + 1 \in Artifacts /\ Right(n)
    BY <1>3, <2>1, ConstantAssumption DEF Artifacts
  <2>3. g[n + 1] = g[n] + (IF n + 1 \in free /\ g[n] < target THEN weight[n + 1] ELSE 0)
    <3>1. g[n + 1] = g[(n + 1) - 1]
              + (IF n + 1 \in free /\ g[(n + 1) - 1] < target THEN weight[n + 1] ELSE 0)
      BY <2>2 DEF Pass
    <3>2. (n + 1) - 1 = n
      OBVIOUS
    <3>3. QED BY <3>1, <3>2
  <2>4. CASE n + 1 \in free
    <3>1. UpTo(free, n + 1) = UpTo(free, n) \cup {n + 1} /\ n + 1 \notin UpTo(free, n)
      BY <1>0, <2>4 DEF UpTo
    <3>2. total[UpTo(free, n + 1)] = total[UpTo(free, n)] + weight[n + 1]
      BY <1>1, <2>2, <3>1 DEF Totals
    <3>3. weight[n + 1] \in Nat /\ total[UpTo(free, n)] \in Nat
      BY <1>1, <2>2
    <3>4. QED BY <2>2, <2>3, <2>4, <3>2, <3>3
  <2>5. CASE n + 1 \notin free
    <3>1. UpTo(free, n + 1) = UpTo(free, n)
      BY <1>0, <2>5 DEF UpTo
    <3>2. g[n + 1] = g[n]
      BY <2>2, <2>3, <2>5
    <3>3. QED BY <2>2, <3>1, <3>2
  <2>6. QED BY <2>4, <2>5
<1>4. Nat \subseteq N
  <2> HIDE DEF N
  <2>1. QED BY <1>2, <1>3, NatInduct
<1>5. ASSUME NEW n \in 0 .. MaxArtifacts PROVE g[n] < target <=> total[UpTo(free, n)] < target
  <2>1. Right(n)
    BY <1>4, ConstantAssumption
  <2>2. QED BY <1>1, <2>1
<1>6. QED BY <1>5

\* A pass marks an artifact when the unprotected ones before it are below target.
LEMMA MarkedAre ==
    ASSUME NEW p \in Plans, NEW weight \in [Artifacts -> Nat], NEW target \in Int,
           NEW total, Totals(total, weight),
           NEW a, a \in Free(p, Kind[a])
    PROVE  a \in Marked(p, Kind[a], weight, target) <=> total[OlderFree(p, a)] < target
<1> DEFINE kind == Kind[a]
           free == Free(p, kind)
           g == CHOOSE g : Pass(free, weight, target, g)
<1>1. free \in SUBSET Artifacts
  BY DEF Free, OfKind, Plans
<1>2. Marked(p, kind, weight, target) = {n \in free : g[n - 1] < target}
  BY MarkedByPass
<1> HIDE DEF free
<1>3. Pass(free, weight, target, g)
  BY <1>1, PassExists
<1> HIDE DEF g
<1>4. \A n \in 0 .. MaxArtifacts : g[n] < target <=> total[UpTo(free, n)] < target
  BY <1>1, <1>3, PassSums
<1>5. g[a - 1] < target <=> total[{b \in free : b < a}] < target
  <2>0. a \in free
    BY DEF free
  <2>1. a - 1 \in 0 .. MaxArtifacts
    BY <1>1, <2>0, ConstantAssumption DEF Artifacts
  <2>2. UpTo(free, a - 1) = {b \in free : b < a}
    <3>1. a \in Nat /\ \A b \in free : b \in Nat
      BY <1>1, <2>0, ConstantAssumption DEF Artifacts
    <3>2. \A b \in free : b <= a - 1 <=> b < a
      BY <3>1
    <3>3. QED BY <3>2 DEF UpTo
  <2>3. QED BY <1>4, <2>1, <2>2
<1>6. QED BY <1>2, <1>5 DEF free, OlderFree

\* The number and the size of a set with one more artifact.
LEMMA CountsAdd ==
    ASSUME NEW S \in SUBSET Artifacts, NEW a \in Artifacts \ S
    PROVE  /\ Cardinality(S \cup {a}) = Cardinality(S) + 1
           /\ Bytes(S \cup {a}) = Bytes(S) + Size[a]
<1>1. IsFiniteSet(S) /\ S \cup {a} \in SUBSET Artifacts /\ (S \cup {a}) \ {a} = S
  BY SetOfArtifacts
<1>2. Cardinality(S \cup {a}) = Cardinality(S) + 1
  BY <1>1, FS_AddElement
<1>3. Bytes(S \cup {a}) = Size[a] + Bytes((S \cup {a}) \ {a})
  BY <1>1, BytesRemove
<1>4. Bytes(S \cup {a}) = Size[a] + Bytes(S)
  BY <1>1, <1>3
<1>5. Size[a] \in Nat /\ Bytes(S) \in Nat
  BY ConstantAssumption, BytesNat
<1>6. QED BY <1>2, <1>4, <1>5

\* _mark_count_pressure and _mark_byte_pressure walk the artifacts in order and stop
\* at their targets: a plan releases exactly the aged artifacts and those whose
\* unprotected elders do not make up what there is to release.
THEOREM PassesReleaseOldest ==
    ASSUME NEW p \in Plans, NEW a \in p.store \ Protected(p.evidence, p.store)
    PROVE  a \in Candidates(p) <=>
               \/ Aged(p, a)
               \/ Cardinality(OlderFree(p, a)) < CountToRelease(p, Kind[a])
               \/ Bytes(OlderFree(p, a)) < BytesToRelease(p, Kind[a])
<1> DEFINE kind  == Kind[a]
           count == [S \in SUBSET Artifacts |-> Cardinality(S)]
           bytes == [S \in SUBSET Artifacts |-> Bytes(S)]
           older == OlderFree(p, a)
<1>1. a \in Free(p, kind) /\ older \in SUBSET Artifacts
  BY DEF Free, OfKind, OlderFree, Plans
<1>2. CountToRelease(p, kind) \in Int /\ BytesToRelease(p, kind) \in Int
  <2>1. OfKind(p.store, kind) \in SUBSET Artifacts /\ a \in Artifacts
    BY DEF OfKind, Plans
  <2>2. Cardinality(OfKind(p.store, kind)) \in Nat /\ Bytes(OfKind(p.store, kind)) \in Nat
    BY <2>1, SetOfArtifacts, BytesNat
  <2>3. Budget[kind].count \in Nat /\ Budget[kind].bytes \in Nat
    BY <2>1, ConstantAssumption
  <2>4. QED BY <2>2, <2>3 DEF CountToRelease, BytesToRelease
<1>3. Cardinality({}) = 0 /\ Bytes({}) = 0
  BY FS_EmptySet, BytesDef
<1>4. count \in [SUBSET Artifacts -> Nat] /\ count[{}] = 0
  BY <1>3, SetOfArtifacts
<1>5. bytes \in [SUBSET Artifacts -> Nat] /\ bytes[{}] = 0
  BY <1>3, BytesNat
<1>6. /\ \A S \in SUBSET Artifacts : \A b \in Artifacts \ S :
             count[S \cup {b}] = count[S] + EachOne[b]
      /\ \A S \in SUBSET Artifacts : \A b \in Artifacts \ S :
             bytes[S \cup {b}] = bytes[S] + Size[b]
  <2>1. ASSUME NEW S \in SUBSET Artifacts, NEW b \in Artifacts \ S
        PROVE  /\ count[S \cup {b}] = count[S] + EachOne[b]
               /\ bytes[S \cup {b}] = bytes[S] + Size[b]
    <3>1. S \cup {b} \in SUBSET Artifacts /\ EachOne[b] = 1
      BY DEF EachOne
    <3>2. QED BY <3>1, CountsAdd
  <2> HIDE DEF count, bytes
  <2>2. QED BY <2>1
<1>7. Totals(count, EachOne) /\ Totals(bytes, Size)
  <2> HIDE DEF count, bytes
  <2>1. QED BY <1>4, <1>5, <1>6 DEF Totals
<1>8. EachOne \in [Artifacts -> Nat] /\ Size \in [Artifacts -> Nat]
  BY ConstantAssumption DEF EachOne
<1> HIDE DEF older, kind, count, bytes
<1>9. a \in Marked(p, kind, EachOne, CountToRelease(p, kind))
          <=> count[older] < CountToRelease(p, kind)
  BY <1>1, <1>2, <1>7, <1>8, MarkedAre DEF kind, older
<1>10. a \in Marked(p, kind, Size, BytesToRelease(p, kind))
          <=> bytes[older] < BytesToRelease(p, kind)
  BY <1>1, <1>2, <1>7, <1>8, MarkedAre DEF kind, older
<1>11. count[older] = Cardinality(older) /\ bytes[older] = Bytes(older)
  BY <1>1 DEF count, bytes
<1>12. QED BY <1>9, <1>10, <1>11 DEF Candidates, kind, older

-----------------------------------------------------------------------------
(* Plans *)

\* The sets and the budgets a plan is made of have their types.
LEMMA PlanParts ==
    ASSUME NEW p \in Plans, NEW a \in p.store
    PROVE  LET all == OfKind(p.store, Kind[a])
           IN  /\ all \in SUBSET Artifacts
               /\ OlderFree(p, a) \in SUBSET all
               /\ Budget[Kind[a]].count \in Nat /\ Budget[Kind[a]].bytes \in Nat
<1>1. p.store \in SUBSET Artifacts
  BY DEF Plans
<1>2. Budget[Kind[a]] \in [age : Nat \ {0}, count : Nat \ {0}, bytes : Nat \ {0}]
  BY <1>1, ConstantAssumption
<1>3. QED BY <1>1, <1>2 DEF OfKind, OlderFree, Free

\* A candidate is aged, or was needed to bring its type within its budget.
LEMMA ReleasesNoMore ==
    ASSUME NEW p \in Plans, NEW a \in Candidates(p)
    PROVE  LET rest == OfKind(p.store, Kind[a]) \ OlderFree(p, a)
           IN  \/ Aged(p, a)
               \/ Cardinality(rest) > Budget[Kind[a]].count
               \/ Bytes(rest) > Budget[Kind[a]].bytes
<1> DEFINE all == OfKind(p.store, Kind[a])
           older == OlderFree(p, a)
<1>1. a \in p.store \ Protected(p.evidence, p.store)
  BY DEF Candidates
<1>2. /\ all \in SUBSET Artifacts /\ older \in SUBSET all
      /\ Budget[Kind[a]].count \in Nat /\ Budget[Kind[a]].bytes \in Nat
  BY <1>1, PlanParts
<1>3. \/ Aged(p, a)
      \/ Cardinality(older) < Cardinality(all) - Budget[Kind[a]].count
      \/ Bytes(older) < Bytes(all) - Budget[Kind[a]].bytes
  BY <1>1, PassesReleaseOldest DEF CountToRelease, BytesToRelease
<1> HIDE DEF all, older
<1>4. /\ Bytes(all) = Bytes(older) + Bytes(all \ older)
      /\ Cardinality(all) = Cardinality(older) + Cardinality(all \ older)
      /\ Bytes(older) \in Nat /\ Bytes(all \ older) \in Nat
      /\ Cardinality(older) \in Nat /\ Cardinality(all \ older) \in Nat
  BY <1>2, Parts
<1>5. \/ Aged(p, a)
      \/ Cardinality(all \ older) > Budget[Kind[a]].count
      \/ Bytes(all \ older) > Budget[Kind[a]].bytes
  BY <1>2, <1>3, <1>4
<1>6. QED BY <1>5 DEF all, older

\* The oldest unprotected artifact that stays was not marked: the ones before it
\* were enough, and they are all released.
LEMMA ReleasesEnough ==
    ASSUME NEW p \in Plans, NEW kind \in ArtifactTypes
    PROVE  LET rest == OfKind(p.store \ Candidates(p), kind)
               kept == Protected(p.evidence, p.store)
           IN  /\ \A a \in rest : Aged(p, a) => a \in kept
               /\ \/ rest \subseteq kept
                  \/ /\ Cardinality(rest) <= Budget[kind].count
                     /\ Bytes(rest) <= Budget[kind].bytes
<1> DEFINE rest == OfKind(p.store \ Candidates(p), kind)
           kept == Protected(p.evidence, p.store)
           all  == OfKind(p.store, kind)
<1>1. \A a \in rest : Aged(p, a) => a \in kept
  BY PassesReleaseOldest DEF OfKind
<1>2. ASSUME ~ (rest \subseteq kept)
      PROVE  Cardinality(rest) <= Budget[kind].count /\ Bytes(rest) <= Budget[kind].bytes
  <2>1. rest \in SUBSET all /\ all \in SUBSET Artifacts
    BY DEF OfKind, Plans
  <2>2. PICK a \in rest \ kept : \A b \in rest \ kept : a <= b
    <3>1. rest \ kept \in SUBSET Artifacts /\ rest \ kept # {}
      BY <1>2, <2>1
    <3> HIDE DEF rest, kept
    <3>2. QED BY <3>1, Smallest
  <2>3. a \in p.store /\ Kind[a] = kind /\ a \notin kept /\ a \notin Candidates(p)
    BY <2>2 DEF OfKind
  <2> DEFINE older == OlderFree(p, a)
  <2>4. /\ older \in SUBSET all
        /\ Budget[kind].count \in Nat /\ Budget[kind].bytes \in Nat
    BY <2>3, PlanParts
  <2>5. rest \subseteq all \ older
    <3>1. ASSUME NEW b \in rest, b \in older PROVE FALSE
      <4>1. b \in rest \ kept /\ b < a
        BY <2>3, <3>1 DEF OlderFree, Free, OfKind
      <4>2. a \in Nat /\ b \in Nat
        <5>1. a \in Artifacts /\ b \in Artifacts
          <6> HIDE DEF rest, all, kept
          <6>1. QED BY <2>1, <2>2, <3>1
        <5>2. QED BY <5>1, ConstantAssumption DEF Artifacts
      <4>3. QED BY <2>2, <4>1, <4>2
    <3>2. QED BY <2>1, <3>1
  <2>6. /\ ~ (Cardinality(older) < Cardinality(all) - Budget[kind].count)
        /\ ~ (Bytes(older) < Bytes(all) - Budget[kind].bytes)
    BY <2>3, PassesReleaseOldest DEF CountToRelease, BytesToRelease
  <2> HIDE DEF rest, kept, all, older
  <2>7. /\ Bytes(all) = Bytes(older) + Bytes(all \ older)
        /\ Cardinality(all) = Cardinality(older) + Cardinality(all \ older)
        /\ Bytes(older) \in Nat /\ Bytes(all \ older) \in Nat
        /\ Cardinality(older) \in Nat /\ Cardinality(all \ older) \in Nat
    BY <2>1, <2>4, Parts
  <2>8. /\ Bytes(all \ older) = Bytes(rest) + Bytes((all \ older) \ rest)
        /\ Cardinality(all \ older) = Cardinality(rest) + Cardinality((all \ older) \ rest)
        /\ Bytes(rest) \in Nat /\ Bytes((all \ older) \ rest) \in Nat
        /\ Cardinality(rest) \in Nat /\ Cardinality((all \ older) \ rest) \in Nat
    <3>1. all \ older \in SUBSET Artifacts /\ rest \in SUBSET (all \ older)
      BY <2>1, <2>5
    <3>2. QED BY <3>1, Parts
  <2>9. QED BY <2>4, <2>6, <2>7, <2>8
<1>3. QED BY <1>1, <1>2

\* Plans are plans.
LEMMA PlansTyped == IInv => plans \subseteq Plans
BY DEF IInv, TypeOK

\* No plan leaves a type over its budget, or an aged artifact, except for what is
\* protected: whatever the budgets, sizes, references and evidence.
THEOREM PlansReleaseEnough == Spec => []PlanReleasesEnough
<1>1. IInv => PlanReleasesEnough
  BY PlansTyped, ReleasesEnough DEF PlanReleasesEnough
<1>2. QED BY <1>1, Inductive, PTL

\* No plan releases an artifact its budgets do not ask for.
THEOREM PlansReleaseNoMore == Spec => []PlanReleasesNoMore
<1>1. IInv => PlanReleasesNoMore
  BY PlansTyped, ReleasesNoMore DEF PlanReleasesNoMore
<1>2. QED BY <1>1, Inductive, PTL
=============================================================================
