------------------------------- MODULE Counting -------------------------------
(***************************************************************************)
(* A limit that requests check before they write: count the rows, go on,      *)
(* insert later (enqueue_user_scrape, create_tag).  What the rows and the     *)
(* requests that have been let through add up to, step by step.  And the      *)
(* highest, the lowest and the sum of finitely many numbers, and quotients.   *)
(***************************************************************************)
EXTENDS Integers, FiniteSets, FiniteSetsExt, FiniteSetTheorems, WellFoundedInduction, TLAPS

\* A limit and what counts against it: the rows there are, and the requests that have
\* been let through and have no row yet.
Within(rows, entering, limit) ==
    /\ IsFiniteSet(rows) /\ IsFiniteSet(entering)
    /\ Cardinality(rows) + Cardinality(entering) <= limit

LEMMA WithinFewer ==
    ASSUME NEW S, NEW T, NEW limit \in Int, Within(S, T, limit), NEW S1, NEW T1, S1 \subseteq S, T1 \subseteq T
    PROVE  Within(S1, T1, limit)
  <1>1. IsFiniteSet(S1) /\ Cardinality(S1) <= Cardinality(S)
    BY FS_Subset DEF Within
  <1>2. IsFiniteSet(T1) /\ Cardinality(T1) <= Cardinality(T)
    BY FS_Subset DEF Within
  <1>3. Cardinality(S) \in Nat /\ Cardinality(T) \in Nat /\ Cardinality(S1) \in Nat /\ Cardinality(T1) \in Nat
    BY <1>1, <1>2, FS_CardinalityType DEF Within
  <1> QED
    BY <1>1, <1>2, <1>3 DEF Within

\* A request that was let through gets its row.
LEMMA WithinEntered ==
    ASSUME NEW S, NEW T, NEW limit \in Int, Within(S, T, limit), NEW r \in T, NEW row
    PROVE  Within(S \cup {row}, T \ {r}, limit)
  <1>1. IsFiniteSet(T \ {r}) /\ Cardinality(T \ {r}) = Cardinality(T) - 1
    BY FS_RemoveElement DEF Within
  <1>2. IsFiniteSet(S \cup {row}) /\ Cardinality(S \cup {row}) <= Cardinality(S) + 1
    <2>1. IsFiniteSet(S) /\ Cardinality(S) \in Nat
      BY FS_CardinalityType DEF Within
    <2>2. row \in S => S \cup {row} = S
      OBVIOUS
    <2>3. row \notin S => IsFiniteSet(S \cup {row}) /\ Cardinality(S \cup {row}) = Cardinality(S) + 1
      BY <2>1, FS_AddElement
    <2>4. CASE row \in S
      <3>1. S \cup {row} = S
        BY <2>2, <2>4
      <3>2. Cardinality(S) <= Cardinality(S) + 1
        BY <2>1
      <3> QED
        BY <2>1, <3>1, <3>2, Zenon
    <2>5. CASE row \notin S
      BY <2>1, <2>3, <2>5
    <2> QED
      BY <2>4, <2>5
  <1>3. Cardinality(S) \in Nat /\ Cardinality(T) \in Nat
        /\ Cardinality(S \cup {row}) \in Nat /\ Cardinality(T \ {r}) \in Nat
    BY <1>1, <1>2, FS_CardinalityType DEF Within
  <1> QED
    BY <1>1, <1>2, <1>3 DEF Within

\* A request is let through while the rows are below the limit: however many were let
\* through before it, they are no more than can be under way at once.
LEMMA WithinAdmitted ==
    ASSUME NEW S, NEW T, NEW All, IsFiniteSet(S), IsFiniteSet(All), T \subseteq All,
           NEW limit \in Int, Cardinality(S) < limit
    PROVE  Within(S, T, limit + Cardinality(All) - 1)
  <1>1. IsFiniteSet(T) /\ Cardinality(T) <= Cardinality(All)
    BY FS_Subset
  <1>2. Cardinality(S) \in Nat /\ Cardinality(T) \in Nat /\ Cardinality(All) \in Nat
    BY <1>1, FS_CardinalityType
  <1> QED
    BY <1>1, <1>2 DEF Within

\* At the start nothing is counted.
LEMMA WithinNothing ==
    ASSUME NEW All, IsFiniteSet(All), All # {}, NEW limit \in Nat
    PROVE  Within({}, {}, limit + Cardinality(All) - 1) /\ limit + Cardinality(All) - 1 \in Int
  <1>1. IsFiniteSet({}) /\ Cardinality({}) = 0 /\ Cardinality(All) \in Nat /\ Cardinality(All) # 0
    BY FS_EmptySet, FS_CardinalityType
  <1> QED
    BY <1>1 DEF Within

LEMMA WithinLimit ==
    ASSUME NEW S, NEW T, NEW limit \in Int, Within(S, T, limit)
    PROVE  Cardinality(S) <= limit
  BY FS_CardinalityType DEF Within

\* The highest of finitely many numbers is one of them.
LEMMA MaxOfBounded ==
    ASSUME NEW n \in Nat, NEW S, S \subseteq 0 .. n, S # {}
    PROVE  Max(S) \in S /\ \A y \in S : y <= Max(S)
  <1> DEFINE D == {n - x : x \in S}
  <1>1. D \subseteq Nat /\ D # {}
    <2>1. \A x \in S : x \in Int /\ 0 <= x /\ x <= n
      OBVIOUS
    <2>2. \A x \in S : n - x \in Nat
      BY <2>1
    <2> QED
      BY <2>2
  <1>2. PICK d \in D : \A e \in D : ~ (<<e, d>> \in OpToRel(<, Nat))
    BY <1>1, NatLessThanWellFounded, WFMin
  <1>3. PICK m \in S : d = n - m
    OBVIOUS
  <1>4. ASSUME NEW y \in S PROVE m >= y
    <2>1. n - y \in D /\ n - y \in Nat /\ d \in Nat
      BY <1>1
    <2>2. ~ (n - y < d)
      BY <1>2, <2>1 DEF OpToRel
    <2> QED
      BY <1>3, <2>1, <2>2
  <1>5. Max(S) \in S /\ \A y \in S : Max(S) >= y
    BY <1>4 DEF Max
  <1> QED
    BY <1>5

LEMMA ImageFinite ==
    ASSUME NEW S, IsFiniteSet(S), NEW f
    PROVE  IsFiniteSet({f[x] : x \in S})
  <1> DEFINE T == {f[x] : x \in S}
             g == [x \in S |-> f[x]]
  <1>1. g \in Surjection(S, T)
    BY DEF Surjection
  <1> HIDE DEF g, T
  <1>2. IsFiniteSet(T)
    BY <1>1, FS_Surjection
  <1> QED
    BY <1>2 DEF T

\* So are the highest and the lowest of finitely many integers.
LEMMA HighestExists ==
    ASSUME NEW S, IsFiniteSet(S), S \subseteq Int, S # {}
    PROVE  \E a \in S : \A y \in S : y <= a
  <1> DEFINE above(a) == {b \in S : b > a}
             sizes == {Cardinality(above(a)) : a \in S}
  <1>1. \A a \in S : IsFiniteSet(above(a)) /\ Cardinality(above(a)) \in Nat
    <2> SUFFICES ASSUME NEW a \in S PROVE IsFiniteSet(above(a)) /\ Cardinality(above(a)) \in Nat
      OBVIOUS
    <2>1. above(a) \in SUBSET S
      OBVIOUS
    <2> HIDE DEF above
    <2> QED
      BY <2>1, FS_Subset, FS_CardinalityType
  <1>2. sizes \subseteq Nat /\ sizes # {}
    BY <1>1
  <1>3. PICK d \in sizes : \A e \in sizes : ~ (<<e, d>> \in OpToRel(<, Nat))
    BY <1>2, NatLessThanWellFounded, WFMin
  <1>4. PICK a \in S : d = Cardinality(above(a))
    OBVIOUS
  <1>5. ASSUME NEW y \in S, y > a PROVE FALSE
    <2>1. above(y) \in SUBSET above(a) /\ y \in above(a) /\ y \notin above(y)
      <3>1. a \in Int /\ y \in Int /\ \A b \in S : b \in Int
        OBVIOUS
      <3>2. \A b \in S : b > y => b > a
        BY <1>5, <3>1
      <3>3. ~(y > y)
        BY <3>1
      <3> QED
        BY <1>5, <3>2, <3>3, Zenon
    <2>2. Cardinality(above(y)) \in sizes /\ Cardinality(above(y)) \in Nat /\ d \in Nat
      BY <1>1, <1>2
    <2>3. IsFiniteSet(above(a))
      BY <1>1
    <2> HIDE DEF above, sizes
    <2>4. Cardinality(above(y)) < Cardinality(above(a))
      <3>1. /\ Cardinality(above(y)) <= Cardinality(above(a))
            /\ Cardinality(above(y)) = Cardinality(above(a)) => above(y) = above(a)
        BY <2>1, <2>3, FS_Subset
      <3> QED
        BY <1>4, <2>1, <2>2, <3>1
    <2> QED
      BY <1>3, <1>4, <2>2, <2>4 DEF OpToRel
  <1> QED
    BY <1>5

LEMMA MaxOfFinite ==
    ASSUME NEW S, IsFiniteSet(S), S \subseteq Int, S # {}
    PROVE  Max(S) \in S /\ \A y \in S : y <= Max(S)
  <1>1. PICK a \in S : \A y \in S : y <= a
    BY HighestExists
  <1>2. \A y \in S : a >= y
    BY <1>1
  <1>3. Max(S) \in S /\ \A y \in S : Max(S) >= y
    BY <1>2 DEF Max
  <1> QED
    BY <1>3

LEMMA MinOfFinite ==
    ASSUME NEW S, IsFiniteSet(S), S \subseteq Int, S # {}
    PROVE  Min(S) \in S /\ \A y \in S : Min(S) <= y
  <1> DEFINE T == {-x : x \in S}
             f == [x \in S |-> -x]
  <1>1. T = {f[x] : x \in S}
    OBVIOUS
  <1>2. \A x \in S : -x \in Int
    OBVIOUS
  <1>3. PICK t \in T : \A y \in T : y <= t
    <2>1. IsFiniteSet({f[x] : x \in S})
      <3> HIDE DEF f
      <3> QED
        BY ImageFinite
    <2>2. T \subseteq Int /\ T # {}
      BY <1>2
    <2> HIDE DEF T, f
    <2> QED
      BY <1>1, <2>1, <2>2, HighestExists
  <1>4. PICK a \in S : t = -a
    OBVIOUS
  <1>5. \A y \in S : a <= y
    <2> TAKE y \in S
    <2>1. -y \in T /\ y \in Int /\ a \in Int
      OBVIOUS
    <2>2. -y <= t
      BY <1>3, <2>1
    <2> QED
      BY <1>4, <2>1, <2>2
  <1> QED
    BY <1>5 DEF Min

-----------------------------------------------------------------------------
(* Finite sets, smallest first *)

\* Of finite sets one at least holds none of the others.
LEMMA SmallestExists ==
    ASSUME NEW S, IsFiniteSet(S), NEW Sets, Sets \subseteq SUBSET S, Sets # {}
    PROVE  \E T \in Sets : \A U \in Sets : U \subseteq T => U = T
  <1>1. FiniteSubsetsOf(S) = SUBSET S
    BY FS_FiniteSubsetsOfFinite
  <1>2. IsWellFoundedOn(StrictSubsetOrdering(S), SUBSET S)
    BY <1>1, FS_StrictSubsetOrderingWellFounded
  <1>3. PICK T \in Sets : \A U \in Sets : ~ (<<U, T>> \in StrictSubsetOrdering(S))
    BY <1>2, WFMin
  <1> QED
    BY <1>3 DEF StrictSubsetOrdering

\* Induction over the subsets of a finite set, with a set in the place of the predicate.
LEMMA SubsetInduction ==
    ASSUME NEW S, IsFiniteSet(S), NEW Good, {} \in Good,
           \A T \in Good : \A x \in S \ T : T \cup {x} \in Good
    PROVE  S \in Good
  <1> DEFINE Bad == {T \in SUBSET S : T \notin Good}
  <1> SUFFICES ASSUME S \notin Good PROVE FALSE
    OBVIOUS
  <1>1. PICK T \in Bad : \A U \in Bad : U \subseteq T => U = T
    <2>1. Bad \subseteq SUBSET S /\ Bad # {}
      OBVIOUS
    <2> HIDE DEF Bad
    <2> QED
      BY <2>1, SmallestExists
  <1>2. PICK x \in T : TRUE
    BY <1>1
  <1>3. T \ {x} \in Good /\ x \in S \ (T \ {x}) /\ (T \ {x}) \cup {x} = T
    BY <1>1, <1>2
  <1> QED
    BY <1>1, <1>3

-----------------------------------------------------------------------------
(* Sums *)

\* The sums of f over the subsets of S: as the library builds them, element by chosen
\* element, and as they grow with any element.
SumsChosen(f, S, sum) ==
    sum = [s \in SUBSET S |-> IF s = {} THEN 0 ELSE f[CHOOSE x \in s : TRUE] + sum[s \ {CHOOSE x \in s : TRUE}]]
SumsGrow(f, S, sum) ==
    /\ sum \in [SUBSET S -> Int] /\ sum[{}] = 0
    /\ \A s \in SUBSET S : \A x \in S \ s : sum[s \cup {x}] = f[x] + sum[s]

LEMMA SumIs == ASSUME NEW f, NEW S PROVE SumFunctionOnSet(f, S) = (CHOOSE sum : SumsChosen(f, S, sum))[S]
  BY DEF SumFunctionOnSet, FoldFunctionOnSet, MapThenFoldSet, SumsChosen

LEMMA SumsExist ==
    ASSUME NEW S, IsFiniteSet(S), NEW f, \A x \in S : f[x] \in Int
    PROVE  \E sum : SumsGrow(f, S, sum)
  <1> DEFINE Good == {T \in SUBSET S : \E sum : SumsGrow(f, T, sum)}
  <1>1. {} \in Good
    <2>1. SumsGrow(f, {}, [s \in {{}} |-> 0])
      <3>1. SUBSET {} = {{}}
        OBVIOUS
      <3> QED
        BY <3>1 DEF SumsGrow
    <2> QED
      BY <2>1
  <1>2. ASSUME NEW T \in Good, NEW y \in S \ T PROVE T \cup {y} \in Good
    <2>1. PICK sum : SumsGrow(f, T, sum)
      OBVIOUS
    <2> DEFINE more == [s \in SUBSET (T \cup {y}) |-> IF y \in s THEN f[y] + sum[s \ {y}] ELSE sum[s]]
    <2>2. ASSUME NEW s \in SUBSET (T \cup {y})
          PROVE  /\ y \in s => s \ {y} \in SUBSET T /\ more[s] = f[y] + sum[s \ {y}]
                 /\ y \notin s => s \in SUBSET T /\ more[s] = sum[s]
                 /\ more[s] \in Int
      BY <2>1, <2>2 DEF SumsGrow
    <2>3. more \in [SUBSET (T \cup {y}) -> Int] /\ more[{}] = 0
      BY <2>1, <2>2 DEF SumsGrow
    <2>4. ASSUME NEW s \in SUBSET (T \cup {y}), NEW x \in (T \cup {y}) \ s
          PROVE  more[s \cup {x}] = f[x] + more[s]
      <3>1. s \cup {x} \in SUBSET (T \cup {y})
        OBVIOUS
      <3> HIDE DEF more
      <3>2. CASE x = y
        <4>1. (s \cup {y}) \ {y} = s
          BY <2>4, <3>2
        <4> QED
          BY <2>2, <3>1, <3>2, <4>1
      <3>3. CASE x # y /\ y \in s
        <4>1. (s \cup {x}) \ {y} = (s \ {y}) \cup {x} /\ x \in T \ (s \ {y}) /\ s \ {y} \in SUBSET T
          BY <3>3
        <4>2. sum[(s \ {y}) \cup {x}] = f[x] + sum[s \ {y}]
          BY <2>1, <4>1 DEF SumsGrow
        <4>3. more[s \cup {x}] = f[y] + sum[(s \cup {x}) \ {y}] /\ more[s] = f[y] + sum[s \ {y}]
          BY <2>2, <3>1, <3>3
        <4>4. f[y] \in Int /\ f[x] \in Int /\ sum[s \ {y}] \in Int
          BY <2>1, <4>1 DEF SumsGrow
        <4>5. sum[(s \cup {x}) \ {y}] = f[x] + sum[s \ {y}]
          BY <4>1, <4>2
        <4> QED
          BY <4>3, <4>4, <4>5
      <3>4. CASE x # y /\ y \notin s
        <4>1. s \in SUBSET T /\ x \in T \ s
          BY <3>4
        <4>2. sum[s \cup {x}] = f[x] + sum[s]
          BY <2>1, <4>1 DEF SumsGrow
        <4> QED
          BY <2>2, <3>1, <3>4, <4>2
      <3> QED
        BY <3>2, <3>3, <3>4
    <2>5. SumsGrow(f, T \cup {y}, more)
      <3> HIDE DEF more
      <3> QED
        BY <2>3, <2>4 DEF SumsGrow
    <2> HIDE DEF more
    <2> QED
      BY <2>5
  <1> HIDE DEF Good
  <1>3. S \in Good
    BY <1>1, <1>2, SubsetInduction
  <1> QED
    BY <1>3 DEF Good

LEMMA SumsAreThese ==
    ASSUME NEW S, IsFiniteSet(S), NEW f, NEW sum, SumsGrow(f, S, sum), NEW T \in SUBSET S
    PROVE  SumFunctionOnSet(f, T) = sum[T]
  <1> DEFINE here == [s \in SUBSET T |-> sum[s]]
             chosen == CHOOSE g : SumsChosen(f, T, g)
             Bad == {s \in SUBSET T : chosen[s] # here[s]}
  <1>1. SumsChosen(f, T, here)
    <2>1. ASSUME NEW s \in SUBSET T, s # {}, NEW x \in s PROVE here[s] = f[x] + here[s \ {x}]
      <3>1. (s \ {x}) \cup {x} = s /\ s \ {x} \in SUBSET S /\ x \in S \ (s \ {x})
        OBVIOUS
      <3>2. sum[(s \ {x}) \cup {x}] = f[x] + sum[s \ {x}]
        BY <3>1 DEF SumsGrow
      <3> QED
        BY <3>1, <3>2
    <2>2. here[{}] = 0
      BY DEF SumsGrow
    <2>3. \A s \in SUBSET T : s # {} => (CHOOSE x \in s : TRUE) \in s
      OBVIOUS
    <2> QED
      BY <2>1, <2>2, <2>3 DEF SumsChosen
  <1>2. SumsChosen(f, T, chosen)
    <2> HIDE DEF here
    <2> QED
      BY <1>1
  <1> HIDE DEF here, chosen
  <1>3. Bad = {}
    <2> SUFFICES ASSUME Bad # {} PROVE FALSE
      OBVIOUS
    <2>1. PICK s \in Bad : \A U \in Bad : U \subseteq s => U = s
      <3>1. Bad \subseteq SUBSET S
        OBVIOUS
      <3> HIDE DEF Bad
      <3> QED
        BY <3>1, SmallestExists
    <2> DEFINE x == CHOOSE x \in s : TRUE
    <2>2. s # {}
      BY <1>1, <1>2, <2>1 DEF SumsChosen
    <2>3. x \in s
      BY <2>2
    <2>4. chosen[s] = f[x] + chosen[s \ {x}] /\ here[s] = f[x] + here[s \ {x}]
      BY <1>1, <1>2, <2>1, <2>2 DEF SumsChosen
    <2> HIDE DEF x
    <2>5. chosen[s \ {x}] = here[s \ {x}]
      BY <2>1, <2>3
    <2> QED
      BY <2>1, <2>4, <2>5
  <1>4. chosen[T] = here[T]
    BY <1>3
  <1> QED
    BY <1>4, SumIs DEF here, chosen

LEMMA SumAdds ==
    ASSUME NEW S, IsFiniteSet(S), NEW f, \A x \in S : f[x] \in Int
    PROVE  /\ SumFunctionOnSet(f, S) \in Int
           /\ SumFunctionOnSet(f, {}) = 0
           /\ \A T \in SUBSET S : \A x \in S \ T : SumFunctionOnSet(f, T \cup {x}) = f[x] + SumFunctionOnSet(f, T)
  <1>1. PICK sum : SumsGrow(f, S, sum)
    BY SumsExist
  <1>2. \A T \in SUBSET S : SumFunctionOnSet(f, T) = sum[T]
    BY <1>1, SumsAreThese
  <1> QED
    BY <1>1, <1>2 DEF SumsGrow

LEMMA SumBounded ==
    ASSUME NEW S, IsFiniteSet(S), NEW f, NEW g, NEW k \in Int, \A x \in S : f[x] \in Int /\ g[x] \in Int /\ f[x] <= k * g[x]
    PROVE  SumFunctionOnSet(f, S) <= k * SumFunctionOnSet(g, S)
  <1> DEFINE Good == {T \in SUBSET S : SumFunctionOnSet(f, T) <= k * SumFunctionOnSet(g, T)}
  <1>1. {} \in Good
    BY SumAdds
  <1>2. ASSUME NEW T \in Good, NEW x \in S \ T PROVE T \cup {x} \in Good
    <2>1. /\ SumFunctionOnSet(f, T \cup {x}) = f[x] + SumFunctionOnSet(f, T)
          /\ SumFunctionOnSet(g, T \cup {x}) = g[x] + SumFunctionOnSet(g, T)
      BY SumAdds
    <2>2. SumFunctionOnSet(f, T) \in Int /\ SumFunctionOnSet(g, T) \in Int
      BY SumAdds, FS_Subset
    <2>3. k * (g[x] + SumFunctionOnSet(g, T)) = k * g[x] + k * SumFunctionOnSet(g, T)
      BY <2>2
    <2>4. f[x] + SumFunctionOnSet(f, T) <= k * g[x] + k * SumFunctionOnSet(g, T)
      BY <2>2
    <2> QED
      BY <2>1, <2>3, <2>4
  <1> HIDE DEF Good
  <1>3. S \in Good
    BY <1>1, <1>2, SubsetInduction
  <1> QED
    BY <1>3 DEF Good

LEMMA SumSame ==
    ASSUME NEW S, IsFiniteSet(S), NEW f, NEW g, \A x \in S : f[x] \in Int /\ f[x] = g[x]
    PROVE  SumFunctionOnSet(f, S) = SumFunctionOnSet(g, S)
  <1>1. SumFunctionOnSet(f, S) <= 1 * SumFunctionOnSet(g, S) /\ SumFunctionOnSet(g, S) <= 1 * SumFunctionOnSet(f, S)
    <2>1. \A x \in S : f[x] \in Int /\ g[x] \in Int /\ f[x] <= 1 * g[x] /\ g[x] <= 1 * f[x]
      OBVIOUS
    <2> QED
      BY <2>1, SumBounded
  <1>2. SumFunctionOnSet(f, S) \in Int /\ SumFunctionOnSet(g, S) \in Int
    BY SumAdds
  <1> QED
    BY <1>1, <1>2

\* What is counted once sums up to the number of what is counted.
LEMMA SumOfSome ==
    ASSUME NEW S, IsFiniteSet(S), NEW f, NEW g, NEW P, P \subseteq S,
           \A x \in S : g[x] \in Int /\ f[x] = IF x \in P THEN g[x] ELSE 0
    PROVE  SumFunctionOnSet(f, S) = SumFunctionOnSet(g, P)
  <1>a. \A y \in S : g[y] \in Int
    OBVIOUS
  <1>b. \A U \in SUBSET S : \A y \in S \ U : SumFunctionOnSet(g, U \cup {y}) = g[y] + SumFunctionOnSet(g, U)
    BY <1>a, SumAdds
  <1> DEFINE Good == {T \in SUBSET S : SumFunctionOnSet(f, T) = SumFunctionOnSet(g, T \cap P)}
  <1>1. {} \in Good
    <2>1. {} \cap P = {}
      OBVIOUS
    <2> QED
      BY <2>1, SumAdds
  <1>2. ASSUME NEW T \in Good, NEW x \in S \ T PROVE T \cup {x} \in Good
    <2>1. SumFunctionOnSet(f, T \cup {x}) = f[x] + SumFunctionOnSet(f, T)
      <3>1. \A y \in S : f[y] \in Int
        OBVIOUS
      <3> QED
        BY <3>1, SumAdds
    <2>2. SumFunctionOnSet(g, (T \cap P) \cup {x}) = g[x] + SumFunctionOnSet(g, T \cap P)
      <3>1. T \cap P \in SUBSET S /\ x \in S \ (T \cap P)
        OBVIOUS
      <3> QED
        BY <1>b, <3>1
    <2>3. SumFunctionOnSet(g, T \cap P) \in Int
      BY SumAdds, FS_Subset
    <2>4. CASE x \in P
      <3>1. (T \cup {x}) \cap P = (T \cap P) \cup {x} /\ f[x] = g[x]
        BY <2>4
      <3> QED
        BY <2>1, <2>2, <3>1
    <2>5. CASE x \notin P
      <3>1. (T \cup {x}) \cap P = T \cap P /\ f[x] = 0
        BY <2>5
      <3>2. SumFunctionOnSet(f, T) = SumFunctionOnSet(g, T \cap P)
        OBVIOUS
      <3>3. SumFunctionOnSet(f, T \cup {x}) = SumFunctionOnSet(g, T \cap P)
        BY <2>1, <2>3, <3>1, <3>2
      <3> QED
        BY <3>1, <3>3
    <2> QED
      BY <2>4, <2>5
  <1> HIDE DEF Good
  <1>3. S \in Good
    BY <1>1, <1>2, SubsetInduction
  <1>4. S \cap P = P
    OBVIOUS
  <1> QED
    BY <1>3, <1>4 DEF Good

LEMMA SumOfOnes ==
    ASSUME NEW S, IsFiniteSet(S), NEW f, \A x \in S : f[x] = 1
    PROVE  SumFunctionOnSet(f, S) = Cardinality(S)
  <1> DEFINE Good == {T \in SUBSET S : SumFunctionOnSet(f, T) = Cardinality(T)}
  <1>1. {} \in Good
    BY SumAdds, FS_EmptySet
  <1>2. ASSUME NEW T \in Good, NEW x \in S \ T PROVE T \cup {x} \in Good
    <2>1. SumFunctionOnSet(f, T \cup {x}) = 1 + SumFunctionOnSet(f, T)
      BY SumAdds
    <2>2. IsFiniteSet(T) /\ Cardinality(T \cup {x}) = Cardinality(T) + 1 /\ Cardinality(T) \in Nat
      BY FS_Subset, FS_AddElement, FS_CardinalityType
    <2> QED
      BY <2>1, <2>2
  <1> HIDE DEF Good
  <1>3. S \in Good
    BY <1>1, <1>2, SubsetInduction
  <1> QED
    BY <1>3 DEF Good

LEMMA SumOfOne ==
    ASSUME NEW f, NEW x, f[x] \in Int
    PROVE  SumFunctionOnSet(f, {x}) = f[x]
  <1>1. IsFiniteSet({x}) /\ {} \in SUBSET {x} /\ x \in {x} \ {} /\ {} \cup {x} = {x}
    BY FS_Singleton
  <1>2. SumFunctionOnSet(f, {} \cup {x}) = f[x] + SumFunctionOnSet(f, {}) /\ SumFunctionOnSet(f, {}) = 0
    BY <1>1, SumAdds
  <1> QED
    BY <1>1, <1>2

-----------------------------------------------------------------------------
(* Quotients *)
LEMMA DivBounds ==
    ASSUME NEW x \in Int, NEW d \in Nat \ {0}
    PROVE  x \div d \in Int /\ d * (x \div d) <= x /\ x < d * (x \div d) + d
  OBVIOUS

LEMMA MulLess ==
    ASSUME NEW a \in Int, NEW b \in Int, NEW k \in Int, k > 0
    PROVE  a < b <=> a * k < b * k
  OBVIOUS

LEMMA MulLeq ==
    ASSUME NEW a \in Int, NEW b \in Int, NEW k \in Int, k > 0
    PROVE  a <= b <=> a * k <= b * k
  OBVIOUS

LEMMA DivAtLeast ==
    ASSUME NEW x \in Int, NEW d \in Nat \ {0}, NEW k \in Int
    PROVE  x \div d >= k <=> x >= k * d
  <1> DEFINE q == x \div d
  <1>1. q \in Int /\ d * q <= x /\ x < d * q + d
    BY DivBounds
  <1> HIDE DEF q
  <1>2. ASSUME q >= k PROVE x >= k * d
    <2>1. k * d <= q * d
      BY <1>1, <1>2, MulLeq
    <2>2. q * d = d * q
      BY <1>1
    <2>3. k * d \in Int /\ d * q \in Int
      BY <1>1
    <2> QED
      BY <1>1, <2>1, <2>2, <2>3
  <1>3. ASSUME q < k PROVE x < k * d
    <2>1. q + 1 <= k /\ q + 1 \in Int
      BY <1>1, <1>3
    <2>2. (q + 1) * d <= k * d
      BY <1>1, <2>1, MulLeq
    <2>3. (q + 1) * d = d * q + d
      BY <1>1
    <2>4. k * d \in Int /\ d * q \in Int
      BY <1>1
    <2> QED
      BY <1>1, <2>2, <2>3, <2>4
  <1>4. k * d \in Int
    OBVIOUS
  <1> QED
    BY <1>1, <1>2, <1>3, <1>4 DEF q
=============================================================================
