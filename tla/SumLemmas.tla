------------------------------ MODULE SumLemmas ------------------------------
(***************************************************************************)
(* Sums over finite sets, as SumFunction of the community modules computes *)
(* them: by a fold in an order nobody knows.  The sum exists, the order    *)
(* does not matter, and so one knows what it is after a function has been  *)
(* changed at one point or extended by one point.  Folds over sequences,   *)
(* and recursive functions on an interval, step by step.  The inductions   *)
(* are over sets of numbers, from the well-foundedness of < on Nat.        *)
(***************************************************************************)
EXTENDS SequencesExt, FiniteSetTheorems, SequenceTheorems, TLAPS

LEMMA SetInduction ==
  ASSUME NEW S \in SUBSET Nat, 0 \in S, \A n \in S : n + 1 \in S
  PROVE  S = Nat
<1> DEFINE R == OpToRel(<, Nat)
           T == Nat \ S
<1>1. IsWellFoundedOn(R, Nat)
  BY NatLessThanWellFounded
<1>2. SUFFICES ASSUME T # {} PROVE FALSE
  OBVIOUS
<1>. HIDE DEF R
<1>3. T \subseteq Nat
  OBVIOUS
<1>4. PICK x \in T : \A y \in T : <<y, x>> \notin R
  <2>. HIDE DEF T
  <2>. QED  BY <1>1, <1>2, <1>3, WFMin
<1>5. x \in Nat \ {0} /\ x - 1 \in Nat /\ x - 1 < x
  OBVIOUS
<1>6. x - 1 \notin S
  OBVIOUS
<1>7. <<x - 1, x>> \in R
  BY <1>5 DEF R, OpToRel
<1>. QED  BY <1>4, <1>5, <1>6, <1>7

LEMMA RemoveOne ==
  ASSUME NEW s, IsFiniteSet(s), NEW x \in s
  PROVE  /\ IsFiniteSet(s \ {x}) /\ Cardinality(s) \in Nat
         /\ Cardinality(s \ {x}) = Cardinality(s) - 1 /\ Cardinality(s \ {x}) \in Nat
<1>1. IsFiniteSet(s \ {x}) /\ Cardinality(s \ {x}) = Cardinality(s) - 1
  BY FS_RemoveElement
<1>. QED  BY <1>1, FS_CardinalityType

LEMMA Extremes ==
  ASSUME NEW S, IsFiniteSet(S), S \subseteq Int, S # {}
  PROVE  /\ \E x \in S : \A y \in S : y <= x
         /\ \E x \in S : \A y \in S : x <= y
<1> DEFINE Has(T) == /\ \E x \in T : \A y \in T : y <= x
                     /\ \E x \in T : \A y \in T : x <= y
           N == {n \in Nat : \A T \in SUBSET Int :
                   IsFiniteSet(T) /\ Cardinality(T) = n /\ T # {} => Has(T)}
<1>1. 0 \in N
  BY FS_EmptySet
<1>2. ASSUME NEW n \in N PROVE n + 1 \in N
  <2>0. n \in Nat /\ n + 1 \in Nat
    OBVIOUS
  <2>. SUFFICES ASSUME NEW T \in SUBSET Int, IsFiniteSet(T), Cardinality(T) = n + 1, T # {}
                PROVE  Has(T)
    BY <2>0
  <2>1. PICK x \in T : TRUE
    OBVIOUS
  <2>2. IsFiniteSet(T \ {x}) /\ Cardinality(T \ {x}) = n
    BY <2>0, <2>1, RemoveOne
  <2>3. CASE T \ {x} = {}
    BY <2>1, <2>3
  <2>4. CASE T \ {x} # {}
    <3>1. Has(T \ {x})
      BY <2>2, <2>4
    <3>2. PICK b \in T \ {x}, a \in T \ {x} : \A y \in T \ {x} : y <= b /\ a <= y
      BY <3>1
    <3>3. a \in Int /\ b \in Int /\ x \in Int /\ \A y \in T : y = x \/ (y <= b /\ a <= y)
      BY <2>1, <3>2
    <3>4. \E z \in T : \A y \in T : y <= z
      <4>1. CASE x <= b
        BY <3>2, <3>3, <4>1
      <4>2. CASE b <= x
        BY <2>1, <3>2, <3>3, <4>2
      <4>. QED  BY <3>3, <4>1, <4>2
    <3>5. \E z \in T : \A y \in T : z <= y
      <4>1. CASE a <= x
        BY <3>2, <3>3, <4>1
      <4>2. CASE x <= a
        BY <2>1, <3>2, <3>3, <4>2
      <4>. QED  BY <3>3, <4>1, <4>2
    <3>. QED  BY <3>4, <3>5
  <2>. QED  BY <2>3, <2>4
<1>3. N = Nat
  <2>1. N \subseteq Nat
    OBVIOUS
  <2>. HIDE DEF N
  <2>. QED  BY <1>1, <1>2, <2>1, SetInduction
<1>4. Cardinality(S) \in N
  <2>. HIDE DEF N
  <2>. QED  BY <1>3, FS_CardinalityType
<1>. QED  BY <1>4

LEMMA MaxIs ==
  ASSUME NEW S, NEW n \in Nat, S \subseteq 1 .. n, S # {}
  PROVE  Max(S) \in S /\ \A j \in S : j <= Max(S)
<1>1. IsFiniteSet(S) /\ S \subseteq Int
  <2>1. IsFiniteSet(1 .. n) /\ \A i \in 1 .. n : i \in Int
    BY FS_Interval
  <2>. QED  BY <2>1, FS_Subset
<1>2. \E x \in S : \A y \in S : x >= y
  <2>1. PICK x \in S : \A y \in S : y <= x
    BY <1>1, Extremes
  <2>. QED  BY <2>1, <1>1
<1>3. Max(S) \in S /\ \A y \in S : Max(S) >= y
  BY <1>2 DEF Max
<1>. QED  BY <1>1, <1>3

LEMMA MinIs ==
  ASSUME NEW S, NEW n \in Nat, S \subseteq 1 .. n, S # {}
  PROVE  Min(S) \in S /\ \A j \in S : Min(S) <= j
<1>1. IsFiniteSet(S) /\ S \subseteq Int
  <2>1. IsFiniteSet(1 .. n) /\ \A i \in 1 .. n : i \in Int
    BY FS_Interval
  <2>. QED  BY <2>1, FS_Subset
<1>2. \E x \in S : \A y \in S : x <= y
  BY <1>1, Extremes
<1>. QED  BY <1>2 DEF Min

HasSum(S, f, c) ==
  \E it \in [SUBSET S -> Int] :
    /\ it[{}] = 0
    /\ \A s \in SUBSET S : s # {} => it[s] = f[c[s]] + it[s \ {c[s]}]

\* So does any fold over a finite set, whatever picks its next element.
HasFold(S, B, b, G, c) ==
  \E it \in [SUBSET S -> B] :
    /\ it[{}] = b
    /\ \A s \in SUBSET S : s # {} => it[s] = G[<<it[s \ {c[s]}], c[s]>>]

LEMMA FoldExists ==
  ASSUME NEW S, IsFiniteSet(S), NEW B, NEW b \in B, NEW G \in [B \X S -> B],
         NEW c, \A s \in SUBSET S : s # {} => c[s] \in s
  PROVE  HasFold(S, B, b, G, c)
<1> DEFINE Small(n) == {s \in SUBSET S : Cardinality(s) <= n}
           Eq(g, n) == \A s \in Small(n) : g[s] = IF s = {} THEN b ELSE G[<<g[s \ {c[s]}], c[s]>>]
           N == {n \in Nat : \E g \in [SUBSET S -> B] : Eq(g, n)}
<1>1. 0 \in N
  <2>1. \A s \in Small(0) : s = {}
    BY FS_EmptySet, FS_Subset, FS_CardinalityType
  <2>2. Eq([s \in SUBSET S |-> b], 0)
    BY <2>1
  <2>3. [s \in SUBSET S |-> b] \in [SUBSET S -> B]
    OBVIOUS
  <2>. HIDE DEF Eq
  <2>. QED  BY <2>2, <2>3
<1>2. ASSUME NEW n \in N PROVE n + 1 \in N
  <2>1. PICK g \in [SUBSET S -> B] : Eq(g, n)
    OBVIOUS
  <2> DEFINE h == [s \in SUBSET S |-> IF s = {} THEN b ELSE G[<<g[s \ {c[s]}], c[s]>>]]
  <2>2. h \in [SUBSET S -> B]
    <3>1. \A s \in SUBSET S : s # {} => <<g[s \ {c[s]}], c[s]>> \in B \X S
      OBVIOUS
    <3>. QED  BY <3>1
  <2>3. \A s \in Small(n) : h[s] = g[s]
    BY <2>1
  <2>4. ASSUME NEW s \in Small(n + 1), s # {} PROVE s \ {c[s]} \in Small(n)
    <3>1. IsFiniteSet(s) /\ c[s] \in s
      BY <2>4, FS_Subset
    <3>2. Cardinality(s) \in Nat
      BY <3>1, FS_CardinalityType
    <3>3. Cardinality(s \ {c[s]}) = Cardinality(s) - 1
      BY <3>1, RemoveOne
    <3>4. Cardinality(s) <= n + 1 /\ n \in Nat /\ s \ {c[s]} \in SUBSET S
      OBVIOUS
    <3>. QED  BY <3>2, <3>3, <3>4
  <2>5. Eq(h, n + 1)
    BY <2>3, <2>4
  <2>6. n + 1 \in Nat
    OBVIOUS
  <2>. HIDE DEF Eq, h
  <2>. QED  BY <2>2, <2>5, <2>6
<1>3. N = Nat
  <2>. HIDE DEF N
  <2>1. N \subseteq Nat BY DEF N
  <2>. QED  BY <1>1, <1>2, <2>1, SetInduction
<1>4. Cardinality(S) \in Nat /\ \A s \in SUBSET S : s \in Small(Cardinality(S))
  BY FS_Subset, FS_CardinalityType
<1>5. PICK g \in [SUBSET S -> B] : Eq(g, Cardinality(S))
  BY <1>3, <1>4
<1>6. \A s \in SUBSET S : g[s] = IF s = {} THEN b ELSE G[<<g[s \ {c[s]}], c[s]>>]
  BY <1>4, <1>5
<1>7. g[{}] = b /\ \A s \in SUBSET S : s # {} => g[s] = G[<<g[s \ {c[s]}], c[s]>>]
  BY <1>6
<1>. QED  BY <1>7 DEF HasFold

LEMMA SumExists ==
  ASSUME NEW S, IsFiniteSet(S), NEW f \in [S -> Int],
         NEW c, \A s \in SUBSET S : s # {} => c[s] \in s
  PROVE  HasSum(S, f, c)
<1> DEFINE G == [x \in Int \X S |-> f[x[2]] + x[1]]
<1>1. G \in [Int \X S -> Int] /\ \A v \in Int, x \in S : G[<<v, x>>] = f[x] + v
  OBVIOUS
<1>. HIDE DEF G
<1>2. HasFold(S, Int, 0, G, c)
  <2>1. 0 \in Int
    OBVIOUS
  <2>. QED  BY <1>1, <2>1, FoldExists, Zenon
<1>3. PICK it \in [SUBSET S -> Int] :
        /\ it[{}] = 0
        /\ \A s \in SUBSET S : s # {} => it[s] = G[<<it[s \ {c[s]}], c[s]>>]
  BY <1>2 DEF HasFold
<1>4. \A s \in SUBSET S : s # {} => it[s] = f[c[s]] + it[s \ {c[s]}]
  <2>1. \A s \in SUBSET S : s # {} => it[s \ {c[s]}] \in Int /\ c[s] \in S
    OBVIOUS
  <2>. QED  BY <1>1, <1>3, <2>1
<1>. QED  BY <1>3, <1>4 DEF HasSum

IsSum(it, f, S) ==
  /\ it \in [SUBSET S -> Int]
  /\ it[{}] = 0
  /\ \A s \in SUBSET S : \A x \in s : it[s] = f[x] + it[s \ {x}]

LEMMA AnyOrder ==
  ASSUME NEW S, IsFiniteSet(S), NEW f \in [S -> Int], NEW c,
         \A s \in SUBSET S : s # {} => c[s] \in s,
         NEW it \in [SUBSET S -> Int], it[{}] = 0,
         \A s \in SUBSET S : s # {} => it[s] = f[c[s]] + it[s \ {c[s]}]
  PROVE  IsSum(it, f, S)
<1> DEFINE P(s) == \A x \in s : it[s] = f[x] + it[s \ {x}]
           N == {n \in Nat : \A s \in SUBSET S : Cardinality(s) <= n => P(s)}
<1>1. 0 \in N
  <2>1. ASSUME NEW s \in SUBSET S, Cardinality(s) <= 0 PROVE s = {}
    BY <2>1, FS_EmptySet, FS_Subset, FS_CardinalityType
  <2>. QED  BY <2>1
<1>2. ASSUME NEW n \in N PROVE n + 1 \in N
  <2>1. ASSUME NEW s \in SUBSET S, Cardinality(s) <= n + 1, NEW x \in s
        PROVE  it[s] = f[x] + it[s \ {x}]
    <3> DEFINE y == c[s]
               r == s \ {x, y}
    <3>1. y \in s /\ x \in S /\ y \in S /\ it[s] = f[y] + it[s \ {y}]
      OBVIOUS
    <3>2. CASE x = y
      BY <3>1, <3>2
    <3>3. CASE x # y
      <4>1. IsFiniteSet(s) /\ s \ {x} \in SUBSET S /\ s \ {y} \in SUBSET S /\ r \in SUBSET S
        <5>1. IsFiniteSet(s)
          BY FS_Subset
        <5>. QED  BY <5>1
      <4>2. /\ Cardinality(s) \in Nat
            /\ Cardinality(s \ {x}) = Cardinality(s) - 1
            /\ Cardinality(s \ {y}) = Cardinality(s) - 1
        BY <3>1, <4>1, RemoveOne
      <4>3. n \in Nat /\ Cardinality(s \ {x}) <= n /\ Cardinality(s \ {y}) <= n
        BY <2>1, <4>2
      <4>4. P(s \ {x}) /\ P(s \ {y})
        BY <4>1, <4>3
      <4>5. x \in s \ {y} /\ y \in s \ {x} /\ (s \ {y}) \ {x} = r /\ (s \ {x}) \ {y} = r
        BY <3>1, <3>3
      <4>6. it[s \ {y}] = f[x] + it[r] /\ it[s \ {x}] = f[y] + it[r]
        BY <4>4, <4>5
      <4>7. f[x] \in Int /\ f[y] \in Int /\ it[r] \in Int
        BY <3>1, <4>1
      <4>. QED  BY <3>1, <4>6, <4>7
    <3>. QED  BY <3>2, <3>3
  <2>2. n + 1 \in Nat
    OBVIOUS
  <2>. QED  BY <2>1, <2>2
<1>3. N = Nat
  <2>1. N \subseteq Nat
    OBVIOUS
  <2>. HIDE DEF N
  <2>. QED  BY <1>1, <1>2, <2>1, SetInduction
<1>4. ASSUME NEW s \in SUBSET S PROVE P(s)
  <2>1. Cardinality(s) \in Nat /\ Cardinality(s) <= Cardinality(s)
    BY FS_Subset, FS_CardinalityType
  <2>2. Cardinality(s) \in N
    <3>. HIDE DEF N
    <3>. QED  BY <1>3, <2>1
  <2>. HIDE DEF P
  <2>. QED  BY <2>1, <2>2
<1>. QED  BY <1>4 DEF IsSum

\* What SumFunction returns.
LEMMA SumIs ==
  ASSUME NEW S, IsFiniteSet(S), NEW f \in [S -> Int]
  PROVE  \E it : IsSum(it, f, S) /\ SumFunction(f) = it[S]
<1> DEFINE D == DOMAIN f
           c == [t \in SUBSET D |-> CHOOSE x \in t : TRUE]
           Eq(g) == g = [t \in SUBSET D |->
                          IF t = {} THEN 0
                          ELSE f[CHOOSE x \in t : TRUE] + g[t \ {CHOOSE x \in t : TRUE}]]
           it == CHOOSE g : Eq(g)
<1>1. D = S
  OBVIOUS
<1>2. \A t \in SUBSET S : t # {} => c[t] \in t
  BY <1>1
<1>3. \E g \in [SUBSET S -> Int] : Eq(g)
  <2>1. PICK g \in [SUBSET S -> Int] :
               /\ g[{}] = 0
               /\ \A t \in SUBSET S : t # {} => g[t] = f[c[t]] + g[t \ {c[t]}]
    <3>. HIDE DEF c
    <3>1. HasSum(S, f, c)
      BY <1>2, SumExists
    <3>. QED  BY <3>1 DEF HasSum
  <2>2. ASSUME NEW t \in SUBSET D
        PROVE  g[t] = IF t = {} THEN 0
                      ELSE f[CHOOSE x \in t : TRUE] + g[t \ {CHOOSE x \in t : TRUE}]
    BY <1>1, <2>1
  <2>3. g = [t \in SUBSET D |-> g[t]]
    BY <1>1
  <2>. QED  BY <2>1, <2>2, <2>3
<1>4. Eq(it)
  <2>. HIDE DEF Eq
  <2>. QED  BY <1>3
<1>5. SumFunction(f) = it[S]
  BY <1>1 DEF SumFunction, SumFunctionOnSet, FoldFunctionOnSet, MapThenFoldSet
<1>. HIDE DEF it
<1>6. /\ DOMAIN it = SUBSET S /\ it[{}] = 0
      /\ \A t \in SUBSET S : t # {} => it[t] = f[c[t]] + it[t \ {c[t]}]
  <2>1. \A t \in SUBSET D :
          it[t] = IF t = {} THEN 0
                  ELSE f[CHOOSE x \in t : TRUE] + it[t \ {CHOOSE x \in t : TRUE}]
    BY <1>4
  <2>2. \A t \in SUBSET S : c[t] = CHOOSE x \in t : TRUE
    BY <1>1
  <2>3. {} \in SUBSET S
    OBVIOUS
  <2>. QED  BY <1>1, <1>4, <2>1, <2>2, <2>3
<1>. HIDE DEF c
<1> DEFINE N == {n \in Nat : \A t \in SUBSET S : Cardinality(t) <= n => it[t] \in Int}
<1>7. 0 \in N
  <2>1. ASSUME NEW t \in SUBSET S, Cardinality(t) <= 0 PROVE t = {}
    BY <2>1, FS_EmptySet, FS_Subset, FS_CardinalityType
  <2>2. it[{}] \in Int
    BY <1>6
  <2>. QED  BY <2>1, <2>2
<1>8. ASSUME NEW n \in N PROVE n + 1 \in N
  <2>1. ASSUME NEW t \in SUBSET S, Cardinality(t) <= n + 1 PROVE it[t] \in Int
    <3>1. CASE t = {}
      BY <1>6, <3>1
    <3>2. CASE t # {}
      <4>1. c[t] \in t /\ c[t] \in S /\ IsFiniteSet(t)
        BY <1>2, <3>2, FS_Subset
      <4>2. /\ Cardinality(t) \in Nat /\ n \in Nat
            /\ Cardinality(t \ {c[t]}) = Cardinality(t) - 1
        <5>1. n \in Nat
          OBVIOUS
        <5>. QED  BY <4>1, <5>1, RemoveOne, Zenon
      <4>3. Cardinality(t \ {c[t]}) <= n
        BY <2>1, <4>2
      <4>4. it[t \ {c[t]}] \in Int
        BY <4>3
      <4>5. f[c[t]] \in Int
        BY <4>1
      <4>. QED  BY <1>6, <3>2, <4>4, <4>5
    <3>. QED  BY <3>1, <3>2
  <2>2. n + 1 \in Nat
    OBVIOUS
  <2>. QED  BY <2>1, <2>2
<1>9. N = Nat
  <2>1. N \subseteq Nat
    OBVIOUS
  <2>. HIDE DEF N
  <2>. QED  BY <1>7, <1>8, <2>1, SetInduction
<1>10. \A t \in SUBSET S : it[t] \in Int
  <2>. SUFFICES ASSUME NEW t \in SUBSET S PROVE it[t] \in Int
    OBVIOUS
  <2>1. Cardinality(t) \in Nat /\ Cardinality(t) <= Cardinality(t)
    BY FS_Subset, FS_CardinalityType
  <2>2. Cardinality(t) \in N
    <3>. HIDE DEF N
    <3>. QED  BY <1>9, <2>1
  <2>. QED  BY <2>1, <2>2
<1>11. it \in [SUBSET S -> Int]
  <2>1. it = [t \in SUBSET D |-> it[t]]
    BY <1>4
  <2>. QED  BY <1>1, <1>10, <2>1
<1>12. IsSum(it, f, S)
  BY <1>2, <1>6, <1>11, AnyOrder
<1>. QED  BY <1>5, <1>12

\* Two sums agree on a set where what they add agrees.
LEMMA SumsAgree ==
  ASSUME NEW S, NEW f \in [S -> Int], NEW T, NEW g \in [T -> Int],
         NEW it, NEW jt, IsSum(it, f, S), IsSum(jt, g, T),
         NEW r, IsFiniteSet(r), r \subseteq S, r \subseteq T, \A x \in r : f[x] = g[x]
  PROVE  it[r] = jt[r]
<1> DEFINE N == {n \in Nat : \A t \in SUBSET r : Cardinality(t) <= n => it[t] = jt[t]}
<1>1. 0 \in N
  <2>1. ASSUME NEW t \in SUBSET r, Cardinality(t) <= 0 PROVE t = {}
    BY <2>1, FS_EmptySet, FS_Subset, FS_CardinalityType
  <2>. QED  BY <2>1 DEF IsSum
<1>2. ASSUME NEW n \in N PROVE n + 1 \in N
  <2>1. ASSUME NEW t \in SUBSET r, Cardinality(t) <= n + 1 PROVE it[t] = jt[t]
    <3>1. CASE t = {}
      BY <3>1 DEF IsSum
    <3>2. CASE t # {}
      <4>1. PICK x \in t : TRUE
        BY <3>2
      <4>2. IsFiniteSet(t) /\ t \ {x} \in SUBSET r
        BY FS_Subset
      <4>3. /\ Cardinality(t) \in Nat /\ n \in Nat
            /\ Cardinality(t \ {x}) = Cardinality(t) - 1
        <5>1. n \in Nat
          OBVIOUS
        <5>. QED  BY <4>1, <4>2, <5>1, RemoveOne, Zenon
      <4>4. Cardinality(t \ {x}) <= n
        BY <2>1, <4>3
      <4>5. it[t \ {x}] = jt[t \ {x}]
        BY <4>2, <4>4
      <4>6. f[x] = g[x] /\ t \in SUBSET S /\ t \in SUBSET T
        OBVIOUS
      <4>7. it[t] = f[x] + it[t \ {x}] /\ jt[t] = g[x] + jt[t \ {x}]
        BY <4>1, <4>6 DEF IsSum
      <4>. QED  BY <4>5, <4>6, <4>7
    <3>. QED  BY <3>1, <3>2
  <2>2. n + 1 \in Nat
    OBVIOUS
  <2>. QED  BY <2>1, <2>2
<1>3. N = Nat
  <2>1. N \subseteq Nat
    OBVIOUS
  <2>. HIDE DEF N
  <2>. QED  BY <1>1, <1>2, <2>1, SetInduction
<1>4. Cardinality(r) \in Nat /\ Cardinality(r) <= Cardinality(r)
  BY FS_CardinalityType
<1>5. Cardinality(r) \in N
  <2>. HIDE DEF N
  <2>. QED  BY <1>3, <1>4
<1>. QED  BY <1>4, <1>5

-----------------------------------------------------------------------------
(* What the proofs about the system use. *)

LEMMA SumType ==
  ASSUME NEW S, IsFiniteSet(S), NEW f \in [S -> Int]
  PROVE  SumFunction(f) \in Int
<1>1. PICK it : IsSum(it, f, S) /\ SumFunction(f) = it[S]
  BY SumIs
<1>2. S \in SUBSET S
  OBVIOUS
<1>. QED  BY <1>1, <1>2 DEF IsSum

LEMMA SumNone ==
  ASSUME NEW f \in [{} -> Int]
  PROVE  SumFunction(f) = 0
<1>1. PICK it : IsSum(it, f, {}) /\ SumFunction(f) = it[{}]
  BY SumIs, FS_EmptySet
<1>. QED  BY <1>1 DEF IsSum

\* The function changes at one point.
LEMMA SumChange ==
  ASSUME NEW S, IsFiniteSet(S), NEW f \in [S -> Int], NEW g \in [S -> Int],
         NEW x \in S, \A y \in S : y # x => g[y] = f[y]
  PROVE  SumFunction(g) = SumFunction(f) - f[x] + g[x]
<1>1. PICK it : IsSum(it, f, S) /\ SumFunction(f) = it[S]
  BY SumIs
<1>2. PICK jt : IsSum(jt, g, S) /\ SumFunction(g) = jt[S]
  BY SumIs
<1> DEFINE r == S \ {x}
<1>3. IsFiniteSet(r) /\ r \in SUBSET S /\ S \in SUBSET S
  BY FS_Subset
<1>4. it[r] = jt[r]
  BY <1>1, <1>2, <1>3, SumsAgree
<1>5. it[S] = f[x] + it[r] /\ jt[S] = g[x] + jt[r] /\ it[r] \in Int
  BY <1>1, <1>2, <1>3 DEF IsSum
<1>6. f[x] \in Int /\ g[x] \in Int
  OBVIOUS
<1>. QED  BY <1>1, <1>2, <1>4, <1>5, <1>6

\* The function gets a value at a new point.
LEMMA SumExtend ==
  ASSUME NEW S, IsFiniteSet(S), NEW f \in [S -> Int], NEW x, x \notin S,
         NEW g \in [S \cup {x} -> Int], \A y \in S : g[y] = f[y]
  PROVE  SumFunction(g) = SumFunction(f) + g[x]
<1> DEFINE T == S \cup {x}
<1>1. IsFiniteSet(T) /\ T \in SUBSET T /\ S \in SUBSET S /\ T \ {x} = S
  BY FS_AddElement
<1>2. PICK it : IsSum(it, f, S) /\ SumFunction(f) = it[S]
  BY SumIs
<1>3. PICK jt : IsSum(jt, g, T) /\ SumFunction(g) = jt[T]
  BY <1>1, SumIs
<1>4. it[S] = jt[S]
  BY <1>2, <1>3, SumsAgree
<1>5. jt[T] = g[x] + jt[S] /\ it[S] \in Int
  <2>1. jt[T] = g[x] + jt[T \ {x}]
    <3>1. x \in T
      OBVIOUS
    <3>. HIDE DEF T
    <3>. QED  BY <1>1, <1>3, <3>1 DEF IsSum
  <2>2. it[S] \in Int
    BY <1>1, <1>2 DEF IsSum
  <2>. QED  BY <1>1, <2>1, <2>2
<1>6. g[x] \in Int
  OBVIOUS
<1>. QED  BY <1>2, <1>3, <1>4, <1>5, <1>6

\* Nothing is added but natural numbers: none exceeds the sum, which is 0 only if all are.
LEMMA SumBounds ==
  ASSUME NEW S, IsFiniteSet(S), NEW f \in [S -> Nat]
  PROVE  /\ SumFunction(f) \in Nat
         /\ \A x \in S : f[x] <= SumFunction(f)
         /\ (\A x \in S : f[x] = 0) => SumFunction(f) = 0
<1>1. PICK it : IsSum(it, f, S) /\ SumFunction(f) = it[S]
  BY SumIs
<1> DEFINE N == {n \in Nat : \A t \in SUBSET S : Cardinality(t) <= n =>
                    it[t] >= 0 /\ ((\A x \in S : f[x] = 0) => it[t] = 0)}
<1>2. 0 \in N
  <2>1. ASSUME NEW t \in SUBSET S, Cardinality(t) <= 0 PROVE t = {}
    BY <2>1, FS_EmptySet, FS_Subset, FS_CardinalityType
  <2>2. it[{}] = 0
    BY <1>1 DEF IsSum
  <2>. QED  BY <2>1, <2>2
<1>3. ASSUME NEW n \in N PROVE n + 1 \in N
  <2>1. ASSUME NEW t \in SUBSET S, Cardinality(t) <= n + 1
        PROVE  it[t] >= 0 /\ ((\A x \in S : f[x] = 0) => it[t] = 0)
    <3>1. CASE t = {}
      BY <1>1, <3>1 DEF IsSum
    <3>2. CASE t # {}
      <4>1. PICK x \in t : TRUE
        BY <3>2
      <4>2. IsFiniteSet(t) /\ t \ {x} \in SUBSET S
        BY FS_Subset
      <4>3. /\ Cardinality(t) \in Nat /\ n \in Nat
            /\ Cardinality(t \ {x}) = Cardinality(t) - 1
        <5>1. n \in Nat
          OBVIOUS
        <5>. QED  BY <4>1, <4>2, <5>1, RemoveOne, Zenon
      <4>4. Cardinality(t \ {x}) <= n
        BY <2>1, <4>3
      <4>5. it[t \ {x}] >= 0 /\ ((\A y \in S : f[y] = 0) => it[t \ {x}] = 0)
        BY <4>2, <4>4
      <4>6. f[x] \in Nat /\ x \in S
        OBVIOUS
      <4>7. it[t] = f[x] + it[t \ {x}] /\ it[t \ {x}] \in Int
        BY <1>1, <4>1, <4>2 DEF IsSum
      <4>. QED  BY <4>5, <4>6, <4>7
    <3>. QED  BY <3>1, <3>2
  <2>2. n + 1 \in Nat
    OBVIOUS
  <2>. QED  BY <2>1, <2>2
<1>4. N = Nat
  <2>1. N \subseteq Nat
    OBVIOUS
  <2>. HIDE DEF N
  <2>. QED  BY <1>2, <1>3, <2>1, SetInduction
<1>5. \A t \in SUBSET S : it[t] >= 0 /\ ((\A x \in S : f[x] = 0) => it[t] = 0)
  <2>. SUFFICES ASSUME NEW t \in SUBSET S
                PROVE  it[t] >= 0 /\ ((\A x \in S : f[x] = 0) => it[t] = 0)
    OBVIOUS
  <2>1. Cardinality(t) \in Nat /\ Cardinality(t) <= Cardinality(t)
    BY FS_Subset, FS_CardinalityType
  <2>2. Cardinality(t) \in N
    <3>. HIDE DEF N
    <3>. QED  BY <1>4, <2>1
  <2>. QED  BY <2>1, <2>2
<1>6. S \in SUBSET S /\ it[S] \in Int
  BY <1>1 DEF IsSum
<1>7. ASSUME NEW x \in S PROVE f[x] <= it[S]
  <2>1. S \ {x} \in SUBSET S /\ f[x] \in Nat
    OBVIOUS
  <2>2. it[S] = f[x] + it[S \ {x}] /\ it[S \ {x}] \in Int
    BY <1>1, <1>6, <2>1 DEF IsSum
  <2>3. it[S \ {x}] >= 0
    BY <1>5, <2>1
  <2>. QED  BY <2>1, <2>2, <2>3
<1>. QED  BY <1>1, <1>5, <1>6, <1>7

\* Nothing that is added exceeds m.
LEMMA SumAtMost ==
  ASSUME NEW S, IsFiniteSet(S), NEW f \in [S -> Nat], NEW m \in Nat, \A x \in S : f[x] <= m
  PROVE  SumFunction(f) <= Cardinality(S) * m
<1>1. PICK it : IsSum(it, f, S) /\ SumFunction(f) = it[S]
  BY SumIs
<1> DEFINE N == {n \in Nat : \A t \in SUBSET S :
                                Cardinality(t) <= n => it[t] <= Cardinality(t) * m}
<1>2. 0 \in N
  <2>1. ASSUME NEW t \in SUBSET S, Cardinality(t) <= 0 PROVE t = {}
    BY <2>1, FS_EmptySet, FS_Subset, FS_CardinalityType
  <2>2. it[{}] = 0 /\ Cardinality({}) = 0 /\ 0 <= 0 * m
    BY <1>1, FS_EmptySet DEF IsSum
  <2>. QED  BY <2>1, <2>2
<1>3. ASSUME NEW n \in N PROVE n + 1 \in N
  <2>1. ASSUME NEW t \in SUBSET S, Cardinality(t) <= n + 1
        PROVE  it[t] <= Cardinality(t) * m
    <3>1. CASE t = {}
      <4>1. it[{}] = 0 /\ Cardinality({}) = 0 /\ 0 <= 0 * m
        BY <1>1, FS_EmptySet DEF IsSum
      <4>. QED  BY <3>1, <4>1
    <3>2. CASE t # {}
      <4>1. PICK x \in t : TRUE
        BY <3>2
      <4>2. IsFiniteSet(t) /\ t \ {x} \in SUBSET S
        BY FS_Subset
      <4>3. /\ Cardinality(t) \in Nat /\ n \in Nat /\ Cardinality(t \ {x}) \in Nat
            /\ Cardinality(t \ {x}) = Cardinality(t) - 1
        <5>1. n \in Nat
          OBVIOUS
        <5>. QED  BY <4>1, <4>2, <5>1, RemoveOne, Zenon
      <4>4. Cardinality(t \ {x}) <= n
        BY <2>1, <4>3
      <4>5. it[t \ {x}] <= Cardinality(t \ {x}) * m
        BY <4>2, <4>4
      <4>6. f[x] \in Nat /\ x \in S /\ f[x] <= m
        OBVIOUS
      <4>7. it[t] = f[x] + it[t \ {x}] /\ it[t \ {x}] \in Int
        BY <1>1, <4>1, <4>2 DEF IsSum
      <4>8. \A c \in Int : (c - 1) * m + m = c * m
        OBVIOUS
      <4>. HIDE DEF N
      <4>9. Cardinality(t \ {x}) * m + m = Cardinality(t) * m
        BY <4>3, <4>8
      <4>10. Cardinality(t \ {x}) * m \in Int /\ Cardinality(t) * m \in Int
        BY <4>3
      <4>. QED  BY <4>5, <4>6, <4>7, <4>9, <4>10
    <3>. QED  BY <3>1, <3>2
  <2>2. n + 1 \in Nat
    OBVIOUS
  <2>. QED  BY <2>1, <2>2
<1>4. N = Nat
  <2>1. N \subseteq Nat
    OBVIOUS
  <2>. HIDE DEF N
  <2>. QED  BY <1>2, <1>3, <2>1, SetInduction
<1>5. Cardinality(S) \in Nat /\ Cardinality(S) <= Cardinality(S) /\ S \in SUBSET S
  BY FS_CardinalityType
<1>6. Cardinality(S) \in N
  <2>. HIDE DEF N
  <2>. QED  BY <1>4, <1>5
<1>. QED  BY <1>1, <1>5, <1>6

\* A sum is that of a part and that of the rest.
LEMMA SumSplit ==
  ASSUME NEW S, IsFiniteSet(S), NEW f \in [S -> Int], NEW A \in SUBSET S
  PROVE  SumFunction(f) = SumFunction([x \in A |-> f[x]]) + SumFunction([x \in S \ A |-> f[x]])
<1> DEFINE R == S \ A
           g == [x \in A |-> f[x]]
           h == [x \in R |-> f[x]]
<1>0. IsFiniteSet(A) /\ IsFiniteSet(R)
  BY FS_Subset
<1>1. g \in [A -> Int] /\ h \in [R -> Int] /\ (\A x \in A : f[x] = g[x]) /\ \A x \in R : f[x] = h[x]
  OBVIOUS
<1>2. A \subseteq S /\ R \subseteq S /\ A \cap R = {} /\ A \cup R = S /\ A \subseteq A
  OBVIOUS
<1>. HIDE DEF R, g, h
<1>3. PICK it : IsSum(it, f, S) /\ SumFunction(f) = it[S]
  BY SumIs
<1>4. PICK jt : IsSum(jt, g, A) /\ SumFunction(g) = jt[A]
  BY <1>0, <1>1, SumIs
<1>5. PICK kt : IsSum(kt, h, R) /\ SumFunction(h) = kt[R]
  BY <1>0, <1>1, SumIs
<1>6. it[A] = jt[A]
  BY <1>0, <1>1, <1>2, <1>3, <1>4, SumsAgree
<1>7. /\ it \in [SUBSET S -> Int] /\ \A s \in SUBSET S : \A x \in s : it[s] = f[x] + it[s \ {x}]
      /\ kt \in [SUBSET R -> Int] /\ kt[{}] = 0
      /\ \A s \in SUBSET R : \A x \in s : kt[s] = h[x] + kt[s \ {x}]
  BY <1>3, <1>5 DEF IsSum
<1> DEFINE N == {n \in Nat : \A r \in SUBSET R :
                   IsFiniteSet(r) /\ Cardinality(r) = n => it[A \cup r] = it[A] + kt[r]}
<1>8. 0 \in N
  <2>. SUFFICES ASSUME NEW r \in SUBSET R, IsFiniteSet(r), Cardinality(r) = 0
                PROVE  it[A \cup r] = it[A] + kt[r]
    OBVIOUS
  <2>1. r = {} /\ A \cup {} = A
    BY FS_EmptySet
  <2>2. it[A] \in Int
    BY <1>2, <1>7
  <2>. QED  BY <1>7, <2>1, <2>2
<1>9. ASSUME NEW n \in N PROVE n + 1 \in N
  <2>0. n \in Nat /\ n + 1 \in Nat
    OBVIOUS
  <2>. SUFFICES ASSUME NEW r \in SUBSET R, IsFiniteSet(r), Cardinality(r) = n + 1
                PROVE  it[A \cup r] = it[A] + kt[r]
    BY <2>0
  <2>1. PICK x : x \in r
    BY <2>0, FS_EmptySet
  <2>2. IsFiniteSet(r \ {x}) /\ Cardinality(r \ {x}) = n /\ r \ {x} \in SUBSET R
    BY <2>0, <2>1, RemoveOne
  <2>3. it[A \cup (r \ {x})] = it[A] + kt[r \ {x}]
    BY <2>2
  <2>4. (A \cup r) \ {x} = A \cup (r \ {x}) /\ A \cup r \in SUBSET S /\ x \in A \cup r /\ x \in R
    BY <1>2, <2>1
  <2>5. it[A \cup r] = f[x] + it[A \cup (r \ {x})]
    <3>1. \A s \in SUBSET S : \A y \in s : it[s] = f[y] + it[s \ {y}]
      BY <1>7
    <3>2. it[A \cup r] = f[x] + it[(A \cup r) \ {x}]
      <4> DEFINE s == A \cup r
      <4>1. s \in SUBSET S /\ x \in s
        BY <2>4
      <4>2. it[s] = f[x] + it[s \ {x}]
        <5>. HIDE DEF s
        <5>. QED  BY <3>1, <4>1
      <4>. QED  BY <4>2
    <3>. QED  BY <2>4, <3>2
  <2>6. kt[r] = h[x] + kt[r \ {x}] /\ f[x] = h[x]
    BY <1>1, <1>7, <2>1, <2>4
  <2>7. it[A] \in Int /\ kt[r \ {x}] \in Int /\ h[x] \in Int
    BY <1>1, <1>2, <1>7, <2>2, <2>4
  <2>. QED  BY <2>3, <2>5, <2>6, <2>7
<1>10. N = Nat
  <2>1. N \subseteq Nat
    OBVIOUS
  <2>. HIDE DEF N
  <2>. QED  BY <1>8, <1>9, <2>1, SetInduction
<1>11. it[A \cup R] = it[A] + kt[R]
  <2>1. Cardinality(R) \in N
    <3>. HIDE DEF N
    <3>. QED  BY <1>0, <1>10, FS_CardinalityType
  <2>. QED  BY <1>0, <2>1
<1>12. SumFunction(f) = SumFunction(g) + SumFunction(h)
  BY <1>2, <1>3, <1>4, <1>5, <1>6, <1>11
<1>. QED  BY <1>12 DEF g, h, R

-----------------------------------------------------------------------------
(* Step by step: h[k] is what the first k steps give. *)

IsRun(h, B, b, G, n) ==
  /\ h \in [0 .. n -> B] /\ h[0] = b
  /\ \A k \in 1 .. n : h[k] = G[<<h[k - 1], k>>]

LEMMA MaxPrefix ==
  ASSUME NEW k \in Nat \ {0}
  PROVE  Max(1 .. k) = k /\ (1 .. k) \ {k} = 1 .. k - 1 /\ 1 .. k # {}
<1>1. k \in 1 .. k /\ (1 .. k) \ {k} = 1 .. k - 1 /\ 1 .. k # {}
  OBVIOUS
<1>2. Max(1 .. k) \in 1 .. k /\ \A j \in 1 .. k : j <= Max(1 .. k)
  BY <1>1, MaxIs
<1>. QED  BY <1>1, <1>2

LEMMA RunOf ==
  ASSUME NEW n \in Nat, NEW B, NEW b \in B, NEW G \in [B \X (1 .. n) -> B], NEW f, f[0] = b,
         \A k \in 1 .. n : f[k - 1] \in B => f[k] = G[<<f[k - 1], k>>]
  PROVE  IsRun([k \in 0 .. n |-> f[k]], B, b, G, n)
<1> DEFINE N == {k \in Nat : k <= n => f[k] \in B}
<1>1. 0 \in N
  OBVIOUS
<1>2. ASSUME NEW k \in N PROVE k + 1 \in N
  <2>1. k \in Nat /\ (k <= n => f[k] \in B)
    OBVIOUS
  <2>2. ASSUME k + 1 <= n PROVE f[k + 1] \in B
    <3>1. f[k] \in B /\ k + 1 \in 1 .. n /\ (k + 1) - 1 = k
      BY <2>1, <2>2
    <3>2. f[k + 1] = G[<<f[k], k + 1>>]
      BY <3>1
    <3>3. <<f[k], k + 1>> \in B \X (1 .. n)
      BY <3>1
    <3>. QED  BY <3>2, <3>3
  <2>. QED  BY <2>1, <2>2
<1>3. N = Nat
  <2>1. N \subseteq Nat
    OBVIOUS
  <2>. HIDE DEF N
  <2>. QED  BY <1>1, <1>2, <2>1, SetInduction
<1>4. \A k \in 0 .. n : f[k] \in B
  <2>. SUFFICES ASSUME NEW k \in 0 .. n PROVE f[k] \in B
    OBVIOUS
  <2>1. k \in N
    <3>. HIDE DEF N
    <3>. QED  BY <1>3
  <2>. QED  BY <2>1
<1> DEFINE h == [k \in 0 .. n |-> f[k]]
<1>5. h \in [0 .. n -> B] /\ h[0] = b
  BY <1>4
<1>6. \A k \in 1 .. n : h[k] = G[<<h[k - 1], k>>]
  <2>. SUFFICES ASSUME NEW k \in 1 .. n PROVE h[k] = G[<<h[k - 1], k>>]
    OBVIOUS
  <2>1. k \in 0 .. n /\ k - 1 \in 0 .. n
    OBVIOUS
  <2>2. h[k] = f[k] /\ h[k - 1] = f[k - 1] /\ f[k - 1] \in B
    BY <1>4, <2>1
  <2>. HIDE DEF h
  <2>. QED  BY <2>2
<1>. HIDE DEF h
<1>7. IsRun(h, B, b, G, n)
  BY <1>5, <1>6 DEF IsRun
<1>. QED  BY <1>7 DEF h

\* A run has no other values than these.
LEMMA RunUnique ==
  ASSUME NEW n \in Nat, NEW B, NEW b, NEW G, NEW h, IsRun(h, B, b, G, n), NEW g, IsRun(g, B, b, G, n)
  PROVE  \A k \in 0 .. n : h[k] = g[k]
<1> DEFINE N == {k \in Nat : k <= n => h[k] = g[k]}
<1>1. 0 \in N
  BY DEF IsRun
<1>2. ASSUME NEW k \in N PROVE k + 1 \in N
  <2>1. k \in Nat /\ (k <= n => h[k] = g[k])
    OBVIOUS
  <2>2. ASSUME k + 1 <= n PROVE h[k + 1] = g[k + 1]
    <3>1. h[k] = g[k] /\ k + 1 \in 1 .. n /\ (k + 1) - 1 = k
      BY <2>1, <2>2
    <3>. QED  BY <3>1 DEF IsRun
  <2>. QED  BY <2>1, <2>2
<1>3. N = Nat
  <2>1. N \subseteq Nat
    OBVIOUS
  <2>. HIDE DEF N
  <2>. QED  BY <1>1, <1>2, <2>1, SetInduction
<1>. SUFFICES ASSUME NEW k \in 0 .. n PROVE h[k] = g[k]
  OBVIOUS
<1>4. k \in N
  <2>. HIDE DEF N
  <2>. QED  BY <1>3
<1>. QED  BY <1>4

\* A fold from the left, by the function on subsets that MapThenFoldSet goes through.
HasLeftFold(n, B, b, G) ==
  \E it \in [SUBSET (1 .. n) -> B] :
    /\ it[{}] = b
    /\ \A s \in SUBSET (1 .. n) : s # {} =>
         Max(s) \in 1 .. n /\ it[s] = G[<<it[s \ {Max(s)}], Max(s)>>]

LEMMA LeftFoldExists ==
  ASSUME NEW n \in Nat, NEW B, NEW b \in B, NEW G \in [B \X (1 .. n) -> B]
  PROVE  HasLeftFold(n, B, b, G)
<1> DEFINE S == 1 .. n
           c == [s \in SUBSET S |-> Max(s)]
<1>1. IsFiniteSet(S)
  BY FS_Interval
<1>2. \A s \in SUBSET S : s # {} => Max(s) \in s
  BY MaxIs
<1>3. \A s \in SUBSET S : c[s] = Max(s)
  OBVIOUS
<1>4. \A s \in SUBSET S : s # {} => c[s] \in s
  BY <1>2, <1>3
<1>5. HasFold(S, B, b, G, c)
  <2>. HIDE DEF c, S
  <2>1. G \in [B \X S -> B]
    BY DEF S
  <2>. QED  BY <1>1, <1>4, <2>1, FoldExists, Zenon
<1>6. PICK it \in [SUBSET S -> B] :
        /\ it[{}] = b
        /\ \A s \in SUBSET S : s # {} => it[s] = G[<<it[s \ {c[s]}], c[s]>>]
  <2>. HIDE DEF c, S
  <2>. QED  BY <1>5 DEF HasFold
<1>7. \A s \in SUBSET S : s # {} => it[s] = G[<<it[s \ {Max(s)}], Max(s)>>] /\ Max(s) \in S
  <2>. HIDE DEF c, S
  <2>. QED  BY <1>2, <1>3, <1>6
<1>. QED  BY <1>6, <1>7 DEF HasLeftFold

LEMMA RunExists ==
  ASSUME NEW n \in Nat, NEW B, NEW b \in B, NEW G \in [B \X (1 .. n) -> B]
  PROVE  \E h : IsRun(h, B, b, G, n)
<1>0. HasLeftFold(n, B, b, G)
  BY LeftFoldExists
<1>1. PICK it \in [SUBSET (1 .. n) -> B] :
        /\ it[{}] = b
        /\ \A s \in SUBSET (1 .. n) : s # {} =>
             Max(s) \in 1 .. n /\ it[s] = G[<<it[s \ {Max(s)}], Max(s)>>]
  BY <1>0 DEF HasLeftFold
<1> DEFINE f == [k \in 0 .. n |-> it[1 .. k]]
<1>2. f[0] = b
  <2>1. 1 .. 0 = {}
    OBVIOUS
  <2>. QED  BY <1>1, <2>1
<1>3. \A k \in 1 .. n : f[k] = G[<<f[k - 1], k>>]
  <2>. SUFFICES ASSUME NEW k \in 1 .. n PROVE f[k] = G[<<f[k - 1], k>>]
    OBVIOUS
  <2>1. 1 .. k \in SUBSET (1 .. n) /\ k \in Nat \ {0}
    OBVIOUS
  <2>2. it[1 .. k] = G[<<it[1 .. k - 1], k>>]
    BY <1>1, <2>1, MaxPrefix
  <2>3. f[k] = it[1 .. k] /\ f[k - 1] = it[1 .. k - 1]
    OBVIOUS
  <2>. HIDE DEF f
  <2>. QED  BY <2>2, <2>3
<1>. HIDE DEF f
<1>4. IsRun([k \in 0 .. n |-> f[k]], B, b, G, n)
  BY <1>2, <1>3, RunOf
<1>. QED  BY <1>4

\* A fold from the left is a run.
Follows(it, B, b, G, n) ==
  /\ it[{}] = b
  /\ \A s \in SUBSET (1 .. n) : s # {} /\ it[s \ {Max(s)}] \in B =>
       it[s] = G[<<it[s \ {Max(s)}], Max(s)>>]

EndsRun(v, B, b, G, n) == \E h : IsRun(h, B, b, G, n) /\ h[n] = v

LEMMA RunOfFold ==
  ASSUME NEW n \in Nat, NEW B, NEW b \in B, NEW G \in [B \X (1 .. n) -> B], NEW it,
         Follows(it, B, b, G, n)
  PROVE  EndsRun(it[1 .. n], B, b, G, n)
<1> DEFINE f == [k \in 0 .. n |-> it[1 .. k]]
<1>1. f[0] = b /\ f[n] = it[1 .. n]
  <2>1. 1 .. 0 = {}
    OBVIOUS
  <2>. QED  BY <2>1 DEF Follows
<1>2. \A k \in 1 .. n : f[k - 1] \in B => f[k] = G[<<f[k - 1], k>>]
  <2>. SUFFICES ASSUME NEW k \in 1 .. n, f[k - 1] \in B PROVE f[k] = G[<<f[k - 1], k>>]
    OBVIOUS
  <2>1. 1 .. k \in SUBSET (1 .. n) /\ k \in Nat \ {0}
    OBVIOUS
  <2>2. f[k] = it[1 .. k] /\ f[k - 1] = it[1 .. k - 1]
    OBVIOUS
  <2>. HIDE DEF f
  <2>3. it[1 .. k] = G[<<it[1 .. k - 1], k>>]
    BY <2>1, <2>2, MaxPrefix DEF Follows
  <2>. QED  BY <2>2, <2>3
<1>3. f = [k \in 0 .. n |-> f[k]]
  OBVIOUS
<1>. HIDE DEF f
<1>4. IsRun([k \in 0 .. n |-> f[k]], B, b, G, n)
  BY <1>1, <1>2, RunOf
<1>. QED  BY <1>1, <1>3, <1>4 DEF EndsRun

-----------------------------------------------------------------------------
(* What a sequence of pieces spells: the pieces one after the other. *)

\* h[k] is what the first k pieces spell.
Spelling(h, xs, C) ==
  /\ h \in [0 .. Len(xs) -> Seq(C)] /\ h[0] = <<>>
  /\ \A k \in 1 .. Len(xs) : h[k] = h[k - 1] \o xs[k]

Spells(xs, a, C) == \E h : Spelling(h, xs, C) /\ h[Len(xs)] = a

\* hidden from the provers where sequences are joined
Associates(x, y, z) == x \o (y \o z) = (x \o y) \o z

LEMMA CatAssoc ==
  ASSUME NEW C, NEW x \in Seq(C), NEW y \in Seq(C), NEW z \in Seq(C)
  PROVE  Associates(x, y, z)
  BY DEF Associates

LEMMA SpellsOne ==
  ASSUME NEW C, NEW xs \in Seq(Seq(C)), NEW a, Spells(xs, a, C), NEW b, Spells(xs, b, C)
  PROVE  a = b /\ a \in Seq(C)
<1> DEFINE n == Len(xs)
           G == [x \in Seq(C) \X (1 .. n) |-> x[1] \o xs[x[2]]]
<1>0. n \in Nat
  OBVIOUS
<1>1. PICK h, g : Spelling(h, xs, C) /\ h[n] = a /\ Spelling(g, xs, C) /\ g[n] = b
  BY DEF Spells
<1>2. \A v \in Seq(C), k \in 1 .. n : G[<<v, k>>] = v \o xs[k]
  OBVIOUS
<1>. HIDE DEF G, n
<1>3. \A f : Spelling(f, xs, C) => IsRun(f, Seq(C), <<>>, G, n)
  <2>. SUFFICES ASSUME NEW f, Spelling(f, xs, C) PROVE IsRun(f, Seq(C), <<>>, G, n)
    OBVIOUS
  <2>1. f \in [0 .. n -> Seq(C)] /\ f[0] = <<>> /\ \A k \in 1 .. n : f[k] = f[k - 1] \o xs[k]
    BY DEF Spelling, n
  <2>2. \A k \in 1 .. n : f[k - 1] \in Seq(C)
    BY <1>0, <2>1
  <2>. QED  BY <1>2, <2>1, <2>2 DEF IsRun
<1>4. \A k \in 0 .. n : h[k] = g[k]
  BY <1>0, <1>1, <1>3, RunUnique
<1>. QED  BY <1>0, <1>1, <1>4 DEF Spelling, n

LEMMA SpellsNone ==
  ASSUME NEW C
  PROVE  Spells(<<>>, <<>>, C)
<1> DEFINE h == [k \in 0 .. 0 |-> <<>>]
<1>1. Spelling(h, <<>>, C) /\ h[0] = <<>>
  BY DEF Spelling
<1>. QED  BY <1>1 DEF Spells

LEMMA SpellsConcat ==
  ASSUME NEW C, NEW xs \in Seq(Seq(C)), NEW ys \in Seq(Seq(C)), NEW a, NEW b,
         Spells(xs, a, C), Spells(ys, b, C)
  PROVE  Spells(xs \o ys, a \o b, C)
<1> DEFINE n == Len(xs)
           m == Len(ys)
<1>0. n \in Nat /\ m \in Nat /\ Len(xs \o ys) = n + m /\ n + m \in Nat
  OBVIOUS
<1>1. PICK f : Spelling(f, xs, C) /\ f[n] = a
  BY DEF Spells
<1>2. PICK g : Spelling(g, ys, C) /\ g[m] = b
  BY DEF Spells
<1>3. /\ f \in [0 .. n -> Seq(C)] /\ f[0] = <<>> /\ \A k \in 1 .. n : f[k] = f[k - 1] \o xs[k]
      /\ g \in [0 .. m -> Seq(C)] /\ g[0] = <<>> /\ \A k \in 1 .. m : g[k] = g[k - 1] \o ys[k]
  BY <1>1, <1>2 DEF Spelling
<1>4. /\ \A k \in 1 .. n : (xs \o ys)[k] = xs[k]
      /\ \A k \in n + 1 .. n + m : (xs \o ys)[k] = ys[k - n]
      /\ \A k \in 1 .. m : ys[k] \in Seq(C)
  OBVIOUS
<1>. HIDE DEF n, m
<1>5. a \in Seq(C) /\ b \in Seq(C) /\ a \o <<>> = a
  <2>1. a \in Seq(C) /\ b \in Seq(C)
    BY <1>0, <1>1, <1>2, <1>3
  <2>. QED  BY <2>1
<1> DEFINE h == [k \in 0 .. n + m |-> IF k <= n THEN f[k] ELSE a \o g[k - n]]
<1>6. /\ \A k \in 0 .. n : h[k] = f[k] /\ f[k] \in Seq(C)
      /\ \A k \in n .. n + m : h[k] = a \o g[k - n] /\ k - n \in 0 .. m
  <2>a. \A k \in 0 .. n : k \in 0 .. n + m /\ k <= n
    BY <1>0
  <2>1. \A k \in 0 .. n : h[k] = f[k] /\ f[k] \in Seq(C)
    BY <2>a, <1>3
  <2>b. \A k \in n + 1 .. n + m : k \in 0 .. n + m /\ ~(k <= n) /\ k - n \in 0 .. m
    BY <1>0
  <2>2. \A k \in n + 1 .. n + m : h[k] = a \o g[k - n] /\ k - n \in 0 .. m
    BY <2>b
  <2>3. h[n] = a \o g[0] /\ n - n = 0 /\ 0 \in 0 .. m
    BY <1>0, <1>1, <1>3, <1>5
  <2>. HIDE DEF h
  <2>4. \A k \in n .. n + m : k = n \/ k \in n + 1 .. n + m
    BY <1>0
  <2>. QED  BY <2>1, <2>2, <2>3, <2>4
<1>7. DOMAIN h = 0 .. n + m /\ h = [k \in 0 .. n + m |-> h[k]]
  OBVIOUS
<1>. HIDE DEF h
<1>8. \A k \in 0 .. n + m : h[k] \in Seq(C)
  <2>1. \A k \in 0 .. m : g[k] \in Seq(C)
    BY <1>3
  <2>2. ASSUME NEW k \in n .. n + m PROVE h[k] \in Seq(C)
    <3>1. h[k] = a \o g[k - n] /\ g[k - n] \in Seq(C)
      BY <1>6, <2>1
    <3>. QED  BY <1>5, <3>1
  <2>3. \A k \in 0 .. n + m : k \in 0 .. n \/ k \in n .. n + m
    BY <1>0
  <2>. QED  BY <1>6, <2>2, <2>3
<1>9. h \in [0 .. n + m -> Seq(C)]
  BY <1>7, <1>8
<1>10. h[0] = <<>>
  <2>1. 0 \in 0 .. n
    BY <1>0
  <2>. QED  BY <2>1, <1>3, <1>6
<1>11. ASSUME NEW k \in 1 .. n + m PROVE h[k] = h[k - 1] \o (xs \o ys)[k]
  <2>1. CASE k <= n
    <3>1. k \in 1 .. n /\ k \in 0 .. n /\ k - 1 \in 0 .. n
      BY <1>0, <2>1
    <3>2. h[k] = f[k] /\ h[k - 1] = f[k - 1]
      BY <3>1, <1>6
    <3>. QED  BY <3>1, <3>2, <1>3, <1>4
  <2>2. CASE k > n
    <3>1. k \in n + 1 .. n + m /\ k \in n .. n + m /\ k - 1 \in n .. n + m /\ k - n \in 1 .. m
          /\ (k - n) - 1 = (k - 1) - n /\ (k - n) - 1 \in 0 .. m
      BY <1>0, <2>2
    <3>2. h[k] = a \o g[k - n] /\ h[k - 1] = a \o g[(k - n) - 1] /\ (xs \o ys)[k] = ys[k - n]
      BY <3>1, <1>4, <1>6
    <3>3. g[k - n] = g[(k - n) - 1] \o ys[k - n]
      BY <3>1, <1>3
    <3>4. g[(k - n) - 1] \in Seq(C) /\ ys[k - n] \in Seq(C)
      BY <3>1, <1>3, <1>4
    <3>5. Associates(a, g[(k - n) - 1], ys[k - n])
      BY <1>5, <3>4, CatAssoc
    <3>. QED  BY <3>2, <3>3, <3>5, Zenon DEF Associates
  <2>3. k <= n \/ k > n
    BY <1>0
  <2>. QED  BY <2>1, <2>2, <2>3
<1>12. h[n + m] = a \o b
  <2>1. n + m \in n .. n + m /\ (n + m) - n = m
    BY <1>0
  <2>. QED  BY <2>1, <1>2, <1>6
<1>13. Spelling(h, xs \o ys, C)
  BY <1>0, <1>9, <1>10, <1>11 DEF Spelling
<1>. QED  BY <1>0, <1>12, <1>13 DEF Spells

LEMMA SpellsOnePiece ==
  ASSUME NEW C, NEW x \in Seq(C)
  PROVE  Spells(<<x>>, x, C)
<1> DEFINE h == [k \in 0 .. 1 |-> IF k = 0 THEN <<>> ELSE x]
<1>1. h \in [0 .. 1 -> Seq(C)] /\ h[0] = <<>> /\ h[1] = x /\ <<>> \o x = x
  OBVIOUS
<1>2. Len(<<x>>) = 1 /\ <<x>>[1] = x /\ \A k \in 1 .. 1 : k = 1 /\ k - 1 = 0
  OBVIOUS
<1>. HIDE DEF h
<1>3. Spelling(h, <<x>>, C)
  BY <1>1, <1>2 DEF Spelling
<1>. QED  BY <1>1, <1>2, <1>3 DEF Spells

LEMMA SpellsAppend ==
  ASSUME NEW C, NEW xs \in Seq(Seq(C)), NEW a, Spells(xs, a, C), NEW x \in Seq(C)
  PROVE  Append(xs, x) \in Seq(Seq(C)) /\ Spells(Append(xs, x), a \o x, C)
<1>1. Append(xs, x) = xs \o <<x>> /\ <<x>> \in Seq(Seq(C))
  OBVIOUS
<1>2. Spells(<<x>>, x, C)
  BY SpellsOnePiece
<1>3. Spells(xs \o <<x>>, a \o x, C)
  BY <1>1, <1>2, SpellsConcat
<1>4. xs \o <<x>> \in Seq(Seq(C))
  BY <1>1
<1>. QED  BY <1>1, <1>3, <1>4

LEMMA SpellsChars ==
  ASSUME NEW C, NEW w \in Seq(C)
  PROVE  /\ [i \in DOMAIN w |-> <<w[i]>>] \in Seq(Seq(C))
         /\ Spells([i \in DOMAIN w |-> <<w[i]>>], w, C)
<1> DEFINE xs == [i \in DOMAIN w |-> <<w[i]>>]
           n == Len(w)
           h == [k \in 0 .. n |-> SubSeq(w, 1, k)]
<1>1. n \in Nat /\ DOMAIN w = 1 .. n /\ \A i \in 1 .. n : <<w[i]>> \in Seq(C)
  OBVIOUS
<1>2. xs \in Seq(Seq(C)) /\ Len(xs) = n /\ \A k \in 1 .. n : xs[k] = <<w[k]>>
  BY <1>1
<1>3. h \in [0 .. n -> Seq(C)] /\ h[0] = <<>> /\ h[n] = w
  BY <1>1
<1>4. \A k \in 1 .. n : h[k] = h[k - 1] \o xs[k]
  <2>. SUFFICES ASSUME NEW k \in 1 .. n PROVE h[k] = h[k - 1] \o xs[k]
    OBVIOUS
  <2>1. SubSeq(w, 1, k) = SubSeq(w, 1, k - 1) \o <<w[k]>>
    BY <1>1
  <2>2. h[k] = SubSeq(w, 1, k) /\ h[k - 1] = SubSeq(w, 1, k - 1) /\ xs[k] = <<w[k]>>
    BY <1>1, <1>2
  <2>. HIDE DEF h, xs
  <2>. QED  BY <2>1, <2>2
<1>. HIDE DEF h, xs, n
<1>5. Spelling(h, xs, C)
  BY <1>2, <1>3, <1>4 DEF Spelling
<1>6. Spells(xs, w, C)
  BY <1>2, <1>3, <1>5 DEF Spells
<1>. QED  BY <1>2, <1>6 DEF xs

\* Two neighbours made one spell the same.
Joined(ys, xs, i) ==
  /\ Len(ys) = Len(xs) - 1
  /\ \A j \in 1 .. i - 1 : ys[j] = xs[j]
  /\ ys[i] = xs[i] \o xs[i + 1]
  /\ \A j \in i + 1 .. Len(xs) - 1 : ys[j] = xs[j + 1]

LEMMA SpellsMerge ==
  ASSUME NEW C, NEW xs \in Seq(Seq(C)), NEW a, Spells(xs, a, C), NEW i \in 1 .. Len(xs) - 1,
         NEW ys, Joined(ys, xs, i)
  PROVE  Spells(ys, a, C)
<1> DEFINE n == Len(xs)
<1>0. n \in Nat /\ i \in Nat /\ 1 <= i /\ i <= n - 1 /\ n - 1 \in Nat
  OBVIOUS
<1>1. PICK f : Spelling(f, xs, C) /\ f[n] = a
  BY DEF Spells
<1>2. /\ f \in [0 .. n -> Seq(C)] /\ f[0] = <<>> /\ \A k \in 1 .. n : f[k] = f[k - 1] \o xs[k]
      /\ \A k \in 1 .. n : xs[k] \in Seq(C)
  <2>1. \A k \in 1 .. n : xs[k] \in Seq(C)
    OBVIOUS
  <2>. QED  BY <1>1, <2>1 DEF Spelling
<1> DEFINE h == [k \in 0 .. n - 1 |-> IF k < i THEN f[k] ELSE f[k + 1]]
<1>3. /\ h \in [0 .. n - 1 -> Seq(C)]
      /\ \A k \in 0 .. i - 1 : h[k] = f[k]
      /\ \A k \in i .. n - 1 : h[k] = f[k + 1]
  <2>. HIDE DEF n
  <2>1. \A k \in 0 .. n - 1 : f[k] \in Seq(C) /\ f[k + 1] \in Seq(C)
    <3>1. \A k \in 0 .. n - 1 : k \in 0 .. n /\ k + 1 \in 0 .. n
      BY <1>0
    <3>. QED  BY <1>2, <3>1
  <2>2. h \in [0 .. n - 1 -> Seq(C)]
    BY <2>1
  <2>3. \A k \in 0 .. n - 1 : h[k] = IF k < i THEN f[k] ELSE f[k + 1]
    OBVIOUS
  <2>. HIDE DEF h
  <2>4. /\ \A k \in 0 .. i - 1 : k \in 0 .. n - 1 /\ k < i
        /\ \A k \in i .. n - 1 : k \in 0 .. n - 1 /\ ~(k < i)
    BY <1>0
  <2>. QED  BY <2>2, <2>3, <2>4
<1>4. /\ Len(ys) = n - 1 /\ ys[i] = xs[i] \o xs[i + 1]
      /\ \A j \in 1 .. i - 1 : ys[j] = xs[j]
      /\ \A j \in i + 1 .. n - 1 : ys[j] = xs[j + 1]
  BY DEF Joined
<1>. HIDE DEF n, h
<1>5. ASSUME NEW k \in 1 .. n - 1 PROVE h[k] = h[k - 1] \o ys[k]
  <2>1. CASE k < i
    <3>1. k \in 0 .. i - 1 /\ k - 1 \in 0 .. i - 1 /\ k \in 1 .. i - 1 /\ k \in 1 .. n
      BY <1>0, <2>1
    <3>2. h[k] = f[k] /\ h[k - 1] = f[k - 1] /\ ys[k] = xs[k] /\ f[k] = f[k - 1] \o xs[k]
      BY <3>1, <1>2, <1>3, <1>4
    <3>. QED  BY <3>2
  <2>2. CASE k = i
    <3>1. i \in i .. n - 1 /\ i \in 1 .. n /\ i + 1 \in 1 .. n /\ (i + 1) - 1 = i
      BY <1>0
    <3>a. i - 1 \in 0 .. i - 1 /\ i - 1 \in 0 .. n
      BY <1>0
    <3>2. h[i] = f[i + 1] /\ h[i - 1] = f[i - 1]
      BY <3>1, <3>a, <1>3
    <3>3. f[i] = f[i - 1] \o xs[i] /\ f[i + 1] = f[i] \o xs[i + 1]
      BY <3>1, <1>2
    <3>4. f[i - 1] \in Seq(C) /\ xs[i] \in Seq(C) /\ xs[i + 1] \in Seq(C)
      BY <3>1, <3>a, <1>2
    <3>5. Associates(f[i - 1], xs[i], xs[i + 1])
      BY <3>4, CatAssoc
    <3>. QED  BY <3>2, <3>3, <3>5, <1>4, <2>2, Zenon DEF Associates
  <2>3. CASE k > i
    <3>1. k \in i .. n - 1 /\ k - 1 \in i .. n - 1 /\ k \in i + 1 .. n - 1 /\ k + 1 \in 1 .. n
          /\ (k + 1) - 1 = k /\ (k - 1) + 1 = k
      BY <1>0, <2>3
    <3>2. h[k] = f[k + 1] /\ h[k - 1] = f[k] /\ ys[k] = xs[k + 1]
      BY <3>1, <1>3, <1>4
    <3>3. f[k + 1] = f[k] \o xs[k + 1]
      BY <3>1, <1>2
    <3>. QED  BY <3>2, <3>3
  <2>4. k < i \/ k = i \/ k > i
    BY <1>0
  <2>. QED  BY <2>1, <2>2, <2>3, <2>4
<1>6. h[0] = <<>> /\ h[n - 1] = a
  <2>1. 0 \in 0 .. i - 1 /\ n - 1 \in i .. n - 1 /\ (n - 1) + 1 = n
    BY <1>0
  <2>. QED  BY <2>1, <1>1, <1>2, <1>3
<1>7. Spelling(h, ys, C)
  BY <1>3, <1>4, <1>5, <1>6 DEF Spelling
<1>. QED  BY <1>4, <1>6, <1>7 DEF Spells

\* A piece is a part of what it helps to spell.
IsPart(p, a, C) == \E u, v \in Seq(C) : a = (u \o p) \o v

LEMMA SpellsPart ==
  ASSUME NEW C, NEW xs \in Seq(Seq(C)), NEW a, Spells(xs, a, C), NEW k \in 1 .. Len(xs)
  PROVE  IsPart(xs[k], a, C)
<1> DEFINE n == Len(xs)
<1>0. n \in Nat /\ k \in Nat /\ 1 <= k /\ k <= n
  OBVIOUS
<1>1. PICK f : Spelling(f, xs, C) /\ f[n] = a
  BY DEF Spells
<1>2. /\ f \in [0 .. n -> Seq(C)] /\ \A j \in 1 .. n : f[j] = f[j - 1] \o xs[j]
      /\ \A j \in 1 .. n : xs[j] \in Seq(C)
  <2>1. \A j \in 1 .. n : xs[j] \in Seq(C)
    OBVIOUS
  <2>. QED  BY <1>1, <2>1 DEF Spelling
<1>. HIDE DEF n
<1> DEFINE N == {m \in Nat : k + m <= n => \E v \in Seq(C) : f[k + m] = f[k] \o v}
<1>3. 0 \in N
  <2>1. k + 0 = k /\ f[k] \in Seq(C)
    BY <1>0, <1>2
  <2>2. <<>> \in Seq(C)
    OBVIOUS
  <2>3. f[k] \o <<>> = f[k]
    BY <2>1
  <2>. QED  BY <2>1, <2>2, <2>3
<1>4. ASSUME NEW m \in N PROVE m + 1 \in N
  <2>0. m \in Nat /\ m + 1 \in Nat /\ k + (m + 1) = (k + m) + 1
    BY <1>0
  <2>. SUFFICES ASSUME k + (m + 1) <= n PROVE \E v \in Seq(C) : f[k + (m + 1)] = f[k] \o v
    BY <2>0
  <2>1. k + m <= n /\ k + (m + 1) \in 1 .. n /\ (k + (m + 1)) - 1 = k + m
    BY <1>0, <2>0
  <2>2. PICK v \in Seq(C) : f[k + m] = f[k] \o v
    BY <2>1
  <2> DEFINE x == xs[k + (m + 1)]
  <2>3. f[k + (m + 1)] = (f[k] \o v) \o x /\ x \in Seq(C) /\ f[k] \in Seq(C)
    <3>1. f[k + (m + 1)] = f[k + m] \o xs[k + (m + 1)] /\ x \in Seq(C)
      BY <2>1, <1>2
    <3>2. k \in 0 .. n
      BY <1>0
    <3>. QED  BY <2>2, <3>1, <3>2, <1>2
  <2>. HIDE DEF x
  <2>4. v \o x \in Seq(C)
    BY <2>3
  <2>5. Associates(f[k], v, x)
    BY <2>3, CatAssoc
  <2>6. f[k + (m + 1)] = f[k] \o (v \o x)
    BY <2>3, <2>5, Zenon DEF Associates
  <2>. QED  BY <2>4, <2>6
<1>5. N = Nat
  <2>1. N \subseteq Nat
    OBVIOUS
  <2>. HIDE DEF N
  <2>. QED  BY <1>3, <1>4, <2>1, SetInduction
<1>6. n - k \in N /\ k + (n - k) = n
  <2>. HIDE DEF N
  <2>. QED  BY <1>0, <1>5
<1>7. PICK v \in Seq(C) : f[n] = f[k] \o v
  <2>1. n - k \in Nat /\ k + (n - k) <= n
    BY <1>0
  <2>2. \E v \in Seq(C) : f[k + (n - k)] = f[k] \o v
    BY <1>6, <2>1
  <2>. QED  BY <1>6, <2>2
<1>8. f[k] = f[k - 1] \o xs[k] /\ f[k - 1] \in Seq(C)
  <2>1. k \in 1 .. n /\ k - 1 \in 0 .. n
    BY <1>0
  <2>. QED  BY <1>2, <2>1
<1>. QED  BY <1>1, <1>7, <1>8 DEF IsPart

IsCat(z, x, y, S) ==
  /\ z \in Seq(S) /\ Len(z) = Len(x) + Len(y)
  /\ \A j \in 1 .. Len(x) : z[j] = x[j]
  /\ \A j \in Len(x) + 1 .. Len(x) + Len(y) : z[j] = y[j - Len(x)]

LEMMA CatFacts ==
  ASSUME NEW S, NEW x \in Seq(S), NEW y \in Seq(S)
  PROVE  IsCat(x \o y, x, y, S)
  BY DEF IsCat

=============================================================================
