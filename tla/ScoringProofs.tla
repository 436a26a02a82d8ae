---------------------------- MODULE ScoringProofs ----------------------------
(***************************************************************************)
(* aggregate and route, proved for any number of plugins, of any weights   *)
(* and candidates, in whatever settings.                                   *)
(*                                                                         *)
(* Scores are sums over sets of plugins.  The library's sum is a choice    *)
(* among functions that satisfy a recursion; that one exists, and that any *)
(* two agree, is shown by least exceptions (LeastNat, SetInduction), after *)
(* which a sum is taken apart element by element (TotalStep).              *)
(***************************************************************************)
EXTENDS Scoring, FiniteSetTheorems, WellFoundedInduction, TLAPS

(* Least and greatest *)

Before == {ss \in Nat \X Nat : ss[1] < ss[2]}

LEMMA LeastNat ==
    ASSUME NEW T \in SUBSET Nat, T # {}
    PROVE  \E m \in T : \A n \in T : m =< n
<1>1. OpToRel(<, Nat) = Before
  BY Zenon DEF OpToRel, Before
<1>2. IsWellFoundedOn(Before, Nat)
  BY <1>1, NatLessThanWellFounded, Zenon
<1>3. PICK m \in T : \A n \in T : <<n, m>> \notin Before
  BY <1>2, WFMin
<1>4. \A n \in T : m =< n
  <2> SUFFICES ASSUME NEW n \in T PROVE m =< n
    OBVIOUS
  <2>1. m \in Nat /\ n \in Nat
    OBVIOUS
  <2>2. <<n, m>> \in Nat \X Nat /\ <<n, m>>[1] = n /\ <<n, m>>[2] = m
    BY <2>1
  <2>3. ~(n < m)
    BY <1>3, <2>2, Zenon DEF Before
  <2> QED
    BY <2>1, <2>3
<1> QED
  BY <1>4

LEMMA Induction ==
    ASSUME NEW Good \in SUBSET Nat, 0 \in Good, \A n \in Good : n + 1 \in Good
    PROVE  Good = Nat
<1> DEFINE Bad == Nat \ Good
<1>1. SUFFICES ASSUME Bad # {} PROVE FALSE
  OBVIOUS
<1>2. PICK m \in Bad : \A n \in Bad : m =< n
  BY <1>1, LeastNat
<1>3. m - 1 \in Nat /\ m - 1 \notin Bad
  BY <1>2
<1>4. m - 1 \in Good
  BY <1>3
<1>5. m \in Good
  BY <1>2, <1>4
<1> QED
  BY <1>2, <1>5

\* Induction over the subsets of a finite set, by a least exception.
LEMMA SetInduction ==
    ASSUME NEW S, IsFiniteSet(S), NEW Good \in SUBSET SUBSET S,
           \A s \in SUBSET S : (\A x \in s : s \ {x} \in Good) => s \in Good
    PROVE  Good = SUBSET S
<1> SUFFICES ASSUME NEW s0 \in SUBSET S, s0 \notin Good PROVE FALSE
  OBVIOUS
<1> DEFINE Sizes == {n \in Nat : \E s \in SUBSET S : s \notin Good /\ Cardinality(s) = n}
<1>1. \A s \in SUBSET S : IsFiniteSet(s) /\ Cardinality(s) \in Nat
  BY FS_Subset, FS_CardinalityType
<1>2. Sizes \in SUBSET Nat /\ Sizes # {}
  BY <1>1
<1>3. PICK m \in Sizes : \A n \in Sizes : m =< n
  BY <1>2, LeastNat
<1>4. PICK s \in SUBSET S : s \notin Good /\ Cardinality(s) = m
  BY <1>3
<1>5. PICK x \in s : s \ {x} \notin Good
  BY <1>4
<1>6. Cardinality(s \ {x}) = m - 1
  BY <1>1, <1>4, <1>5, FS_RemoveElement
<1>7. m - 1 \in Sizes
  BY <1>1, <1>5, <1>6
<1> QED
  BY <1>2, <1>3, <1>7

-----------------------------------------------------------------------------
(* Sums *)

Total(f, S) == SumFunctionOnSet(f, S)

Elem(s) == CHOOSE x \in s : TRUE

TakenOff(f, g, s) == IF s = {} THEN 0 ELSE f[Elem(s)] + g[s \ {Elem(s)}]

\* g is the sums of f over the sets of a family.
SumsOn(f, family, g) == g = [s \in family |-> TakenOff(f, g, s)]

LEMMA ElemIn == ASSUME NEW s, s # {} PROVE Elem(s) \in s
BY DEF Elem

LEMMA TotalIs ==
    ASSUME NEW f, NEW S
    PROVE  Total(f, S) = (CHOOSE g : SumsOn(f, SUBSET S, g))[S]
BY DEF Total, SumFunctionOnSet, FoldFunctionOnSet, MapThenFoldSet, SumsOn, TakenOff, Elem

LEMMA SumsExist ==
    ASSUME NEW f, NEW S, IsFiniteSet(S)
    PROVE  \E g : SumsOn(f, SUBSET S, g)
<1> DEFINE Upto(n) == {s \in SUBSET S : Cardinality(s) =< n}
           Good    == {n \in Nat : \E g : SumsOn(f, Upto(n), g)}
<1>0. Good \in SUBSET Nat
  OBVIOUS
<1>1. \A s \in SUBSET S : IsFiniteSet(s) /\ Cardinality(s) \in Nat
  BY FS_Subset, FS_CardinalityType
<1>2. ASSUME NEW n \in Good PROVE n + 1 \in Good
  <2>1. PICK g : SumsOn(f, Upto(n), g)
    BY <1>2
  <2> DEFINE h == [s \in Upto(n + 1) |-> TakenOff(f, g, s)]
  <2>2. ASSUME NEW s \in Upto(n + 1) PROVE TakenOff(f, g, s) = TakenOff(f, h, s)
    <3>1. CASE s = {}
      BY <3>1 DEF TakenOff
    <3>2. CASE s # {}
      <4> DEFINE t == s \ {Elem(s)}
      <4>1. t \in Upto(n)
        BY <1>1, <3>2, ElemIn, FS_RemoveElement
      <4>2. t \in Upto(n + 1)
        BY <1>1, <4>1
      <4>3. g[t] = TakenOff(f, g, t)
        BY <2>1, <4>1 DEF SumsOn
      <4>4. h[t] = TakenOff(f, g, t)
        BY <4>2
      <4> QED
        BY <3>2, <4>3, <4>4 DEF TakenOff
    <3> QED
      BY <3>1, <3>2
  <2>3. h = [s \in Upto(n + 1) |-> TakenOff(f, h, s)]
    BY <2>2
  <2> HIDE DEF h
  <2>4. SumsOn(f, Upto(n + 1), h)
    BY <2>3 DEF SumsOn
  <2> QED
    BY <2>4
<1>3. 0 \in Good
  <2> DEFINE g == [s \in Upto(0) |-> 0]
  <2>1. \A s \in Upto(0) : s = {}
    BY <1>1, FS_EmptySet
  <2>2. g = [s \in Upto(0) |-> TakenOff(f, g, s)]
    BY <2>1 DEF TakenOff
  <2> QED
    BY <2>2 DEF SumsOn
<1> HIDE DEF Good
<1>4. Good = Nat
  BY <1>2, <1>3, <1>0, Induction
<1> USE DEF Good
<1>5. Upto(Cardinality(S)) = SUBSET S /\ Cardinality(S) \in Nat
  BY <1>1, FS_Subset
<1>6. \E g : SumsOn(f, Upto(Cardinality(S)), g)
  BY <1>4, <1>5
<1> HIDE DEF Upto
<1> QED
  BY <1>5, <1>6

\* Two such functions agree where both are defined.
LEMMA SumsAgree ==
    ASSUME NEW f, NEW S, IsFiniteSet(S), NEW T \in SUBSET S, NEW g, NEW h,
           SumsOn(f, SUBSET S, g), SumsOn(f, SUBSET T, h)
    PROVE  \A s \in SUBSET T : g[s] = h[s]
<1> DEFINE Good == {s \in SUBSET T : g[s] = h[s]}
<1>1. ASSUME NEW s \in SUBSET T, \A x \in s : s \ {x} \in Good PROVE s \in Good
  <2>1. g[s] = TakenOff(f, g, s) /\ h[s] = TakenOff(f, h, s)
    BY DEF SumsOn
  <2>2. s # {} => g[s \ {Elem(s)}] = h[s \ {Elem(s)}]
    BY <1>1, ElemIn
  <2> QED
    BY <2>1, <2>2 DEF TakenOff
<1>2. Good \in SUBSET SUBSET T /\ IsFiniteSet(T)
  BY FS_Subset
<1> HIDE DEF Good
<1>3. Good = SUBSET T
  BY <1>1, <1>2, SetInduction
<1> QED
  BY <1>3 DEF Good

LEMMA TotalIsSums ==
    ASSUME NEW f, NEW S, IsFiniteSet(S), NEW T \in SUBSET S, NEW g, SumsOn(f, SUBSET S, g)
    PROVE  Total(f, T) = g[T]
<1> DEFINE h == CHOOSE h : SumsOn(f, SUBSET T, h)
<1>1. SumsOn(f, SUBSET T, h)
  BY SumsExist, FS_Subset
<1>2. Total(f, T) = h[T]
  BY TotalIs
<1> HIDE DEF h
<1>3. g[T] = h[T]
  BY <1>1, SumsAgree
<1> QED
  BY <1>2, <1>3

\* The recursion by which the library defines a sum.
LEMMA TotalStep ==
    ASSUME NEW f, NEW S, IsFiniteSet(S)
    PROVE  /\ S = {} => Total(f, S) = 0
           /\ S # {} => Total(f, S) = f[Elem(S)] + Total(f, S \ {Elem(S)})
<1>1. PICK g : SumsOn(f, SUBSET S, g)
  BY SumsExist
<1>2. Total(f, S) = g[S] /\ Total(f, S \ {Elem(S)}) = g[S \ {Elem(S)}]
  BY <1>1, TotalIsSums
<1>3. g[S] = TakenOff(f, g, S)
  BY <1>1 DEF SumsOn
<1> QED
  BY <1>2, <1>3 DEF TakenOff

LEMMA TotalInt ==
    ASSUME NEW S, IsFiniteSet(S), NEW f, \A x \in S : f[x] \in Int
    PROVE  Total(f, S) \in Int
<1> DEFINE Good == {s \in SUBSET S : Total(f, s) \in Int}
<1>1. ASSUME NEW s \in SUBSET S, \A x \in s : s \ {x} \in Good PROVE s \in Good
  <2>1. IsFiniteSet(s)
    BY FS_Subset
  <2>2. CASE s = {}
    <3>1. Total(f, s) = 0
      BY <2>1, <2>2, TotalStep
    <3> QED
      BY <3>1
  <2>3. CASE s # {}
    <3>1. Elem(s) \in s /\ Total(f, s \ {Elem(s)}) \in Int
      BY <1>1, <2>3, ElemIn
    <3>2. f[Elem(s)] \in Int
      BY <3>1
    <3> QED
      BY <2>1, <2>3, <3>1, <3>2, TotalStep
  <2> QED
    BY <2>2, <2>3
<1> HIDE DEF Good
<1>2. Good = SUBSET S
  <2>1. Good \in SUBSET SUBSET S
    BY DEF Good
  <2> QED
    BY <1>1, <2>1, SetInduction
<1> QED
  BY <1>2 DEF Good

LEMMA TotalSplit ==
    ASSUME NEW S, IsFiniteSet(S), NEW f, \A x \in S : f[x] \in Int, NEW x \in S
    PROVE  Total(f, S) = f[x] + Total(f, S \ {x})
<1> DEFINE Good == {s \in SUBSET S : \A y \in s : Total(f, s) = f[y] + Total(f, s \ {y})}
<1>1. ASSUME NEW s \in SUBSET S, \A y \in s : s \ {y} \in Good PROVE s \in Good
  <2> SUFFICES ASSUME NEW y \in s PROVE Total(f, s) = f[y] + Total(f, s \ {y})
    OBVIOUS
  <2> DEFINE e == Elem(s)
  <2>1. IsFiniteSet(s) /\ IsFiniteSet(s \ {y}) /\ e \in s
    BY FS_Subset, ElemIn
  <2>2. Total(f, s) = f[e] + Total(f, s \ {e})
    BY <2>1, TotalStep
  <2> HIDE DEF e
  <2>3. CASE e = y
    BY <2>2, <2>3
  <2>4. CASE e # y
    <3>1. Total(f, s \ {e}) = f[y] + Total(f, (s \ {e}) \ {y})
      BY <1>1, <2>1, <2>4
    <3>2. Total(f, s \ {y}) = f[e] + Total(f, (s \ {y}) \ {e})
      BY <1>1, <2>1, <2>4
    <3>3. (s \ {e}) \ {y} = (s \ {y}) \ {e}
      OBVIOUS
    <3>4. Total(f, (s \ {y}) \ {e}) \in Int
      <4> DEFINE t == (s \ {y}) \ {e}
      <4>1. IsFiniteSet(t) /\ \A z \in t : f[z] \in Int
        BY FS_Subset
      <4> HIDE DEF t
      <4>2. Total(f, t) \in Int
        BY <4>1, TotalInt
      <4> QED
        BY <4>2 DEF t
    <3>5. f[e] \in Int /\ f[y] \in Int
      BY <2>1
    <3>6. PICK u \in Int : u = Total(f, (s \ {y}) \ {e})
      BY <3>4
    <3>7. Total(f, s \ {e}) = f[y] + u /\ Total(f, s \ {y}) = f[e] + u
      BY <3>1, <3>2, <3>3, <3>6
    <3>8. f[e] + (f[y] + u) = f[y] + (f[e] + u)
      BY <3>5
    <3> QED
      BY <2>2, <3>7, <3>8
  <2> QED
    BY <2>3, <2>4
<1> HIDE DEF Good
<1>2. Good = SUBSET S
  <2>1. Good \in SUBSET SUBSET S
    BY DEF Good
  <2> QED
    BY <1>1, <2>1, SetInduction
<1> QED
  BY <1>2 DEF Good

LEMMA TotalMonotone ==
    ASSUME NEW S, IsFiniteSet(S), NEW f, NEW g,
           \A x \in S : f[x] \in Int /\ g[x] \in Int /\ f[x] =< g[x]
    PROVE  Total(f, S) =< Total(g, S)
<1> DEFINE Good == {s \in SUBSET S : Total(f, s) =< Total(g, s)}
<1>1. ASSUME NEW s \in SUBSET S, \A x \in s : s \ {x} \in Good PROVE s \in Good
  <2>1. IsFiniteSet(s)
    BY FS_Subset
  <2>2. CASE s = {}
    <3>1. Total(f, s) = 0 /\ Total(g, s) = 0
      BY <2>1, <2>2, TotalStep
    <3> QED
      BY <3>1
  <2>3. CASE s # {}
    <3> DEFINE e == Elem(s)
               t == s \ {e}
    <3>1. e \in s /\ t \in Good /\ IsFiniteSet(t)
      BY <1>1, <2>3, ElemIn, FS_Subset
    <3>2. Total(f, s) = f[e] + Total(f, t) /\ Total(g, s) = g[e] + Total(g, t)
      BY <2>1, <2>3, TotalStep
    <3> HIDE DEF e, t
    <3>3. PICK u \in Int, v \in Int : u = Total(f, t) /\ v = Total(g, t)
      <4>1. \A x \in t : f[x] \in Int /\ g[x] \in Int
        BY DEF t
      <4> QED
        BY <3>1, <4>1, TotalInt
    <3>4. f[e] \in Int /\ g[e] \in Int
      BY <3>1
    <3>5. f[e] =< g[e] /\ u =< v
      BY <3>1, <3>3
    <3> QED
      BY <3>2, <3>3, <3>4, <3>5
  <2> QED
    BY <2>2, <2>3
<1> HIDE DEF Good
<1>2. Good = SUBSET S
  <2>1. Good \in SUBSET SUBSET S
    BY DEF Good
  <2> QED
    BY <1>1, <2>1, SetInduction
<1> QED
  BY <1>2 DEF Good

LEMMA TotalTimes ==
    ASSUME NEW S, IsFiniteSet(S), NEW f, NEW g, NEW c \in Int,
           \A x \in S : f[x] \in Int /\ g[x] = c * f[x]
    PROVE  Total(g, S) = c * Total(f, S)
<1> DEFINE Good == {s \in SUBSET S : Total(g, s) = c * Total(f, s)}
<1>1. ASSUME NEW s \in SUBSET S, \A x \in s : s \ {x} \in Good PROVE s \in Good
  <2>1. IsFiniteSet(s)
    BY FS_Subset
  <2>2. CASE s = {}
    <3>1. Total(f, s) = 0 /\ Total(g, s) = 0
      BY <2>1, <2>2, TotalStep
    <3> QED
      BY <3>1
  <2>3. CASE s # {}
    <3> DEFINE e == Elem(s)
               t == s \ {e}
    <3>1. e \in s /\ t \in Good /\ IsFiniteSet(t)
      BY <1>1, <2>3, ElemIn, FS_Subset
    <3>2. Total(f, s) = f[e] + Total(f, t) /\ Total(g, s) = g[e] + Total(g, t)
      BY <2>1, <2>3, TotalStep
    <3> HIDE DEF e, t
    <3>3. PICK u \in Int, v \in Int : u = Total(f, t) /\ v = Total(g, t)
      <4>1. \A x \in t : f[x] \in Int /\ g[x] \in Int
        BY DEF t
      <4> QED
        BY <3>1, <4>1, TotalInt
    <3>4. f[e] \in Int /\ g[e] \in Int
      BY <3>1
    <3>5. g[e] = c * f[e] /\ v = c * u
      BY <3>1, <3>3
    <3>6. c * (f[e] + u) = c * f[e] + c * u
      BY <3>4
    <3> QED
      BY <3>2, <3>3, <3>5, <3>6
  <2> QED
    BY <2>2, <2>3
<1> HIDE DEF Good
<1>2. Good = SUBSET S
  <2>1. Good \in SUBSET SUBSET S
    BY DEF Good
  <2> QED
    BY <1>1, <2>1, SetInduction
<1> QED
  BY <1>2 DEF Good

\* A mean is between the least and the greatest of what it is a mean of.
LEMMA TotalBetween ==
    ASSUME NEW S, IsFiniteSet(S), NEW f, NEW w, NEW c \in Int,
           \A x \in S : f[x] \in Int /\ w[x] \in Int
    PROVE  /\ (\A x \in S : c * w[x] =< f[x]) => c * Total(w, S) =< Total(f, S)
           /\ (\A x \in S : f[x] =< c * w[x]) => Total(f, S) =< c * Total(w, S)
<1> DEFINE g == [x \in S |-> c * w[x]]
<1>1. \A x \in S : g[x] = c * w[x] /\ g[x] \in Int
  OBVIOUS
<1> HIDE DEF g
<1>2. Total(g, S) = c * Total(w, S)
  BY <1>1, TotalTimes
<1>3. (\A x \in S : c * w[x] =< f[x]) => Total(g, S) =< Total(f, S)
  BY <1>1, TotalMonotone
<1>4. (\A x \in S : f[x] =< c * w[x]) => Total(f, S) =< Total(g, S)
  BY <1>1, TotalMonotone
<1> QED
  BY <1>2, <1>3, <1>4

LEMMA TotalOne ==
    ASSUME NEW f, NEW x, f[x] \in Int
    PROVE  Total(f, {x}) = f[x]
<1>1. IsFiniteSet({x}) /\ IsFiniteSet({}) /\ {x} \ {x} = {}
  BY FS_Singleton, FS_EmptySet
<1>2. Total(f, {x}) = f[x] + Total(f, {x} \ {x})
  BY <1>1, TotalSplit
<1>3. Total(f, {}) = 0
  BY <1>1, TotalStep
<1> QED
  BY <1>1, <1>2, <1>3

-----------------------------------------------------------------------------
(* Greatest and least elements *)

LEMMA MaxIs ==
    ASSUME NEW S \in SUBSET Int, IsFiniteSet(S), S # {}
    PROVE  Max(S) \in S /\ \A y \in S : Max(S) >= y
<1> DEFINE Good == {s \in SUBSET S : s = {} \/ \E x \in s : \A y \in s : x >= y}
<1>1. ASSUME NEW s \in SUBSET S, \A x \in s : s \ {x} \in Good PROVE s \in Good
  <2> SUFFICES ASSUME NEW x \in s PROVE \E z \in s : \A y \in s : z >= y
    OBVIOUS
  <2>1. CASE s \ {x} = {}
    <3>1. \A y \in s : x >= y
      BY <2>1
    <3> QED
      BY <3>1
  <2>2. CASE s \ {x} # {}
    <3>1. PICK z \in s \ {x} : \A y \in s \ {x} : z >= y
      BY <1>1, <2>2
    <3>2. CASE z >= x
      BY <3>1, <3>2
    <3>3. CASE x > z
      <4>1. \A y \in s : x >= y
        BY <3>1, <3>3
      <4> QED
        BY <4>1
    <3> QED
      BY <3>2, <3>3
  <2> QED
    BY <2>1, <2>2
<1> HIDE DEF Good
<1>2. Good = SUBSET S
  <2>1. Good \in SUBSET SUBSET S
    BY DEF Good
  <2> QED
    BY <1>1, <2>1, SetInduction
<1>3. \E x \in S : \A y \in S : x >= y
  BY <1>2 DEF Good
<1> QED
  BY <1>3 DEF Max

LEMMA MinIs ==
    ASSUME NEW S \in SUBSET Nat, S # {}
    PROVE  Min(S) \in S /\ \A y \in S : Min(S) =< y
BY LeastNat DEF Min

-----------------------------------------------------------------------------
(* Scale *)

LEMMA ClampIs ==
    ASSUME NEW c \in Nat
    PROVE  Clamp(c) = IF c < 2 THEN 2 ELSE IF c > 98 THEN 98 ELSE c
<1>1. Min({c, 98}) = IF c > 98 THEN 98 ELSE c
  BY MinIs, {c, 98} \in SUBSET Nat
<1>2. PICK m \in Nat : m = Min({c, 98})
  BY <1>1
<1>3. Max({2, m}) = IF m < 2 THEN 2 ELSE m
  <2>1. IsFiniteSet({2, m})
    <3>1. IsFiniteSet({2}) /\ IsFiniteSet({m})
      BY FS_Singleton
    <3>2. IsFiniteSet({2} \cup {m})
      BY <3>1, FS_Union
    <3> QED
      BY <3>2, {2} \cup {m} = {2, m}
  <2> QED
    BY <2>1, MaxIs, {2, m} \in SUBSET Int
<1> QED
  BY <1>1, <1>2, <1>3 DEF Clamp, Eps

LogLevel == [c \in Grid |->
    CASE c = 0 -> -5615 [] c = 2 -> -5615 [] c = 20 -> -2000 [] c = 30 -> -1222
      [] c = 40 -> -585 [] c = 50 -> 0 [] c = 60 -> 585 [] c = 70 -> 1222
      [] c = 80 -> 2000 [] c = 98 -> 5615 [] c = 100 -> 5615]

LEMMA LevelBounds ==
    ASSUME NEW c \in Grid
    PROVE  /\ LogLevel[c] \in Int
           /\ c >= 80 => LogLevel[c] >= 2000
           /\ c > 20  => LogLevel[c] >= -1222
<1>1. LogLevel[c] \in Int
  BY DEF Grid, LogLevel
<1>2. c >= 80 => LogLevel[c] >= 2000
  BY DEF Grid, LogLevel
<1>3. c > 20 => LogLevel[c] >= -1222
  BY DEF Grid, LogLevel
<1> QED
  BY <1>1, <1>2, <1>3

LEMMA ScaleIs ==
    ASSUME NEW cfg, NEW c \in Grid
    PROVE  Scale(cfg, c) = IF cfg.fusion = "linear" THEN c ELSE LogLevel[c]
<1>1. c \in Nat
  BY DEF Grid
<1>2. LogOdds(Clamp(c)) = LogLevel[c]
  BY <1>1, ClampIs DEF Grid, LogOdds, LogLevel
<1> QED
  BY <1>2 DEF Scale

LEMMA ScaleMonotone ==
    ASSUME NEW cfg, NEW c \in Grid, NEW d \in Grid
    PROVE  /\ Scale(cfg, c) \in Int
           /\ c =< d => Scale(cfg, c) =< Scale(cfg, d)
<1>1. LogLevel[c] \in Int /\ (c =< d => LogLevel[c] =< LogLevel[d])
  BY DEF Grid, LogLevel
<1>2. c \in Int /\ d \in Int
  BY DEF Grid
<1> QED
  BY <1>1, <1>2, ScaleIs

LEMMA ScaleStrict ==
    ASSUME NEW cfg, NEW c \in Grid \ {2, 100}, NEW d \in Grid, d < c
    PROVE  Scale(cfg, d) =< Scale(cfg, c) - 1
<1>1. LogLevel[d] =< LogLevel[c] - 1
  BY DEF Grid, LogLevel
<1>2. d =< c - 1
  BY DEF Grid
<1> QED
  BY <1>1, <1>2, ScaleIs

-----------------------------------------------------------------------------
(* Fuse *)

\* Plugins with weights, and what they report.
Reporting(pool, weight, reports) ==
    /\ IsFiniteSet(pool)
    /\ \A p \in pool : weight[p] \in Nat /\ reports[p] \in Grid

Scaled(reports, pool, weight, cfg) == [p \in pool |-> weight[p] * Scale(cfg, reports[p])]

LEMMA FuseIs ==
    ASSUME NEW reports, NEW pool, NEW weight, NEW cfg
    PROVE  Fuse(reports, pool, weight, cfg) =
             IF Total(weight, pool) = 0 THEN Nought(cfg)
             ELSE [sum |-> Total(Scaled(reports, pool, weight, cfg), pool),
                   weight |-> Total(weight, pool)]
BY Zenon DEF Fuse, Total, Scaled

LEMMA TermsInt ==
    ASSUME NEW reports, NEW pool, NEW weight, NEW cfg, Reporting(pool, weight, reports)
    PROVE  \A p \in pool : /\ Scaled(reports, pool, weight, cfg)[p] \in Int
                           /\ weight[p] \in Int
<1> SUFFICES ASSUME NEW p \in pool
             PROVE  weight[p] * Scale(cfg, reports[p]) \in Int /\ weight[p] \in Int
  BY DEF Scaled
<1>1. weight[p] \in Nat /\ Scale(cfg, reports[p]) \in Int
  BY ScaleMonotone DEF Reporting
<1> QED
  BY <1>1

LEMMA WeightIs ==
    ASSUME NEW pool, NEW weight, NEW reports, Reporting(pool, weight, reports)
    PROVE  Total(weight, pool) \in Nat
<1>1. \A p \in pool : weight[p] \in Int /\ weight[p] >= 0
  BY DEF Reporting
<1>2. IsFiniteSet(pool)
  BY DEF Reporting
<1>3. Total(weight, pool) \in Int
  BY <1>1, <1>2, TotalInt
<1>4. 0 * Total(weight, pool) =< Total(weight, pool)
  BY <1>1, <1>2, TotalBetween
<1> QED
  BY <1>3, <1>4

LEMMA FuseType ==
    ASSUME NEW reports, NEW pool, NEW weight, NEW cfg, Reporting(pool, weight, reports)
    PROVE  Fuse(reports, pool, weight, cfg) \in [sum : Int, weight : Nat \ {0}]
<1>1. Total(weight, pool) \in Nat
  BY WeightIs
<1>2. Total(Scaled(reports, pool, weight, cfg), pool) \in Int
  BY TermsInt, TotalInt DEF Reporting
<1> QED
  BY <1>1, <1>2, FuseIs DEF Nought

\* If all reports are at a level, so is the score.
LEMMA FuseAtLeast ==
    ASSUME NEW reports, NEW pool, NEW weight, NEW cfg, Reporting(pool, weight, reports),
           NEW c \in Grid, \A p \in pool : reports[p] >= c, Total(weight, pool) # 0
    PROVE  AtLeast(Fuse(reports, pool, weight, cfg), c, cfg)
<1> DEFINE f == Scaled(reports, pool, weight, cfg)
<1>1. PICK k \in Int : k = Scale(cfg, c)
  BY ScaleMonotone
<1>2. ASSUME NEW p \in pool PROVE k * weight[p] =< f[p]
  <2>1. PICK w \in Nat, l \in Int : w = weight[p] /\ l = Scale(cfg, reports[p])
    BY ScaleMonotone DEF Reporting
  <2>2. k =< l
    BY <1>1, <2>1, ScaleMonotone DEF Reporting, Grid
  <2>3. k * w =< w * l
    BY <2>1, <2>2
  <2> QED
    BY <2>1, <2>3 DEF Scaled
<1>3. \A p \in pool : f[p] \in Int /\ weight[p] \in Int
  BY TermsInt
<1> HIDE DEF f
<1>4. k * Total(weight, pool) =< Total(f, pool)
  BY <1>2, <1>3, TotalBetween DEF Reporting
<1>5. Total(weight, pool) \in Int /\ Total(f, pool) \in Int
  BY <1>3, TotalInt DEF Reporting
<1> QED
  BY <1>1, <1>4, <1>5, FuseIs DEF AtLeast, f

\* If the score is at a level, so is a report.
LEMMA FuseAbove ==
    ASSUME NEW reports, NEW pool, NEW weight, NEW cfg, Reporting(pool, weight, reports),
           NEW c \in Grid \ {0, 2, 100}, AtLeast(Fuse(reports, pool, weight, cfg), c, cfg)
    PROVE  \E p \in pool : reports[p] >= c
<1> DEFINE f == Scaled(reports, pool, weight, cfg)
<1> SUFFICES ASSUME \A p \in pool : ~(reports[p] >= c) PROVE FALSE
  OBVIOUS
<1>1. PICK k \in Int : k = Scale(cfg, c)
  BY ScaleMonotone
<1>2. ASSUME NEW p \in pool PROVE f[p] =< (k - 1) * weight[p]
  <2>1. PICK w \in Nat, l \in Int : w = weight[p] /\ l = Scale(cfg, reports[p])
    BY ScaleMonotone DEF Reporting
  <2>2. reports[p] \in Grid /\ reports[p] < c
    BY DEF Reporting, Grid
  <2>3. l =< k - 1
    BY <1>1, <2>1, <2>2, ScaleStrict
  <2>4. w * l =< (k - 1) * w
    BY <2>1, <2>3
  <2> QED
    BY <2>1, <2>4 DEF Scaled
<1>3. \A p \in pool : f[p] \in Int /\ weight[p] \in Int
  BY TermsInt
<1>4. PICK w \in Nat : w = Total(weight, pool)
  BY WeightIs
<1>5. CASE w = 0
  <2>1. AtLeast(Nought(cfg), c, cfg)
    BY <1>4, <1>5, FuseIs
  <2>2. Scale(cfg, c) > Nought(cfg).sum /\ Nought(cfg).weight = 1
    <3>1. LogLevel[c] > -10000 /\ c > 0
      BY DEF Grid, LogLevel
    <3> QED
      BY <3>1, ScaleIs DEF Nought
  <2> QED
    BY <1>1, <2>1, <2>2 DEF AtLeast, Nought
<1>6. CASE w # 0
  <2> HIDE DEF f
  <2>1. Total(f, pool) =< (k - 1) * w /\ Total(f, pool) \in Int
    BY <1>2, <1>3, <1>4, TotalBetween, TotalInt DEF Reporting
  <2>2. (k - 1) * w < k * w
    BY <1>6
  <2>3. Total(f, pool) >= k * w
    BY <1>1, <1>4, <1>6, FuseIs DEF AtLeast, f
  <2> QED
    BY <2>1, <2>2, <2>3
<1> QED
  BY <1>5, <1>6

\* Higher reports of the same plugins never make a lower score.
LEMMA FuseMonotone ==
    ASSUME NEW low, NEW high, NEW pool, NEW weight, NEW cfg,
           Reporting(pool, weight, low), Reporting(pool, weight, high),
           \A p \in pool : low[p] =< high[p]
    PROVE  ~Higher(Fuse(low, pool, weight, cfg), Fuse(high, pool, weight, cfg))
<1> DEFINE f == Scaled(low, pool, weight, cfg)
           g == Scaled(high, pool, weight, cfg)
<1>1. ASSUME NEW p \in pool PROVE f[p] =< g[p]
  <2>1. PICK w \in Nat, l \in Int, h \in Int :
            w = weight[p] /\ l = Scale(cfg, low[p]) /\ h = Scale(cfg, high[p])
    BY ScaleMonotone DEF Reporting
  <2>2. l =< h
    BY <2>1, ScaleMonotone DEF Reporting
  <2>3. w * l =< w * h
    BY <2>1, <2>2
  <2> QED
    BY <2>1, <2>3 DEF Scaled
<1>2. \A p \in pool : f[p] \in Int /\ g[p] \in Int
  BY TermsInt
<1>3. PICK w \in Nat : w = Total(weight, pool)
  BY WeightIs
<1> HIDE DEF f, g
<1>4. PICK u \in Int, v \in Int : u = Total(f, pool) /\ v = Total(g, pool) /\ u =< v
  BY <1>1, <1>2, TotalMonotone, TotalInt DEF Reporting
<1>5. CASE w = 0
  <2>1. Fuse(low, pool, weight, cfg) = Nought(cfg) /\ Fuse(high, pool, weight, cfg) = Nought(cfg)
    BY <1>3, <1>5, FuseIs
  <2>2. Nought(cfg).sum \in Int /\ Nought(cfg).weight = 1
    BY DEF Nought
  <2> QED
    BY <2>1, <2>2 DEF Higher
<1>6. CASE w # 0
  <2>1. u * w =< v * w
    BY <1>4, <1>6
  <2> QED
    BY <1>3, <1>4, <1>6, <2>1, FuseIs DEF Higher, f, g
<1> QED
  BY <1>5, <1>6

-----------------------------------------------------------------------------
(* RejectOutliers and Says *)

\* Answers as plugins may give them: any number, any weight, any candidates.
Panel(outcomes) ==
    /\ IsFiniteSet(DOMAIN outcomes)
    /\ \A p \in DOMAIN outcomes :
         /\ outcomes[p].weight \in Nat
         /\ \A c \in outcomes[p].candidates : c.confidence \in Grid

\* No report is between the same bounds before and on another side after.
SameSide(cfg, c, d) ==
    /\ c >= cfg.outlier_high <=> d >= cfg.outlier_high
    /\ c =< cfg.outlier_low  <=> d =< cfg.outlier_low

LEMMA SamePool ==
    ASSUME NEW cfg, NEW low, NEW high, DOMAIN low = DOMAIN high,
           \A p \in DOMAIN low : SameSide(cfg, low[p], high[p])
    PROVE  RejectOutliers(low, cfg) = RejectOutliers(high, cfg)
<1>1. {p \in DOMAIN low : low[p] >= cfg.outlier_high} =
      {p \in DOMAIN high : high[p] >= cfg.outlier_high}
  BY Zenon DEF SameSide
<1>2. \A p \in DOMAIN low : low[p] =< cfg.outlier_low <=> high[p] =< cfg.outlier_low
  BY Zenon DEF SameSide
<1> QED
  BY <1>1, <1>2, Zenon DEF RejectOutliers

LEMMA PoolIn ==
    ASSUME NEW cfg, NEW reports
    PROVE  RejectOutliers(reports, cfg) \subseteq DOMAIN reports
BY DEF RejectOutliers

LEMMA GridFinite == IsFiniteSet(Grid)
<1>1. Grid \in SUBSET Nat /\ \A c \in Grid : c =< 100
  BY DEF Grid
<1> QED
  BY <1>1, FS_BoundedSetOfNaturals

\* What a plugin says of a key is the greatest of its confidences in it.
Voiced(answer, k) == {c.confidence : c \in {d \in answer.candidates : d.key = k}}

LEMMA SaysIs ==
    ASSUME NEW answer, NEW claimed, \A c \in answer.candidates : c.confidence \in Grid
    PROVE  LET says == Says(answer, claimed) IN
           /\ claimed \in DOMAIN says
           /\ DOMAIN says \subseteq {c.key : c \in answer.candidates} \cup {claimed}
           /\ \A k \in DOMAIN says : k # claimed => k # Unnormalizable
           /\ \A k \in DOMAIN says :
                /\ says[k] \in Grid
                /\ says[k] # 0 => \E c \in answer.candidates : c.key = k /\ c.confidence = says[k]
                /\ k # Unnormalizable =>
                     \A c \in answer.candidates : c.key = k => c.confidence =< says[k]
<1> DEFINE usable == {c \in answer.candidates : c.key # Unnormalizable}
           keys == {c.key : c \in usable} \cup {claimed}
           values(k) == {0} \cup {c.confidence : c \in {d \in usable : d.key = k}}
<1>1. Says(answer, claimed) = [k \in keys |-> Max(values(k))]
  BY DEF Says
<1>2. ASSUME NEW k \in keys PROVE Max(values(k)) \in values(k) /\ \A v \in values(k) : Max(values(k)) >= v
  <2>1. values(k) \subseteq Grid
    BY DEF Grid
  <2>2. IsFiniteSet(values(k))
    BY <2>1, GridFinite, FS_Subset
  <2>3. values(k) \in SUBSET Int /\ values(k) # {}
    BY <2>1 DEF Grid
  <2> HIDE DEF values
  <2> QED
    BY <2>2, <2>3, MaxIs
<1>3. \A k \in keys : values(k) \subseteq Grid
  BY DEF Grid
<1>4. ASSUME NEW k \in keys
      PROVE  /\ Max(values(k)) \in Grid
             /\ Max(values(k)) # 0 =>
                  \E c \in answer.candidates : c.key = k /\ c.confidence = Max(values(k))
             /\ k # Unnormalizable =>
                  \A c \in answer.candidates : c.key = k => c.confidence =< Max(values(k))
  <2>1. PICK m \in values(k) : m = Max(values(k)) /\ \A v \in values(k) : m >= v
    BY <1>2
  <2>2. m \in Grid
    BY <1>3, <2>1
  <2>3. m # 0 => \E c \in answer.candidates : c.key = k /\ c.confidence = m
    BY <2>1
  <2>4. k # Unnormalizable => \A c \in answer.candidates : c.key = k => c.confidence =< m
    BY <2>1, <2>2 DEF Grid
  <2> QED
    BY <2>1, <2>2, <2>3, <2>4
<1> HIDE DEF values
<1> QED
  BY <1>1, <1>4

-----------------------------------------------------------------------------
(* Aggregate *)

\* What the plugins that answered report on the claimed key.
ClaimedReports(outcomes, claimed) ==
    [p \in Applicable(outcomes) |-> Says(outcomes[p], claimed)[claimed]]

Weights(outcomes) == [p \in Applicable(outcomes) |-> outcomes[p].weight]

ClaimedPool(outcomes, claimed, cfg) == RejectOutliers(ClaimedReports(outcomes, claimed), cfg)

LEMMA ReportsTyped ==
    ASSUME NEW outcomes, Panel(outcomes), NEW claimed, NEW cfg
    PROVE  /\ ClaimedPool(outcomes, claimed, cfg) \subseteq Applicable(outcomes)
           /\ Reporting(Applicable(outcomes), Weights(outcomes), ClaimedReports(outcomes, claimed))
           /\ Reporting(ClaimedPool(outcomes, claimed, cfg), Weights(outcomes),
                        ClaimedReports(outcomes, claimed))
<1>1. Applicable(outcomes) \subseteq DOMAIN outcomes
  BY DEF Applicable
<1>2. \A p \in Applicable(outcomes) :
        Weights(outcomes)[p] \in Nat /\ ClaimedReports(outcomes, claimed)[p] \in Grid
  BY <1>1, SaysIs DEF Panel, Weights, ClaimedReports
<1>3. ClaimedPool(outcomes, claimed, cfg) \subseteq Applicable(outcomes)
  BY PoolIn DEF ClaimedPool, ClaimedReports
<1>4. IsFiniteSet(Applicable(outcomes))
  BY <1>1, FS_Subset DEF Panel
<1>5. IsFiniteSet(ClaimedPool(outcomes, claimed, cfg))
  BY <1>3, <1>4, FS_Subset
<1> QED
  BY <1>2, <1>3, <1>4, <1>5 DEF Reporting

LEMMA ClaimedScore ==
    ASSUME NEW outcomes, Panel(outcomes), NEW claimed, NEW cfg, Applicable(outcomes) # {}
    PROVE  Aggregate(outcomes, claimed, cfg).s_claimed =
             Fuse(ClaimedReports(outcomes, claimed), ClaimedPool(outcomes, claimed, cfg),
                  Weights(outcomes), cfg)
<1> DEFINE says == [p \in Applicable(outcomes) |-> Says(outcomes[p], claimed)]
           alts == Alternates(says, claimed)
<1>1. \A p \in Applicable(outcomes) : claimed \in DOMAIN says[p]
  BY SaysIs DEF Panel, Applicable
<1>2. ReportsOn(claimed, says) = ClaimedReports(outcomes, claimed)
  BY <1>1 DEF ReportsOn, ClaimedReports
<1>3. Aggregate(outcomes, claimed, cfg).s_claimed = Score(claimed, says, Weights(outcomes), cfg)
  BY DEF Aggregate, Weights
<1> QED
  BY <1>2, <1>3 DEF Score, ClaimedPool

\* Whatever the weights, the fusion and the number of plugins: if each plugin
\* that answers reports at least as much on the claimed key as before, on the
\* same side of the outlier bounds, the score of the claim is not lower.
\* (_reject_outliers, _fuse, aggregate)
THEOREM RaisingHelps ==
    ASSUME NEW before, NEW after, NEW claimed, NEW cfg, Panel(before), Panel(after),
           Applicable(before) = Applicable(after), Applicable(before) # {},
           \A p \in Applicable(before) :
              LET c == Says(before[p], claimed)[claimed]
                  d == Says(after[p], claimed)[claimed]
              IN  before[p].weight = after[p].weight /\ c =< d /\ SameSide(cfg, c, d)
    PROVE  ~Higher(Aggregate(before, claimed, cfg).s_claimed, Aggregate(after, claimed, cfg).s_claimed)
<1> DEFINE low  == ClaimedReports(before, claimed)
           high == ClaimedReports(after, claimed)
           pool == ClaimedPool(before, claimed, cfg)
<1>1. Weights(before) = Weights(after)
  BY DEF Weights
<1>2. pool = ClaimedPool(after, claimed, cfg)
  <2>1. DOMAIN low = DOMAIN high /\ \A p \in DOMAIN low : SameSide(cfg, low[p], high[p])
    BY DEF ClaimedReports
  <2> QED
    BY <2>1, SamePool, Zenon DEF ClaimedPool
<1>3. Reporting(pool, Weights(before), low) /\ Reporting(pool, Weights(before), high)
  BY <1>1, <1>2, ReportsTyped
<1>4. \A p \in pool : low[p] =< high[p]
  BY ReportsTyped DEF ClaimedReports
<1>5. /\ Aggregate(before, claimed, cfg).s_claimed = Fuse(low, pool, Weights(before), cfg)
      /\ Aggregate(after, claimed, cfg).s_claimed = Fuse(high, pool, Weights(before), cfg)
  BY <1>1, <1>2, ClaimedScore
<1> HIDE DEF low, high, pool
<1> QED
  BY <1>3, <1>4, <1>5, FuseMonotone

LEMMA OneVote ==
    ASSUME NEW w, NEW k, NEW c \in Grid \cup {Silent}, k # Unnormalizable
    PROVE  /\ Says(Ok(w, Vote(k, c)), k)[k] = (IF c = Silent THEN 0 ELSE c)
           /\ \A v \in Vote(k, c) : v.confidence \in Grid
<1>1. \A v \in Vote(k, c) : v.confidence \in Grid
  BY DEF Vote
<1> DEFINE says == Says(Ok(w, Vote(k, c)), k)
<1>2. /\ says[k] \in Grid
      /\ says[k] # 0 => \E v \in Vote(k, c) : v.key = k /\ v.confidence = says[k]
      /\ \A v \in Vote(k, c) : v.key = k => v.confidence =< says[k]
  <2>1. \A v \in Ok(w, Vote(k, c)).candidates : v.confidence \in Grid
    BY <1>1 DEF Ok
  <2> QED
    BY <2>1, SaysIs DEF Ok
<1> HIDE DEF says
<1>3. CASE c = Silent
  <2>1. Vote(k, c) = {}
    BY <1>3 DEF Vote
  <2> QED
    BY <1>1, <1>2, <1>3, <2>1 DEF says
<1>4. CASE c # Silent
  <2>1. Vote(k, c) = {[key |-> k, confidence |-> c]} /\ c \in Grid
    BY <1>4 DEF Vote
  <2>2. c =< says[k] /\ (says[k] # 0 => says[k] = c)
    BY <1>2, <2>1
  <2>3. says[k] = c
    BY <1>2, <2>1, <2>2 DEF Grid
  <2> QED
    BY <1>1, <1>4, <2>3 DEF says
<1> QED
  BY <1>3, <1>4

LEMMA ThreeIs ==
    ASSUME NEW a, NEW b, NEW c
    PROVE  DOMAIN <<a, b, c>> = {1, 2, 3} /\ IsFiniteSet({1, 2, 3})
<1>1. {1, 2, 3} \in SUBSET Nat /\ \A n \in {1, 2, 3} : n =< 3
  OBVIOUS
<1> QED
  BY <1>1, FS_BoundedSetOfNaturals

-----------------------------------------------------------------------------
(* Dissenters *)

\* Somebody with a weight, and so there is a weight.
LEMMA SomeWeight ==
    ASSUME NEW pool, NEW weight, NEW reports, Reporting(pool, weight, reports),
           NEW p \in pool, weight[p] # 0
    PROVE  Total(weight, pool) # 0
<1> DEFINE rest == pool \ {p}
<1>1. Reporting(rest, weight, reports)
  BY FS_Subset DEF Reporting
<1>2. Total(weight, pool) = weight[p] + Total(weight, rest)
  BY TotalSplit DEF Reporting
<1> HIDE DEF rest
<1>3. Total(weight, rest) \in Nat
  BY <1>1, WeightIs
<1> QED
  BY <1>2, <1>3 DEF Reporting

\* What route makes of the claim's score alone.
LEMMA RouteClaim ==
    ASSUME NEW sheet, NEW t, NEW flags, NEW cfg, sheet.applicable_count # 0
    PROVE  LET routed == Route(sheet, t, flags, cfg) IN
           /\ AtLeast(sheet.s_claimed, t.quarantine, cfg) =>
                routed = [outcome |-> "matched", action |-> Nothing]
           /\ AtLeast(sheet.s_claimed, t.auto, cfg) => routed.action = Nothing
BY DEF Route

LEMMA CountIs ==
    ASSUME NEW outcomes, Panel(outcomes), NEW claimed, NEW cfg
    PROVE  /\ Aggregate(outcomes, claimed, cfg).applicable_count = Cardinality(Applicable(outcomes))
           /\ IsFiniteSet(Applicable(outcomes))
           /\ Cardinality(Applicable(outcomes)) = 0 <=> Applicable(outcomes) = {}
<1>1. IsFiniteSet(Applicable(outcomes))
  BY FS_Subset DEF Applicable, Panel
<1> QED
  BY <1>1, FS_EmptySet DEF Aggregate

\* Enough plugins that recognise the file outvote any number that do not, be
\* their weights what they may: with outlier rejection on, if at least
\* outlier_min_agreeing plugins report outlier_high or more on the claim, one
\* of them with a weight, and all others outlier_low or less, it is matched.
\* (_reject_outliers, route)
THEOREM DissentersLose ==
    ASSUME NEW outcomes, Panel(outcomes), NEW claimed, NEW cfg, NEW flags,
           cfg.outlier_rejection = TRUE, cfg.outlier_high = 80, cfg.outlier_low \in Nat,
           LET says(p) == Says(outcomes[p], claimed)[claimed]
               agreeing == {p \in Applicable(outcomes) : says(p) >= 80}
           IN  /\ Cardinality(agreeing) >= cfg.outlier_min_agreeing
               /\ \E p \in agreeing : outcomes[p].weight # 0
               /\ \A p \in Applicable(outcomes) \ agreeing : says(p) =< cfg.outlier_low
    PROVE  Judge(outcomes, claimed, flags, cfg).outcome = "matched"
<1> DEFINE reports == ClaimedReports(outcomes, claimed)
           pool == ClaimedPool(outcomes, claimed, cfg)
           weight == Weights(outcomes)
<1>1. pool = {p \in Applicable(outcomes) : reports[p] >= 80}
  BY DEF ClaimedPool, ClaimedReports, RejectOutliers
<1>2. Reporting(pool, weight, reports)
  BY ReportsTyped
<1>3. \E p \in pool : weight[p] # 0
  BY <1>1 DEF ClaimedReports, Weights
<1>4. Applicable(outcomes) # {}
  BY <1>1, <1>3
<1>5. \A p \in pool : reports[p] >= 80
  BY <1>1
<1>6. Aggregate(outcomes, claimed, cfg).s_claimed = Fuse(reports, pool, weight, cfg)
  BY <1>4, ClaimedScore
<1> HIDE DEF reports, pool, weight
<1>7. AtLeast(Aggregate(outcomes, claimed, cfg).s_claimed, DefaultThresholds.quarantine, cfg)
  <2>1. Total(weight, pool) # 0
    BY <1>2, <1>3, SomeWeight
  <2>2. 80 \in Grid
    BY DEF Grid
  <2> QED
    BY <1>2, <1>5, <1>6, <2>1, <2>2, FuseAtLeast DEF DefaultThresholds
<1>8. Aggregate(outcomes, claimed, cfg).applicable_count # 0
  BY <1>4, CountIs
<1> QED
  BY <1>7, <1>8, RouteClaim DEF Judge

\* Three plugins of weight 1 that answer.
LEMMA ThreePlugins ==
    ASSUME NEW outcomes, Panel(outcomes), NEW claimed,
           Applicable(outcomes) = {1, 2, 3},
           \A p \in {1, 2, 3} : outcomes[p].weight = 1
    PROVE  LET reports == ClaimedReports(outcomes, claimed)
               level(p) == Scale(DefaultScoring, reports[p])
               score == Fuse(reports, {1, 2, 3}, Weights(outcomes), DefaultScoring)
           IN  score = [sum |-> level(1) + level(2) + level(3), weight |-> 3]
<1> DEFINE reports == ClaimedReports(outcomes, claimed)
           weight == Weights(outcomes)
           f == Scaled(reports, {1, 2, 3}, weight, DefaultScoring)
<1>1. weight[1] = 1 /\ weight[2] = 1 /\ weight[3] = 1
  BY DEF Weights
<1>2. Reporting({1, 2, 3}, weight, reports)
  BY ReportsTyped
<1>3. \A p \in {1, 2, 3} : Scale(DefaultScoring, reports[p]) \in Int
  BY <1>2, ScaleMonotone DEF Reporting
<1>4. \A p \in {1, 2, 3} : f[p] = Scale(DefaultScoring, reports[p])
  BY <1>1, <1>3 DEF Scaled
<1>5. ASSUME NEW g, \A p \in {1, 2, 3} : g[p] \in Int
      PROVE  Total(g, {1, 2, 3}) = g[1] + g[2] + g[3]
  <2>1. IsFiniteSet({1, 2, 3}) /\ IsFiniteSet({1, 2, 3} \ {3})
    BY ThreeIs, FS_Subset
  <2>2. Total(g, {1, 2, 3}) = g[3] + Total(g, {1, 2, 3} \ {3})
    BY <1>5, <2>1, TotalSplit
  <2>3. {1, 2, 3} \ {3} = {1, 2} /\ {1, 2} \ {2} = {1}
    OBVIOUS
  <2>4. Total(g, {1, 2}) = g[2] + Total(g, {1})
    BY <1>5, <2>1, <2>3, TotalSplit
  <2>5. Total(g, {1}) = g[1]
    BY <1>5, TotalOne
  <2>6. Total(g, {1, 2, 3} \ {3}) = g[2] + g[1]
    BY <2>3, <2>4, <2>5
  <2>7. Total(g, {1, 2, 3}) = g[3] + (g[2] + g[1])
    BY <2>2, <2>6
  <2>8. g[1] \in Int /\ g[2] \in Int /\ g[3] \in Int
    BY <1>5
  <2> QED
    BY <2>7, <2>8
<1> HIDE DEF f, reports, weight
<1>6. Total(weight, {1, 2, 3}) = 3
  BY <1>1, <1>5
<1>7. Total(f, {1, 2, 3}) = f[1] + f[2] + f[3]
  BY <1>3, <1>4, <1>5
<1> QED
  BY <1>4, <1>6, <1>7, FuseIs DEF f, reports, weight

LEMMA VotesHeard ==
    ASSUME NEW c \in Grid \cup {Silent}, NEW o \in Grid \cup {Silent},
           NEW answer, answer.candidates = Vote(Claimed, c) \cup Vote(Other, o)
    PROVE  /\ \A v \in answer.candidates : v.confidence \in Grid
           /\ Says(answer, Claimed)[Claimed] = (IF c = Silent THEN 0 ELSE c)
<1>1. Claimed # Other /\ Claimed # Unnormalizable
  BY DEF Claimed, Other, InSeries, Unnormalizable
<1>2. answer.candidates = Vote(Claimed, c) \cup Vote(Other, o)
  OBVIOUS
<1>3. \A v \in answer.candidates : v.confidence \in Grid
  BY <1>2 DEF Vote
<1>4. \A v \in answer.candidates : v.key = Claimed => v.confidence = c /\ c # Silent
  BY <1>1, <1>2 DEF Vote
<1>5. c # Silent => \E v \in answer.candidates : v.key = Claimed /\ v.confidence = c
  <2> SUFFICES ASSUME c # Silent PROVE \E v \in answer.candidates : v.key = Claimed /\ v.confidence = c
    OBVIOUS
  <2> DEFINE v == [key |-> Claimed, confidence |-> c]
  <2>1. v \in answer.candidates
    BY <1>2 DEF Vote
  <2>2. v.key = Claimed /\ v.confidence = c
    OBVIOUS
  <2> QED
    BY <2>1, <2>2, Zenon
<1> DEFINE said == Says(answer, Claimed)[Claimed]
<1>6. /\ said \in Grid
      /\ said # 0 => \E v \in answer.candidates : v.key = Claimed /\ v.confidence = said
      /\ \A v \in answer.candidates : v.key = Claimed => v.confidence =< said
  BY <1>1, <1>3, SaysIs
<1> HIDE DEF said
<1>7. said = IF c = Silent THEN 0 ELSE c
  <2>1. c # Silent => c \in Grid /\ c =< said
    BY <1>5, <1>6
  <2> QED
    BY <1>4, <1>6, <2>1 DEF Grid
<1> QED
  BY <1>3, <1>7 DEF said

-----------------------------------------------------------------------------
(* The best alternate *)

LEMMA ImageFinite ==
    ASSUME NEW S, IsFiniteSet(S), NEW f
    PROVE  IsFiniteSet({f[x] : x \in S})
<1> DEFINE T == {f[x] : x \in S}
           g == [x \in S |-> f[x]]
<1>1. g \in [S -> T] /\ \A t \in T : \E x \in S : g[x] = t
  OBVIOUS
<1>2. g \in Surjection(S, T)
  BY <1>1 DEF Surjection
<1> QED
  BY <1>2, FS_Surjection

Fraction == [sum : Int, weight : Nat \ {0}]

LEMMA ProductsOrdered ==
    ASSUME NEW a \in Int, NEW b \in Int, NEW c \in Nat \ {0}
    PROVE  a =< b <=> a * c =< b * c
OBVIOUS

LEMMA FractionsOrdered ==
    ASSUME NEW s \in Fraction, NEW t \in Fraction, NEW u \in Fraction,
           ~Higher(s, t), ~Higher(t, u)
    PROVE  ~Higher(s, u)
<1>1. PICK a \in Int, b \in Int, c \in Int, x \in Nat \ {0}, y \in Nat \ {0}, z \in Nat \ {0} :
          s.sum = a /\ t.sum = b /\ u.sum = c /\ s.weight = x /\ t.weight = y /\ u.weight = z
  BY DEF Fraction
<1>2. a * y =< b * x /\ b * z =< c * y
  BY <1>1 DEF Higher
<1>3. (a * y) * z =< (b * x) * z /\ (b * z) * x =< (c * y) * x
  <2>1. a * y \in Int /\ b * x \in Int /\ b * z \in Int /\ c * y \in Int
    OBVIOUS
  <2> QED
    BY <1>2, <2>1, ProductsOrdered
<1>4. /\ (a * y) * z = (a * z) * y
      /\ (b * x) * z = (b * z) * x
      /\ (c * y) * x = (c * x) * y
  OBVIOUS
<1>5. (a * z) * y =< (c * x) * y
  <2>1. \A i, j, k \in Int : i =< j /\ j =< k => i =< k
    OBVIOUS
  <2>2. (a * z) * y \in Int /\ (b * z) * x \in Int /\ (c * x) * y \in Int
    OBVIOUS
  <2> QED
    BY <1>3, <1>4, <2>1, <2>2
<1>6. a * z =< c * x
  <2>1. a * z \in Int /\ c * x \in Int
    OBVIOUS
  <2> QED
    BY <1>5, <2>1, ProductsOrdered
<1> QED
  BY <1>1, <1>6 DEF Higher

LEMMA BestExists ==
    ASSUME NEW K, IsFiniteSet(K), K # {}, NEW score, \A k \in K : score[k] \in Fraction
    PROVE  \E k \in K : \A l \in K : ~Higher(score[l], score[k])
<1> DEFINE Best(s, k) == \A l \in s : ~Higher(score[l], score[k])
           Good == {s \in SUBSET K : s = {} \/ \E k \in s : Best(s, k)}
<1>0. \A t, u \in Fraction : ~Higher(t, t) /\ (Higher(t, u) => ~Higher(u, t))
  <2> SUFFICES ASSUME NEW t \in Fraction, NEW u \in Fraction
               PROVE  ~Higher(t, t) /\ (Higher(t, u) => ~Higher(u, t))
    OBVIOUS
  <2>1. /\ t.sum * t.weight \in Int /\ t.sum * u.weight \in Int
        /\ u.sum * t.weight \in Int
    BY DEF Fraction
  <2> QED
    BY <2>1 DEF Higher
<1>1. ASSUME NEW s \in SUBSET K, \A x \in s : s \ {x} \in Good PROVE s \in Good
  <2> SUFFICES ASSUME NEW x \in s PROVE \E k \in s : Best(s, k)
    OBVIOUS
  <2>1. CASE s \ {x} = {}
    <3>1. Best(s, x)
      BY <1>0, <2>1
    <3> QED
      BY <3>1
  <2>2. CASE s \ {x} # {}
    <3>1. PICK k \in s \ {x} : Best(s \ {x}, k)
      BY <1>1, <2>2
    <3>2. CASE Higher(score[x], score[k])
      <4>1. ~Higher(score[k], score[x])
        BY <1>0, <3>2
      <4>2. Best(s, x)
        BY <1>0, <3>1, <4>1, FractionsOrdered
      <4> QED
        BY <4>2
    <3>3. CASE ~Higher(score[x], score[k])
      <4>1. Best(s, k)
        BY <3>1, <3>3
      <4> QED
        BY <4>1
    <3> QED
      BY <3>2, <3>3
  <2> QED
    BY <2>1, <2>2
<1> HIDE DEF Good
<1>2. Good = SUBSET K
  <2>1. Good \in SUBSET SUBSET K
    BY DEF Good
  <2> QED
    BY <1>1, <2>1, SetInduction
<1> QED
  BY <1>2 DEF Good

Kinds == {"cross_series", "in_series", "junk"}

LEMMA BestKeyIn ==
    ASSUME NEW K, IsFiniteSet(K), K # {}, NEW score, \A k \in K : score[k] \in Fraction,
           \A k \in K : k.kind \in Kinds
    PROVE  BestKey(K, score) \in K
<1> DEFINE best == {k \in K : \A l \in K : ~Higher(score[l], score[k])}
           ranks == {TieRank(k) : k \in best}
<1>1. best # {} /\ best \subseteq K
  BY BestExists
<1>2. \A k \in best : TieRank(k) \in Nat
  BY DEF TieRank, Kinds
<1>3. BestKey(K, score) = CHOOSE k \in best : \A l \in best : TieRank(k) =< TieRank(l)
  BY DEF BestKey
<1> HIDE DEF best
<1>4. ranks \in SUBSET Nat /\ ranks # {}
  BY <1>1, <1>2
<1>5. PICK m \in ranks : \A n \in ranks : m =< n
  BY <1>4, LeastNat
<1>6. \E k \in best : \A l \in best : TieRank(k) =< TieRank(l)
  BY <1>5
<1> QED
  BY <1>1, <1>3, <1>6

\* Candidates as normalize gives them: finitely many, of three kinds, or of no use.
Keyed(outcomes) ==
    \A p \in DOMAIN outcomes :
        /\ IsFiniteSet(outcomes[p].candidates)
        /\ \A c \in outcomes[p].candidates : c.key = Unnormalizable \/ c.key.kind \in Kinds

SaidBy(outcomes, claimed) == [p \in Applicable(outcomes) |-> Says(outcomes[p], claimed)]

LEMMA KeysFinite ==
    ASSUME NEW outcomes, Panel(outcomes), Keyed(outcomes)
    PROVE  IsFiniteSet({c.key : c \in UNION {outcomes[p].candidates : p \in Applicable(outcomes)}})
<1> DEFINE sets == {outcomes[p].candidates : p \in Applicable(outcomes)}
           all == UNION sets
           f == [p \in Applicable(outcomes) |-> outcomes[p].candidates]
           key == [c \in all |-> c.key]
<1>1. IsFiniteSet(Applicable(outcomes)) /\ Applicable(outcomes) \subseteq DOMAIN outcomes
  BY FS_Subset DEF Applicable, Panel
<1>2. IsFiniteSet({f[p] : p \in Applicable(outcomes)})
  BY <1>1, ImageFinite
<1>3. {f[p] : p \in Applicable(outcomes)} = sets
  OBVIOUS
<1>4. \A S \in sets : IsFiniteSet(S)
  BY <1>1 DEF Keyed
<1>5. IsFiniteSet(all)
  <2> HIDE DEF sets, f
  <2> QED
    BY <1>2, <1>3, <1>4, FS_UNION
<1>6. IsFiniteSet({key[c] : c \in all})
  BY <1>5, ImageFinite
<1>7. {key[c] : c \in all} = {c.key : c \in all}
  OBVIOUS
<1> QED
  BY <1>6, <1>7

LEMMA AltIs ==
    ASSUME NEW outcomes, Panel(outcomes), Keyed(outcomes), NEW claimed, NEW cfg,
           Aggregate(outcomes, claimed, cfg).alt_key # NoKey
    PROVE  LET sheet == Aggregate(outcomes, claimed, cfg)
               alt   == sheet.alt_key
               says  == SaidBy(outcomes, claimed)
           IN  /\ alt # claimed /\ alt # Unnormalizable
               /\ \E p \in Applicable(outcomes) : alt \in DOMAIN says[p]
               /\ sheet.s_alt = Score(alt, says, Weights(outcomes), cfg)
<1> DEFINE says == SaidBy(outcomes, claimed)
           alts == Alternates(says, claimed)
           weight == Weights(outcomes)
           score == [k \in alts \cup {claimed} |-> Score(k, says, weight, cfg)]
           sheet == Aggregate(outcomes, claimed, cfg)
<1> DEFINE best == IF alts = {} THEN NoKey ELSE BestKey(alts, score)
           total == IF best = NoKey THEN Nought(cfg) ELSE score[best]
           claim == IF Applicable(outcomes) = {} THEN Nought(cfg) ELSE score[claimed]
<1>0. sheet = [applicable_count |-> Cardinality(Applicable(outcomes)),
               s_claimed |-> claim, alt_key |-> best, s_alt |-> total]
  BY Zenon DEF Aggregate, SaidBy, Weights
<1>1. sheet.alt_key = best /\ sheet.s_alt = total
  <2> HIDE DEF sheet, best, total, claim
  <2> QED
    BY <1>0
<1>2. alts # {} /\ sheet.alt_key = BestKey(alts, score)
  BY <1>1
<1>3. \A k \in alts : k # claimed /\ \E p \in Applicable(outcomes) : k \in DOMAIN says[p]
  BY DEF Alternates, SaidBy
<1>4. ASSUME NEW p \in Applicable(outcomes)
      PROVE  /\ claimed \in DOMAIN says[p]
             /\ DOMAIN says[p] \subseteq {c.key : c \in outcomes[p].candidates} \cup {claimed}
             /\ \A k \in DOMAIN says[p] : k # claimed => k # Unnormalizable
             /\ \A k \in DOMAIN says[p] : says[p][k] \in Grid
  <2>1. \A c \in outcomes[p].candidates : c.confidence \in Grid
    BY DEF Applicable, Panel
  <2>2. says[p] = Says(outcomes[p], claimed)
    BY DEF SaidBy
  <2> HIDE DEF says
  <2> QED
    BY <2>1, <2>2, SaysIs
<1>5. \A k \in alts : k # Unnormalizable /\ k.kind \in Kinds
  <2> SUFFICES ASSUME NEW k \in alts PROVE k # Unnormalizable /\ k.kind \in Kinds
    OBVIOUS
  <2>1. PICK p \in Applicable(outcomes) : k \in DOMAIN says[p] /\ k # claimed
    BY <1>3
  <2>2. k # Unnormalizable /\ \E c \in outcomes[p].candidates : c.key = k
    BY <1>4, <2>1
  <2> QED
    BY <2>1, <2>2 DEF Keyed, Applicable
<1>6. IsFiniteSet(alts)
  <2> DEFINE keys == {c.key : c \in UNION {outcomes[p].candidates : p \in Applicable(outcomes)}}
  <2>1. alts \subseteq keys
    BY <1>3, <1>4
  <2>2. IsFiniteSet(keys)
    BY KeysFinite
  <2> HIDE DEF keys, alts
  <2> QED
    BY <2>1, <2>2, FS_Subset
<1>7. ASSUME NEW k \in alts PROVE score[k] \in Fraction
  <2> DEFINE reports == ReportsOn(k, says)
             pool == RejectOutliers(reports, cfg)
  <2>1. DOMAIN reports \subseteq Applicable(outcomes) /\ \A p \in DOMAIN reports : reports[p] \in Grid
    BY <1>4 DEF ReportsOn, SaidBy
  <2>2. pool \subseteq Applicable(outcomes) /\ pool \subseteq DOMAIN reports
    BY <2>1, PoolIn
  <2>3. IsFiniteSet(pool)
    <3>1. IsFiniteSet(Applicable(outcomes))
      BY CountIs
    <3> HIDE DEF pool
    <3> QED
      BY <2>2, <3>1, FS_Subset
  <2>4. \A p \in Applicable(outcomes) : weight[p] \in Nat
    BY DEF Weights, Panel, Applicable
  <2>5. Reporting(pool, weight, reports)
    BY <2>1, <2>2, <2>3, <2>4 DEF Reporting
  <2>6. score[k] = Fuse(reports, pool, weight, cfg)
    BY DEF Score
  <2> HIDE DEF pool, reports, score, weight
  <2> QED
    BY <2>5, <2>6, FuseType DEF Fraction
<1> HIDE DEF alts
<1>8. sheet.alt_key \in alts
  <2> HIDE DEF score, sheet
  <2> QED
    BY <1>2, <1>5, <1>6, <1>7, BestKeyIn
<1>9. sheet.s_alt = Score(sheet.alt_key, says, weight, cfg)
  BY <1>1, <1>2, <1>8
<1> QED
  BY <1>3, <1>5, <1>8, <1>9

LEMMA AltAbove ==
    ASSUME NEW outcomes, Panel(outcomes), Keyed(outcomes), NEW claimed, NEW cfg,
           NEW c \in Grid \ {0, 2, 100},
           Aggregate(outcomes, claimed, cfg).alt_key # NoKey,
           AtLeast(Aggregate(outcomes, claimed, cfg).s_alt, c, cfg)
    PROVE  \E p \in Applicable(outcomes) : \E d \in outcomes[p].candidates :
              d.key = Aggregate(outcomes, claimed, cfg).alt_key /\ d.confidence >= c
<1> DEFINE alt == Aggregate(outcomes, claimed, cfg).alt_key
           says == SaidBy(outcomes, claimed)
           reports == ReportsOn(alt, says)
           pool == RejectOutliers(reports, cfg)
           weight == Weights(outcomes)
<1>1. AtLeast(Fuse(reports, pool, weight, cfg), c, cfg)
  BY AltIs DEF Score
<1>2. ASSUME NEW p \in DOMAIN reports
      PROVE  /\ p \in Applicable(outcomes) /\ reports[p] \in Grid
             /\ reports[p] # 0 =>
                  \E d \in outcomes[p].candidates : d.key = alt /\ d.confidence = reports[p]
  <2>1. p \in Applicable(outcomes) /\ alt \in DOMAIN says[p] /\ reports[p] = says[p][alt]
    BY DEF ReportsOn, SaidBy
  <2>2. \A d \in outcomes[p].candidates : d.confidence \in Grid
    BY <2>1 DEF Applicable, Panel
  <2>3. says[p] = Says(outcomes[p], claimed)
    BY <2>1 DEF SaidBy
  <2> HIDE DEF says, alt, reports
  <2> QED
    BY <2>1, <2>2, <2>3, SaysIs
<1>3. pool \subseteq DOMAIN reports
  BY PoolIn
<1>4. Reporting(pool, weight, reports)
  <2>1. IsFiniteSet(Applicable(outcomes)) /\ pool \subseteq Applicable(outcomes)
    BY <1>2, <1>3, CountIs
  <2>2. \A p \in Applicable(outcomes) : weight[p] \in Nat
    BY DEF Weights, Panel, Applicable
  <2> HIDE DEF pool, reports, weight
  <2>3. IsFiniteSet(pool)
    BY <2>1, FS_Subset
  <2> QED
    BY <1>2, <1>3, <2>1, <2>2, <2>3 DEF Reporting
<1> HIDE DEF pool, reports, weight, alt
<1>5. PICK p \in pool : reports[p] >= c
  BY <1>1, <1>4, FuseAbove
<1>6. p \in Applicable(outcomes) /\ reports[p] # 0 /\ c # 0
  BY <1>2, <1>3, <1>5 DEF Grid
<1> QED
  BY <1>2, <1>3, <1>5, <1>6 DEF alt

LEMMA ClaimBelow ==
    ASSUME NEW outcomes, Panel(outcomes), NEW claimed, NEW cfg, Applicable(outcomes) # {},
           cfg.outlier_min_agreeing \in Nat \ {0}, NEW c \in Grid,
           ~AtLeast(Aggregate(outcomes, claimed, cfg).s_claimed, c, cfg)
    PROVE  \E p \in Applicable(outcomes) :
              Says(outcomes[p], claimed)[claimed] < c \/ outcomes[p].weight = 0
<1> DEFINE reports == ClaimedReports(outcomes, claimed)
           pool == ClaimedPool(outcomes, claimed, cfg)
           weight == Weights(outcomes)
<1>1. Reporting(pool, weight, reports) /\ pool \subseteq Applicable(outcomes)
  BY ReportsTyped
<1>2. pool # {}
  <2>1. DOMAIN reports # {}
    BY DEF ClaimedReports
  <2>2. \A S : Cardinality(S) >= cfg.outlier_min_agreeing => S # {}
    BY FS_EmptySet
  <2> QED
    BY <2>1, <2>2 DEF ClaimedPool, RejectOutliers
<1>3. ~AtLeast(Fuse(reports, pool, weight, cfg), c, cfg)
  BY ClaimedScore
<1>4. \A p \in Applicable(outcomes) : /\ reports[p] = Says(outcomes[p], claimed)[claimed]
                                      /\ weight[p] = outcomes[p].weight
  BY DEF ClaimedReports, Weights
<1> HIDE DEF pool, reports, weight
<1>5. CASE \E p \in pool : weight[p] = 0
  BY <1>1, <1>4, <1>5
<1>6. CASE \A p \in pool : weight[p] # 0
  <2>1. Total(weight, pool) # 0
    BY <1>1, <1>2, <1>6, SomeWeight
  <2>2. PICK p \in pool : ~(reports[p] >= c)
    BY <1>1, <1>3, <2>1, FuseAtLeast
  <2>3. reports[p] < c
    BY <1>1, <2>2 DEF Reporting, Grid
  <2> QED
    BY <1>1, <1>4, <2>3
<1> QED
  BY <1>5, <1>6

\* An automatic remap rests on evidence, for any number of plugins, any weights
\* and settings: at least two answered; one of them doubts the claimed episodes
\* or has no weight; one puts the target, which is another key, at the threshold
\* for alternates or above; and the flags allow it.  (aggregate, route)
THEOREM RemapIsBacked ==
    ASSUME NEW outcomes, Panel(outcomes), Keyed(outcomes), NEW claimed, NEW flags, NEW cfg,
           cfg.outlier_min_agreeing \in Nat \ {0},
           Judge(outcomes, claimed, flags, cfg).outcome = "remediate",
           Judge(outcomes, claimed, flags, cfg).action.verb = "remap"
    PROVE  LET alt == Aggregate(outcomes, claimed, cfg).alt_key
           IN  /\ Cardinality(Applicable(outcomes)) >= DefaultThresholds.auto_min_evidence
               /\ \E p \in Applicable(outcomes) :
                     \/ Says(outcomes[p], claimed)[claimed] < DefaultThresholds.auto
                     \/ outcomes[p].weight = 0
               /\ alt # claimed /\ alt.kind = "in_series"
               /\ Judge(outcomes, claimed, flags, cfg).action = Remap(alt.ids)
               /\ \E p \in Applicable(outcomes) : \E c \in outcomes[p].candidates :
                     c.key = alt /\ c.confidence >= DefaultThresholds.alt
               /\ flags.auto_remap /\ ~flags.approval_required
<1> DEFINE sheet == Aggregate(outcomes, claimed, cfg)
           t == DefaultThresholds
           action == Proposal(sheet, t, cfg)
           judged == Judge(outcomes, claimed, flags, cfg)
<1>1. judged = Route(sheet, t, flags, cfg)
  BY DEF Judge
<1>2. t.auto = 40 /\ t.alt = 80 /\ t.auto_min_evidence = 2
  BY DEF DefaultThresholds
<1> HIDE DEF sheet, t
<1>3. /\ ~AtLeast(sheet.s_claimed, t.auto, cfg) /\ judged.action = action
      /\ sheet.applicable_count # 0 /\ Automatic(sheet, t, action, flags)
  BY <1>1 DEF Route, Nothing
<1>4. action = Remap(sheet.alt_key.ids) /\ Credible(sheet, t, cfg) /\ sheet.alt_key.kind = "in_series"
  BY <1>3 DEF Proposal, Replace
<1>5. action.verb = "remap"
  BY <1>4 DEF Remap
<1>6. /\ sheet.applicable_count >= 2 /\ flags.auto_remap /\ ~flags.approval_required
      /\ sheet.alt_key # NoKey /\ AtLeast(sheet.s_alt, 80, cfg)
  BY <1>2, <1>3, <1>4, <1>5 DEF Automatic, Allowed, Credible
<1>7. sheet.applicable_count = Cardinality(Applicable(outcomes)) /\ Applicable(outcomes) # {}
  BY <1>3, CountIs DEF sheet
<1>8. \E p \in Applicable(outcomes) :
          Says(outcomes[p], claimed)[claimed] < 40 \/ outcomes[p].weight = 0
  <2>1. 40 \in Grid
    BY DEF Grid
  <2> QED
    BY <1>2, <1>3, <1>7, <2>1, ClaimBelow DEF sheet
<1>9. sheet.alt_key # claimed
  BY <1>6, AltIs DEF sheet
<1>10. \E p \in Applicable(outcomes) : \E c \in outcomes[p].candidates :
          c.key = sheet.alt_key /\ c.confidence >= 80
  <2>1. 80 \in Grid \ {0, 2, 100}
    BY DEF Grid
  <2> QED
    BY <1>6, <2>1, AltAbove DEF sheet
<1> QED
  BY <1>2, <1>3, <1>4, <1>6, <1>7, <1>8, <1>9, <1>10 DEF sheet, t

\* An answer of one plugin, as the runs enumerate them.
LEMMA AnswerIs ==
    ASSUME NEW a \in Answers
    PROVE  /\ a.weight = 1 /\ a.status \in {"ok", "abstain", "error"} /\ IsFiniteSet(a.candidates)
           /\ \A c \in a.candidates : c.confidence \in Grid /\ c.key \in {Claimed, Other}
<1>1. \A k, c : IsFiniteSet(Vote(k, c))
  BY FS_EmptySet, FS_Singleton DEF Vote
<1>2. Reports \subseteq Grid \cup {Silent}
  BY DEF Reports, Levels, Grid
<1>3. ASSUME NEW k, NEW c \in Reports
      PROVE  \A v \in Vote(k, c) : v.confidence \in Grid /\ v.key = k
  BY <1>2, <1>3 DEF Vote
<1>4. CASE \E s \in {"abstain", "error"} : a = NoAnswer(s)
  BY <1>4, FS_EmptySet DEF NoAnswer
<1>5. CASE \E c, o \in Reports : a = Ok(1, Vote(Claimed, c) \cup Vote(Other, o))
  <2>1. PICK c \in Reports, o \in Reports : a = Ok(1, Vote(Claimed, c) \cup Vote(Other, o))
    BY <1>5
  <2>2. /\ a.weight = 1 /\ a.status = "ok"
        /\ a.candidates = Vote(Claimed, c) \cup Vote(Other, o)
    BY <2>1 DEF Ok
  <2>3. IsFiniteSet(Vote(Claimed, c) \cup Vote(Other, o))
    BY <1>1, FS_Union
  <2> QED
    BY <1>3, <2>2, <2>3
<1> QED
  BY <1>4, <1>5 DEF Answers

-----------------------------------------------------------------------------
(* What route may come to *)

LEMMA TwoElements ==
    ASSUME NEW x, NEW y
    PROVE  IsFiniteSet({x, y}) /\ (x # y => Cardinality({x, y}) = 2)
<1>1. IsFiniteSet({x}) /\ Cardinality({x}) = 1
  BY FS_Singleton, Zenon
<1>2. /\ IsFiniteSet({x} \cup {y})
      /\ Cardinality({x} \cup {y}) = IF y \in {x} THEN Cardinality({x}) ELSE Cardinality({x}) + 1
  BY <1>1, FS_AddElement, Zenon
<1>3. {x} \cup {y} = {x, y}
  OBVIOUS
<1>4. x # y => y \notin {x}
  OBVIOUS
<1> QED
  BY <1>1, <1>2, <1>3, <1>4

LEMMA PairIs ==
    ASSUME NEW a, NEW b
    PROVE  DOMAIN <<a, b>> = {1, 2} /\ IsFiniteSet({1, 2}) /\ Cardinality({1, 2}) = 2
<1>1. IsFiniteSet({1, 2}) /\ Cardinality({1, 2}) = 2
  BY 1 # 2, TwoElements
<1> QED
  BY <1>1

\* An answer that says only how sure it is of the claim.
OfClaim(c) == Ok(1, Vote(Claimed, c) \cup Vote(Other, Silent))
Counted(c) == IF c = Silent THEN 0 ELSE c

LEMMA OfClaimIs ==
    ASSUME NEW c \in Reports
    PROVE  /\ OfClaim(c) \in Answers /\ OfClaim(c).status = "ok" /\ OfClaim(c).weight = 1
           /\ Says(OfClaim(c), Claimed)[Claimed] = Counted(c)
<1> DEFINE a == OfClaim(c)
           Voting(d, o) == Ok(1, Vote(Claimed, d) \cup Vote(Other, o))
<1>1. a.status = "ok" /\ a.weight = 1 /\ a.candidates = Vote(Claimed, c) \cup Vote(Other, Silent)
  BY DEF Ok, OfClaim
<1>2. c \in Grid \cup {Silent} /\ Silent \in Reports /\ Silent \in Grid \cup {Silent}
  BY DEF Reports, Levels, Grid
<1>3. Answers = {NoAnswer(s) : s \in {"abstain", "error"}} \cup {Voting(d, o) : d, o \in Reports}
  BY DEF Answers
<1>4. a = Voting(c, Silent)
  BY DEF OfClaim
<1> HIDE DEF a, Voting
<1>5. a \in Answers
  BY <1>2, <1>3, <1>4
<1>6. Says(a, Claimed)[Claimed] = Counted(c)
  BY <1>1, <1>2, VotesHeard, Zenon DEF Counted
<1> QED
  BY <1>1, <1>5, <1>6 DEF a

\* A panel of which the plugins in ok answer so, and the others not at all.
Alike(S, ok, c) == [p \in S |-> IF p \in ok THEN OfClaim(c) ELSE NoAnswer("error")]

LEMMA AlikeIs ==
    ASSUME NEW S, IsFiniteSet(S), NEW ok \in SUBSET S, NEW c \in Reports
    PROVE  /\ Alike(S, ok, c) \in [S -> Answers]
           /\ Panel(Alike(S, ok, c)) /\ Applicable(Alike(S, ok, c)) = ok
<1> DEFINE panel == Alike(S, ok, c)
           a     == OfClaim(c)
           none  == NoAnswer("error")
<1>1. a \in Answers /\ a.status = "ok"
  BY OfClaimIs
<1>2. none \in Answers /\ none.status = "error"
  BY DEF Answers, NoAnswer
<1>3. /\ DOMAIN panel = S /\ \A p \in ok : panel[p] = a
      /\ \A p \in S \ ok : panel[p] = none
  BY DEF Alike
<1>4. panel \in [S -> Answers]
  BY <1>1, <1>2 DEF Alike
<1> HIDE DEF panel, none, a
<1>5. Panel(panel)
  <2> SUFFICES ASSUME NEW p \in S
               PROVE  /\ panel[p].weight \in Nat
                      /\ \A d \in panel[p].candidates : d.confidence \in Grid
    BY <1>3 DEF Panel
  <2>1. PICK b \in Answers : b = panel[p]
    BY <1>4
  <2> QED
    BY <2>1, AnswerIs
<1>6. \A p \in S : panel[p].status = "ok" <=> p \in ok
  BY <1>1, <1>2, <1>3
<1>7. Applicable(panel) = ok
  BY <1>3, <1>6 DEF Applicable
<1> QED
  BY <1>4, <1>5, <1>7 DEF panel

LEMMA AlikeReports ==
    ASSUME NEW S, IsFiniteSet(S), NEW ok \in SUBSET S, NEW c \in Reports, NEW p \in ok
    PROVE  /\ ClaimedReports(Alike(S, ok, c), Claimed)[p] = Counted(c)
           /\ Weights(Alike(S, ok, c))[p] = 1
<1> DEFINE panel == Alike(S, ok, c)
<1>1. OfClaim(c).weight = 1 /\ Says(OfClaim(c), Claimed)[Claimed] = Counted(c)
  BY OfClaimIs
<1>2. panel[p] = OfClaim(c)
  BY DEF Alike
<1>3. Applicable(panel) = ok
  BY AlikeIs
<1> HIDE DEF panel
<1>4. ClaimedReports(panel, Claimed)[p] = Counted(c) /\ Weights(panel)[p] = 1
  BY <1>1, <1>2, <1>3 DEF ClaimedReports, Weights
<1> QED
  BY <1>4 DEF panel

\* If any plugins recognise the file and no other answers, it is matched.
LEMMA SureMatches ==
    ASSUME NEW S, IsFiniteSet(S), NEW ok \in SUBSET S, ok # {}, NEW t, t.quarantine = 80, NEW flags
    PROVE  Route(Aggregate(Alike(S, ok, 98), Claimed, DefaultScoring),
                 t, flags, DefaultScoring).outcome = "matched"
<1> DEFINE panel   == Alike(S, ok, 98)
           reports == ClaimedReports(panel, Claimed)
           pool    == ClaimedPool(panel, Claimed, DefaultScoring)
<1>1. 98 \in Reports /\ 98 # Silent /\ 80 \in Grid
  BY DEF Reports, Levels, Silent, Grid
<1>2. /\ Panel(panel) /\ Applicable(panel) = ok
      /\ \A p \in ok : reports[p] = 98 /\ Weights(panel)[p] = 1
  <2>1. PICK c \in Reports : c = 98 /\ Counted(c) = 98
    BY <1>1 DEF Counted
  <2>2. PICK x : x = Alike(S, ok, c)
    OBVIOUS
  <2>3. Panel(x) /\ Applicable(x) = ok
    BY <2>2, AlikeIs
  <2>4. ASSUME NEW p \in ok
        PROVE  ClaimedReports(x, Claimed)[p] = Counted(c) /\ Weights(x)[p] = 1
    BY <2>2, AlikeReports
  <2> QED
    BY <2>1, <2>2, <2>3, <2>4
<1>3. pool = ok
  <2>1. DOMAIN reports = ok
    BY <1>2 DEF ClaimedReports
  <2>2. {p \in DOMAIN reports : reports[p] >= 80} = ok
    BY <1>2, <2>1
  <2> QED
    BY <2>1, <2>2 DEF ClaimedPool, RejectOutliers, DefaultScoring
<1>4. Reporting(pool, Weights(panel), reports)
  BY <1>2, ReportsTyped
<1>5. Aggregate(panel, Claimed, DefaultScoring).s_claimed =
        Fuse(reports, pool, Weights(panel), DefaultScoring)
  BY <1>2, ClaimedScore
<1>6. Aggregate(panel, Claimed, DefaultScoring).applicable_count # 0
  BY <1>2, CountIs
<1> HIDE DEF panel, reports, pool
<1>7. \A p \in pool : reports[p] >= 80 /\ Weights(panel)[p] # 0
  BY <1>2, <1>3
<1>8. Total(Weights(panel), pool) # 0
  BY <1>3, <1>4, <1>7, SomeWeight
<1>9. AtLeast(Fuse(reports, pool, Weights(panel), DefaultScoring), 80, DefaultScoring)
  BY <1>1, <1>4, <1>7, <1>8, FuseAtLeast
<1> QED
  BY <1>5, <1>6, <1>9, RouteClaim DEF panel

\* If those that answer say nothing of the claim, what it comes to is the
\* thresholds' and the flags' affair.
LEMMA MuteActs ==
    ASSUME NEW S, IsFiniteSet(S), NEW ok \in SUBSET S, ok # {},
           NEW t, t.quarantine = 80, t.auto = 40, NEW flags
    PROVE  LET sheet  == Aggregate(Alike(S, ok, Silent), Claimed, DefaultScoring)
               action == Proposal(sheet, t, DefaultScoring)
           IN  Route(sheet, t, flags, DefaultScoring).outcome =
                 IF /\ Cardinality(ok) >= t.auto_min_evidence
                    /\ Allowed(action, flags) /\ ~flags.approval_required
                   THEN "remediate" ELSE "quarantine"
<1> DEFINE panel   == Alike(S, ok, Silent)
           reports == ClaimedReports(panel, Claimed)
           pool    == ClaimedPool(panel, Claimed, DefaultScoring)
           sheet   == Aggregate(panel, Claimed, DefaultScoring)
<1>0. Silent \in Reports
  BY DEF Reports
<1>1. {80, 40} \subseteq Grid \ {0, 2, 100}
  BY DEF Grid
<1>2. /\ Panel(panel) /\ Applicable(panel) = ok
      /\ \A p \in ok : reports[p] = 0
  <2>1. PICK c \in Reports : c = Silent
    BY <1>0
  <2>2. PICK x : x = Alike(S, ok, c)
    OBVIOUS
  <2>3. Panel(x) /\ Applicable(x) = ok
    BY <2>2, AlikeIs
  <2>4. ASSUME NEW p \in ok PROVE ClaimedReports(x, Claimed)[p] = Counted(c)
    BY <2>2, AlikeReports
  <2>5. Counted(c) = 0
    BY <2>1 DEF Counted
  <2> QED
    BY <2>1, <2>2, <2>3, <2>4, <2>5
<1>3. Reporting(pool, Weights(panel), reports) /\ pool \subseteq ok
  BY <1>2, ReportsTyped
<1>4. sheet.s_claimed = Fuse(reports, pool, Weights(panel), DefaultScoring)
  BY <1>2, ClaimedScore
<1>5. sheet.applicable_count = Cardinality(ok) /\ sheet.applicable_count # 0
  BY <1>2, CountIs
<1> HIDE DEF panel, reports, pool, sheet
<1>6. ASSUME NEW c \in {80, 40} PROVE ~AtLeast(sheet.s_claimed, c, DefaultScoring)
  <2>1. \A p \in pool : ~(reports[p] >= c)
    BY <1>2, <1>3
  <2> QED
    BY <1>1, <1>3, <1>4, <2>1, FuseAbove
<1>7. Route(sheet, t, flags, DefaultScoring).outcome =
        IF Automatic(sheet, t, Proposal(sheet, t, DefaultScoring), flags)
          THEN "remediate" ELSE "quarantine"
  BY <1>5, <1>6 DEF Route
<1> QED
  BY <1>5, <1>7 DEF Automatic, panel, sheet

\* Whoever answers and whatever they say: an answer excludes "inconclusive",
\* without one there is nothing else, and no file is changed automatically on
\* fewer answers than auto_min_evidence.  (route)
LEMMA RoutedIs ==
    ASSUME NEW outcomes, Panel(outcomes), NEW claimed, NEW t, NEW flags, NEW cfg
    PROVE  LET outcome == Route(Aggregate(outcomes, claimed, cfg), t, flags, cfg).outcome IN
           /\ Applicable(outcomes) = {} => outcome = "inconclusive"
           /\ Applicable(outcomes) # {} => outcome \in {"matched", "quarantine", "remediate"}
           /\ outcome = "remediate" => Cardinality(Applicable(outcomes)) >= t.auto_min_evidence
<1> DEFINE sheet == Aggregate(outcomes, claimed, cfg)
<1>1. /\ sheet.applicable_count = 0 <=> Applicable(outcomes) = {}
      /\ sheet.applicable_count = Cardinality(Applicable(outcomes))
  BY CountIs
<1> HIDE DEF sheet
<1> QED
  BY <1>1 DEF Route, Automatic, sheet
=============================================================================
