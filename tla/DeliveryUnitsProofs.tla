------------------------ MODULE DeliveryUnitsProofs ------------------------
(***************************************************************************)
(* What the rounding, the saving in packs and the sums of the reports give *)
(* for every size curve and every number of units or rows, by induction    *)
(* over the numbers and over the subsets of a finite set.  And,            *)
(* for any number of deliveries and requests and any UT: the type          *)
(* invariant of DeliveryUnits, and that units sent to the endpoint which   *)
(* awaits the adjustment, with nothing else running, end up stored as sent *)
(* and rounded; that every delivery then has the arrival date of its date; *)
(* and that with one request at a time, none lost, and the endpoint that   *)
(* awaits, exactly the deliveries of an approved colour have their whole   *)
(* piName.                                                                 *)
(***************************************************************************)
EXTENDS DeliveryUnits, MCUnitRounding, FiniteSetTheorems, WellFoundedInduction, TLAPS

-----------------------------------------------------------------------------
\* UnitRounding.

\* Division with remainder, the arithmetic of Math.floor and %.
LEMMA DivMod ==
  ASSUME NEW u \in Nat, NEW ut \in Nat \ {0}
  PROVE  /\ u = (u \div ut) * ut + (u % ut)
         /\ u % ut \in 0 .. ut - 1
         /\ u \div ut \in Nat
  OBVIOUS

\* A multiple has no remainder.
LEMMA MultipleMod ==
  ASSUME NEW k \in Nat, NEW ut \in Nat \ {0}
  PROVE  (k * ut) % ut = 0
  OBVIOUS

\* factorUt (purchase-style.service 231) is half the UT, rounded up.
LEMMA HalfUt ==
  ASSUME NEW ut \in Nat \ {0}
  PROVE  /\ FactorUt(ut) \in 1 .. ut
         /\ 2 * FactorUt(ut) >= ut
         /\ 2 * FactorUt(ut) <= ut + 1
  BY DEF FactorUt

\* The approval stores whole numbers of the UT (purchase-style.service 239-245).
THEOREM RoundedIsMultiple ==
  ASSUME NEW ut \in Nat \ {0}, NEW u \in Nat
  PROVE  /\ RoundUnits(u, ut) \in Nat
         /\ IsMultiple(RoundUnits(u, ut), ut)
<1>1. u \div ut \in Nat
  BY DivMod
<1>2. /\ (1 * ut) % ut = 0
      /\ (0 * ut) % ut = 0
      /\ ((u \div ut) * ut) % ut = 0
      /\ ((u \div ut + 1) * ut) % ut = 0
  BY <1>1, MultipleMod, u \div ut + 1 \in Nat
<1>3. NearestMultiple(u, ut) \in Nat /\ NearestMultiple(u, ut) % ut = 0
  <2> DEFINE q == u \div ut
  <2>1. q * ut \in Nat /\ (q + 1) * ut \in Nat
    BY <1>1
  <2>2. QED
    BY <1>2, <2>1 DEF NearestMultiple
<1>4. QED
  BY <1>2, <1>3 DEF RoundUnits, IsMultiple

\* Units that are whole numbers of the UT are stored as they are, so that the
\* approval changes nothing that adjustUTUnits rounded before it.
THEOREM RoundingStable ==
  ASSUME NEW ut \in Nat \ {0}, NEW u \in Nat, IsMultiple(u, ut)
  PROVE  RoundUnits(u, ut) = u
  <1>1. u = (u \div ut) * ut
    BY DivMod DEF IsMultiple
  <1>2. u = 0 \/ u >= ut
    BY DivMod DEF IsMultiple
  <1>3. ~(u % ut >= FactorUt(ut))
    BY HalfUt DEF IsMultiple
  <1>4. QED
    BY <1>1, <1>2, <1>3 DEF RoundUnits, NearestMultiple

\* From one UT up, the rounding is to the nearest: it moves the units by half
\* a UT at most, and upward when they are half way (purchase-style.service 243).
THEOREM RoundingClose ==
  ASSUME NEW ut \in Nat \ {0}, NEW u \in Nat, u >= ut
  PROVE  /\ 2 * (RoundUnits(u, ut) - u) <= ut
         /\ 2 * (u - RoundUnits(u, ut)) < ut
<1> DEFINE q == u \div ut
<1>1. /\ q \in Nat
      /\ u % ut \in 0 .. ut - 1
      /\ q * ut = u - (u % ut)
  BY DivMod
<1>2. (q + 1) * ut = u - (u % ut) + ut
  BY <1>1
<1>3. RoundUnits(u, ut) =
        IF u % ut >= FactorUt(ut) THEN (q + 1) * ut ELSE q * ut
  BY DEF RoundUnits, NearestMultiple
<1>4. QED
  BY <1>1, <1>2, <1>3, HalfUt

-----------------------------------------------------------------------------
\* Induction, and the sums of the library.

\* Induction over the numbers, of a set: without it nothing can be said of what a
\* recursive function computes.
LEMMA NatFrom0 ==
  ASSUME NEW S, 0 \in S, \A n \in Nat : n \in S => n + 1 \in S
  PROVE  Nat \subseteq S
<1> DEFINE Bad == Nat \ S
           R == OpToRel(<, Nat)
<1> SUFFICES ASSUME Bad # {} PROVE FALSE
  OBVIOUS
<1>1. PICK x \in Bad : \A y \in Bad : <<y, x>> \notin R
  <2>1. IsWellFoundedOn(R, Nat)
    BY NatLessThanWellFounded
  <2>2. Bad \subseteq Nat
    OBVIOUS
  <2> HIDE DEF R, Bad
  <2> QED BY <2>1, <2>2, WFMin
<1>2. x # 0 /\ x - 1 \in Nat
  OBVIOUS
<1>3. x - 1 \in Bad
  BY <1>2
<1>4. <<x - 1, x>> \in R
  BY <1>2, <1>3 DEF OpToRel
<1> QED BY <1>1, <1>3, <1>4

\* Induction over the subsets of a finite set.
LEMMA SubsetsFrom ==
  ASSUME NEW S, IsFiniteSet(S), NEW G,
         \A T \in SUBSET S : (\A U \in SUBSET T : U # T => U \in G) => T \in G
  PROVE  SUBSET S \subseteq G
<1> DEFINE Bad == (SUBSET S) \ G
<1> SUFFICES ASSUME Bad # {} PROVE FALSE
  OBVIOUS
<1>1. PICK T \in Bad : \A U \in Bad : <<U, T>> \notin StrictSubsetOrdering(S)
  <2>1. IsWellFoundedOn(StrictSubsetOrdering(S), SUBSET S)
    <3>1. IsWellFoundedOn(StrictSubsetOrdering(S), FiniteSubsetsOf(S))
      BY FS_StrictSubsetOrderingWellFounded
    <3>2. FiniteSubsetsOf(S) = SUBSET S
      BY FS_FiniteSubsetsOfFinite
    <3> QED BY <3>1, <3>2
  <2>2. Bad \subseteq SUBSET S
    OBVIOUS
  <2> HIDE DEF Bad
  <2> QED BY <2>1, <2>2, WFMin
<1>2. \A U \in SUBSET T : U # T => U \in G
  BY <1>1 DEF StrictSubsetOrdering
<1> QED BY <1>2

\* The folds of the library: the element they take first, and their equation.
Pick(s) == CHOOSE x \in s : TRUE
IsFold(g, f, S) ==
  g = [s \in SUBSET S |-> IF s = {} THEN 0 ELSE f[Pick(s)] + g[s \ {Pick(s)}]]

\* It is one of the set.
LEMMA PickIn == \A s : s # {} => Pick(s) \in s
  BY DEF Pick

\* A sum is what some solution of the equation gives, if it has one.
LEMMA FoldChosen ==
  ASSUME NEW f, NEW S, NEW h, IsFold(h, f, S)
  PROVE  \E g : IsFold(g, f, S) /\ SumFunctionOnSet(f, S) = g[S]
<1> DEFINE G == CHOOSE g : IsFold(g, f, S)
<1>1. IsFold(G, f, S)
  OBVIOUS
<1>2. SumFunctionOnSet(f, S) = G[S]
  BY Zenon DEF SumFunctionOnSet, FoldFunctionOnSet, MapThenFoldSet, IsFold, Pick
<1> QED BY <1>1, <1>2

\* It has one at most.
LEMMA FoldUnique ==
  ASSUME NEW S, IsFiniteSet(S), NEW f, NEW g, NEW h, IsFold(g, f, S), IsFold(h, f, S)
  PROVE  g[S] = h[S]
<1> DEFINE G == {T \in SUBSET S : g[T] = h[T]}
<1>1. ASSUME NEW T \in SUBSET S, \A U \in SUBSET T : U # T => U \in G
      PROVE  T \in G
  <2>1. T # {} => g[T \ {Pick(T)}] = h[T \ {Pick(T)}]
    BY <1>1, PickIn
  <2>2. g[T] = IF T = {} THEN 0 ELSE f[Pick(T)] + g[T \ {Pick(T)}]
    BY DEF IsFold
  <2>3. h[T] = IF T = {} THEN 0 ELSE f[Pick(T)] + h[T \ {Pick(T)}]
    BY DEF IsFold
  <2> QED BY <2>1, <2>2, <2>3
<1>2. SUBSET S \subseteq G
  <2> HIDE DEF G
  <2> QED BY <1>1, SubsetsFrom
<1> QED BY <1>2

\* It has one: a sum is its first term and the sum of the others.
LEMMA SumPick ==
  ASSUME NEW S, IsFiniteSet(S), NEW f
  PROVE  SumFunctionOnSet(f, S) =
           IF S = {} THEN 0 ELSE f[Pick(S)] + SumFunctionOnSet(f, S \ {Pick(S)})
<1> DEFINE Sum(T) == SumFunctionOnSet(f, T)
           Term(T) == IF T = {} THEN 0 ELSE f[Pick(T)] + Sum(T \ {Pick(T)})
           G == {T \in SUBSET S : Sum(T) = Term(T)}
<1>1. ASSUME NEW T \in SUBSET S, \A U \in SUBSET T : U # T => U \in G
      PROVE  T \in G
  <2> DEFINE g == [s \in SUBSET T |-> IF s = T THEN Term(T) ELSE Sum(s)]
  <2>0. IsFiniteSet(T)
    BY FS_Subset
  <2>1. IsFold(g, f, T)
    <3> SUFFICES ASSUME NEW s \in SUBSET T
                 PROVE  g[s] = IF s = {} THEN 0 ELSE f[Pick(s)] + g[s \ {Pick(s)}]
      BY Zenon DEF IsFold
    <3>1. g[s] = Term(s)
      <4>1. s # T => Sum(s) = Term(s)
        BY <1>1
      <4> HIDE DEF Sum, Term
      <4> QED BY <4>1
    <3>2. s # {} => g[s \ {Pick(s)}] = Sum(s \ {Pick(s)})
      <4>1. s # {} => s \ {Pick(s)} \in SUBSET T /\ s \ {Pick(s)} # T
        BY PickIn
      <4> HIDE DEF Sum, Term
      <4> QED BY <4>1
    <3> HIDE DEF g
    <3> QED BY <3>1, <3>2
  <2>2. PICK h : IsFold(h, f, T) /\ Sum(T) = h[T]
    BY <2>1, FoldChosen
  <2>3. h[T] = g[T]
    <3> HIDE DEF g
    <3> QED BY <2>0, <2>1, <2>2, FoldUnique
  <2>4. g[T] = Term(T)
    <3> HIDE DEF Term, Sum
    <3> QED OBVIOUS
  <2> QED BY <2>2, <2>3, <2>4
<1>2. SUBSET S \subseteq G
  <2> HIDE DEF G
  <2> QED BY <1>1, SubsetsFrom
<1> QED BY <1>2

\* The sum of no terms.
LEMMA SumEmpty == \A f : SumFunctionOnSet(f, {}) = 0
  BY SumPick, FS_EmptySet

\* Sums of integers are integers.
LEMMA SumInt ==
  ASSUME NEW S, IsFiniteSet(S), NEW f, \A x \in S : f[x] \in Int
  PROVE  SumFunctionOnSet(f, S) \in Int
<1> DEFINE G == {T \in SUBSET S : SumFunctionOnSet(f, T) \in Int}
<1>1. ASSUME NEW T \in SUBSET S, \A U \in SUBSET T : U # T => U \in G
      PROVE  T \in G
  <2>1. CASE T = {}
    BY <2>1, SumEmpty
  <2>2. CASE T # {}
    <3>1. Pick(T) \in T /\ T \ {Pick(T)} \in G
      BY <2>2, <1>1, PickIn
    <3>2. SumFunctionOnSet(f, T) = f[Pick(T)] + SumFunctionOnSet(f, T \ {Pick(T)})
      BY <2>2, SumPick, FS_Subset
    <3> QED BY <3>1, <3>2
  <2> QED BY <2>1, <2>2
<1>2. SUBSET S \subseteq G
  <2> HIDE DEF G
  <2> QED BY <1>1, SubsetsFrom
<1> QED BY <1>2

\* Sums of natural numbers are natural numbers.
LEMMA SumNat ==
  ASSUME NEW S, IsFiniteSet(S), NEW f, \A x \in S : f[x] \in Nat
  PROVE  SumFunctionOnSet(f, S) \in Nat
<1> DEFINE G == {T \in SUBSET S : SumFunctionOnSet(f, T) \in Nat}
<1>1. ASSUME NEW T \in SUBSET S, \A U \in SUBSET T : U # T => U \in G
      PROVE  T \in G
  <2>1. CASE T = {}
    BY <2>1, SumEmpty
  <2>2. CASE T # {}
    <3>1. Pick(T) \in T /\ T \ {Pick(T)} \in G
      BY <2>2, <1>1, PickIn
    <3>2. SumFunctionOnSet(f, T) = f[Pick(T)] + SumFunctionOnSet(f, T \ {Pick(T)})
      BY <2>2, SumPick, FS_Subset
    <3> QED BY <3>1, <3>2
  <2> QED BY <2>1, <2>2
<1>2. SUBSET S \subseteq G
  <2> HIDE DEF G
  <2> QED BY <1>1, SubsetsFrom
<1> QED BY <1>2

\* Any term may be the first, whichever the fold takes.
LEMMA SumTake ==
  ASSUME NEW S, IsFiniteSet(S), NEW f, \A x \in S : f[x] \in Int, NEW x \in S
  PROVE  SumFunctionOnSet(f, S) = f[x] + SumFunctionOnSet(f, S \ {x})
<1> DEFINE G == {T \in SUBSET S : \A y \in T :
                   SumFunctionOnSet(f, T) = f[y] + SumFunctionOnSet(f, T \ {y})}
<1>1. ASSUME NEW T \in SUBSET S, \A U \in SUBSET T : U # T => U \in G
      PROVE  T \in G
  <2> SUFFICES ASSUME NEW y \in T
               PROVE  SumFunctionOnSet(f, T) = f[y] + SumFunctionOnSet(f, T \ {y})
    OBVIOUS
  <2> DEFINE p == Pick(T)
  <2>1. p \in T
    BY PickIn
  <2>2. SumFunctionOnSet(f, T) = f[p] + SumFunctionOnSet(f, T \ {p})
    BY SumPick, FS_Subset
  <2>3. CASE p = y
    BY <2>2, <2>3
  <2>4. CASE p # y
    <3> HIDE DEF p
    <3>1. T \ {p} \in G /\ T \ {y} \in G
      BY <1>1, <2>1
    <3>2. SumFunctionOnSet(f, T \ {p}) = f[y] + SumFunctionOnSet(f, (T \ {p}) \ {y})
      BY <3>1, <2>4
    <3>3. SumFunctionOnSet(f, T \ {y}) = f[p] + SumFunctionOnSet(f, (T \ {y}) \ {p})
      BY <3>1, <2>1, <2>4
    <3>4. (T \ {p}) \ {y} = (T \ {y}) \ {p}
      OBVIOUS
    <3>5. SumFunctionOnSet(f, (T \ {p}) \ {y}) \in Int
      BY SumInt, FS_Subset
    <3>6. f[p] \in Int /\ f[y] \in Int
      BY <2>1
    <3> DEFINE rest == SumFunctionOnSet(f, (T \ {p}) \ {y})
    <3>7. SumFunctionOnSet(f, T \ {y}) = f[p] + rest
      BY Zenon, <3>3, <3>4
    <3>8. SumFunctionOnSet(f, T) = f[p] + (f[y] + rest)
      BY Zenon, <2>2, <3>2
    <3>9. f[p] + (f[y] + rest) = f[y] + (f[p] + rest)
      <4> HIDE DEF rest
      <4> QED BY <3>5, <3>6 DEF rest
    <3> QED BY Zenon, <3>7, <3>8, <3>9
  <2> QED BY <2>3, <2>4
<1>2. SUBSET S \subseteq G
  <2> HIDE DEF G
  <2> QED BY <1>1, SubsetsFrom
<1>3. S \in G
  <2> HIDE DEF G
  <2> QED BY <1>2
<1> QED BY <1>3

\* The sum over the images of a set, whose terms are multiples of those of the set.
LEMMA SumImage ==
  ASSUME NEW D, IsFiniteSet(D), NEW f, \A i \in D : f[i] \in Int, NEW c \in Int,
         NEW r, \A i, j \in D : r[i] = r[j] => i = j,
         NEW h, \A i \in D : h[r[i]] = c * f[i],
         NEW M, \A z : z \in M <=> \E i \in D : z = r[i]
  PROVE  /\ IsFiniteSet(M)
         /\ SumFunctionOnSet(h, M) = c * SumFunctionOnSet(f, D)
<1> DEFINE Image(T) == {r[i] : i \in T}
           G == {T \in SUBSET D : /\ IsFiniteSet(Image(T))
                                  /\ SumFunctionOnSet(h, Image(T)) = c * SumFunctionOnSet(f, T)}
<1>1. ASSUME NEW T \in SUBSET D, \A U \in SUBSET T : U # T => U \in G
      PROVE  T \in G
  <2>1. CASE T = {}
    <3>1. Image(T) = {}
      BY <2>1
    <3> QED BY <2>1, <3>1, SumEmpty, FS_EmptySet
  <2>2. CASE T # {}
    <3>1. PICK x \in T : TRUE
      BY <2>2
    <3> DEFINE U == T \ {x}
    <3>2. U \in G
      BY <1>1
    <3>3. Image(T) = Image(U) \cup {r[x]} /\ r[x] \notin Image(U)
      OBVIOUS
    <3>4. IsFiniteSet(Image(T))
      <4>1. IsFiniteSet(Image(U))
        BY <3>2
      <4> HIDE DEF Image, U
      <4> QED BY <4>1, <3>3, FS_AddElement
    <3>5. Image(T) \ {r[x]} = Image(U) /\ r[x] \in Image(T)
      BY <3>3
    <3>6. \A z \in Image(T) : h[z] \in Int
      OBVIOUS
    <3>7. SumFunctionOnSet(h, Image(T)) = h[r[x]] + SumFunctionOnSet(h, Image(U))
      <4> HIDE DEF Image, U
      <4>1. SumFunctionOnSet(h, Image(T)) = h[r[x]] + SumFunctionOnSet(h, Image(T) \ {r[x]})
        BY <3>4, <3>5, <3>6, SumTake
      <4> QED BY Zenon, <4>1, <3>5
    <3>8. SumFunctionOnSet(f, T) = f[x] + SumFunctionOnSet(f, U)
      BY SumTake, FS_Subset
    <3>9. SumFunctionOnSet(f, U) \in Int /\ f[x] \in Int
      BY SumInt, FS_Subset
    <3>10. SumFunctionOnSet(h, Image(U)) = c * SumFunctionOnSet(f, U)
      BY <3>2
    <3>11. h[r[x]] = c * f[x]
      OBVIOUS
    <3>12. SumFunctionOnSet(h, Image(T)) = c * SumFunctionOnSet(f, T)
      <4> HIDE DEF Image, U
      <4> QED BY <3>7, <3>8, <3>9, <3>10, <3>11
    <3> QED BY <3>4, <3>12
  <2> QED BY <2>1, <2>2
<1>2. SUBSET D \subseteq G
  <2> HIDE DEF G
  <2> QED BY <1>1, SubsetsFrom
<1>3. D \in G
  <2> HIDE DEF G
  <2> QED BY <1>2
<1>4. M = Image(D)
  OBVIOUS
<1> QED BY <1>3, <1>4

\* The same, term by term.
LEMMA SumTimes ==
  ASSUME NEW D, IsFiniteSet(D), NEW f, \A i \in D : f[i] \in Int, NEW c \in Int,
         NEW h, \A i \in D : h[i] = c * f[i]
  PROVE  SumFunctionOnSet(h, D) = c * SumFunctionOnSet(f, D)
<1> DEFINE r == [i \in D |-> i]
<1>1. \A i, j \in D : r[i] = r[j] => i = j
  OBVIOUS
<1>2. \A i \in D : h[r[i]] = c * f[i]
  OBVIOUS
<1>3. \A z : z \in D <=> \E i \in D : z = r[i]
  OBVIOUS
<1> HIDE DEF r
<1> QED BY <1>1, <1>2, <1>3, SumImage

\* Sums whose terms differ by at most e differ by at most e for each term.
LEMMA SumsClose ==
  ASSUME NEW S, IsFiniteSet(S), NEW e \in Nat, NEW f, NEW g,
         \A x \in S : f[x] \in Int /\ g[x] \in Int /\ f[x] - g[x] \in -e .. e
  PROVE  LET off == Cardinality(S) * e
         IN SumFunctionOnSet(f, S) - SumFunctionOnSet(g, S) \in -off .. off
<1> DEFINE Off(T) == Cardinality(T) * e
           G == {T \in SUBSET S :
                   SumFunctionOnSet(f, T) - SumFunctionOnSet(g, T) \in -Off(T) .. Off(T)}
<1>1. ASSUME NEW T \in SUBSET S, \A U \in SUBSET T : U # T => U \in G
      PROVE  T \in G
  <2>1. CASE T = {}
    BY <2>1, SumEmpty, FS_EmptySet
  <2>2. CASE T # {}
    <3>1. PICK x \in T : TRUE
      BY <2>2
    <3> DEFINE U == T \ {x}
    <3>2. U \in G
      BY <1>1
    <3>3. IsFiniteSet(T) /\ IsFiniteSet(U)
      BY FS_Subset
    <3>4. /\ SumFunctionOnSet(f, T) = f[x] + SumFunctionOnSet(f, U)
          /\ SumFunctionOnSet(g, T) = g[x] + SumFunctionOnSet(g, U)
      BY <3>3, SumTake
    <3>5. SumFunctionOnSet(f, U) \in Int /\ SumFunctionOnSet(g, U) \in Int
      BY <3>3, SumInt
    <3>6. Cardinality(T) = Cardinality(U) + 1 /\ Cardinality(U) \in Nat
      BY <3>3, FS_RemoveElement, FS_CardinalityType
    <3>7. Off(T) = Off(U) + e /\ Off(U) \in Nat
      BY <3>6
    <3>8. SumFunctionOnSet(f, U) - SumFunctionOnSet(g, U) \in -Off(U) .. Off(U)
      BY <3>2
    <3>9. f[x] \in Int /\ g[x] \in Int /\ f[x] - g[x] \in -e .. e
      OBVIOUS
    <3> HIDE DEF Off, U
    <3>10. SumFunctionOnSet(f, T) - SumFunctionOnSet(g, T) \in -Off(T) .. Off(T)
      BY <3>4, <3>5, <3>7, <3>8, <3>9
    <3> QED BY <3>10
  <2> QED BY <2>1, <2>2
<1>2. SUBSET S \subseteq G
  <2> HIDE DEF G
  <2> QED BY <1>1, SubsetsFrom
<1>3. S \in G
  <2> HIDE DEF G
  <2> QED BY <1>2
<1> QED BY <1>3

-----------------------------------------------------------------------------
\* The inputs of MCUnitRounding.

\* The quantities and the curves of a behaviour.
CurveInv ==
  /\ quantity \in Nat /\ (quantity # 0 => quantity <= MaxUnits)
  /\ \E n \in Nat \ {0} : curve \in [1 .. n -> Nat \ {0}]

\* They stay so.
LEMMA CurveStays == CurvesSpec => []CurveInv
<1>1. CurvesInit => CurveInv
  BY DEF CurvesInit, CurveInv
<1>2. CurveInv /\ [CurvesNext]_<<quantity, curve>> => CurveInv'
  BY CurvesAssumption DEF CurveInv, CurvesNext
<1> QED BY <1>1, <1>2, PTL DEF CurvesSpec

\* What the proofs use of a curve: its sizes, and the UT they add up to.
LEMMA CurveIs ==
  ASSUME CurveInv
  PROVE  /\ IsFiniteSet(DOMAIN curve) /\ DOMAIN curve # {}
         /\ Cardinality(DOMAIN curve) = Len(curve)
         /\ \A i \in DOMAIN curve : curve[i] \in Nat \ {0} /\ i \in Nat \ {0}
         /\ CurveUt = SumFunctionOnSet(curve, DOMAIN curve)
         /\ CurveUt \in Nat \ {0}
         /\ quantity \in Nat
<1>1. PICK n \in Nat \ {0} : curve \in [1 .. n -> Nat \ {0}]
  BY DEF CurveInv
<1>2. DOMAIN curve = 1 .. n /\ Len(curve) = n
  BY <1>1
<1>3. IsFiniteSet(DOMAIN curve) /\ Cardinality(DOMAIN curve) = n
  BY <1>2, FS_Interval
<1>4. CurveUt = SumFunctionOnSet(curve, DOMAIN curve)
  BY DEF CurveUt, UtOf, SumFunction
<1>5. \A i \in DOMAIN curve : curve[i] \in Nat \ {0} /\ i \in Nat \ {0}
  BY <1>1, <1>2
<1>6. 1 \in DOMAIN curve
  BY <1>2
<1>7. SumFunctionOnSet(curve, DOMAIN curve) \in Nat \ {0}
  <2>1. SumFunctionOnSet(curve, DOMAIN curve)
          = curve[1] + SumFunctionOnSet(curve, DOMAIN curve \ {1})
    BY <1>3, <1>5, <1>6, SumTake
  <2>2. SumFunctionOnSet(curve, DOMAIN curve \ {1}) \in Nat
    <3>1. IsFiniteSet(DOMAIN curve \ {1})
      BY <1>3, FS_RemoveElement
    <3> QED BY <3>1, <1>5, SumNat
  <2> QED BY <2>1, <2>2, <1>5, <1>6
<1> QED BY <1>2, <1>3, <1>4, <1>5, <1>6, <1>7 DEF CurveInv

-----------------------------------------------------------------------------
\* UnitRounding, against the nearest multiple.

\* The rounding gives a multiple, and no other is as near, but a lesser one
\* (purchase-style.service 239-245).
LEMMA NearestOf ==
  ASSUME NEW ut \in Nat \ {0}, NEW u \in Nat \ {0}
  PROVE  \E k \in 1 .. u + 1 :
           /\ RoundUnits(u, ut) = k * ut
           /\ \A j \in Nat \ {0} :
                \/ Distance(j * ut, u) > Distance(k * ut, u)
                \/ Distance(j * ut, u) = Distance(k * ut, u) /\ j * ut <= k * ut
<1> DEFINE q == u \div ut
           r == u % ut
<1>1. u = q * ut + r /\ r \in 0 .. ut - 1 /\ q \in Nat
  BY DivMod
<1>2. q <= u
  <2>1. q * ut >= q
    BY <1>1
  <2> QED BY <1>1, <2>1
<1>3. /\ (q + 1) * ut = q * ut + ut
      /\ q * ut \in Nat
  BY <1>1
<1>4. \A j \in Nat : /\ j <= q => j * ut <= q * ut
                     /\ j > q => j * ut >= (q + 1) * ut
                     /\ j * ut \in Nat
  <2> SUFFICES ASSUME NEW j \in Nat
               PROVE  /\ j <= q => j * ut <= q * ut
                      /\ j > q => j * ut >= (q + 1) * ut
                      /\ j * ut \in Nat
    OBVIOUS
  <2> HIDE DEF q, r
  <2>1. ASSUME NEW a \in Nat, NEW b \in Nat, a <= b PROVE a * ut <= b * ut
    <3>1. b = a + (b - a) /\ b - a \in Nat
      BY <2>1
    <3>2. (a + (b - a)) * ut = a * ut + (b - a) * ut
      BY <3>1
    <3>3. (b - a) * ut \in Nat /\ a * ut \in Nat
      BY <3>1
    <3> QED BY <3>1, <3>2, <3>3
  <2> QED BY <1>1, <2>1
<1>5. CASE u < ut
  <2>1. q = 0
    <3> HIDE DEF q, r
    <3>1. q >= 1 => q * ut >= ut
      BY <1>1
    <3> QED BY <1>1, <1>3, <1>5, <3>1
  <2>2. RoundUnits(u, ut) = 1 * ut
    BY <1>5 DEF RoundUnits
  <2>3. \A j \in Nat \ {0} : j * ut >= ut /\ j * ut \in Nat
    BY <1>4, <2>1
  <2> QED BY <1>5, <2>2, <2>3 DEF Distance
<1>6. CASE u >= ut
  <2>1. q # 0
    BY <1>1, <1>6
  <2>2. RoundUnits(u, ut) = IF r >= FactorUt(ut) THEN (q + 1) * ut ELSE q * ut
    BY <1>6 DEF RoundUnits, NearestMultiple
  <2>3. CASE r >= FactorUt(ut)
    <3>1. /\ RoundUnits(u, ut) = (q + 1) * ut
          /\ Distance((q + 1) * ut, u) = ut - r
      BY <1>1, <1>3, <2>2, <2>3 DEF Distance
    <3>2. \A j \in Nat \ {0} :
            \/ Distance(j * ut, u) > ut - r
            \/ Distance(j * ut, u) = ut - r /\ j * ut <= (q + 1) * ut
      <4> SUFFICES ASSUME NEW j \in Nat \ {0}
                   PROVE  \/ Distance(j * ut, u) > ut - r
                          \/ Distance(j * ut, u) = ut - r /\ j * ut <= (q + 1) * ut
        OBVIOUS
      <4>1. (j * ut <= q * ut \/ j * ut >= (q + 1) * ut) /\ j * ut \in Nat
        <5> HIDE DEF q
        <5> QED BY <1>1, <1>4
      <4>2. 2 * r >= ut
        BY <1>1, <2>3, HalfUt
      <4> DEFINE m == j * ut
                 p == q * ut
      <4>3. p \in Nat /\ u = p + r /\ (q + 1) * ut = p + ut
        BY <1>1, <1>3
      <4>4. r \in Nat
        BY <1>1
      <4> HIDE DEF m, p, q, r
      <4> QED BY <4>1, <4>2, <4>3, <4>4 DEF Distance, m, p
    <3>3. q + 1 \in 1 .. u + 1
      BY <1>1, <1>2
    <3> HIDE DEF q, r
    <3> QED BY <3>1, <3>2, <3>3
  <2>4. CASE ~(r >= FactorUt(ut))
    <3>1. /\ RoundUnits(u, ut) = q * ut
          /\ Distance(q * ut, u) = r
      BY <1>1, <1>3, <2>2, <2>4 DEF Distance
    <3>2. \A j \in Nat \ {0} :
            \/ Distance(j * ut, u) > r
            \/ Distance(j * ut, u) = r /\ j * ut <= q * ut
      <4> SUFFICES ASSUME NEW j \in Nat \ {0}
                   PROVE  \/ Distance(j * ut, u) > r
                          \/ Distance(j * ut, u) = r /\ j * ut <= q * ut
        OBVIOUS
      <4>1. (j * ut <= q * ut \/ j * ut >= (q + 1) * ut) /\ j * ut \in Nat
        <5> HIDE DEF q
        <5> QED BY <1>1, <1>4
      <4>2. 2 * r < ut
        <5>1. r <= FactorUt(ut) - 1 /\ 2 * FactorUt(ut) <= ut + 1 /\ FactorUt(ut) \in Nat
          BY <1>1, <2>4, HalfUt
        <5>2. r \in Nat
          BY <1>1
        <5> HIDE DEF r
        <5> QED BY <5>1, <5>2
      <4> DEFINE m == j * ut
                 p == q * ut
      <4>3. p \in Nat /\ u = p + r /\ (q + 1) * ut = p + ut
        BY <1>1, <1>3
      <4>4. r \in Nat
        BY <1>1
      <4> HIDE DEF m, p, q, r
      <4> QED BY <4>1, <4>2, <4>3, <4>4 DEF Distance, m, p
    <3>3. q \in 1 .. u + 1
      BY <1>1, <1>2, <2>1
    <3> HIDE DEF q, r
    <3> QED BY <3>1, <3>2, <3>3
  <2> QED BY <2>3, <2>4
<1> QED BY <1>5, <1>6

\* In each state.
LEMMA RoundedNear ==
  ASSUME CurveInv
  PROVE  RoundedToNearest
<1> SUFFICES ASSUME quantity # 0
             PROVE  RoundedToNearest
  BY DEF RoundedToNearest
<1>1. CurveUt \in Nat \ {0} /\ quantity \in Nat \ {0} /\ quantity <= MaxUnits
  BY CurveIs DEF CurveInv
<1>2. PICK k \in 1 .. quantity + 1 :
        /\ RoundedQuantity = k * CurveUt
        /\ \A j \in Nat \ {0} :
             \/ Distance(j * CurveUt, quantity) > Distance(k * CurveUt, quantity)
             \/ /\ Distance(j * CurveUt, quantity) = Distance(k * CurveUt, quantity)
                /\ j * CurveUt <= k * CurveUt
  BY <1>1, NearestOf DEF RoundedQuantity
<1>3. k \in 1 .. MaxUnits + 1
  BY <1>1, <1>2, CurvesAssumption
<1>4. RoundedQuantity \in Multiples
  BY <1>2, <1>3 DEF Multiples
<1>5. AdjustedQuantity = RoundedQuantity
  BY <1>1 DEF AdjustedQuantity, RoundedQuantity, AdjustUnits, RoundUnits
<1>6. RoundUnits(RoundedQuantity, CurveUt) = RoundedQuantity
  BY <1>1, RoundedIsMultiple, RoundingStable DEF RoundedQuantity
<1>7. ASSUME NEW m \in Multiples
      PROVE  \/ Distance(m, quantity) > Distance(RoundedQuantity, quantity)
             \/ Distance(m, quantity) = Distance(RoundedQuantity, quantity) /\ m <= RoundedQuantity
  <2>1. PICK j \in 1 .. MaxUnits + 1 : m = j * CurveUt
    BY DEF Multiples
  <2>2. j \in Nat \ {0}
    OBVIOUS
  <2> QED BY <1>2, <2>1, <2>2
<1> QED BY <1>4, <1>5, <1>6, <1>7 DEF RoundedToNearest

-----------------------------------------------------------------------------
\* SaveInPacks.

\* A pack less leaves the same rest.
LEMMA ModLess ==
  ASSUME NEW p \in Nat \ {0}, NEW a \in Nat, a >= p
  PROVE  (a - p) % p = a % p
<1>1. a = (a \div p) * p + (a % p) /\ a % p \in 0 .. p - 1 /\ a \div p \in Nat
  BY DivMod
<1>2. a - p \in Nat
  OBVIOUS
<1>3. /\ a - p = ((a - p) \div p) * p + ((a - p) % p)
      /\ (a - p) % p \in 0 .. p - 1 /\ (a - p) \div p \in Nat
  BY <1>2, DivMod
<1> DEFINE q == a \div p
           t == (a - p) \div p
           r == a % p
           v == (a - p) % p
<1>4. (q - t - 1) * p = v - r
  BY <1>1, <1>3
<1>5. \A z \in Int : z * p \in 1 - p .. p - 1 => z = 0
  <2> SUFFICES ASSUME NEW z \in Int, z # 0
               PROVE  z * p >= p \/ z * p <= -p
    OBVIOUS
  <2>1. CASE z >= 1
    BY <2>1
  <2>2. CASE z <= -1
    <3>1. (-z) * p >= p
      BY <2>2
    <3> QED BY <3>1
  <2> QED BY <2>1, <2>2
<1>6. q - t - 1 = 0
  <2>1. q - t - 1 \in Int /\ v - r \in 1 - p .. p - 1
    BY <1>1, <1>3
  <2> HIDE DEF q, t, r, v
  <2> QED BY <1>4, <1>5, <2>1
<1> QED BY <1>1, <1>3, <1>4, <1>6

\* The equation of the loop that saves in packs.
IsSaving(g, n, pack) ==
  g = [i \in 0 .. n + pack |->
        LET next == i + pack IN
          Slice(i, pack, n)
            \cup (IF pack + next > n THEN Slice(next, pack, n) ELSE {})
            \cup (IF n > pack + next THEN g[next] ELSE {})]

\* What is saved from a row on.
SavedFrom(i, n, pack) ==
  (i + 1 .. n) \ (IF n - i > pack /\ (n - i) % pack = 0 THEN n - pack + 1 .. n ELSE {})

\* What the loop saves is what some solution of the equation gives.
LEMMA SavingChosen ==
  ASSUME NEW n, NEW pack, NEW h, IsSaving(h, n, pack)
  PROVE  \E g : IsSaving(g, n, pack) /\ Saved(n, pack) = g[0]
<1> DEFINE G == CHOOSE g : IsSaving(g, n, pack)
<1>1. IsSaving(G, n, pack)
  OBVIOUS
<1>2. Saved(n, pack) = G[0]
  BY Zenon DEF Saved, IsSaving
<1> QED BY <1>1, <1>2

\* SavedFrom is a solution.
LEMMA SavedFromStep ==
  ASSUME NEW n \in Nat, NEW pack \in Nat \ {0}, NEW i \in 0 .. n + pack
  PROVE  SavedFrom(i, n, pack) =
           Slice(i, pack, n)
             \cup (IF pack + (i + pack) > n THEN Slice(i + pack, pack, n) ELSE {})
             \cup (IF n > pack + (i + pack) THEN SavedFrom(i + pack, n, pack) ELSE {})
<1>1. CASE pack + (i + pack) > n
  <2>1. ~(n - i > pack /\ (n - i) % pack = 0)
    <3> SUFFICES ASSUME n - i > pack, (n - i) % pack = 0 PROVE FALSE
      OBVIOUS
    <3>1. ((n - i) - pack) % pack = 0
      <4>1. n - i \in Nat /\ n - i >= pack
        OBVIOUS
      <4> QED BY <4>1, ModLess
    <3>2. n - i - pack \in 1 .. pack - 1
      BY <1>1
    <3>3. \A a \in 0 .. pack - 1 : a % pack = a
      OBVIOUS
    <3> QED BY <3>1, <3>2, <3>3
  <2>2. SavedFrom(i, n, pack) = i + 1 .. n
    BY <2>1 DEF SavedFrom
  <2>3. Slice(i, pack, n) \cup Slice(i + pack, pack, n) = i + 1 .. n
    BY <1>1 DEF Slice, AtMost
  <2> QED BY <1>1, <2>2, <2>3
<1>2. CASE pack + (i + pack) = n
  <2>1. n - i > pack /\ (n - i) % pack = 0
    <3>1. n - i = 2 * pack
      BY <1>2
    <3> QED BY <3>1, MultipleMod
  <2>2. SavedFrom(i, n, pack) = i + 1 .. i + pack
    BY <1>2, <2>1 DEF SavedFrom
  <2>3. Slice(i, pack, n) = i + 1 .. i + pack
    BY <1>2 DEF Slice, AtMost
  <2> QED BY <1>2, <2>2, <2>3
<1>3. CASE n > pack + (i + pack)
  <2>1. /\ (n - i) % pack = (n - (i + pack)) % pack
        /\ n - i > pack /\ n - (i + pack) > pack
    <3>1. n - (i + pack) = (n - i) - pack
      OBVIOUS
    <3>2. n - i \in Nat /\ n - i > pack /\ n - i >= pack /\ (n - i) - pack > pack
      BY <1>3
    <3>3. ((n - i) - pack) % pack = (n - i) % pack
      BY <3>2, ModLess
    <3> QED BY <3>1, <3>2, <3>3
  <2>2. Slice(i, pack, n) = i + 1 .. i + pack
    BY <1>3 DEF Slice, AtMost
  <2> DEFINE lost == IF (n - i) % pack = 0 THEN n - pack + 1 .. n ELSE {}
  <2>3. SavedFrom(i, n, pack) = (i + 1 .. n) \ lost
    BY <2>1 DEF SavedFrom
  <2>4. SavedFrom(i + pack, n, pack) = (i + pack + 1 .. n) \ lost
    BY <2>1 DEF SavedFrom
  <2>5. lost \subseteq i + pack + 1 .. n
    BY <1>3
  <2>6. (i + 1 .. n) = (i + 1 .. i + pack) \cup (i + pack + 1 .. n)
    BY <1>3
  <2>7. (i + 1 .. i + pack) \cap (i + pack + 1 .. n) = {}
    OBVIOUS
  <2>8. (i + 1 .. n) \ lost = (i + 1 .. i + pack) \cup ((i + pack + 1 .. n) \ lost)
    <3> HIDE DEF lost
    <3> QED BY <2>5, <2>6, <2>7
  <2>9. ~(pack + (i + pack) > n)
    BY <1>3
  <2> HIDE DEF lost
  <2> QED BY <1>3, <2>2, <2>3, <2>4, <2>8, <2>9
<1> QED BY <1>1, <1>2, <1>3

\* It is the only one: by induction on the rows that are left.
LEMMA SavingIs ==
  ASSUME NEW n \in Nat, NEW pack \in Nat \ {0}, NEW h, IsSaving(h, n, pack),
         NEW i \in 0 .. n + pack
  PROVE  h[i] = SavedFrom(i, n, pack)
<1> DEFINE S == {k \in Nat : \A j \in 0 .. n + pack :
                   n + pack - j <= k => h[j] = SavedFrom(j, n, pack)}
<1>1. \A j \in 0 .. n + pack :
        h[j] = Slice(j, pack, n)
                 \cup (IF pack + (j + pack) > n THEN Slice(j + pack, pack, n) ELSE {})
                 \cup (IF n > pack + (j + pack) THEN h[j + pack] ELSE {})
  BY DEF IsSaving
<1>2. ASSUME NEW k \in Nat, NEW j \in 0 .. n + pack, n + pack - j <= k,
             k > 0 => k - 1 \in S
      PROVE  h[j] = SavedFrom(j, n, pack)
  <2>1. ASSUME n > pack + (j + pack)
        PROVE  h[j + pack] = SavedFrom(j + pack, n, pack)
    <3>1. k > 0 /\ j + pack \in 0 .. n + pack /\ n + pack - (j + pack) <= k - 1
      BY <1>2, <2>1
    <3> QED BY <1>2, <3>1
  <2> QED BY <1>1, <2>1, SavedFromStep
<1>3. 0 \in S
  BY <1>2
<1>4. ASSUME NEW k \in Nat, k \in S PROVE k + 1 \in S
  <2>1. k + 1 \in Nat /\ (k + 1) - 1 = k
    OBVIOUS
  <2> QED BY <1>2, <1>4, <2>1
<1>5. Nat \subseteq S
  <2> HIDE DEF S
  <2> QED BY <1>3, <1>4, NatFrom0
<1>6. n + pack - i \in S
  <2> HIDE DEF S
  <2> QED BY <1>5
<1> QED BY <1>6

\* The rows saved, for every number of rows and every pack.
LEMMA SavedAre ==
  ASSUME NEW n \in Nat, NEW pack \in Nat \ {0}
  PROVE  Saved(n, pack) = (1 .. n) \ LastPack(n, pack)
<1> DEFINE g == [i \in 0 .. n + pack |-> SavedFrom(i, n, pack)]
<1>1. IsSaving(g, n, pack)
  <2> SUFFICES ASSUME NEW i \in 0 .. n + pack
               PROVE  SavedFrom(i, n, pack) =
                        Slice(i, pack, n)
                          \cup (IF pack + (i + pack) > n THEN Slice(i + pack, pack, n) ELSE {})
                          \cup (IF n > pack + (i + pack) THEN g[i + pack] ELSE {})
    BY Zenon DEF IsSaving
  <2>1. n > pack + (i + pack) => g[i + pack] = SavedFrom(i + pack, n, pack)
    OBVIOUS
  <2> HIDE DEF g
  <2> QED BY <2>1, SavedFromStep
<1>2. PICK h : IsSaving(h, n, pack) /\ Saved(n, pack) = h[0]
  <2> HIDE DEF g
  <2> QED BY <1>1, SavingChosen
<1>3. Saved(n, pack) = SavedFrom(0, n, pack)
  BY <1>2, SavingIs
<1> QED BY <1>3 DEF SavedFrom, LastPack

\* In each state.
LEMMA PacksAre ==
  ASSUME CurveInv
  PROVE  PacksSaved
  BY CurveIs, SavedAre DEF PacksSaved

-----------------------------------------------------------------------------
\* ReportQuantities: the files of a colour.

\* The rows of a colour: its sizes, and the assortment.
SizeRow(i, single) ==
  [at |-> i, size |-> IF single THEN "TU" ELSE "size", ratio |-> curve[i]]
SizeRows(single) == {SizeRow(i, single) : i \in DOMAIN curve}
AssortmentRow == [at |-> 0, size |-> "SURT", ratio |-> CurveUt]

\* They are what a creation stores for it.
LEMMA RowsAre ==
  ASSUME CurveInv, NEW single \in BOOLEAN
  PROVE  /\ SkuSizes(curve, TRUE, single) = SizeRows(single)
         /\ SkuSizes(curve, FALSE, single) = SizeRows(single) \cup {AssortmentRow}
         /\ AssortmentRow \notin SizeRows(single)
<1>1. AssortmentRow \notin SizeRows(single)
  BY CurveIs DEF SizeRows, SizeRow, AssortmentRow
<1> QED BY <1>1 DEF SkuSizes, SizeRows, SizeRow, AssortmentRow, CurveUt

\* The sizes add up to the units, in parts of the UT, in whichever list.
LEMMA SizesAdd ==
  ASSUME CurveInv, NEW single \in BOOLEAN, NEW h,
         \A line \in SizeRows(single) : h[line] = quantity * line.ratio
  PROVE  /\ IsFiniteSet(SizeRows(single))
         /\ SumFunctionOnSet(h, SizeRows(single)) = StyleQuantity(quantity, curve)
<1> DEFINE r == [i \in DOMAIN curve |-> SizeRow(i, single)]
<1>1. \A z : z \in SizeRows(single) <=> \E i \in DOMAIN curve : z = r[i]
  BY DEF SizeRows
<1>2. \A i, j \in DOMAIN curve : r[i] = r[j] => i = j
  BY DEF SizeRow
<1>3. \A i \in DOMAIN curve : h[r[i]] = quantity * curve[i]
  BY DEF SizeRows, SizeRow
<1>4. \A i \in DOMAIN curve : curve[i] \in Int
  BY CurveIs
<1>5. quantity \in Int /\ IsFiniteSet(DOMAIN curve)
  BY CurveIs
<1>6. /\ IsFiniteSet(SizeRows(single))
      /\ SumFunctionOnSet(h, SizeRows(single))
           = quantity * SumFunctionOnSet(curve, DOMAIN curve)
  <2> HIDE DEF r
  <2> QED BY <1>1, <1>2, <1>3, <1>4, <1>5, SumImage
<1>7. StyleQuantity(quantity, curve) = quantity * SumFunctionOnSet(curve, DOMAIN curve)
  BY CurveIs DEF StyleQuantity, CurveUt
<1> HIDE DEF r
<1> QED BY <1>1, <1>6, <1>7

\* So in the reports.
LEMMA SizesTotal ==
  ASSUME CurveInv, NEW single \in BOOLEAN
  PROVE  Total(quantity, SizeRows(single)) = StyleQuantity(quantity, curve)
<1> DEFINE h == [line \in SizeRows(single) |-> RowQuantity(quantity, line)]
<1>1. \A line \in SizeRows(single) : h[line] = quantity * line.ratio
  BY DEF RowQuantity
<1>2. SumFunctionOnSet(h, SizeRows(single)) = StyleQuantity(quantity, curve)
  <2> HIDE DEF h
  <2> QED BY <1>1, SizesAdd
<1>3. DOMAIN h = SizeRows(single)
  OBVIOUS
<1> QED BY Zenon, <1>2, <1>3 DEF Total, SumFunction

\* And the assortment is as much by itself.
LEMMA AssortmentTotal ==
  ASSUME CurveInv
  PROVE  Total(quantity, {AssortmentRow}) = StyleQuantity(quantity, curve)
<1> DEFINE h == [line \in {AssortmentRow} |-> RowQuantity(quantity, line)]
<1>1. h[AssortmentRow] = quantity * CurveUt /\ quantity * CurveUt \in Int
  BY CurveIs DEF RowQuantity, AssortmentRow
<1>2. SumFunctionOnSet(h, {AssortmentRow}) = quantity * CurveUt
  <2> HIDE DEF h
  <2>1. {AssortmentRow} \ {AssortmentRow} = {}
    OBVIOUS
  <2>2. SumFunctionOnSet(h, {AssortmentRow} \ {AssortmentRow}) = 0
    BY Zenon, <2>1, SumEmpty
  <2>3. SumFunctionOnSet(h, {AssortmentRow})
          = h[AssortmentRow] + SumFunctionOnSet(h, {AssortmentRow} \ {AssortmentRow})
    <3>1. IsFiniteSet({AssortmentRow}) /\ AssortmentRow \in {AssortmentRow}
      BY FS_Singleton
    <3>2. \A line \in {AssortmentRow} : h[line] \in Int
      BY <1>1
    <3> QED BY Zenon, <3>1, <3>2, SumTake
  <2> QED BY <1>1, <2>2, <2>3
<1>3. DOMAIN h = {AssortmentRow}
  OBVIOUS
<1>4. Total(quantity, {AssortmentRow}) = SumFunctionOnSet(h, {AssortmentRow})
  BY Zenon, <1>3 DEF Total, SumFunction
<1> QED BY <1>2, <1>4 DEF StyleQuantity, CurveUt

\* The SKU report keeps one or the others.
LEMMA SkuRowsAre ==
  ASSUME CurveInv, NEW store \in Stores, NEW atc \in BOOLEAN, NEW solid \in BOOLEAN,
         NEW single \in BOOLEAN, ~(single /\ store = "PARIS" /\ ~atc)
  PROVE  SkuReportRows(store, atc, solid, single) =
           IF store = "PARIS" /\ ~atc /\ ~solid THEN {AssortmentRow} ELSE SizeRows(single)
<1>1. \A line \in SizeRows(single) : line.size = IF single THEN "TU" ELSE "size"
  BY DEF SizeRows, SizeRow
<1>2. AssortmentRow.size = "SURT"
  BY DEF AssortmentRow
<1>3. CASE atc
  <2>1. \A line \in SizeRows(single) : SkuReportKeeps(store, atc, solid, line)
    BY <1>1, <1>3 DEF SkuReportKeeps
  <2> QED BY <1>3, <2>1, RowsAre DEF SkuReportRows
<1>4. CASE ~atc
  <2>1. \A line \in SizeRows(single) :
          SkuReportKeeps(store, atc, solid, line) <=> (store = "PARIS" => solid)
    BY <1>1, <1>4 DEF SkuReportKeeps
  <2>2. SkuReportKeeps(store, atc, solid, AssortmentRow) <=> (store = "PARIS" /\ ~solid)
    BY <1>2, <1>4 DEF SkuReportKeeps
  <2> QED BY <1>4, <2>1, <2>2, RowsAre DEF SkuReportRows
<1> QED BY <1>3, <1>4

\* The sheet of the approval by SKU keeps the sizes.
LEMMA BuyingRowsAre ==
  ASSUME CurveInv, NEW store \in Stores, NEW atc \in BOOLEAN, NEW solid \in BOOLEAN,
         NEW single \in BOOLEAN, NEW fromJda \in {"ATC", "null"}
  PROVE  BuyingRows(store, fromJda, atc, solid, single) = SizeRows(single)
<1>1. \A line \in SizeRows(single) : line.size # "SURT"
  BY DEF SizeRows, SizeRow
<1>2. AssortmentRow.size = "SURT"
  BY DEF AssortmentRow
<1>3. \A line \in SizeRows(single) : BuyingKeeps(store, fromJda, solid, line)
  BY <1>1 DEF BuyingKeeps, AtcId
<1>4. ~BuyingKeeps(store, fromJda, solid, AssortmentRow)
  BY <1>2 DEF BuyingKeeps, AtcId
<1>5. CASE atc
  BY <1>3, <1>5, RowsAre DEF BuyingRows
<1>6. CASE ~atc
  BY <1>3, <1>4, <1>6, RowsAre DEF BuyingRows
<1> QED BY <1>5, <1>6

\* In each state.
LEMMA ListedOnce ==
  ASSUME CurveInv
  PROVE  UnitsListedOnce
<1>1. Single \subseteq BOOLEAN
  BY DEF Single
<1> QED
  BY <1>1, SkuRowsAre, BuyingRowsAre, SizesTotal, AssortmentTotal DEF UnitsListedOnce

\* The purchase order keeps both, when there are both.
LEMMA OrderTotal ==
  ASSUME CurveInv, NEW single \in BOOLEAN, NEW atc \in BOOLEAN
  PROVE  LET ordered == SkuSizes(curve, atc, single)
         IN SumFunction([line \in ordered |-> PurchaseOrderQuantity(quantity, line)])
              = IF atc THEN StyleQuantity(quantity, curve) ELSE 2 * StyleQuantity(quantity, curve)
<1> DEFINE ordered == SkuSizes(curve, atc, single)
           h == [line \in ordered |-> PurchaseOrderQuantity(quantity, line)]
<1>1. SizeRows(single) \subseteq ordered
  BY RowsAre
<1>2. \A line \in ordered : h[line] = quantity * line.ratio
  BY DEF PurchaseOrderQuantity
<1>3. /\ IsFiniteSet(SizeRows(single))
      /\ SumFunctionOnSet(h, SizeRows(single)) = StyleQuantity(quantity, curve)
  <2> HIDE DEF h, ordered
  <2> QED BY <1>1, <1>2, SizesAdd
<1>4. SumFunction(h) = SumFunctionOnSet(h, ordered)
  <2>1. DOMAIN h = ordered
    OBVIOUS
  <2> HIDE DEF h, ordered
  <2> QED BY Zenon, <2>1 DEF SumFunction
<1>5. CASE atc
  <2>1. ordered = SizeRows(single)
    BY <1>5, RowsAre
  <2> HIDE DEF h, ordered
  <2>2. SumFunction(h) = StyleQuantity(quantity, curve)
    BY Zenon, <2>1, <1>3, <1>4
  <2> QED BY <1>5, <2>2 DEF h, ordered
<1>6. CASE ~atc
  <2>1. ordered = SizeRows(single) \cup {AssortmentRow} /\ AssortmentRow \notin SizeRows(single)
    BY <1>6, RowsAre
  <2>2. h[AssortmentRow] = StyleQuantity(quantity, curve)
    <3>1. AssortmentRow \in ordered /\ AssortmentRow.ratio = UtOf(curve)
      BY <2>1 DEF AssortmentRow, CurveUt
    <3> HIDE DEF h, ordered
    <3> QED BY <3>1, <1>2 DEF StyleQuantity
  <2>3. IsFiniteSet(ordered)
    BY <1>3, <2>1, FS_AddElement
  <2>4. \A line \in ordered : h[line] \in Int
    <3>1. \A line \in ordered : line.ratio \in Int
      BY <2>1, CurveIs DEF SizeRows, SizeRow, AssortmentRow
    <3> HIDE DEF h, ordered
    <3> QED BY <1>2, <3>1, CurveIs
  <2>5. ordered \ {AssortmentRow} = SizeRows(single) /\ AssortmentRow \in ordered
    BY <2>1
  <2> HIDE DEF h, ordered
  <2>6. SumFunctionOnSet(h, ordered)
          = h[AssortmentRow] + SumFunctionOnSet(h, ordered \ {AssortmentRow})
    BY <2>3, <2>4, <2>5, SumTake
  <2>7. SumFunctionOnSet(h, ordered)
          = StyleQuantity(quantity, curve) + StyleQuantity(quantity, curve)
    BY Zenon, <1>3, <2>2, <2>5, <2>6
  <2>8. StyleQuantity(quantity, curve) \in Int
    BY CurveIs DEF StyleQuantity, CurveUt
  <2>9. SumFunction(h) = 2 * StyleQuantity(quantity, curve)
    BY <1>4, <2>7, <2>8
  <2> QED BY <1>6, <2>9 DEF h, ordered
<1> QED BY <1>5, <1>6

\* In each state.
LEMMA OrderIs ==
  ASSUME CurveInv
  PROVE  OrderAgrees
<1> SUFFICES ASSUME NEW store \in Stores, NEW solid \in BOOLEAN, NEW single \in Single,
                    NEW atc \in BOOLEAN
             PROVE  LET ordered == SkuSizes(curve, atc, single)
                        total ==
                          SumFunction([line \in ordered |-> PurchaseOrderQuantity(quantity, line)])
                    IN IF atc
                       THEN /\ SkuReportRows(store, atc, solid, single) = ordered
                            /\ BuyingRows(store, "ATC", atc, solid, single) = ordered
                            /\ total = StyleQuantity(quantity, curve)
                       ELSE total = 2 * StyleQuantity(quantity, curve)
  BY Zenon DEF OrderAgrees
<1>1. single \in BOOLEAN
  BY DEF Single
<1>2. CASE atc
  <2>1. /\ SkuReportRows(store, atc, solid, single) = SizeRows(single)
        /\ BuyingRows(store, "ATC", atc, solid, single) = SizeRows(single)
        /\ SkuSizes(curve, atc, single) = SizeRows(single)
    BY <1>1, <1>2, SkuRowsAre, BuyingRowsAre, RowsAre
  <2> QED BY <1>1, <1>2, <2>1, OrderTotal
<1>3. CASE ~atc
  BY <1>1, <1>3, OrderTotal
<1> QED BY <1>2, <1>3

-----------------------------------------------------------------------------
\* ReportQuantities: the proforma.

\* Math.round moves a quotient by half at most.
LEMMA RoundedQuotient ==
  ASSUME NEW b \in Nat \ {0}, NEW a \in Nat
  PROVE  /\ Rounded(a, b) \in Nat
         /\ (2 * b) * Rounded(a, b) - 2 * a \in -b .. b
<1> DEFINE u == 2 * a + b
           ut == 2 * b
<1>1. u \in Nat /\ ut \in Nat \ {0}
  OBVIOUS
<1>2. /\ u = (u \div ut) * ut + (u % ut)
      /\ u % ut \in 0 .. ut - 1
      /\ u \div ut \in Nat
  <2> HIDE DEF u, ut
  <2> QED BY <1>1, DivMod
<1>3. Rounded(a, b) = u \div ut
  BY DEF Rounded
<1>4. ut * (u \div ut) = (u \div ut) * ut
  BY <1>2
<1> DEFINE r == u % ut
           q == u \div ut
           p == q * ut
<1>5. u = p + r /\ r \in 0 .. ut - 1 /\ p \in Int
  BY <1>2
<1>6. ut * q = p
  BY <1>4
<1>7. p - 2 * a \in -b .. b
  <2> HIDE DEF p, r
  <2> QED BY <1>5
<1>8. (2 * b) * Rounded(a, b) - 2 * a \in -b .. b
  <2> HIDE DEF p, q
  <2> QED BY <1>3, <1>6, <1>7 DEF q
<1> QED BY <1>2, <1>3, <1>8

\* And leaves a whole one as it is.
LEMMA RoundedExact ==
  ASSUME NEW b \in Nat \ {0}, NEW m \in Nat
  PROVE  Rounded(m * b, b) = m
<1> DEFINE q == Rounded(m * b, b)
<1>1. m * b \in Nat
  OBVIOUS
<1>2. q \in Nat /\ (2 * b) * q - 2 * (m * b) \in -b .. b
  BY <1>1, RoundedQuotient
<1> HIDE DEF q
<1>3. (2 * b) * q - 2 * (m * b) = 2 * ((q - m) * b)
  BY <1>2
<1>4. q > m => (q - m) * b >= b
  <2>1. \A z \in Nat \ {0} : z * b >= b
    OBVIOUS
  <2>2. q > m => q - m \in Nat \ {0}
    BY <1>2
  <2> QED BY <2>1, <2>2
<1>5. q < m => (q - m) * b <= -b
  <2>1. \A z \in Nat \ {0} : (-z) * b <= -b
    OBVIOUS
  <2>2. q < m => m - q \in Nat \ {0} /\ -(m - q) = q - m
    BY <1>2
  <2> QED BY <2>1, <2>2
<1>6. (q - m) * b \in Int
  BY <1>2
<1> DEFINE d == (q - m) * b
<1>7. 2 * d \in -b .. b /\ (q > m => d >= b) /\ (q < m => d <= -b) /\ d \in Int
  BY <1>2, <1>3, <1>4, <1>5, <1>6
<1>8. q = m
  <2> HIDE DEF d
  <2> QED BY <1>2, <1>7
<1> QED BY <1>8 DEF q

\* The order of the proforma, as the sum of its sizes.
LEMMA ProformaAdds ==
  ASSUME CurveInv, NEW units \in Nat
  PROVE  LET f == [i \in DOMAIN curve |-> ProformaSize(units, curve, i)] IN
         /\ ProformaOrder(units, curve) = SumFunctionOnSet(f, DOMAIN curve)
         /\ \A i \in DOMAIN curve :
              /\ f[i] \in Nat
              /\ f[i] = Rounded(units * curve[i], CurveUt)
<1> DEFINE f == [i \in DOMAIN curve |-> ProformaSize(units, curve, i)]
<1>1. DOMAIN f = DOMAIN curve
  OBVIOUS
<1>2. ProformaOrder(units, curve) = SumFunctionOnSet(f, DOMAIN curve)
  BY Zenon, <1>1 DEF ProformaOrder, SumFunction
<1>3. \A i \in DOMAIN curve : f[i] = Rounded(units * curve[i], CurveUt)
  BY DEF ProformaSize, CurveUt
<1>4. \A i \in DOMAIN curve : f[i] \in Nat
  <2> HIDE DEF f
  <2> SUFFICES ASSUME NEW i \in DOMAIN curve PROVE f[i] \in Nat
    OBVIOUS
  <2>1. units * curve[i] \in Nat /\ CurveUt \in Nat \ {0}
    BY CurveIs
  <2> QED BY <1>3, <2>1, RoundedQuotient
<1> QED BY <1>2, <1>3, <1>4

\* It is exact for a multiple of the UT, since each of its sizes is.
LEMMA ProformaExact ==
  ASSUME CurveInv, NEW k \in Nat
  PROVE  ProformaOrder(k * CurveUt, curve) = k * CurveUt
<1> DEFINE D == DOMAIN curve
           units == k * CurveUt
           f == [i \in D |-> ProformaSize(units, curve, i)]
<1>1. units \in Nat
  BY CurveIs
<1>2. /\ ProformaOrder(units, curve) = SumFunctionOnSet(f, D)
      /\ \A i \in D : f[i] = Rounded(units * curve[i], CurveUt)
  <2> HIDE DEF units
  <2> QED BY <1>1, ProformaAdds
<1>3. \A i \in D : f[i] = k * curve[i]
  <2> SUFFICES ASSUME NEW i \in D PROVE f[i] = k * curve[i]
    OBVIOUS
  <2>1. CurveUt \in Nat \ {0} /\ curve[i] \in Nat
    BY CurveIs
  <2>2. units * curve[i] = (k * curve[i]) * CurveUt /\ k * curve[i] \in Nat
    BY <2>1
  <2> HIDE DEF f, units
  <2>3. Rounded((k * curve[i]) * CurveUt, CurveUt) = k * curve[i]
    BY <2>1, <2>2, RoundedExact
  <2> QED BY <1>2, <2>2, <2>3
<1>4. SumFunctionOnSet(f, D) = k * SumFunctionOnSet(curve, D)
  <2>1. IsFiniteSet(D) /\ (\A i \in D : curve[i] \in Int) /\ k \in Int
    BY CurveIs
  <2> HIDE DEF D, f
  <2> QED BY <1>3, <2>1, SumTimes
<1>5. CurveUt = SumFunctionOnSet(curve, D)
  BY CurveIs
<1> HIDE DEF D, f
<1> QED BY <1>2, <1>4, <1>5

\* Otherwise the errors of its sizes add up to half a unit for each at most.
LEMMA ProformaClose ==
  ASSUME CurveInv
  PROVE  2 * Distance(ProformaOrder(quantity, curve), quantity) <= Len(curve)
<1> DEFINE D == DOMAIN curve
           b == CurveUt
           order == [i \in D |-> ProformaSize(quantity, curve, i)]
           f == [i \in D |-> (2 * b) * order[i]]
           g == [i \in D |-> (2 * quantity) * curve[i]]
           P == SumFunctionOnSet(order, D)
<1>1. /\ ProformaOrder(quantity, curve) = P
      /\ \A i \in D : order[i] \in Nat /\ order[i] = Rounded(quantity * curve[i], b)
  BY CurveIs, ProformaAdds
<1>2. /\ b \in Nat \ {0} /\ quantity \in Nat /\ IsFiniteSet(D)
      /\ \A i \in D : curve[i] \in Nat
      /\ b = SumFunctionOnSet(curve, D) /\ Cardinality(D) = Len(curve)
  BY CurveIs
<1> HIDE DEF D, b, order
<1>3. \A i \in D : f[i] \in Int /\ g[i] \in Int /\ f[i] - g[i] \in -b .. b
  <2> SUFFICES ASSUME NEW i \in D
               PROVE  f[i] \in Int /\ g[i] \in Int /\ f[i] - g[i] \in -b .. b
    OBVIOUS
  <2>1. quantity * curve[i] \in Nat
    BY <1>2
  <2>2. (2 * b) * Rounded(quantity * curve[i], b) - 2 * (quantity * curve[i]) \in -b .. b
    BY <1>2, <2>1, RoundedQuotient
  <2>3. 2 * (quantity * curve[i]) = (2 * quantity) * curve[i]
    BY <1>2
  <2>4. f[i] = (2 * b) * Rounded(quantity * curve[i], b) /\ g[i] = (2 * quantity) * curve[i]
    BY <1>1
  <2>5. f[i] \in Int /\ g[i] \in Int
    BY <1>1, <1>2
  <2> QED BY <2>2, <2>3, <2>4, <2>5
<1>4. P \in Int
  BY <1>1, <1>2, SumInt
<1>6. SumFunctionOnSet(f, D) = (2 * b) * P
  <2>1. \A i \in D : f[i] = (2 * b) * order[i]
    OBVIOUS
  <2>2. (\A i \in D : order[i] \in Int) /\ 2 * b \in Int
    BY <1>1, <1>2
  <2> HIDE DEF f
  <2> QED BY <1>2, <2>1, <2>2, SumTimes
<1>7. SumFunctionOnSet(g, D) = (2 * quantity) * b
  <2>1. \A i \in D : g[i] = (2 * quantity) * curve[i]
    OBVIOUS
  <2>2. (\A i \in D : curve[i] \in Int) /\ 2 * quantity \in Int
    BY <1>2
  <2> HIDE DEF g
  <2> QED BY <1>2, <2>1, <2>2, SumTimes
<1> DEFINE n == Cardinality(D)
           off == n * b
<1>8. SumFunctionOnSet(f, D) - SumFunctionOnSet(g, D) \in -off .. off
  <2> HIDE DEF f, g
  <2> QED BY <1>2, <1>3, SumsClose
<1>9. n \in Nat
  BY <1>2, FS_CardinalityType
<1> HIDE DEF f, g, P, n
<1> DEFINE z == 2 * (P - quantity)
<1>10. z * b \in -(n * b) .. n * b
  <2>1. (2 * b) * P - (2 * quantity) * b = z * b
    BY <1>2, <1>4
  <2> QED BY <1>6, <1>7, <1>8, <2>1
<1>11. z \in -n .. n
  <2>1. z \in Int
    BY <1>2, <1>4
  <2> HIDE DEF z
  <2>2. z > n => z * b >= n * b + b
    <3>1. ASSUME z > n PROVE z * b >= n * b + b
      <4>1. z * b = n * b + (z - n) * b
        BY <1>2, <1>9, <2>1
      <4>2. z - n \in Nat \ {0}
        BY <1>9, <2>1, <3>1
      <4>3. \A y \in Nat \ {0} : y * b >= b
        BY <1>2
      <4>4. (z - n) * b >= b /\ (z - n) * b \in Int /\ n * b \in Int
        BY <1>2, <1>9, <4>2, <4>3
      <4> QED BY <1>2, <4>1, <4>4
    <3> QED BY <3>1
  <2>3. z < -n => z * b <= -(n * b) - b
    <3>1. ASSUME z < -n PROVE z * b <= -(n * b) - b
      <4>1. z * b = -(n * b) - ((-n) - z) * b
        BY <1>2, <1>9, <2>1
      <4>2. (-n) - z \in Nat \ {0}
        BY <1>9, <2>1, <3>1
      <4>3. \A y \in Nat \ {0} : y * b >= b
        BY <1>2
      <4>4. ((-n) - z) * b >= b /\ ((-n) - z) * b \in Int /\ n * b \in Int
        BY <1>2, <1>9, <4>2, <4>3
      <4> QED BY <1>2, <4>1, <4>4
    <3> QED BY <3>1
  <2>4. n * b \in Int /\ z * b \in Int
    BY <1>2, <1>9, <2>1
  <2> QED BY <1>2, <1>9, <1>10, <2>1, <2>2, <2>3, <2>4
<1>12. 2 * Distance(P, quantity) <= n
  BY <1>2, <1>4, <1>9, <1>11 DEF Distance
<1> QED BY <1>1, <1>2, <1>12 DEF n

\* In each state.
LEMMA ProformaIs ==
  ASSUME CurveInv
  PROVE  ProformaOrders
<1>1. PICK k \in Nat : RoundedQuantity = k * CurveUt
  <2>1. CASE quantity = 0
    <3>1. RoundedQuantity = 0 * CurveUt
      BY <2>1, CurveIs DEF RoundedQuantity, RoundUnits
    <3> QED BY <3>1
  <2>2. CASE quantity # 0
    <3>1. CurveUt \in Nat \ {0} /\ quantity \in Nat \ {0}
      BY <2>2, CurveIs
    <3>2. \E k \in 1 .. quantity + 1 : RoundUnits(quantity, CurveUt) = k * CurveUt
      BY <3>1, NearestOf
    <3> QED BY <3>2 DEF RoundedQuantity
  <2> QED BY <2>1, <2>2
<1>2. ProformaOrder(RoundedQuantity, curve) = RoundedQuantity
  BY <1>1, ProformaExact
<1> QED BY <1>2, ProformaClose DEF ProformaOrders

-----------------------------------------------------------------------------
\* The properties of MCUnitRounding.

\* For every size curve and every number of units, the approval rounds to the
\* nearest multiple of the UT from one UT up, the greater of two as near, and the
\* other copy of the rounding agrees with it (purchase-style.service 239-245, 355-359).
THEOREM RoundingNearest == CurvesSpec => []RoundedToNearest
  BY CurveStays, RoundedNear, PTL

\* The loop that saves in packs saves every row, but the last pack when the rows
\* fill two packs or more, whatever the pack (purchase.service 806-819).
THEOREM PacksAreSaved == CurvesSpec => []PacksSaved
  BY CurveStays, PacksAre, PTL

\* The rows that the SKU report and the sheet of the approval keep of a colour add
\* up to its units, once, for every size curve (report.service 166-169).
THEOREM UnitsAreListedOnce == CurvesSpec => []UnitsListedOnce
  BY CurveStays, ListedOnce, PTL

\* The purchase order lists those rows too, the assortment besides, and the proforma
\* orders the units when they are rounded, for every size curve; otherwise it misses
\* them by half a unit for each size at most (report.service 909-912, 1580-1582).
THEOREM OrdersDoAgree == CurvesSpec => []OrdersAgree
<1>1. CurveInv => OrdersAgree
  BY OrderIs, ProformaIs DEF OrdersAgree
<1> QED BY <1>1, CurveStays, PTL

-----------------------------------------------------------------------------
\* DeliveryUnits.

USE UTAssumption, SaveValuesAssumption, MaxFaultsAssumption

\* The two copies of the rounding agree on the deliveries adjustUTUnits takes.
LEMMA AdjustedIsRounded ==
  ASSUME NEW u \in Nat, u # 0
  PROVE  AdjustUnits(u, UT) = RoundUnits(u, UT)
  BY DEF AdjustUnits, RoundUnits

\* What adjustUTUnits stores is a number of units.
LEMMA AdjustedIsNat ==
  ASSUME NEW u \in Nat
  PROVE  AdjustUnits(u, UT) \in Nat
<1>1. CASE u = 0
  BY <1>1 DEF AdjustUnits
<1>2. CASE u # 0
  BY <1>2, AdjustedIsRounded, RoundedIsMultiple
<1>3. QED
  BY <1>1, <1>2

\* Rounding twice changes nothing: the approval rounds what was adjusted.
LEMMA RoundTwice ==
  ASSUME NEW u \in Nat
  PROVE  RoundUnits(RoundUnits(u, UT), UT) = RoundUnits(u, UT)
  BY RoundedIsMultiple, RoundingStable

\* The held rows of a request that holds none.
LEMMA EmptyRowsType == EmptyRows \in [Shippings -> Row]
  BY DEF EmptyRows, Row, PiNames, NoName

\* Settled is Boolean, as quiet is where it is compared with it.
LEMMA SettledType == Settled \in BOOLEAN
  BY DEF Settled

\* The rows with the units sent, and the rows after a save, are rows.
LEMMA WithUnitsType ==
  ASSUME TypeOK, NEW sent \in [Shippings -> SaveValues], NEW on \in Dates
  PROVE  WithUnits(sent, on) \in [Shippings -> Row]
<1>1. ASSUME NEW d \in Shippings
      PROVE  [row[d] EXCEPT !.units = sent[d], !.date = on] \in Row
  <2>1. row[d] \in Row /\ sent[d] \in Nat
    BY DEF TypeOK
  <2>2. QED
    BY <2>1 DEF Row
<1>2. QED
  BY <1>1 DEF WithUnits

\* And so are they when some are left out.
LEMMA SavingType ==
  ASSUME TypeOK, NEW stored \in [Shippings -> Row], NEW skipped
  PROVE  Saving(stored, skipped) \in [Shippings -> Row]
  BY DEF TypeOK, Saving

\* The rows after save() has written those a request holds.
LEMMA HeldOverType ==
  ASSUME TypeOK, NEW r \in Requests
  PROVE  HeldOver(r) \in [Shippings -> Row]
<1>1. \A d \in Shippings : held[r][d] \in Row /\ row[d] \in Row
  BY DEF TypeOK
<1>2. QED
  BY <1>1 DEF HeldOver

\* A purchase whose deliveries are just created.
LEMMA TypeInit == Init => TypeOK
<1> SUFFICES ASSUME Init PROVE TypeOK
  OBVIOUS
<1>1. /\ row \in [Shippings -> Row]
      /\ held \in [Requests -> [Shippings -> Row]]
      /\ heldArr \in [Requests -> [Shippings -> Row]]
  BY EmptyRowsType DEF Init
<1>2. /\ main \in [Requests -> MainSteps]
      /\ arrival \in [Requests -> ArrivalSteps]
  BY DEF Init, MainSteps, ArrivalSteps
<1>3. approved \in BOOLEAN /\ quiet \in BOOLEAN /\ undated \in BOOLEAN
      /\ picked \in [Requests -> SUBSET Shippings]
  BY DEF Init
<1>4. faults \in 0 .. MaxFaults /\ asked \in [Shippings -> Nat]
  BY DEF Init
<1>5. QED
  BY <1>1, <1>2, <1>3, <1>4 DEF TypeOK

\* Every step of every handler keeps the types, one handler at a time.
LEMMA TypeNext == TypeOK /\ [Next]_vars => TypeOK'
<1> SUFFICES ASSUME TypeOK, [Next]_vars PROVE TypeOK'
  OBVIOUS
<1> USE DEF rowVars, ghostVars
<1>0. \A sent \in [Shippings -> SaveValues], on \in Dates :
        WithUnits(sent, on) \in [Shippings -> Row]
  BY WithUnitsType
<1>1. ASSUME NEW r \in Requests, SaveShippingsUnits(r) PROVE TypeOK'
  <2>1. row' \in [Shippings -> Row]
    <3>1. PICK sent \in [Shippings -> SaveValues], on \in Dates, skipped \in SUBSET Shippings :
            row' = Saving(WithUnits(sent, on), skipped)
      BY <1>1 DEF SaveShippingsUnits
    <3>2. WithUnits(sent, on) \in [Shippings -> Row]
      BY <1>0
    <3>3. QED
      BY <3>1, <3>2, SavingType
  <2>2. /\ main' \in [Requests -> MainSteps]
        /\ arrival' \in [Requests -> ArrivalSteps]
    BY <1>1 DEF SaveShippingsUnits, TypeOK, MainSteps, ArrivalSteps
  <2>3. /\ held' \in [Requests -> [Shippings -> Row]]
        /\ heldArr' \in [Requests -> [Shippings -> Row]]
    BY <1>1, EmptyRowsType DEF SaveShippingsUnits, TypeOK
  <2>4. picked' \in [Requests -> SUBSET Shippings]
    BY <1>1 DEF SaveShippingsUnits, TypeOK
  <2>5. faults' \in 0 .. MaxFaults /\ asked' \in [Shippings -> Nat]
    BY <1>1 DEF SaveShippingsUnits, TypeOK
  <2>6. approved' \in BOOLEAN /\ quiet' \in BOOLEAN /\ undated' \in BOOLEAN
    BY <1>1, SettledType DEF SaveShippingsUnits, TypeOK
  <2>7. QED
    BY <2>1, <2>2, <2>3, <2>4, <2>5, <2>6 DEF TypeOK
<1>2. ASSUME NEW r \in Requests, SaveShippingUnits(r) PROVE TypeOK'
  <2>1. row' \in [Shippings -> Row]
    BY <1>2 DEF SaveShippingUnits, TypeOK
  <2>2. /\ main' \in [Requests -> MainSteps]
        /\ arrival' \in [Requests -> ArrivalSteps]
    BY <1>2 DEF SaveShippingUnits, TypeOK, MainSteps, ArrivalSteps
  <2>3. /\ held' \in [Requests -> [Shippings -> Row]]
        /\ heldArr' \in [Requests -> [Shippings -> Row]]
    <3>1. PICK sent \in [Shippings -> SaveValues], on \in Dates :
            held' = [held EXCEPT ![r] = WithUnits(sent, on)]
      BY <1>2 DEF SaveShippingUnits
    <3>2. WithUnits(sent, on) \in [Shippings -> Row] /\ heldArr' = heldArr
      BY <1>0, <1>2 DEF SaveShippingUnits
    <3>3. QED
      BY <3>1, <3>2 DEF TypeOK
  <2>4. picked' \in [Requests -> SUBSET Shippings]
    BY <1>2 DEF SaveShippingUnits, TypeOK
  <2>5. faults' \in 0 .. MaxFaults /\ asked' \in [Shippings -> Nat]
    BY <1>2 DEF SaveShippingUnits, TypeOK
  <2>6. approved' \in BOOLEAN /\ quiet' \in BOOLEAN /\ undated' \in BOOLEAN
    BY <1>2, SettledType DEF SaveShippingUnits, TypeOK
  <2>7. QED
    BY <2>1, <2>2, <2>3, <2>4, <2>5, <2>6 DEF TypeOK
<1>3. ASSUME NEW r \in Requests, GenerateArrivalDates(r) PROVE TypeOK'
  <2>1. row' \in [Shippings -> Row]
    BY <1>3 DEF GenerateArrivalDates, TypeOK
  <2>2. /\ main' \in [Requests -> MainSteps]
        /\ arrival' \in [Requests -> ArrivalSteps]
    BY <1>3 DEF GenerateArrivalDates, TypeOK, MainSteps, ArrivalSteps
  <2>3. /\ held' \in [Requests -> [Shippings -> Row]]
        /\ heldArr' \in [Requests -> [Shippings -> Row]]
    BY <1>3, EmptyRowsType DEF GenerateArrivalDates, TypeOK
  <2>4. picked' \in [Requests -> SUBSET Shippings]
    BY <1>3 DEF GenerateArrivalDates, TypeOK
  <2>5. faults' \in 0 .. MaxFaults /\ asked' \in [Shippings -> Nat]
    BY <1>3 DEF GenerateArrivalDates, TypeOK
  <2>6. approved' \in BOOLEAN /\ quiet' \in BOOLEAN /\ undated' \in BOOLEAN
    BY <1>3, SettledType DEF GenerateArrivalDates, TypeOK
  <2>7. QED
    BY <2>1, <2>2, <2>3, <2>4, <2>5, <2>6 DEF TypeOK
<1>4. ASSUME NEW r \in Requests, ApproveRead(r) PROVE TypeOK'
  <2>0. [d \in Shippings |-> [row[d] EXCEPT
            !.units = RoundUnits(row[d].units, UT), !.piName = "full"]]
          \in [Shippings -> Row]
    <3>1. \A d \in Shippings : row[d] \in Row
      BY DEF TypeOK
    <3>2. \A d \in Shippings : RoundUnits(row[d].units, UT) \in Nat
      BY <3>1, RoundedIsMultiple DEF Row
    <3>3. QED
      BY <3>1, <3>2 DEF Row, PiNames
  <2>1. row' \in [Shippings -> Row]
    BY <1>4 DEF ApproveRead, TypeOK
  <2>2. /\ main' \in [Requests -> MainSteps]
        /\ arrival' \in [Requests -> ArrivalSteps]
    BY <1>4 DEF ApproveRead, TypeOK, MainSteps, ArrivalSteps
  <2>3. /\ held' \in [Requests -> [Shippings -> Row]]
        /\ heldArr' \in [Requests -> [Shippings -> Row]]
    BY <1>4, <2>0, EmptyRowsType DEF ApproveRead, TypeOK
  <2>4. picked' \in [Requests -> SUBSET Shippings]
    BY <1>4 DEF ApproveRead, TypeOK
  <2>5. faults' \in 0 .. MaxFaults /\ asked' \in [Shippings -> Nat]
    BY <1>4 DEF ApproveRead, TypeOK
  <2>6. approved' \in BOOLEAN /\ quiet' \in BOOLEAN /\ undated' \in BOOLEAN
    BY <1>4, SettledType DEF ApproveRead, TypeOK
  <2>7. QED
    BY <2>1, <2>2, <2>3, <2>4, <2>5, <2>6 DEF TypeOK
<1>5. ASSUME NEW r \in Requests, AdjustRead(r) PROVE TypeOK'
  <2>0. Adjusted \in [Shippings -> Row] /\ Nonzero \in SUBSET Shippings
    <3>1. \A d \in Shippings : row[d] \in Row
      BY DEF TypeOK
    <3>2. \A d \in Shippings : /\ AdjustUnits(row[d].units, UT) \in Nat
                              /\ AdjustedPiName(row[d].piName) \in PiNames
      <4>1. \A n \in PiNames : AdjustedPiName(n) \in PiNames
        BY DEF PiNames, AdjustedPiName
      <4>2. QED
        BY <3>1, <4>1, AdjustedIsNat DEF Row
    <3>3. Adjusted \in [Shippings -> Row]
      BY <3>1, <3>2 DEF Row, Adjusted
    <3>4. QED
      BY <3>3 DEF Nonzero
  <2>1. row' \in [Shippings -> Row]
    BY <1>5 DEF AdjustRead, TypeOK
  <2>2. /\ main' \in [Requests -> MainSteps]
        /\ arrival' \in [Requests -> ArrivalSteps]
    <3>1. \/ main' = [main EXCEPT ![r] = "idle"]
          \/ main' = [main EXCEPT ![r] = "adjust save"]
          \/ main' = [main EXCEPT ![r] = "awaited adjust save"]
      BY <1>5 DEF AdjustRead, AfterAdjust, Release
    <3>2. arrival' = arrival \/ arrival' = [arrival EXCEPT ![r] = "read"]
      BY <1>5 DEF AdjustRead, AfterAdjust
    <3>3. QED
      BY <3>1, <3>2 DEF TypeOK, MainSteps, ArrivalSteps
  <2>3. /\ held' \in [Requests -> [Shippings -> Row]]
        /\ heldArr' \in [Requests -> [Shippings -> Row]]
    <3>1. \/ held' = held
          \/ held' = [held EXCEPT ![r] = EmptyRows]
          \/ held' = [held EXCEPT ![r] = Adjusted]
      BY <1>5 DEF AdjustRead, AfterAdjust, Release
    <3>2. heldArr' = heldArr
      BY <1>5 DEF AdjustRead
    <3>3. held \in [Requests -> [Shippings -> Row]] /\ heldArr \in [Requests -> [Shippings -> Row]]
      BY DEF TypeOK
    <3>4. QED
      BY <2>0, <3>1, <3>2, <3>3, EmptyRowsType
  <2>4. picked' \in [Requests -> SUBSET Shippings]
    BY <1>5, <2>0 DEF AdjustRead, AfterAdjust, Release, TypeOK
  <2>5. faults' \in 0 .. MaxFaults /\ asked' \in [Shippings -> Nat]
    BY <1>5 DEF AdjustRead, AfterAdjust, Release, TypeOK
  <2>6. approved' \in BOOLEAN /\ quiet' \in BOOLEAN /\ undated' \in BOOLEAN
    BY <1>5 DEF AdjustRead, AfterAdjust, Release, TypeOK
  <2>7. QED
    BY <2>1, <2>2, <2>3, <2>4, <2>5, <2>6 DEF TypeOK
<1>6. ASSUME NEW r \in Requests, AdjustSave(r) PROVE TypeOK'
  <2>1. row' \in [Shippings -> Row]
    BY <1>6, HeldOverType DEF AdjustSave
  <2>2. /\ main' \in [Requests -> MainSteps]
        /\ arrival' \in [Requests -> ArrivalSteps]
    BY <1>6 DEF AdjustSave, AfterAdjust, Release, TypeOK, MainSteps, ArrivalSteps
  <2>3. /\ held' \in [Requests -> [Shippings -> Row]]
        /\ heldArr' \in [Requests -> [Shippings -> Row]]
    BY <1>6, EmptyRowsType DEF AdjustSave, AfterAdjust, Release, TypeOK
  <2>4. picked' \in [Requests -> SUBSET Shippings]
    BY <1>6 DEF AdjustSave, AfterAdjust, Release, TypeOK
  <2>5. faults' \in 0 .. MaxFaults /\ asked' \in [Shippings -> Nat]
    BY <1>6 DEF AdjustSave, AfterAdjust, Release, TypeOK
  <2>6. approved' \in BOOLEAN /\ quiet' \in BOOLEAN /\ undated' \in BOOLEAN
    BY <1>6 DEF AdjustSave, AfterAdjust, Release, TypeOK
  <2>7. QED
    BY <2>1, <2>2, <2>3, <2>4, <2>5, <2>6 DEF TypeOK
<1>7. ASSUME NEW r \in Requests, ArrivalRead(r) PROVE TypeOK'
  <2>0. [d \in Shippings |-> [row[d] EXCEPT !.arrivalDate = row[d].date]]
          \in [Shippings -> Row]
    <3>1. \A d \in Shippings : row[d] \in Row
      BY DEF TypeOK
    <3>2. QED
      BY <3>1 DEF Row
  <2>1. row' \in [Shippings -> Row]
    BY <1>7 DEF ArrivalRead, TypeOK
  <2>2. /\ main' \in [Requests -> MainSteps]
        /\ arrival' \in [Requests -> ArrivalSteps]
    BY <1>7 DEF ArrivalRead, TypeOK, MainSteps, ArrivalSteps
  <2>3. /\ held' \in [Requests -> [Shippings -> Row]]
        /\ heldArr' \in [Requests -> [Shippings -> Row]]
    BY <1>7, <2>0, EmptyRowsType DEF ArrivalRead, TypeOK
  <2>4. picked' \in [Requests -> SUBSET Shippings]
    BY <1>7 DEF ArrivalRead, TypeOK
  <2>5. faults' \in 0 .. MaxFaults /\ asked' \in [Shippings -> Nat]
    BY <1>7 DEF ArrivalRead, TypeOK
  <2>6. approved' \in BOOLEAN /\ quiet' \in BOOLEAN /\ undated' \in BOOLEAN
    BY <1>7 DEF ArrivalRead, TypeOK
  <2>7. QED
    BY <2>1, <2>2, <2>3, <2>4, <2>5, <2>6 DEF TypeOK
<1>8. ASSUME NEW r \in Requests, ArrivalSave(r) PROVE TypeOK'
  <2>1. row' \in [Shippings -> Row]
    BY <1>8 DEF ArrivalSave, TypeOK
  <2>2. /\ main' \in [Requests -> MainSteps]
        /\ arrival' \in [Requests -> ArrivalSteps]
    BY <1>8 DEF ArrivalSave, TypeOK, MainSteps, ArrivalSteps
  <2>3. /\ held' \in [Requests -> [Shippings -> Row]]
        /\ heldArr' \in [Requests -> [Shippings -> Row]]
    BY <1>8, EmptyRowsType DEF ArrivalSave, TypeOK
  <2>4. picked' \in [Requests -> SUBSET Shippings]
    BY <1>8 DEF ArrivalSave, TypeOK
  <2>5. faults' \in 0 .. MaxFaults /\ asked' \in [Shippings -> Nat]
    BY <1>8 DEF ArrivalSave, TypeOK
  <2>6. approved' \in BOOLEAN /\ quiet' \in BOOLEAN /\ undated' \in BOOLEAN
    BY <1>8 DEF ArrivalSave, TypeOK
  <2>7. QED
    BY <2>1, <2>2, <2>3, <2>4, <2>5, <2>6 DEF TypeOK
<1>9. ASSUME NEW r \in Requests, ApproveColor(r) PROVE TypeOK'
  <2>1. row' \in [Shippings -> Row]
    BY <1>9 DEF ApproveColor, TypeOK
  <2>2. /\ main' \in [Requests -> MainSteps]
        /\ arrival' \in [Requests -> ArrivalSteps]
    BY <1>9 DEF ApproveColor, TypeOK, MainSteps, ArrivalSteps
  <2>3. /\ held' \in [Requests -> [Shippings -> Row]]
        /\ heldArr' \in [Requests -> [Shippings -> Row]]
    BY <1>9, EmptyRowsType DEF ApproveColor, TypeOK
  <2>4. picked' \in [Requests -> SUBSET Shippings]
    BY <1>9 DEF ApproveColor, TypeOK
  <2>5. faults' \in 0 .. MaxFaults /\ asked' \in [Shippings -> Nat]
    BY <1>9 DEF ApproveColor, TypeOK
  <2>6. approved' \in BOOLEAN /\ quiet' \in BOOLEAN /\ undated' \in BOOLEAN
    BY <1>9 DEF ApproveColor, TypeOK
  <2>7. QED
    BY <2>1, <2>2, <2>3, <2>4, <2>5, <2>6 DEF TypeOK
<1>10. ASSUME NEW r \in Requests, ApproveShippings(r) PROVE TypeOK'
  <2>1. row' \in [Shippings -> Row]
    <3>1. ASSUME NEW d \in Shippings
          PROVE  [row[d] EXCEPT !.units = held[r][d].units,
                                !.piName = held[r][d].piName] \in Row
      <4>1. row[d] \in Row /\ held[r][d] \in Row
        BY DEF TypeOK
      <4>2. held[r][d].units \in Nat /\ held[r][d].piName \in PiNames
        BY <4>1 DEF Row
      <4>3. QED
        BY <4>1, <4>2 DEF Row
    <3>2. QED
      BY <3>1, <1>10 DEF ApproveShippings
  <2>2. /\ main' \in [Requests -> MainSteps]
        /\ arrival' \in [Requests -> ArrivalSteps]
    BY <1>10 DEF ApproveShippings, Release, TypeOK, MainSteps, ArrivalSteps
  <2>3. /\ held' \in [Requests -> [Shippings -> Row]]
        /\ heldArr' \in [Requests -> [Shippings -> Row]]
    BY <1>10, EmptyRowsType DEF ApproveShippings, Release, TypeOK
  <2>4. picked' \in [Requests -> SUBSET Shippings]
    BY <1>10 DEF ApproveShippings, Release, TypeOK
  <2>5. faults' \in 0 .. MaxFaults /\ asked' \in [Shippings -> Nat]
    BY <1>10 DEF ApproveShippings, Release, TypeOK
  <2>6. approved' \in BOOLEAN /\ quiet' \in BOOLEAN /\ undated' \in BOOLEAN
    BY <1>10 DEF ApproveShippings, Release, TypeOK
  <2>7. QED
    BY <2>1, <2>2, <2>3, <2>4, <2>5, <2>6 DEF TypeOK
<1>11. ASSUME NEW r \in Requests, Lose(r) PROVE TypeOK'
  <2>1. row' \in [Shippings -> Row]
    BY <1>11 DEF Lose, TypeOK
  <2>2. /\ main' \in [Requests -> MainSteps]
        /\ arrival' \in [Requests -> ArrivalSteps]
    BY <1>11 DEF Lose, Release, TypeOK, MainSteps, ArrivalSteps
  <2>3. /\ held' \in [Requests -> [Shippings -> Row]]
        /\ heldArr' \in [Requests -> [Shippings -> Row]]
    BY <1>11, EmptyRowsType DEF Lose, Release, TypeOK
  <2>4. picked' \in [Requests -> SUBSET Shippings]
    BY <1>11 DEF Lose, Release, TypeOK
  <2>5. faults' \in 0 .. MaxFaults /\ asked' \in [Shippings -> Nat]
    BY <1>11 DEF Lose, Release, TypeOK
  <2>6. approved' \in BOOLEAN /\ quiet' \in BOOLEAN /\ undated' \in BOOLEAN
    BY <1>11 DEF Lose, Release, TypeOK
  <2>7. QED
    BY <2>1, <2>2, <2>3, <2>4, <2>5, <2>6 DEF TypeOK
<1>12. ASSUME NEW r \in Requests, SaveSomeShippings(r) PROVE TypeOK'
  <2>1. row' \in [Shippings -> Row]
    BY <1>12 DEF SaveSomeShippings, TypeOK
  <2>8. \A d \in Shippings : row[d].units \in Nat
    <3>1. \A d \in Shippings : row[d] \in Row
      BY DEF TypeOK
    <3>2. QED
      BY <3>1 DEF Row
  <2>2. /\ main' \in [Requests -> MainSteps]
        /\ arrival' \in [Requests -> ArrivalSteps]
    BY <1>12 DEF SaveSomeShippings, TypeOK, MainSteps, ArrivalSteps
  <2>3. /\ held' \in [Requests -> [Shippings -> Row]]
        /\ heldArr' \in [Requests -> [Shippings -> Row]]
    <3>1. PICK sent \in [Shippings -> SaveValues], on \in Dates :
            held' = [held EXCEPT ![r] = WithUnits(sent, on)]
      BY <1>12 DEF SaveSomeShippings
    <3>2. WithUnits(sent, on) \in [Shippings -> Row]
      BY <1>0
    <3>3. heldArr' = heldArr
      BY <1>12 DEF SaveSomeShippings
    <3>4. QED
      BY <3>1, <3>2, <3>3 DEF TypeOK
  <2>4. picked' \in [Requests -> SUBSET Shippings]
    BY <1>12 DEF SaveSomeShippings, TypeOK
  <2>5. faults' \in 0 .. MaxFaults /\ asked' \in [Shippings -> Nat]
    <3>1. PICK some \in SUBSET Shippings, sent \in [Shippings -> SaveValues] :
            asked' = [d \in Shippings |-> IF d \in some THEN sent[d] ELSE row[d].units]
      BY <1>12 DEF SaveSomeShippings
    <3>2. \A d \in Shippings : sent[d] \in Nat
      OBVIOUS
    <3>3. QED
      BY <1>12, <2>8, <3>1, <3>2 DEF SaveSomeShippings, TypeOK
  <2>6. approved' \in BOOLEAN /\ quiet' \in BOOLEAN /\ undated' \in BOOLEAN
    BY <1>12, SettledType DEF SaveSomeShippings, TypeOK
  <2>7. QED
    BY <2>1, <2>2, <2>3, <2>4, <2>5, <2>6 DEF TypeOK
<1>13. ASSUME NEW r \in Requests, StoreUnits(r) PROVE TypeOK'
  <2>1. row' \in [Shippings -> Row]
    <3>1. HeldOver(r) \in [Shippings -> Row]
      BY HeldOverType
    <3>2. row' = HeldOver(r) \/ \E skipped : row' = Saving(HeldOver(r), skipped)
      BY <1>13 DEF StoreUnits
    <3>3. QED
      BY <3>1, <3>2, SavingType
  <2>2. /\ main' \in [Requests -> MainSteps]
        /\ arrival' \in [Requests -> ArrivalSteps]
    BY <1>13 DEF StoreUnits, TypeOK, MainSteps, ArrivalSteps
  <2>3. /\ held' \in [Requests -> [Shippings -> Row]]
        /\ heldArr' \in [Requests -> [Shippings -> Row]]
    BY <1>13, EmptyRowsType DEF StoreUnits, TypeOK
  <2>4. picked' \in [Requests -> SUBSET Shippings]
    BY <1>13 DEF StoreUnits, TypeOK
  <2>5. faults' \in 0 .. MaxFaults /\ asked' \in [Shippings -> Nat]
    BY <1>13 DEF StoreUnits, TypeOK
  <2>6. approved' \in BOOLEAN /\ quiet' \in BOOLEAN /\ undated' \in BOOLEAN
    BY <1>13, SettledType DEF StoreUnits, TypeOK
  <2>7. QED
    BY <2>1, <2>2, <2>3, <2>4, <2>5, <2>6 DEF TypeOK
<1>14. CASE UNCHANGED vars
  BY <1>14 DEF vars, taskVars, TypeOK
<1>15. QED
  BY <1>1, <1>2, <1>3, <1>4, <1>5, <1>6, <1>7, <1>8, <1>9, <1>10, <1>11, <1>12,
    <1>13, <1>14
  DEF Next, Step

\* The variables of DeliveryUnits keep their types.
THEOREM TypeCorrect == Spec => []TypeOK
  BY TypeInit, TypeNext, PTL DEF Spec

-----------------------------------------------------------------------------
(***************************************************************************)
(* The inductive invariant.  While quiet, at most one request runs, and    *)
(* the units it holds in memory come from the ones asked, so that none of  *)
(* its writes brings back older units.                                     *)
(***************************************************************************)
Storing(r) == main[r] = "awaited store"
Awaiting(r) == main[r] \in {"awaited adjust", "awaited adjust save"}
Approving(r) == main[r] \in {"approve color", "approve shippings"}
Want(d) == RoundUnits(asked[d], UT)

Alone == \A r, s \in Requests : r = s \/ Idle(r) \/ Idle(s)

\* What the only request may be doing.
Work(r) ==
  /\ main[r] = "idle" \/ Storing(r) \/ Awaiting(r) \/ Approving(r)
  /\ main[r] = "idle" \/ arrival[r] = "none"

\* The units stored, once the request has stored them: as asked until the adjustment is saved, rounded after.
StoredUnits ==
  /\ \A r \in Requests : Awaiting(r) => \A d \in Shippings : row[d].units = asked[d]
  /\ (\A r \in Requests : ~Storing(r) /\ ~Awaiting(r)) =>
       \A d \in Shippings : row[d].units = Want(d)

\* The units held in memory by the request.
HeldUnits(r) ==
  /\ Storing(r) => \A d \in Shippings :
       asked[d] = IF d \in picked[r] THEN held[r][d].units ELSE row[d].units
  /\ main[r] = "awaited adjust save" =>
       /\ picked[r] = {d \in Shippings : asked[d] # 0}
       /\ \A d \in picked[r] : held[r][d].units = Want(d)
  /\ Approving(r) => \A d \in Shippings : held[r][d].units = Want(d)
  /\ arrival[r] = "save" => \A d \in Shippings : heldArr[r][d].units = Want(d)

QuietInv ==
  quiet =>
    /\ Alone
    /\ StoredUnits
    /\ \A r \in Requests : Work(r) /\ HeldUnits(r)

IInv == TypeOK /\ QuietInv

\* What the invariant needs of the rounding.
LEMMA RoundingOfUnits ==
  ASSUME NEW u \in Nat
  PROVE  /\ RoundUnits(u, UT) \in Nat
         /\ IsMultiple(RoundUnits(u, UT), UT)
         /\ RoundUnits(0, UT) = 0
  BY RoundedIsMultiple DEF RoundUnits

\* A request starts when every other one is idle, or it is no longer quiet;
\* one that goes on is the only one.
LEMMA OthersIdle ==
  ASSUME IInv, quiet, NEW r \in Requests, ~Idle(r)
  PROVE  \A s \in Requests : s # r => Idle(s)
  BY DEF IInv, QuietInv, Alone

\* What a step of r that leaves the other requests idle has to establish.
LEMMA OneRuns ==
  ASSUME NEW r \in Requests,
         \A s \in Requests : s # r => main'[s] = "idle" /\ arrival'[s] = "none",
         Work(r)', HeldUnits(r)',
         Awaiting(r)' => \A d \in Shippings : row'[d].units = asked'[d],
         ~Storing(r)' /\ ~Awaiting(r)' =>
           \A d \in Shippings : row'[d].units = RoundUnits(asked'[d], UT)
  PROVE  QuietInv'
<1>1. Alone'
  BY DEF Alone, Idle
<1>2. \A s \in Requests : s # r => Work(s)' /\ HeldUnits(s)' /\ ~Storing(s)' /\ ~Awaiting(s)'
  BY DEF Work, HeldUnits, Storing, Awaiting, Approving
<1>3. StoredUnits'
  BY <1>2 DEF StoredUnits, Want
<1>4. QED
  BY <1>1, <1>2, <1>3 DEF QuietInv

\* At first nothing runs and no units are asked.
LEMMA QuietInit == Init => QuietInv
<1> SUFFICES ASSUME Init PROVE QuietInv
  OBVIOUS
<1>1. \A r \in Requests : main[r] = "idle" /\ arrival[r] = "none"
  BY DEF Init
<1>2. \A d \in Shippings : row[d].units = Want(d)
  BY RoundingOfUnits DEF Init, EmptyRows, Want
<1>3. QED
  BY <1>1, <1>2
  DEF QuietInv, Alone, Idle, StoredUnits, Work, HeldUnits, Storing, Awaiting, Approving

\* POST /save-shippings-units stores what it was sent, and starts quiet again
\* when it starts alone.
LEMMA QuietSaveUnits ==
  ASSUME IInv, NEW r \in Requests, SaveShippingsUnits(r)
  PROVE  QuietInv'
<1> SUFFICES ASSUME quiet' PROVE QuietInv'
  BY DEF QuietInv
<1>1. Settled
  BY SettledType DEF SaveShippingsUnits
<1>2. /\ main'[r] = "awaited adjust" /\ arrival'[r] = "none"
      /\ \A s \in Requests : s # r => main'[s] = "idle" /\ arrival'[s] = "none"
  BY <1>1 DEF SaveShippingsUnits, Settled, Idle, IInv, TypeOK
<1>3. \A d \in Shippings : row'[d].units = asked'[d]
  <2>1. PICK sent \in [Shippings -> SaveValues], on \in Dates :
          row' = Saving(WithUnits(sent, on), {}) /\ asked' = sent
    BY SettledType DEF SaveShippingsUnits
  <2>2. \A d \in Shippings : row[d] \in Row
    BY DEF IInv, TypeOK
  <2>3. \A d \in Shippings : row'[d] = [row[d] EXCEPT !.units = sent[d], !.date = on]
    BY <2>1 DEF WithUnits, Saving
  <2>4. QED
    BY <2>1, <2>2, <2>3 DEF Row
<1>4. Work(r)' /\ HeldUnits(r)' /\ Awaiting(r)'
  BY <1>2 DEF Work, HeldUnits, Storing, Awaiting, Approving
<1>5. QED
  BY <1>2, <1>3, <1>4, OneRuns

\* POST /save-shipping-units, quiet until it has stored.
LEMMA QuietSaveSome ==
  ASSUME IInv, NEW r \in Requests, SaveSomeShippings(r)
  PROVE  QuietInv'
<1> SUFFICES ASSUME quiet' PROVE QuietInv'
  BY DEF QuietInv
<1>1. Settled
  BY DEF SaveSomeShippings
<1>2. /\ main'[r] = "awaited store" /\ arrival'[r] = "none"
      /\ \A s \in Requests : s # r => main'[s] = "idle" /\ arrival'[s] = "none"
  BY <1>1 DEF SaveSomeShippings, Settled, Idle, IInv, TypeOK
<1>3. PICK some \in SUBSET Shippings, sent \in [Shippings -> SaveValues], on \in Dates :
        /\ held' = [held EXCEPT ![r] = WithUnits(sent, on)]
        /\ picked' = [picked EXCEPT ![r] = some]
        /\ asked' = [d \in Shippings |-> IF d \in some THEN sent[d] ELSE row[d].units]
        /\ row' = row
  BY DEF SaveSomeShippings, rowVars
<1>4. picked'[r] = some /\ held'[r] = WithUnits(sent, on)
  BY <1>3 DEF IInv, TypeOK
<1>5. \A d \in Shippings : held'[r][d].units = sent[d]
  <2>1. \A d \in Shippings : row[d] \in Row
    BY DEF IInv, TypeOK
  <2>2. \A d \in Shippings : held'[r][d] = [row[d] EXCEPT !.units = sent[d], !.date = on]
    BY <1>4 DEF WithUnits
  <2>3. QED
    BY <2>1, <2>2 DEF Row
<1>6. Work(r)' /\ HeldUnits(r)' /\ Storing(r)' /\ ~Awaiting(r)'
  BY <1>2, <1>3, <1>4, <1>5 DEF Work, HeldUnits, Storing, Awaiting, Approving
<1>7. QED
  BY <1>2, <1>6, OneRuns

\* POST /generate-arrival-dates starts beside nothing or ends the quiet.
LEMMA QuietGenerate ==
  ASSUME IInv, NEW r \in Requests, GenerateArrivalDates(r)
  PROVE  QuietInv'
<1> SUFFICES ASSUME quiet' PROVE QuietInv'
  BY DEF QuietInv
<1>1. Settled /\ quiet
  BY DEF GenerateArrivalDates, IInv, TypeOK
<1>2. /\ main'[r] = "idle" /\ arrival'[r] = "read"
      /\ \A s \in Requests : s # r => main'[s] = "idle" /\ arrival'[s] = "none"
  BY <1>1 DEF GenerateArrivalDates, Settled, Idle, IInv, TypeOK
<1>3. \A d \in Shippings : row[d].units = Want(d)
  BY <1>1 DEF IInv, QuietInv, StoredUnits, Settled, Idle, Storing, Awaiting
<1>4. \A d \in Shippings : row'[d].units = RoundUnits(asked'[d], UT)
  BY <1>3 DEF GenerateArrivalDates, rowVars, Want
<1>5. Work(r)' /\ HeldUnits(r)' /\ ~Storing(r)' /\ ~Awaiting(r)'
  BY <1>2 DEF Work, HeldUnits, Storing, Awaiting, Approving
<1>6. QED
  BY <1>2, <1>4, <1>5, OneRuns

\* The approval holds rows rounded from those it read.
LEMMA QuietApproveRead ==
  ASSUME IInv, NEW r \in Requests, ApproveRead(r)
  PROVE  QuietInv'
<1> SUFFICES ASSUME quiet' PROVE QuietInv'
  BY DEF QuietInv
<1>1. Settled /\ quiet
  BY DEF ApproveRead, IInv, TypeOK
<1>2. /\ main'[r] = "approve color" /\ arrival'[r] = "none"
      /\ \A s \in Requests : s # r => main'[s] = "idle" /\ arrival'[s] = "none"
  BY <1>1 DEF ApproveRead, Settled, Idle, IInv, TypeOK
<1>3. \A d \in Shippings : row[d].units = Want(d)
  BY <1>1 DEF IInv, QuietInv, StoredUnits, Settled, Idle, Storing, Awaiting
<1>4. \A d \in Shippings : held'[r][d].units = Want(d)
  <2>1. \A d \in Shippings : row[d] \in Row /\ asked[d] \in Nat
    BY DEF IInv, TypeOK
  <2>2. \A d \in Shippings : held'[r][d] =
          [row[d] EXCEPT !.units = RoundUnits(row[d].units, UT), !.piName = "full"]
    BY DEF ApproveRead, IInv, TypeOK
  <2>3. \A d \in Shippings : held'[r][d].units = RoundUnits(row[d].units, UT)
    BY <2>1, <2>2 DEF Row
  <2>4. QED
    BY <1>3, <2>1, <2>3, RoundTwice DEF Want
<1>5. \A d \in Shippings : row'[d].units = RoundUnits(asked'[d], UT)
  BY <1>3 DEF ApproveRead, rowVars, Want
<1>6. \A d \in Shippings : Want(d)' = Want(d)
  BY DEF ApproveRead, Want
<1>7. Work(r)' /\ HeldUnits(r)' /\ ~Storing(r)' /\ ~Awaiting(r)'
  BY <1>2, <1>4, <1>6 DEF Work, HeldUnits, Storing, Awaiting, Approving
<1>8. QED
  BY <1>2, <1>5, <1>7, OneRuns

\* A step of a request at work: it is the only one, and the others stay idle.
LEMMA StepAlone ==
  ASSUME IInv, quiet', NEW r \in Requests, Step(r)
  PROVE  /\ quiet
         /\ Work(r) /\ HeldUnits(r)
         /\ \A s \in Requests : s # r => main'[s] = "idle" /\ arrival'[s] = "none"
         /\ Awaiting(r) => \A d \in Shippings : row[d].units = asked[d]
         /\ ~Storing(r) /\ ~Awaiting(r) =>
              \A d \in Shippings : row[d].units = Want(d)
         /\ \A d \in Shippings : asked'[d] = asked[d] /\ Want(d)' = Want(d)
<1> USE DEF Step, StoreUnits, AdjustRead, AdjustSave, ArrivalRead, ArrivalSave,
            ApproveColor, ApproveShippings
<1>1. quiet /\ asked' = asked
  BY DEF ghostVars, IInv, TypeOK
<1>2. ~Idle(r)
  BY DEF Idle
<1>3. \A s \in Requests : s # r => Idle(s)
  BY <1>1, <1>2, OthersIdle
<1>4. \A s \in Requests : s # r => main'[s] = main[s] /\ arrival'[s] = arrival[s]
  BY DEF AfterAdjust, Release, IInv, TypeOK
<1>5. Work(r) /\ HeldUnits(r)
  BY <1>1 DEF IInv, QuietInv
<1>6. \A s \in Requests : s # r => ~Storing(s) /\ ~Awaiting(s)
  BY <1>3 DEF Idle, Storing, Awaiting
<1>7. StoredUnits
  BY <1>1 DEF IInv, QuietInv
<1>8. \A d \in Shippings : Want(d)' = Want(d)
  BY <1>1 DEF Want
<1>9. QED
  BY <1>1, <1>3, <1>4, <1>5, <1>6, <1>7, <1>8 DEF Idle, StoredUnits

\* The rows a request held over the units it was sent, stored.
LEMMA QuietStore ==
  ASSUME IInv, NEW r \in Requests, StoreUnits(r)
  PROVE  QuietInv'
<1> SUFFICES ASSUME quiet' PROVE QuietInv'
  BY DEF QuietInv
<1>1. Step(r)
  BY DEF Step
<1>2. Storing(r) /\ arrival[r] = "none"
  BY <1>1, StepAlone DEF StoreUnits, Work, Storing, Awaiting, Approving
<1>3. main'[r] = "awaited adjust" /\ arrival'[r] = "none"
  BY <1>2 DEF StoreUnits, Storing, IInv, TypeOK
<1>4. ASSUME NEW d \in Shippings PROVE row'[d].units = asked'[d]
  <2>1. row'[d] = IF d \in picked[r] THEN held[r][d] ELSE row[d]
    <3>1. row' = Saving(HeldOver(r), {})
      BY <1>2 DEF StoreUnits, Storing, IInv, TypeOK
    <3>2. QED
      BY <3>1 DEF Saving, HeldOver
  <2>2. asked[d] = IF d \in picked[r] THEN held[r][d].units ELSE row[d].units
    BY <1>1, <1>2, StepAlone DEF HeldUnits
  <2>3. asked'[d] = asked[d]
    BY <1>1, StepAlone
  <2>4. QED
    BY <2>1, <2>2, <2>3
<1>5. Work(r)' /\ HeldUnits(r)' /\ ~Storing(r)' /\ Awaiting(r)'
  BY <1>3 DEF Work, HeldUnits, Storing, Awaiting, Approving
<1>6. QED
  BY <1>1, <1>4, <1>5, StepAlone, OneRuns

\* adjustUTUnits holds the rounding of what was asked.
LEMMA QuietAdjustRead ==
  ASSUME IInv, NEW r \in Requests, AdjustRead(r)
  PROVE  QuietInv'
<1> SUFFICES ASSUME quiet' PROVE QuietInv'
  BY DEF QuietInv
<1>1. Step(r)
  BY DEF Step
<1>2. main[r] = "awaited adjust" /\ arrival[r] = "none" /\ Awaiting(r)
  BY <1>1, StepAlone DEF AdjustRead, Work, Storing, Awaiting, Approving
<1>3. /\ \A d \in Shippings : row[d].units = asked[d]
      /\ row' = row
      /\ \A d \in Shippings : asked'[d] = asked[d] /\ Want(d)' = Want(d)
  BY <1>1, <1>2, StepAlone DEF AdjustRead, rowVars
<1>4. \A d \in Shippings : row[d] \in Row /\ asked[d] \in Nat
  BY DEF IInv, TypeOK
<1>5. CASE Nonzero = {} /\ AfterAdjust(r)
  <2>1. main'[r] = "idle" /\ arrival'[r] = "read"
    BY <1>2, <1>5 DEF AfterAdjust, Release, IInv, TypeOK
  <2>2. \A d \in Shippings : row'[d].units = RoundUnits(asked'[d], UT)
    <3>1. \A d \in Shippings : asked'[d] = 0 /\ row'[d].units = 0
      BY <1>3, <1>5 DEF Nonzero
    <3>2. QED
      BY <3>1, RoundingOfUnits
  <2>3. Work(r)' /\ HeldUnits(r)' /\ ~Storing(r)' /\ ~Awaiting(r)'
    BY <2>1 DEF Work, HeldUnits, Storing, Awaiting, Approving
  <2>4. QED
    BY <1>1, <2>2, <2>3, StepAlone, OneRuns
<1>6. CASE /\ Nonzero # {}
           /\ held' = [held EXCEPT ![r] = Adjusted]
           /\ picked' = [picked EXCEPT ![r] = Nonzero]
           /\ main' = [main EXCEPT ![r] =
                IF main[r] = "adjust" THEN "adjust save" ELSE "awaited adjust save"]
           /\ UNCHANGED arrival
  <2>1. main'[r] = "awaited adjust save" /\ arrival'[r] = "none"
    BY <1>2, <1>6 DEF IInv, TypeOK
  <2>2. picked'[r] = {d \in Shippings : asked'[d] # 0}
    <3>1. picked'[r] = Nonzero
      BY <1>6 DEF IInv, TypeOK
    <3>2. QED
      BY <1>3, <3>1 DEF Nonzero
  <2>3. \A d \in Shippings : held'[r][d] =
          [row[d] EXCEPT !.units = AdjustUnits(row[d].units, UT),
                         !.piName = AdjustedPiName(row[d].piName)]
    BY <1>6 DEF Adjusted, IInv, TypeOK
  <2>4. \A d \in Shippings : held'[r][d].units = AdjustUnits(asked[d], UT)
    <3>1. \A d \in Shippings : held'[r][d].units = AdjustUnits(row[d].units, UT)
      BY <1>4, <2>3 DEF Row
    <3>2. QED
      BY <1>3, <3>1
  <2>5. ASSUME NEW d \in picked'[r]
        PROVE  held'[r][d].units = Want(d)'
    <3>1. d \in Shippings /\ asked[d] \in Nat /\ asked[d] # 0
      BY <1>3, <1>4, <2>2
    <3>2. AdjustUnits(asked[d], UT) = Want(d)
      BY <3>1, AdjustedIsRounded DEF Want
    <3>3. QED
      BY <1>3, <2>4, <3>1, <3>2
  <2>6. Work(r)' /\ HeldUnits(r)' /\ Awaiting(r)'
    BY <2>1, <2>2, <2>5 DEF Work, HeldUnits, Storing, Awaiting, Approving
  <2>7. QED
    BY <1>1, <1>3, <2>6, StepAlone, OneRuns
<1>7. QED
  BY <1>5, <1>6 DEF AdjustRead

\* And stores it.
LEMMA QuietAdjustSave ==
  ASSUME IInv, NEW r \in Requests, AdjustSave(r)
  PROVE  QuietInv'
<1> SUFFICES ASSUME quiet' PROVE QuietInv'
  BY DEF QuietInv
<1>1. Step(r)
  BY DEF Step
<1>2. main[r] = "awaited adjust save" /\ arrival[r] = "none" /\ Awaiting(r)
  BY <1>1, StepAlone DEF AdjustSave, Work, Storing, Awaiting, Approving
<1>3. main'[r] = "idle" /\ arrival'[r] = "read"
  BY <1>2 DEF AdjustSave, AfterAdjust, Release, IInv, TypeOK
<1>4. \A d \in Shippings : asked[d] \in Nat /\ row[d].units = asked[d]
  BY <1>1, <1>2, StepAlone DEF IInv, TypeOK
<1>5. ASSUME NEW d \in Shippings
      PROVE  row'[d].units = RoundUnits(asked'[d], UT)
  <2>1. row'[d] = IF d \in picked[r] THEN held[r][d] ELSE row[d]
    BY DEF AdjustSave, HeldOver
  <2>2. /\ d \in picked[r] <=> asked[d] # 0
        /\ d \in picked[r] => held[r][d].units = Want(d)
    <3>1. HeldUnits(r)
      BY <1>1, StepAlone
    <3>2. QED
      BY <1>2, <3>1 DEF HeldUnits
  <2>3. row'[d].units = Want(d)
    BY <1>4, <2>1, <2>2, RoundingOfUnits DEF Want
  <2>4. QED
    BY <1>1, <2>3, StepAlone DEF Want
<1>6. Work(r)' /\ HeldUnits(r)' /\ ~Storing(r)' /\ ~Awaiting(r)'
  BY <1>3 DEF Work, HeldUnits, Storing, Awaiting, Approving
<1>7. QED
  BY <1>1, <1>5, <1>6, StepAlone, OneRuns

\* updateArrivalDates holds the units stored, which are rounded by then.
LEMMA QuietArrivalRead ==
  ASSUME IInv, NEW r \in Requests, ArrivalRead(r)
  PROVE  QuietInv'
<1> SUFFICES ASSUME quiet' PROVE QuietInv'
  BY DEF QuietInv
<1>1. Step(r)
  BY DEF Step
<1>2. main[r] = "idle" /\ ~Storing(r) /\ ~Awaiting(r)
  BY <1>1, StepAlone DEF ArrivalRead, Work, Storing, Awaiting, Approving
<1>3. main'[r] = "idle" /\ arrival'[r] \in {"save", "none"}
  BY <1>2 DEF ArrivalRead, IInv, TypeOK
<1>4. /\ \A d \in Shippings : row[d].units = Want(d) /\ Want(d)' = Want(d)
      /\ row' = row
  BY <1>1, <1>2, StepAlone DEF ArrivalRead, rowVars
<1>5. ASSUME NEW d \in Shippings, arrival'[r] = "save"
      PROVE  heldArr'[r][d].units = Want(d)'
  <2>1. row[d] \in Row
    BY DEF IInv, TypeOK
  <2>2. heldArr'[r][d] = [row[d] EXCEPT !.arrivalDate = row[d].date]
    BY <1>5 DEF ArrivalRead, IInv, TypeOK
  <2>3. heldArr'[r][d].units = row[d].units
    BY <2>1, <2>2 DEF Row
  <2>4. QED
    BY <1>4, <2>3
<1>6. Work(r)' /\ HeldUnits(r)' /\ ~Storing(r)' /\ ~Awaiting(r)'
  BY <1>3, <1>5 DEF Work, HeldUnits, Storing, Awaiting, Approving
<1>7. \A d \in Shippings : row'[d].units = RoundUnits(asked'[d], UT)
  BY <1>4 DEF Want
<1>8. QED
  BY <1>1, <1>6, <1>7, StepAlone, OneRuns

\* And stores them back.
LEMMA QuietArrivalSave ==
  ASSUME IInv, NEW r \in Requests, ArrivalSave(r)
  PROVE  QuietInv'
<1> SUFFICES ASSUME quiet' PROVE QuietInv'
  BY DEF QuietInv
<1>1. Step(r)
  BY DEF Step
<1>2. main[r] = "idle" /\ ~Storing(r) /\ ~Awaiting(r)
  BY <1>1, StepAlone DEF ArrivalSave, Work, Storing, Awaiting, Approving
<1>3. main'[r] = "idle" /\ arrival'[r] = "none"
  BY <1>2 DEF ArrivalSave, IInv, TypeOK
<1>4. \A d \in Shippings : row[d].units = Want(d) /\ Want(d)' = Want(d)
  BY <1>1, <1>2, StepAlone
<1>5. \A d \in Shippings : heldArr[r][d].units = Want(d)
  BY <1>1, StepAlone DEF ArrivalSave, HeldUnits
<1>6. ASSUME NEW d \in Shippings
      PROVE  row'[d].units = RoundUnits(asked'[d], UT)
  <2>1. row'[d] = heldArr[r][d] \/ row'[d] = row[d]
    BY DEF ArrivalSave
  <2>2. row'[d].units = Want(d)
    BY <1>4, <1>5, <2>1
  <2>3. QED
    BY <1>4, <2>2 DEF Want
<1>7. Work(r)' /\ HeldUnits(r)' /\ ~Storing(r)' /\ ~Awaiting(r)'
  BY <1>3 DEF Work, HeldUnits, Storing, Awaiting, Approving
<1>8. QED
  BY <1>1, <1>6, <1>7, StepAlone, OneRuns

\* The update of the colours leaves the units alone.
LEMMA QuietApproveColor ==
  ASSUME IInv, NEW r \in Requests, ApproveColor(r)
  PROVE  QuietInv'
<1> SUFFICES ASSUME quiet' PROVE QuietInv'
  BY DEF QuietInv
<1>1. Step(r)
  BY DEF Step
<1>2. Approving(r) /\ arrival[r] = "none" /\ ~Storing(r) /\ ~Awaiting(r)
  BY <1>1, StepAlone DEF ApproveColor, Work, Storing, Awaiting, Approving
<1>3. main'[r] = "approve shippings" /\ arrival'[r] = "none"
  BY <1>2 DEF ApproveColor, IInv, TypeOK
<1>4. \A d \in Shippings : row[d].units = Want(d) /\ Want(d)' = Want(d)
  BY <1>1, <1>2, StepAlone
<1>5. \A d \in Shippings : held[r][d].units = Want(d)
  BY <1>1, <1>2, StepAlone DEF HeldUnits
<1>6. \A d \in Shippings : held'[r][d].units = Want(d)'
  BY <1>4, <1>5 DEF ApproveColor
<1>7. Work(r)' /\ HeldUnits(r)' /\ ~Storing(r)' /\ ~Awaiting(r)'
  BY <1>3, <1>6 DEF Work, HeldUnits, Storing, Awaiting, Approving
<1>8. \A d \in Shippings : row'[d].units = RoundUnits(asked'[d], UT)
  BY <1>4 DEF ApproveColor, Want
<1>9. QED
  BY <1>1, <1>7, <1>8, StepAlone, OneRuns

\* The save of the approval stores units that were rounded already.
LEMMA QuietApproveShippings ==
  ASSUME IInv, NEW r \in Requests, ApproveShippings(r)
  PROVE  QuietInv'
<1> SUFFICES ASSUME quiet' PROVE QuietInv'
  BY DEF QuietInv
<1>1. Step(r)
  BY DEF Step
<1>2. Approving(r) /\ arrival[r] = "none" /\ ~Storing(r) /\ ~Awaiting(r)
  BY <1>1, StepAlone DEF ApproveShippings, Work, Storing, Awaiting, Approving
<1>3. main'[r] = "idle" /\ arrival'[r] = "none"
  BY <1>2 DEF ApproveShippings, Release, IInv, TypeOK
<1>4. \A d \in Shippings : held[r][d].units = Want(d) /\ Want(d)' = Want(d)
  BY <1>1, <1>2, StepAlone DEF HeldUnits
<1>5. ASSUME NEW d \in Shippings
      PROVE  row'[d].units = RoundUnits(asked'[d], UT)
  <2>1. row[d] \in Row
    BY DEF IInv, TypeOK
  <2>2. row'[d] = [row[d] EXCEPT !.units = held[r][d].units,
                                 !.piName = held[r][d].piName]
    BY DEF ApproveShippings
  <2>3. row'[d].units = held[r][d].units
    BY <2>1, <2>2 DEF Row
  <2>4. QED
    BY <1>4, <2>3 DEF Want
<1>6. Work(r)' /\ HeldUnits(r)' /\ ~Storing(r)' /\ ~Awaiting(r)'
  BY <1>3 DEF Work, HeldUnits, Storing, Awaiting, Approving
<1>7. QED
  BY <1>1, <1>5, <1>6, StepAlone, OneRuns

\* No action of the system breaks the invariant.
THEOREM Invariance == Spec => []IInv
<1>1. Init => IInv
  BY TypeInit, QuietInit DEF IInv
<1>2. IInv /\ [Next]_vars => IInv'
  <2> SUFFICES ASSUME IInv, [Next]_vars PROVE IInv'
    OBVIOUS
  <2>1. TypeOK'
    BY TypeNext DEF IInv
  <2>2. ASSUME NEW r \in Requests, SaveShippingUnits(r) \/ Lose(r)
        PROVE  QuietInv'
    BY <2>2 DEF SaveShippingUnits, Lose, QuietInv
  <2>3. ASSUME UNCHANGED vars PROVE QuietInv'
    <3>1. /\ row' = row /\ main' = main /\ arrival' = arrival /\ held' = held
          /\ picked' = picked /\ heldArr' = heldArr /\ quiet' = quiet
          /\ asked' = asked
      BY <2>3 DEF vars, rowVars, taskVars, ghostVars
    <3>2. /\ Alone' = Alone
          /\ StoredUnits' = StoredUnits
      BY <3>1 DEF Alone, Idle, StoredUnits, Storing, Awaiting, Want
    <3>3. \A r \in Requests : Work(r)' = Work(r) /\ HeldUnits(r)' = HeldUnits(r)
      BY <3>1 DEF Work, HeldUnits, Storing, Awaiting, Approving, Want
    <3>4. QED
      BY <3>1, <3>2, <3>3 DEF IInv, QuietInv
  <2>4. ASSUME NEW r \in Requests, Step(r) PROVE QuietInv'
    BY <2>4, QuietStore, QuietAdjustRead, QuietAdjustSave, QuietArrivalRead, QuietArrivalSave,
      QuietApproveColor, QuietApproveShippings DEF Step
  <2>5. QuietInv'
    BY <2>2, <2>3, <2>4, QuietSaveUnits, QuietSaveSome, QuietGenerate, QuietApproveRead DEF Next
  <2>6. QED
    BY <2>1, <2>5 DEF IInv
<1>3. QED
  BY <1>1, <1>2, PTL DEF Spec

\* Units sent to POST /save-shippings-units (purchase.controller 227-234)
\* while nothing else runs are, when the work is done, stored as sent and
\* rounded, whatever overlapped or was lost before.
THEOREM UnitsKept == Spec => []QuietUnitsKept
<1>1. IInv => QuietUnitsKept
  BY DEF IInv, QuietInv, QuietUnitsKept, StoredUnits, Settled, Idle, Storing, Awaiting, Want
<1>2. QED
  BY <1>1, Invariance, PTL



-----------------------------------------------------------------------------
\* The arrival dates and the piNames.

\* A row without a date has no arrival date.
Dateless(x) == x.date = NoDate => x.arrivalDate = NoDate
Dated(x) == x.arrivalDate = x.date

\* While quiet, the arrival dates a request holds are of the dates stored; and
\* a delivery has the one of its date, unless the only request is to compute
\* them or the last could not.
QuietDates ==
  quiet =>
    /\ \A r \in Requests : arrival[r] = "save" =>
         \A d \in Shippings : heldArr[r][d].date = row[d].date /\ Dated(heldArr[r][d])
    /\ ~undated /\ (\A r \in Requests : arrival[r] = "none" /\ ~Storing(r) /\ ~Awaiting(r)) =>
         \A d \in Shippings : Dated(row[d])

DatelessRows ==
  /\ \A d \in Shippings : Dateless(row[d])
  /\ \A r \in Requests, d \in Shippings : Dateless(held[r][d])

ArrivalInv == DatelessRows /\ QuietDates

\* One request at a time, none lost, and the endpoint that awaits.
OneAtATime ==
  /\ \A r, s \in Requests : r = s
  /\ MaxFaults = 0
  /\ "save-shipping-units" \notin Endpoints

Named(x) == IF approved THEN x.piName = "full" ELSE x.piName # "full"

\* The rows stored, and those the request holds, have the whole piName when the
\* colour has one; those of an approval have it from the start, and are stored
\* after the colour is.
NameInv ==
  /\ (\A r \in Requests : main[r] # "approve shippings") => \A d \in Shippings : Named(row[d])
  /\ \A r \in Requests :
    /\ main[r] \notin {"store", "adjust", "adjust save"}
    /\ main[r] = "idle" \/ arrival[r] = "none"
    /\ main[r] = "approve color" => ~approved
    /\ main[r] = "approve shippings" => approved
    /\ main[r] \in {"awaited store", "awaited adjust save"} =>
         \A d \in Shippings : Named(held[r][d])
    /\ Approving(r) => \A d \in Shippings : held[r][d].piName = "full"
    /\ arrival[r] = "save" => \A d \in Shippings : Named(heldArr[r][d])

-----------------------------------------------------------------------------
\* The rows the handlers make.

LEMMA RowsMade ==
  ASSUME NEW x \in Row
  PROVE  /\ \A u \in Nat, on \in Dates : \A z \in {[x EXCEPT !.units = u, !.date = on]} :
              z.date = on /\ z.piName = x.piName
         /\ \A u \in Nat, n \in PiNames : \A z \in {[x EXCEPT !.units = u, !.piName = n]} :
              z.date = x.date /\ z.arrivalDate = x.arrivalDate /\ z.piName = n
         /\ \A z \in {[x EXCEPT !.arrivalDate = x.date]} :
              z.date = x.date /\ Dated(z) /\ z.piName = x.piName
  BY DEF Row, Dated

\* A row stored is the one held or the one that was there.
LEMMA StoredOver ==
  ASSUME NEW r \in Requests, StoreUnits(r)
  PROVE  \A d \in Shippings : row'[d] = held[r][d] \/ row'[d] = row[d]
<1>1. row' = HeldOver(r) \/ \E skipped : row' = Saving(HeldOver(r), skipped)
  BY DEF StoreUnits
<1>2. QED
  BY <1>1 DEF HeldOver, Saving

\* updateArrivalDates holds each row with the dates computed, or throws.
LEMMA DatesHeld ==
  ASSUME TypeOK, NEW r \in Requests, ArrivalRead(r)
  PROVE  \/ /\ arrival'[r] = "save"
            /\ \A d \in Shippings : heldArr'[r][d] = [row[d] EXCEPT !.arrivalDate = row[d].date]
         \/ (arrival'[r] = "none" /\ undated')
<1>1. CASE /\ heldArr' = [heldArr EXCEPT ![r] =
                [d \in Shippings |-> [row[d] EXCEPT !.arrivalDate = row[d].date]]]
           /\ arrival' = [arrival EXCEPT ![r] = "save"]
  BY <1>1 DEF TypeOK
<1>2. CASE arrival' = [arrival EXCEPT ![r] = "none"] /\ undated'
  BY <1>2 DEF TypeOK
<1>3. QED
  BY <1>1, <1>2 DEF ArrivalRead

\* The units sent, and their date.
LEMMA SentMade ==
  ASSUME TypeOK, NEW sent \in [Shippings -> SaveValues], NEW on \in Dates, NEW d \in Shippings
  PROVE  /\ WithUnits(sent, on)[d].date = on
         /\ WithUnits(sent, on)[d].piName = row[d].piName
<1>1. row[d] \in Row /\ sent[d] \in Nat
  BY DEF TypeOK
<1>2. WithUnits(sent, on)[d] = [row[d] EXCEPT !.units = sent[d], !.date = on]
  BY DEF WithUnits
<1>3. QED
  BY <1>1, <1>2, RowsMade

\* The adjustment keeps the dates, and names a row as the colour is.
LEMMA AdjustMade ==
  ASSUME TypeOK, NEW d \in Shippings
  PROVE  /\ Adjusted[d].date = row[d].date /\ Adjusted[d].arrivalDate = row[d].arrivalDate
         /\ Adjusted[d].piName = AdjustedPiName(row[d].piName)
         /\ Named(row[d]) => Named(Adjusted[d])
<1>1. row[d] \in Row /\ row[d].units \in Nat /\ row[d].piName \in PiNames
  BY DEF TypeOK, Row
<1>2. AdjustedPiName(row[d].piName) \in PiNames
  BY <1>1 DEF AdjustedPiName, PiNames
<1>3. Named(row[d]) => (AdjustedPiName(row[d].piName) = "full" <=> approved)
  BY <1>1 DEF Named, AdjustedPiName, PiNames, NoName
<1>4. Adjusted[d] = [row[d] EXCEPT !.units = AdjustUnits(row[d].units, UT),
                                   !.piName = AdjustedPiName(row[d].piName)]
  BY DEF Adjusted
<1>5. AdjustUnits(row[d].units, UT) \in Nat
  BY <1>1, AdjustedIsNat
<1>6. QED
  BY <1>1, <1>2, <1>3, <1>4, <1>5, RowsMade DEF Named

\* The approval keeps the dates of what it reads, and of what it stores over.
LEMMA ApprovedMade ==
  ASSUME TypeOK, NEW d \in Shippings
  PROVE  /\ \A z \in {[row[d] EXCEPT !.units = RoundUnits(row[d].units, UT), !.piName = "full"]} :
              /\ z.date = row[d].date /\ z.arrivalDate = row[d].arrivalDate
              /\ z.piName = "full"
         /\ \A r \in Requests :
              \A z \in {[row[d] EXCEPT !.units = held[r][d].units, !.piName = held[r][d].piName]} :
                /\ z.date = row[d].date /\ z.arrivalDate = row[d].arrivalDate
                /\ z.piName = held[r][d].piName
<1>1. row[d] \in Row /\ RoundUnits(row[d].units, UT) \in Nat /\ "full" \in PiNames
  BY RoundedIsMultiple DEF TypeOK, Row, PiNames
<1>2. \A r \in Requests : held[r][d].units \in Nat /\ held[r][d].piName \in PiNames
  BY DEF TypeOK, Row
<1>3. QED
  BY <1>1, <1>2, RowsMade

-----------------------------------------------------------------------------
\* The arrival dates.

LEMMA ArrivalInit == Init => ArrivalInv
  BY DEF Init, ArrivalInv, DatelessRows, QuietDates, EmptyRows, Dateless, Dated

\* A row without a date is stored without an arrival date by every handler.
LEMMA DatelessNext ==
  ASSUME TypeOK, DatelessRows, [Next]_vars
  PROVE  DatelessRows'
<1> USE DEF DatelessRows
<1>1. /\ \A d \in Shippings : Dateless(EmptyRows[d])
      /\ \A sent \in [Shippings -> SaveValues], on \in Dates, d \in Shippings :
           Dateless(WithUnits(sent, on)[d])
      /\ \A d \in Shippings : Dateless(Adjusted[d])
  BY SentMade, AdjustMade, DatesAssumption DEF Dateless, EmptyRows
<1>2. ASSUME NEW r \in Requests, Release(r)
      PROVE  \A q \in Requests, d \in Shippings : Dateless(held'[q][d])
  BY <1>1, <1>2 DEF Release, TypeOK
<1>3. ASSUME UNCHANGED row, UNCHANGED held
      PROVE  DatelessRows'
  BY <1>3
<1>4. ASSUME NEW r \in Requests, SaveShippingsUnits(r)
      PROVE  DatelessRows'
  <2>1. UNCHANGED held
    BY <1>4 DEF SaveShippingsUnits
  <2>2. PICK sent \in [Shippings -> SaveValues], on \in Dates, skipped \in SUBSET Shippings :
          row' = Saving(WithUnits(sent, on), skipped)
    BY <1>4 DEF SaveShippingsUnits
  <2>3. \A d \in Shippings : row'[d] = WithUnits(sent, on)[d] \/ row'[d] = row[d]
    BY <2>2 DEF Saving
  <2>4. QED
    BY <1>1, <2>1, <2>3
<1>5. ASSUME NEW r \in Requests, SaveSomeShippings(r) \/ SaveShippingUnits(r)
      PROVE  DatelessRows'
  <2>1. PICK sent \in [Shippings -> SaveValues], on \in Dates :
          held' = [held EXCEPT ![r] = WithUnits(sent, on)]
    BY <1>5 DEF SaveSomeShippings, SaveShippingUnits
  <2>2. UNCHANGED row
    BY <1>5 DEF SaveSomeShippings, SaveShippingUnits, rowVars
  <2>3. QED
    BY <1>1, <2>1, <2>2 DEF TypeOK
<1>6. ASSUME NEW r \in Requests, StoreUnits(r) \/ AdjustSave(r)
      PROVE  DatelessRows'
  <2>1. held' = [held EXCEPT ![r] = EmptyRows]
    BY <1>6 DEF StoreUnits, AdjustSave, AfterAdjust, Release
  <2>2. \A d \in Shippings : row'[d] = held[r][d] \/ row'[d] = row[d]
    BY <1>6, StoredOver DEF AdjustSave, HeldOver
  <2>3. QED
    BY <1>1, <2>1, <2>2 DEF TypeOK
<1>7. ASSUME NEW r \in Requests, AdjustRead(r)
      PROVE  DatelessRows'
  <2>1. UNCHANGED row
    BY <1>7 DEF AdjustRead, rowVars
  <2>2. held' = [held EXCEPT ![r] = EmptyRows] \/ held' = [held EXCEPT ![r] = Adjusted]
    BY <1>7 DEF AdjustRead, AfterAdjust, Release
  <2>3. QED
    BY <1>1, <2>1, <2>2 DEF TypeOK
<1>8. ASSUME NEW r \in Requests, ArrivalSave(r)
      PROVE  DatelessRows'
  BY <1>8 DEF ArrivalSave, Dateless
<1>9. ASSUME NEW r \in Requests, ApproveRead(r)
      PROVE  DatelessRows'
  <2> DEFINE read == [d \in Shippings |->
               [row[d] EXCEPT !.units = RoundUnits(row[d].units, UT), !.piName = "full"]]
  <2>1. held' = [held EXCEPT ![r] = read] /\ UNCHANGED row
    BY <1>9 DEF ApproveRead, rowVars
  <2>2. \A d \in Shippings : Dateless(read[d])
    BY ApprovedMade DEF Dateless
  <2> HIDE DEF read
  <2>3. QED
    BY <2>1, <2>2 DEF TypeOK
<1>10. ASSUME NEW r \in Requests, ApproveShippings(r)
      PROVE  DatelessRows'
  <2>1. \A d \in Shippings : Dateless(row'[d])
    BY <1>10, ApprovedMade DEF ApproveShippings, Dateless
  <2>2. QED
    BY <1>2, <1>10, <2>1 DEF ApproveShippings
<1>11. ASSUME NEW r \in Requests,
              GenerateArrivalDates(r) \/ ArrivalRead(r) \/ ApproveColor(r) \/ Lose(r)
      PROVE  DatelessRows'
  <2>1. UNCHANGED row
    BY <1>11 DEF GenerateArrivalDates, ArrivalRead, ApproveColor, Lose, rowVars
  <2>2. UNCHANGED held \/ Release(r)
    BY <1>11 DEF GenerateArrivalDates, ArrivalRead, ApproveColor, Lose
  <2>3. QED
    BY <1>2, <1>3, <2>1, <2>2
<1>12. CASE UNCHANGED vars
  BY <1>3, <1>12 DEF vars, rowVars, taskVars
<1>13. QED
  BY <1>4, <1>5, <1>6, <1>7, <1>8, <1>9, <1>10, <1>11, <1>12 DEF Next, Step

\* A step of the only request that still has to compute the dates, or has
\* computed them.
LEMMA DatesOfOne ==
  ASSUME NEW r \in Requests,
         \A s \in Requests : s # r => main'[s] = "idle" /\ arrival'[s] = "none",
         arrival'[r] = "save" =>
           \A d \in Shippings : heldArr'[r][d].date = row'[d].date /\ Dated(heldArr'[r][d]),
         ~undated' /\ arrival'[r] = "none" /\ ~Storing(r)' /\ ~Awaiting(r)' =>
           \A d \in Shippings : Dated(row'[d])
  PROVE  QuietDates'
  BY DEF QuietDates

\* A request that begins alone.
LEMMA DatesBegin ==
  ASSUME IInv, ArrivalInv, NEW r \in Requests,
         SaveShippingsUnits(r) \/ SaveSomeShippings(r) \/ GenerateArrivalDates(r) \/ ApproveRead(r)
  PROVE  QuietDates'
<1> SUFFICES ASSUME quiet' PROVE QuietDates'
  BY DEF QuietDates
<1>1. Settled
  BY DEF SaveShippingsUnits, SaveSomeShippings, GenerateArrivalDates, ApproveRead, IInv, TypeOK
<1>2. /\ \A s \in Requests : s # r => main'[s] = "idle" /\ arrival'[s] = "none"
      /\ arrival'[r] # "save"
  BY <1>1 DEF SaveShippingsUnits, SaveSomeShippings, GenerateArrivalDates, ApproveRead, Settled,
     Idle, IInv, TypeOK
<1>3. CASE SaveShippingsUnits(r) \/ SaveSomeShippings(r) \/ GenerateArrivalDates(r)
  <2>1. Storing(r)' \/ Awaiting(r)' \/ arrival'[r] = "read"
    BY <1>3 DEF SaveShippingsUnits, SaveSomeShippings, GenerateArrivalDates, Storing, Awaiting,
       IInv, TypeOK
  <2>2. QED
    BY <1>2, <2>1, DatesOfOne
<1>4. CASE ApproveRead(r)
  <2>1. quiet /\ UNCHANGED <<row, undated>>
    BY <1>4 DEF ApproveRead, rowVars, IInv, TypeOK
  <2>2. ~undated => \A d \in Shippings : Dated(row[d])
    BY <1>1, <2>1 DEF ArrivalInv, QuietDates, Settled, Idle, Storing, Awaiting
  <2>3. QED
    BY <1>2, <2>1, <2>2, DatesOfOne
<1>5. QED
  BY <1>3, <1>4

\* And one at work.
LEMMA DatesStep ==
  ASSUME IInv, ArrivalInv, NEW r \in Requests, Step(r)
  PROVE  QuietDates'
<1> SUFFICES ASSUME quiet' PROVE QuietDates'
  BY DEF QuietDates
<1>1. /\ quiet /\ Work(r)
      /\ \A s \in Requests : s # r => main'[s] = "idle" /\ arrival'[s] = "none"
  BY StepAlone
<1>2. \A s \in Requests : s # r => Idle(s)
  <2>1. ~Idle(r)
    BY DEF Step, StoreUnits, AdjustRead, AdjustSave, ArrivalRead, ArrivalSave, ApproveColor,
       ApproveShippings, Idle
  <2>2. QED
    BY <1>1, <2>1, OthersIdle
<1>3. CASE StoreUnits(r) \/ AdjustRead(r)
  <2>1. main[r] \in {"awaited store", "awaited adjust"} /\ arrival[r] = "none"
    BY <1>1, <1>3 DEF StoreUnits, AdjustRead, Work, Storing, Awaiting, Approving
  <2>2. (Awaiting(r)' /\ arrival'[r] = "none") \/ arrival'[r] = "read"
    BY <1>3, <2>1 DEF StoreUnits, AdjustRead, AfterAdjust, Awaiting, IInv, TypeOK
  <2>3. QED
    BY <1>1, <2>2, DatesOfOne
<1>4. CASE AdjustSave(r)
  <2>1. main[r] = "awaited adjust save"
    BY <1>1, <1>4 DEF AdjustSave, Work, Storing, Awaiting, Approving
  <2>2. arrival'[r] = "read"
    BY <1>4, <2>1 DEF AdjustSave, AfterAdjust, IInv, TypeOK
  <2>3. QED
    BY <1>1, <2>2, DatesOfOne
<1>5. CASE ArrivalRead(r)
  <2>1. (arrival'[r] = "save" \/ (arrival'[r] = "none" /\ undated')) /\ UNCHANGED row
    BY <1>5, DatesHeld DEF ArrivalRead, rowVars, IInv
  <2>2. arrival'[r] = "save" =>
          \A d \in Shippings : heldArr'[r][d] = [row[d] EXCEPT !.arrivalDate = row[d].date]
    BY <1>5, DatesHeld DEF IInv
  <2>3. \A d \in Shippings : row[d] \in Row
    BY DEF IInv, TypeOK
  <2>4. arrival'[r] = "save" =>
          \A d \in Shippings : heldArr'[r][d].date = row[d].date /\ Dated(heldArr'[r][d])
    <3>1. SUFFICES ASSUME NEW d \in Shippings, arrival'[r] = "save"
                   PROVE  heldArr'[r][d].date = row[d].date /\ Dated(heldArr'[r][d])
      OBVIOUS
    <3>2. row[d] \in Row /\ heldArr'[r][d] = [row[d] EXCEPT !.arrivalDate = row[d].date]
      BY <2>2, <2>3, <3>1
    <3>3. QED
      BY <3>2, RowsMade
  <2>5. QED
    BY <1>1, <2>1, <2>4, DatesOfOne
<1>6. CASE ArrivalSave(r)
  <2>1. \A d \in Shippings : heldArr[r][d].date = row[d].date /\ Dated(heldArr[r][d])
    BY <1>1, <1>6 DEF ArrivalSave, ArrivalInv, QuietDates
  <2>2. arrival'[r] = "none"
    BY <1>6 DEF ArrivalSave, IInv, TypeOK
  <2>3. ASSUME ~undated', NEW d \in Shippings PROVE Dated(row'[d])
    <3>1. row'[d] = IF heldArr[r][d].date # NoDate THEN heldArr[r][d] ELSE row[d]
      BY <1>6, <2>3 DEF ArrivalSave
    <3>2. QED
      BY <2>1, <3>1 DEF ArrivalInv, DatelessRows, Dateless, Dated
  <2>4. QED
    BY <1>1, <2>2, <2>3, DatesOfOne
<1>7. CASE ApproveColor(r) \/ ApproveShippings(r)
  <2>1. Approving(r) /\ arrival[r] = "none" /\ UNCHANGED <<arrival, undated>>
    BY <1>1, <1>7 DEF ApproveColor, ApproveShippings, ghostVars, Work, Approving
  <2>2. ~undated => \A d \in Shippings : Dated(row[d])
    BY <1>1, <1>2, <2>1 DEF ArrivalInv, QuietDates, Approving, Idle, Storing, Awaiting
  <2>3. ~undated => \A d \in Shippings : Dated(row'[d])
    <3>1. CASE UNCHANGED row
      BY <2>2, <3>1
    <3>2. CASE ApproveShippings(r)
      BY <2>2, <3>2, ApprovedMade DEF ApproveShippings, Dated, IInv
    <3>3. QED
      BY <1>7, <3>1, <3>2 DEF ApproveColor
  <2>4. QED
    BY <1>1, <2>1, <2>3, DatesOfOne
<1>8. QED
  BY <1>3, <1>4, <1>5, <1>6, <1>7 DEF Step

LEMMA ArrivalNext == IInv /\ ArrivalInv /\ [Next]_vars => ArrivalInv'
<1> SUFFICES ASSUME IInv, ArrivalInv, [Next]_vars PROVE ArrivalInv'
  OBVIOUS
<1>1. DatelessRows'
  BY DatelessNext DEF IInv, ArrivalInv
<1>2. ASSUME NEW r \in Requests, SaveShippingUnits(r) \/ Lose(r) PROVE QuietDates'
  BY <1>2 DEF SaveShippingUnits, Lose, QuietDates
<1>3. CASE UNCHANGED vars
  <2>1. /\ row' = row /\ main' = main /\ arrival' = arrival /\ heldArr' = heldArr
        /\ quiet' = quiet /\ undated' = undated
    BY <1>3 DEF vars, rowVars, taskVars, ghostVars
  <2>2. \A r \in Requests : /\ ~Storing(r)' => ~Storing(r)
                            /\ ~Awaiting(r)' => ~Awaiting(r)
    BY <2>1 DEF Storing, Awaiting
  <2> SUFFICES ASSUME quiet' PROVE QuietDates'
    BY <1>1 DEF ArrivalInv, QuietDates
  <2>3. quiet /\ QuietDates
    BY <2>1 DEF ArrivalInv
  <2>4. \A r \in Requests : arrival'[r] = "save" =>
          \A d \in Shippings : heldArr'[r][d].date = row'[d].date /\ Dated(heldArr'[r][d])
    BY <2>1, <2>3 DEF QuietDates
  <2>5. ASSUME ~undated',
               \A r \in Requests : arrival'[r] = "none" /\ ~Storing(r)' /\ ~Awaiting(r)'
        PROVE  \A d \in Shippings : Dated(row'[d])
    <3>1. \A r \in Requests : arrival[r] = "none" /\ ~Storing(r) /\ ~Awaiting(r)
      BY <2>1, <2>2, <2>5
    <3>2. \A d \in Shippings : Dated(row[d])
      BY <2>1, <2>3, <2>5, <3>1 DEF QuietDates
    <3>3. QED
      BY <2>1, <3>2
  <2>6. QED
    BY <2>4, <2>5 DEF QuietDates
<1>4. QED
  BY <1>1, <1>2, <1>3, DatesBegin, DatesStep DEF Next, ArrivalInv

\* Units sent to POST /save-shippings-units while nothing else runs leave every
\* delivery, when the work is done, with the arrival date of its date, though
\* the adjustment saves whole rows (purchase-style.service 349-364).
THEOREM ArrivalDatesFollow == Spec => []QuietArrival
<1>1. Init => ArrivalInv
  BY ArrivalInit
<1>2. IInv /\ ArrivalInv /\ [Next]_vars => ArrivalInv'
  BY ArrivalNext
<1>3. ArrivalInv => QuietArrival
  BY DEF ArrivalInv, QuietDates, QuietArrival, Dated, Settled, Idle, Storing, Awaiting
<1>4. QED
  BY <1>1, <1>2, <1>3, Invariance, PTL DEF Spec

-----------------------------------------------------------------------------
\* The piNames, with one request at a time.

LEMMA NameInit == Init => NameInv
<1> SUFFICES ASSUME Init PROVE NameInv
  OBVIOUS
<1>1. ~approved /\ \A d \in Shippings : row[d].piName # "full"
  BY DEF Init, EmptyRows, NoName
<1>2. \A r \in Requests : main[r] = "idle" /\ arrival[r] = "none"
  BY DEF Init
<1>3. QED
  BY <1>1, <1>2 DEF NameInv, Named, Approving

\* The rows stored are named as the colour, which does not change.
LEMMA RowsNamed ==
  ASSUME TypeOK, approved' = approved, \A d \in Shippings : Named(row'[d])
  PROVE  \A d \in Shippings : Named(row[d])'
<1>1. CASE approved
  BY <1>1 DEF Named
<1>2. CASE ~approved
  BY <1>2 DEF Named
<1>3. QED
  BY <1>1, <1>2

\* The only request goes from one step to the next.
LEMMA NameBegin ==
  ASSUME OneAtATime, TypeOK, NameInv, NEW r \in Requests,
         \/ SaveShippingsUnits(r) \/ SaveSomeShippings(r) \/ SaveShippingUnits(r)
         \/ GenerateArrivalDates(r) \/ ApproveRead(r)
  PROVE  NameInv'
<1>1. /\ \A q \in Requests : q = r
      /\ main[r] = "idle" /\ arrival[r] = "none" /\ UNCHANGED approved
      /\ \A d \in Shippings : Named(row[d])
  BY DEF OneAtATime, SaveShippingsUnits, SaveSomeShippings, SaveShippingUnits,
     GenerateArrivalDates, ApproveRead, Idle, rowVars, NameInv
<1>2. CASE SaveShippingsUnits(r)
  <2>1. main'[r] = "awaited adjust" /\ arrival'[r] = "none"
    BY <1>1, <1>2 DEF SaveShippingsUnits, TypeOK
  <2>2. \A d \in Shippings : Named(row[d])'
    <3>1. PICK sent \in [Shippings -> SaveValues], on \in Dates, skipped \in SUBSET Shippings :
            row' = Saving(WithUnits(sent, on), skipped)
      BY <1>2 DEF SaveShippingsUnits
    <3>2. \A d \in Shippings : row'[d].piName = row[d].piName
      BY <3>1, SentMade DEF Saving
    <3>3. \A d \in Shippings : Named(row'[d])
      BY <1>1, <3>2 DEF Named
    <3>4. QED
      BY <1>1, <3>3, RowsNamed
  <2>3. QED
    BY <1>1, <2>1, <2>2 DEF NameInv, Named, Approving
<1>3. CASE SaveSomeShippings(r)
  <2>1. PICK sent \in [Shippings -> SaveValues], on \in Dates :
          held' = [held EXCEPT ![r] = WithUnits(sent, on)]
    BY <1>3 DEF SaveSomeShippings
  <2>2. main'[r] = "awaited store" /\ arrival'[r] = "none" /\ UNCHANGED row
    BY <1>1, <1>3 DEF SaveSomeShippings, rowVars, TypeOK
  <2>3. \A d \in Shippings : held'[r][d].piName = row[d].piName
    BY <2>1, SentMade DEF TypeOK
  <2>4. QED
    BY <1>1, <2>2, <2>3 DEF NameInv, Named, Approving
<1>4. CASE SaveShippingUnits(r)
  BY <1>4 DEF SaveShippingUnits, OneAtATime
<1>5. CASE GenerateArrivalDates(r)
  <2>1. main'[r] = "idle" /\ arrival'[r] = "read" /\ UNCHANGED row
    BY <1>1, <1>5 DEF GenerateArrivalDates, rowVars, TypeOK
  <2>2. QED
    BY <1>1, <2>1 DEF NameInv, Named, Approving
<1>6. CASE ApproveRead(r)
  <2>1. main'[r] = "approve color" /\ arrival'[r] = "none" /\ UNCHANGED row /\ ~approved
    BY <1>1, <1>6 DEF ApproveRead, rowVars, TypeOK
  <2>2. \A d \in Shippings : held'[r][d] =
          [row[d] EXCEPT !.units = RoundUnits(row[d].units, UT), !.piName = "full"]
    BY <1>6 DEF ApproveRead, TypeOK
  <2>3. \A d \in Shippings : held'[r][d].piName = "full"
    BY <2>2, ApprovedMade
  <2>4. QED
    BY <1>1, <2>1, <2>3 DEF NameInv, Named, Approving
<1>7. QED
  BY <1>2, <1>3, <1>4, <1>5, <1>6

LEMMA NameStep ==
  ASSUME OneAtATime, TypeOK, NameInv, NEW r \in Requests, Step(r)
  PROVE  NameInv'
<1>1. /\ \A q \in Requests : q = r
      /\ main[r] \notin {"store", "adjust", "adjust save"}
      /\ main[r] = "idle" \/ arrival[r] = "none"
      /\ main[r] # "approve shippings" => \A d \in Shippings : Named(row[d])
  BY DEF OneAtATime, NameInv
<1>2. CASE StoreUnits(r)
  <2>1. main[r] = "awaited store" /\ arrival[r] = "none"
    BY <1>1, <1>2 DEF StoreUnits
  <2>2. main'[r] = "awaited adjust" /\ arrival'[r] = "none" /\ UNCHANGED approved
    BY <1>2, <2>1 DEF StoreUnits, TypeOK
  <2>3. \A d \in Shippings : Named(row[d])'
    <3>1. \A d \in Shippings : Named(held[r][d]) /\ Named(row[d])
      BY <1>1, <2>1 DEF NameInv
    <3>2. \A d \in Shippings : row'[d] = held[r][d] \/ row'[d] = row[d]
      BY <1>2, StoredOver
    <3>3. \A d \in Shippings : Named(row'[d])
      BY <3>1, <3>2
    <3>4. QED
      BY <2>2, <3>3, RowsNamed
  <2>4. QED
    BY <1>1, <2>2, <2>3 DEF NameInv, Approving
<1>3. CASE AdjustRead(r)
  <2>1. main[r] = "awaited adjust" /\ arrival[r] = "none" /\ UNCHANGED <<row, approved>>
    BY <1>1, <1>3 DEF AdjustRead, rowVars
  <2>2. CASE AfterAdjust(r)
    <3>1. main'[r] = "idle" /\ arrival'[r] = "read"
      BY <2>1, <2>2 DEF AfterAdjust, Release, TypeOK
    <3>2. QED
      BY <1>1, <2>1, <3>1 DEF NameInv, Named, Approving
  <2>3. CASE /\ held' = [held EXCEPT ![r] = Adjusted]
             /\ main' = [main EXCEPT ![r] =
                  IF main[r] = "adjust" THEN "adjust save" ELSE "awaited adjust save"]
             /\ UNCHANGED arrival
    <3>1. main'[r] = "awaited adjust save" /\ arrival'[r] = "none" /\ held'[r] = Adjusted
      BY <2>1, <2>3 DEF TypeOK
    <3>2. \A d \in Shippings : Named(held'[r][d])
      BY <1>1, <2>1, <3>1, AdjustMade
    <3>3. approved' = approved /\ \A d \in Shippings : Named(row[d])' /\ Named(held[r][d])'
      BY <1>1, <2>1, <3>2 DEF Named
    <3>4. QED
      BY <1>1, <2>1, <3>1, <3>3 DEF NameInv, Approving
  <2>4. QED
    BY <1>3, <2>2, <2>3 DEF AdjustRead
<1>4. CASE AdjustSave(r)
  <2>1. main[r] = "awaited adjust save" /\ UNCHANGED approved
    BY <1>1, <1>4 DEF AdjustSave
  <2>2. main'[r] = "idle" /\ arrival'[r] = "read"
    BY <1>4, <2>1 DEF AdjustSave, AfterAdjust, Release, TypeOK
  <2>3. \A d \in Shippings : Named(row[d])'
    <3>1. \A d \in Shippings : Named(held[r][d]) /\ Named(row[d])
      BY <1>1, <2>1 DEF NameInv
    <3>2. \A d \in Shippings : row'[d] = held[r][d] \/ row'[d] = row[d]
      BY <1>4 DEF AdjustSave, HeldOver
    <3>3. \A d \in Shippings : Named(row'[d])
      BY <3>1, <3>2
    <3>4. QED
      BY <2>1, <3>3, RowsNamed
  <2>4. QED
    BY <1>1, <2>2, <2>3 DEF NameInv, Approving
<1>5. CASE ArrivalRead(r)
  <2>1. main[r] = "idle" /\ UNCHANGED <<row, approved, main>>
    BY <1>1, <1>5 DEF ArrivalRead, rowVars, TypeOK
  <2>2. arrival'[r] = "save" =>
          \A d \in Shippings : heldArr'[r][d] = [row[d] EXCEPT !.arrivalDate = row[d].date]
    BY <1>5, DatesHeld
  <2>3. arrival'[r] = "save" => \A d \in Shippings : heldArr'[r][d].piName = row[d].piName
    BY <2>2, RowsMade DEF TypeOK
  <2>4. QED
    BY <1>1, <2>1, <2>3 DEF NameInv, Named, Approving
<1>6. CASE ArrivalSave(r)
  <2>1. main[r] = "idle" /\ UNCHANGED <<approved, main>> /\ arrival'[r] = "none"
    BY <1>1, <1>6 DEF ArrivalSave, TypeOK
  <2>2. \A d \in Shippings : Named(row[d])'
    <3>1. \A d \in Shippings : Named(heldArr[r][d]) /\ Named(row[d])
      BY <1>1, <1>6, <2>1 DEF ArrivalSave, NameInv
    <3>2. \A d \in Shippings : row'[d] = heldArr[r][d] \/ row'[d] = row[d]
      BY <1>6 DEF ArrivalSave
    <3>3. \A d \in Shippings : Named(row'[d])
      BY <3>1, <3>2
    <3>4. QED
      BY <2>1, <3>3, RowsNamed
  <2>3. QED
    BY <1>1, <2>1, <2>2 DEF NameInv, Approving
<1>7. CASE ApproveColor(r)
  <2>1. /\ main'[r] = "approve shippings" /\ arrival'[r] = "none" /\ approved'
        /\ UNCHANGED held
    BY <1>1, <1>7 DEF ApproveColor, TypeOK
  <2>2. \A d \in Shippings : held[r][d].piName = "full"
    BY <1>7 DEF ApproveColor, NameInv, Approving
  <2>3. QED
    BY <1>1, <2>1, <2>2 DEF NameInv
<1>8. CASE ApproveShippings(r)
  <2>1. /\ main'[r] = "idle" /\ arrival'[r] = "none" /\ approved' = approved /\ approved
        /\ \A d \in Shippings : held[r][d].piName = "full"
    BY <1>1, <1>8 DEF ApproveShippings, Release, NameInv, Approving, TypeOK
  <2>2. \A d \in Shippings : row'[d].piName = held[r][d].piName
    BY <1>8, ApprovedMade DEF ApproveShippings
  <2>3. QED
    BY <1>1, <2>1, <2>2 DEF NameInv, Named, Approving
<1>9. QED
  BY <1>2, <1>3, <1>4, <1>5, <1>6, <1>7, <1>8 DEF Step

\* With one request at a time, none lost, and the endpoint that awaits the
\* adjustment, the deliveries of an approved colour have its whole piName and
\* the others never do (purchase.controller 227-234, purchase-style.service
\* 349-364).
THEOREM PiNamesFollow ==
  ASSUME OneAtATime
  PROVE  Spec => []PiNameWhenSettled
<1>1. Init => TypeOK /\ NameInv
  BY TypeInit, NameInit
<1>2. TypeOK /\ NameInv /\ [Next]_vars => (TypeOK /\ NameInv)'
  <2> SUFFICES ASSUME TypeOK, NameInv, [Next]_vars PROVE TypeOK' /\ NameInv'
    OBVIOUS
  <2>1. ASSUME NEW r \in Requests, Lose(r) PROVE NameInv'
    BY <2>1 DEF Lose, OneAtATime, TypeOK
  <2>2. CASE UNCHANGED vars
    <3>1. /\ row' = row /\ approved' = approved /\ main' = main /\ arrival' = arrival
          /\ held' = held /\ heldArr' = heldArr
      BY <2>2 DEF vars, rowVars, taskVars
    <3>2. \A d \in Shippings : Named(row[d]) => Named(row[d])'
      BY <3>1 DEF Named
    <3>3. \A r \in Requests, d \in Shippings :
            /\ Named(held[r][d]) => Named(held[r][d])'
            /\ Named(heldArr[r][d]) => Named(heldArr[r][d])'
      BY <3>1 DEF Named
    <3>4. \A r \in Requests : Approving(r)' => Approving(r)
      BY <3>1 DEF Approving
    <3>5. ASSUME \A r \in Requests : main'[r] # "approve shippings"
          PROVE  \A d \in Shippings : Named(row[d])'
      BY <3>1, <3>2, <3>5 DEF NameInv
    <3>6. ASSUME NEW r \in Requests
          PROVE  /\ main'[r] \notin {"store", "adjust", "adjust save"}
                 /\ main'[r] = "idle" \/ arrival'[r] = "none"
                 /\ main'[r] = "approve color" => ~approved'
                 /\ main'[r] = "approve shippings" => approved'
      BY <3>1, <3>6 DEF NameInv
    <3>7. ASSUME NEW r \in Requests
          PROVE  /\ main'[r] \in {"awaited store", "awaited adjust save"} =>
                      \A d \in Shippings : Named(held[r][d])'
                 /\ Approving(r)' => \A d \in Shippings : held'[r][d].piName = "full"
                 /\ arrival'[r] = "save" => \A d \in Shippings : Named(heldArr[r][d])'
      BY <3>1, <3>3, <3>4, <3>7 DEF NameInv
    <3>8. QED
      BY <3>5, <3>6, <3>7, TypeNext DEF NameInv
  <2>3. QED
    BY <2>1, <2>2, TypeNext, NameBegin, NameStep DEF Next
<1>3. TypeOK /\ NameInv => PiNameWhenSettled
  <2> SUFFICES ASSUME TypeOK, NameInv, Settled, NEW d \in Shippings
               PROVE  row[d].piName = "full" <=> approved
    BY DEF PiNameWhenSettled
  <2>1. Named(row[d])
    BY DEF NameInv, Settled, Idle
  <2>2. QED
    BY <2>1 DEF Named, TypeOK
<1>4. QED
  BY <1>1, <1>2, <1>3, PTL DEF Spec
=============================================================================
