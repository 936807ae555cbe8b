----------------------------- MODULE SaleProofs -----------------------------
(***************************************************************************)
(* What is proved of the sale, for all shoppers, tills, products and stocks: *)
(* its state keeps its type, every unit of stock is accounted for, and       *)
(* nobody is charged for more than was chosen. The sale only changes in the  *)
(* steps of ShopStep; whatever else the storefront does leaves it alone.     *)
(***************************************************************************)
EXTENDS StorefrontProofs, FiniteSetTheorems, WellFoundedInduction

-----------------------------------------------------------------------------
(* Sums, which Functions folds over sets: induction over sets is out of reach *)
(* of the provers here, so a least set without the wanted sum is refuted.   *)

(* How a sum over S is built up. *)
Chosen(s) == CHOOSE x \in s : TRUE
Builds(g, f, S) ==
  g = [s \in SUBSET S |-> IF s = {} THEN 0 ELSE f[Chosen(s)] + g[s \ {Chosen(s)}]]

(* The folds of Functions sum up that way. *)
LEMMA SumBuilt == \A f, S : SumFunctionOnSet(f, S) = (CHOOSE g : Builds(g, f, S))[S]
BY Zenon DEF SumFunctionOnSet, FoldFunctionOnSet, MapThenFoldSet, Builds, Chosen

(* A set of sizes has a least one *)
LEMMA Smallest ==
  ASSUME NEW X, X # {}, \A s \in X : IsFiniteSet(s)
  PROVE  \E s \in X : \A r \in X : Cardinality(s) <= Cardinality(r)
<1> DEFINE N == {Cardinality(s) : s \in X}
<1>1. N \subseteq Nat /\ N # {}
  BY FS_CardinalityType
<1>2. \E m \in N : \A n \in N : ~(<<n, m>> \in OpToRel(<, Nat))
  <2> HIDE DEF N
  <2> QED
    BY <1>1, NatLessThanWellFounded, WFMin
<1>3. PICK m \in N : \A n \in N : ~(n < m)
  BY <1>1, <1>2 DEF OpToRel
<1>4. PICK s \in X : m = Cardinality(s)
  BY <1>3
<1>5. \A r \in X : Cardinality(r) \in Nat /\ ~(Cardinality(r) < m)
  BY <1>1, <1>3
<1> QED
  BY <1>4, <1>5

(* What is left of a nonempty subset of a finite set once an element is out. *)
LEMMA Smaller ==
  ASSUME NEW S, IsFiniteSet(S), NEW s \in SUBSET S, s # {}, NEW x \in s
  PROVE  /\ s \ {x} \in SUBSET S /\ IsFiniteSet(s) /\ IsFiniteSet(s \ {x})
         /\ Cardinality(s) \in Nat /\ Cardinality(s \ {x}) \in Nat
         /\ Cardinality(s \ {x}) < Cardinality(s)
<1>1. IsFiniteSet(s)
  BY FS_Subset
<1>2. IsFiniteSet(s \ {x}) /\ Cardinality(s \ {x}) = Cardinality(s) - 1
  BY <1>1, FS_RemoveElement
<1> QED
  BY <1>1, <1>2, FS_CardinalityType

(* Two sums of the same summands are built alike, over whatever sets. *)
LEMMA BuiltAlike ==
  ASSUME NEW f, NEW g, NEW S, NEW T, NEW i, NEW j, IsFiniteSet(S), IsFiniteSet(T),
         Builds(i, f, S), Builds(j, g, T),
         NEW U, U \subseteq S, U \subseteq T, \A x \in U : f[x] = g[x]
  PROVE  i[U] = j[U]
<1> DEFINE X == {s \in SUBSET U : i[s] # j[s]}
<1> SUFFICES ASSUME X # {} PROVE FALSE
  OBVIOUS
<1>1. \A s \in SUBSET U : IsFiniteSet(s)
  BY FS_Subset
<1>2. PICK s \in X : \A r \in X : Cardinality(s) <= Cardinality(r)
  <2>1. \A r \in X : IsFiniteSet(r)
    BY <1>1
  <2> HIDE DEF X
  <2> QED
    BY <2>1, Smallest
<1>3. s \in SUBSET S /\ s \in SUBSET T /\ s \in SUBSET U /\ i[s] # j[s]
  BY <1>2
<1>4. /\ i[s] = IF s = {} THEN 0 ELSE f[Chosen(s)] + i[s \ {Chosen(s)}]
      /\ j[s] = IF s = {} THEN 0 ELSE g[Chosen(s)] + j[s \ {Chosen(s)}]
  BY <1>3 DEF Builds
<1>5. s # {} /\ Chosen(s) \in s
  BY <1>3, <1>4 DEF Chosen
<1>6. PICK c \in s : c = Chosen(s)
  BY <1>5
<1>7. i[s \ {c}] # j[s \ {c}]
  BY <1>3, <1>4, <1>5, <1>6
<1>8. s \ {c} \in X
  BY <1>3, <1>7
<1>9. /\ Cardinality(s) \in Nat /\ Cardinality(s \ {c}) \in Nat
      /\ Cardinality(s \ {c}) < Cardinality(s)
  BY <1>3, <1>5, Smaller
<1> QED
  BY <1>2, <1>8, <1>9

(* There is such a sum: a smallest set without one would have one. *)
LEMMA SomeBuilds ==
  ASSUME NEW f, NEW S, IsFiniteSet(S)
  PROVE  \E g : Builds(g, f, S)
<1> DEFINE Upto(n) == {s \in SUBSET S : Cardinality(s) <= n}
           Part(g, n) == g = [s \in Upto(n) |-> IF s = {} THEN 0
                                ELSE f[Chosen(s)] + g[s \ {Chosen(s)}]]
           Bad == {n \in Nat : ~\E g : Part(g, n)}
<1>0. \A s \in SUBSET S : Cardinality(s) \in Nat /\ IsFiniteSet(s)
  BY FS_Subset, FS_CardinalityType
<1>1. Bad = {}
  <2> SUFFICES ASSUME Bad # {} PROVE FALSE
    OBVIOUS
  <2>1. PICK n \in Bad : \A m \in Bad : ~(m < n)
    <3>1. Bad \subseteq Nat
      OBVIOUS
    <3> HIDE DEF Bad
    <3>2. \E n \in Bad : \A m \in Bad : ~(<<m, n>> \in OpToRel(<, Nat))
      BY <3>1, NatLessThanWellFounded, WFMin
    <3> QED
      BY <3>1, <3>2 DEF OpToRel
  <2>2. n \in Nat /\ ~\E g : Part(g, n)
    OBVIOUS
  <2>3. CASE n = 0
    <3> DEFINE z == [s \in Upto(0) |-> 0]
    <3>1. \A s \in Upto(0) : s = {}
      BY <1>0, FS_EmptySet
    <3>2. z = [s \in Upto(0) |-> IF s = {} THEN 0 ELSE f[Chosen(s)] + z[s \ {Chosen(s)}]]
      BY <3>1
    <3> QED
      BY <2>2, <2>3, <3>2
  <2>4. CASE n # 0
    <3>0. n - 1 \in Nat /\ n - 1 < n
      BY <2>2, <2>4
    <3>1. n - 1 \in Nat /\ n - 1 \notin Bad
      <4> HIDE DEF Bad
      <4> QED
        BY <2>1, <3>0
    <3>2. PICK g : Part(g, n - 1)
      BY <3>1
    <3> DEFINE h == [s \in Upto(n) |-> IF s = {} THEN 0
                                         ELSE f[Chosen(s)] + g[s \ {Chosen(s)}]]
    <3>3. ASSUME NEW s \in Upto(n), s # {}
          PROVE  s \ {Chosen(s)} \in Upto(n - 1) /\ s \ {Chosen(s)} \in Upto(n)
      <4>1. PICK c \in s : c = Chosen(s)
        BY <3>3 DEF Chosen
      <4>2. /\ s \ {c} \in SUBSET S /\ Cardinality(s) \in Nat /\ Cardinality(s \ {c}) \in Nat
            /\ Cardinality(s \ {c}) < Cardinality(s)
        BY <3>3, <4>1, Smaller
      <4> QED
        BY <2>2, <3>1, <4>1, <4>2
    <3>4. \A s \in Upto(n - 1) : g[s] = h[s]
      <4> TAKE s \in Upto(n - 1)
      <4>1. s \in Upto(n)
        BY <1>0, <2>2
      <4>2. g[s] = IF s = {} THEN 0 ELSE f[Chosen(s)] + g[s \ {Chosen(s)}]
        BY <3>2
      <4> QED
        BY <4>1, <4>2
    <3>5. \A s \in Upto(n) : h[s] = IF s = {} THEN 0 ELSE f[Chosen(s)] + h[s \ {Chosen(s)}]
      BY <3>3, <3>4
    <3>6. h = [s \in Upto(n) |-> h[s]]
      OBVIOUS
    <3> HIDE DEF h, Upto
    <3>7. Part(h, n)
      BY <3>5, <3>6
    <3> QED
      BY <2>2, <3>7
  <2> QED
    BY <2>3, <2>4
<1>2. Cardinality(S) \in Nat
  BY FS_CardinalityType
<1>3. PICK g : Part(g, Cardinality(S))
  BY <1>1, <1>2
<1>4. Upto(Cardinality(S)) = SUBSET S
  BY FS_Subset
<1> QED
  BY <1>3, <1>4 DEF Builds

(* A sum over a finite set is its first summand and the sum of the others. *)
LEMMA SumUnfolds ==
  ASSUME NEW f, NEW S, IsFiniteSet(S)
  PROVE  SumFunctionOnSet(f, S) =
           IF S = {} THEN 0 ELSE f[Chosen(S)] + SumFunctionOnSet(f, S \ {Chosen(S)})
<1>1. PICK g : Builds(g, f, S) /\ SumFunctionOnSet(f, S) = g[S]
  BY SomeBuilds, SumBuilt
<1>2. g[S] = IF S = {} THEN 0 ELSE f[Chosen(S)] + g[S \ {Chosen(S)}]
  BY <1>1 DEF Builds
<1>3. ASSUME S # {}
      PROVE  SumFunctionOnSet(f, S \ {Chosen(S)}) = g[S \ {Chosen(S)}]
  <2>1. PICK T : T = S \ {Chosen(S)}
    OBVIOUS
  <2>2. T \subseteq S /\ IsFiniteSet(T)
    BY <2>1, FS_RemoveElement
  <2>3. PICK h : Builds(h, f, T) /\ SumFunctionOnSet(f, T) = h[T]
    BY <2>2, SomeBuilds, SumBuilt
  <2>4. h[T] = g[T]
    BY <1>1, <2>2, <2>3, BuiltAlike
  <2> QED
    BY <2>1, <2>3, <2>4
<1> QED
  BY <1>1, <1>2, <1>3

(* Equal summands have equal sums. *)
LEMMA SumAlike ==
  ASSUME NEW f, NEW g, NEW S, IsFiniteSet(S), \A x \in S : f[x] = g[x]
  PROVE  SumFunctionOnSet(f, S) = SumFunctionOnSet(g, S)
<1>1. PICK i : Builds(i, f, S) /\ SumFunctionOnSet(f, S) = i[S]
  BY SomeBuilds, SumBuilt
<1>2. PICK j : Builds(j, g, S) /\ SumFunctionOnSet(g, S) = j[S]
  BY SomeBuilds, SumBuilt
<1> QED
  BY <1>1, <1>2, BuiltAlike

(* Whatever element is taken out first. *)
LEMMA SumWithout ==
  ASSUME NEW f, NEW S, IsFiniteSet(S), \A x \in S : f[x] \in Nat
  PROVE  /\ SumFunctionOnSet(f, S) \in Nat
         /\ \A x \in S : SumFunctionOnSet(f, S) = f[x] + SumFunctionOnSet(f, S \ {x})
<1> DEFINE Sum(s) == SumFunctionOnSet(f, s)
           Good(s) == Sum(s) \in Nat /\ \A x \in s : Sum(s) = f[x] + Sum(s \ {x})
           X == {s \in SUBSET S : ~Good(s)}
<1> SUFFICES ASSUME X # {} PROVE FALSE
  OBVIOUS
<1>1. \A s \in SUBSET S : IsFiniteSet(s) /\ Cardinality(s) \in Nat
  BY FS_Subset, FS_CardinalityType
<1>2. PICK s \in X : \A r \in X : Cardinality(s) <= Cardinality(r)
  <2>1. \A r \in X : IsFiniteSet(r)
    BY <1>1
  <2> HIDE DEF X
  <2> QED
    BY <2>1, Smallest
<1>3. s \in SUBSET S /\ IsFiniteSet(s) /\ ~Good(s)
  BY <1>1, <1>2
<1>4. \A r : r \in SUBSET S /\ Cardinality(r) < Cardinality(s) => Good(r)
  <2> SUFFICES ASSUME NEW r \in SUBSET S, Cardinality(r) < Cardinality(s), ~Good(r)
               PROVE  FALSE
    OBVIOUS
  <2>1. r \in X
    OBVIOUS
  <2>2. Cardinality(s) <= Cardinality(r)
    BY <1>2, <2>1
  <2> QED
    BY <1>1, <1>3, <2>2
<1>5. \A x \in s : s \ {x} \in SUBSET S /\ Good(s \ {x})
  <2> TAKE x \in s
  <2>1. s \ {x} \in SUBSET S /\ Cardinality(s \ {x}) < Cardinality(s)
    BY <1>3, Smaller
  <2> HIDE DEF Good
  <2> QED
    BY <1>4, <2>1
<1>6. CASE s = {}
  <2>1. Sum(s) = 0
    BY <1>3, <1>6, SumUnfolds
  <2> QED
    BY <1>3, <1>6, <2>1
<1>7. CASE s # {}
  <2>1. PICK c \in s : c = Chosen(s)
    BY <1>7 DEF Chosen
  <2>2. Sum(s) = f[c] + Sum(s \ {c})
    BY <1>3, <1>7, <2>1, SumUnfolds
  <2>3. Sum(s) \in Nat
    BY <1>3, <1>5, <2>1, <2>2
  <2>4. ASSUME NEW x \in s, x # c
        PROVE  Sum(s) = f[x] + Sum(s \ {x})
    <3>1. (s \ {c}) \ {x} = (s \ {x}) \ {c}
      OBVIOUS
    <3>2. Sum(s \ {c}) = f[x] + Sum((s \ {c}) \ {x})
      BY <1>5, <2>4
    <3>3. Sum(s \ {x}) = f[c] + Sum((s \ {x}) \ {c})
      BY <1>5, <2>4
    <3>4. PICK r : r = (s \ {c}) \ {x}
      OBVIOUS
    <3>5. Sum(r) \in Nat /\ f[c] \in Nat /\ f[x] \in Nat
      <4>1. r \in SUBSET S /\ Cardinality(r) < Cardinality(s)
        <5>1. Cardinality(s \ {c}) < Cardinality(s) /\ s \ {c} \in SUBSET S
          BY <1>3, Smaller
        <5>2. Cardinality((s \ {c}) \ {x}) < Cardinality(s \ {c})
          <6>1. x \in s \ {c} /\ s \ {c} # {}
            BY <2>4
          <6> QED
            BY <5>1, <6>1, Smaller
        <5>3. r \in SUBSET S
          BY <1>3, <3>4
        <5> QED
          BY <1>1, <1>3, <3>4, <5>1, <5>2, <5>3
      <4> QED
        BY <1>3, <1>4, <4>1
    <3>6. Sum(s \ {c}) = f[x] + Sum(r) /\ Sum(s \ {x}) = f[c] + Sum(r)
      BY <3>1, <3>2, <3>3, <3>4
    <3> HIDE DEF Sum
    <3> QED
      BY <2>2, <3>5, <3>6
  <2> QED
    BY <1>3, <2>2, <2>3, <2>4
<1> QED
  BY <1>6, <1>7

(* Sums of functions. *)
LEMMA SumOfNothing == \A f : DOMAIN f = {} => SumFunction(f) = 0
<1> SUFFICES ASSUME NEW f, DOMAIN f = {}
             PROVE  SumFunction(f) = 0
  OBVIOUS
<1>1. IsFiniteSet({})
  BY FS_EmptySet
<1> QED
  BY <1>1, SumUnfolds DEF SumFunction

(* A summand more. *)
LEMMA SumGrows ==
  \A S, T, x, f, g :
    /\ IsFiniteSet(S) /\ x \notin S /\ T = S \cup {x}
    /\ f \in [S -> Nat] /\ g \in [T -> Nat] /\ \A y \in S : g[y] = f[y]
    => SumFunction(f) \in Nat /\ SumFunction(g) = g[x] + SumFunction(f)
<1> TAKE S, T, x, f, g
<1> SUFFICES ASSUME IsFiniteSet(S), x \notin S, T = S \cup {x},
                    f \in [S -> Nat], g \in [T -> Nat], \A y \in S : g[y] = f[y]
             PROVE  SumFunction(f) \in Nat /\ SumFunction(g) = g[x] + SumFunction(f)
  OBVIOUS
<1>1. IsFiniteSet(T) /\ x \in T /\ T \ {x} = S
  BY FS_AddElement
<1>2. SumFunctionOnSet(g, T) = g[x] + SumFunctionOnSet(g, T \ {x})
  BY <1>1, SumWithout
<1>3. SumFunctionOnSet(g, S) = SumFunctionOnSet(f, S)
  BY SumAlike
<1>4. SumFunctionOnSet(f, S) \in Nat
  BY SumWithout
<1>5. SumFunction(g) = SumFunctionOnSet(g, T) /\ SumFunction(f) = SumFunctionOnSet(f, S)
  BY DEF SumFunction
<1>6. SumFunctionOnSet(g, T) = g[x] + SumFunctionOnSet(f, S)
  BY <1>1, <1>2, <1>3, Zenon
<1> QED
  BY <1>4, <1>5, <1>6, Zenon

(* Sums of numbers are numbers, and none is smaller than a summand. *)
LEMMA SumBounds ==
  ASSUME NEW S, IsFiniteSet(S), NEW f \in [S -> Nat]
  PROVE  SumFunction(f) \in Nat /\ \A x \in S : f[x] <= SumFunction(f)
<1>1. /\ SumFunctionOnSet(f, S) \in Nat
      /\ \A x \in S : SumFunctionOnSet(f, S) = f[x] + SumFunctionOnSet(f, S \ {x})
  BY SumWithout
<1>2. ASSUME NEW x \in S
      PROVE  SumFunctionOnSet(f, S \ {x}) \in Nat
  <2>1. IsFiniteSet(S \ {x})
    BY FS_RemoveElement
  <2> QED
    BY <2>1, SumWithout
<1>3. SumFunction(f) = SumFunctionOnSet(f, S)
  BY DEF SumFunction
<1>4. ASSUME NEW x \in S
      PROVE  f[x] <= SumFunctionOnSet(f, S)
  <2>1. PICK m \in Nat : m = SumFunctionOnSet(f, S \ {x})
    BY <1>2
  <2>2. SumFunctionOnSet(f, S) = f[x] + m /\ f[x] \in Nat
    BY <1>1, <2>1
  <2> QED
    BY <2>1, <2>2
<1> QED
  BY <1>1, <1>3, <1>4

-----------------------------------------------------------------------------
(* What the sale keeps. *)

(* The tills that wait for an answer to b, and those b no longer listens to. *)
Open == {t \in Tills : checkout[t].at = "TAKING"}
Pending(b) == {t \in Tills : checkout[t].shopper = b}
Unheard(b) == {t \in Tills : checkout[t].shopper = b /\ checkout[t].browser # b}

(* The units of p at the tills of S. *)
Units(c, S, p) == SumFunction([t \in S |-> c[t].items[p]])

(* The part of TypeOK that shopping keeps. *)
SaleTyped ==
  /\ listed \subseteq Products
  /\ stock \in [Products -> Int]
  /\ cart \in [Browsers -> [Products -> 0..MaxUnits]]
  /\ seen \in [Browsers -> [Products -> Int]]
  /\ checkout \in [Tills ->
       [at : {"CLOSED", "TAKING"}, shopper : Browsers \cup {"none"},
        browser : Browsers \cup {"none"}, items : [Products -> 0..MaxUnits],
        left : SUBSET Products]]
  /\ orders \subseteq [id : 1..MaxOrders, shopper : Browsers,
                       items : [Products -> 0..MaxUnits]]
  /\ begun \in 0..MaxOrders
  /\ edits \in 0..MaxEdits
  /\ shelved \in [Products -> [units : Int, taken : Nat]]
  /\ abandoned \in [Products -> Nat]
  /\ chosen \in [Browsers -> [Products -> 0..MaxUnits]]
  /\ unsure \subseteq Browsers

(* A till is closed, or takes for a shopper whose page may have been left. *)
TillsAreSound ==
  \A t \in Tills :
    /\ checkout[t].at = "CLOSED" => checkout[t] = Closed
    /\ checkout[t].at = "TAKING" =>
         /\ checkout[t].shopper \in Browsers
         /\ checkout[t].browser \in {checkout[t].shopper, "none"}

(* Orders are numbered as they come, one for each checkout at most. *)
OrdersAreNumbered ==
  /\ IsFiniteSet(orders)
  /\ \A o \in orders : o.id <= Cardinality(orders)
  /\ Cardinality(orders) + Cardinality(Open) <= begun

(* Nothing is in a cart that was not put there. *)
CartsAreChosen == \A b \in Browsers, p \in Products : cart[b][p] <= chosen[b][p]

(* What every step of the storefront keeps of its sale. *)
SaleInv == SaleTyped /\ TillsAreSound /\ OrdersAreNumbered /\ CartsAreChosen

(* What is not in the table was never seen, chosen or taken. *)
UnlistedIsUntouched ==
  \A p \in Products \ listed :
    /\ stock[p] = 0 /\ shelved[p] = [units |-> 0, taken |-> 0] /\ Taken(p) = 0
    /\ \A b \in Browsers : seen[b][p] = 0 /\ cart[b][p] = 0
    /\ \A t \in Tills : checkout[t].items[p] = 0

(* A till has still to take only what somebody wants of. *)
LeftIsWanted == \A t \in Tills : \A p \in checkout[t].left : checkout[t].items[p] > 0

(* With a browser that is sure, one page at most waits for an answer; what it *)
(* ordered, what is being ordered for it and what is in its cart was chosen,  *)
(* where the cart counts only once while it is being ordered.                 *)
ChargesInv ==
  \A b \in Browsers \ unsure :
    /\ \A t, u \in Tills : checkout[t].browser = b /\ checkout[u].browser = b => t = u
    /\ \A p \in Products :
         /\ OrderedBy(b, p) + Units(checkout, Pending(b), p) <= chosen[b][p]
         /\ OrderedBy(b, p) + Units(checkout, Unheard(b), p) + cart[b][p] <= chosen[b][p]

-----------------------------------------------------------------------------
(* Counting and summing up tills and orders. *)

(* Counting finite sets. *)
LEMMA Counting ==
  \A U, x : IsFiniteSet(U) =>
    /\ Cardinality(U) \in Nat
    /\ IsFiniteSet(U \cup {x}) /\ (x \notin U => Cardinality(U \cup {x}) = Cardinality(U) + 1)
    /\ IsFiniteSet(U \ {x}) /\ (x \in U => Cardinality(U \ {x}) = Cardinality(U) - 1)
BY FS_AddElement, FS_RemoveElement, FS_CardinalityType

(* Parts of finite sets are finite. *)
LEMMA FiniteParts == \A U, V : IsFiniteSet(U) /\ V \subseteq U => IsFiniteSet(V)
BY FS_Subset

(* Nothing counts for nothing. *)
LEMMA EmptyCounts == IsFiniteSet({}) /\ Cardinality({}) = 0
BY FS_EmptySet

(* Sums over tills and over orders. *)
LEMMA UnitsTyped ==
  \A c, T, p : IsFiniteSet(T) /\ (\A u \in T : c[u].items[p] \in Nat) => Units(c, T, p) \in Nat
<1> TAKE c, T, p
<1> SUFFICES ASSUME IsFiniteSet(T), \A u \in T : c[u].items[p] \in Nat
             PROVE  Units(c, T, p) \in Nat
  OBVIOUS
<1>1. [t \in T |-> c[t].items[p]] \in [T -> Nat]
  OBVIOUS
<1> QED
  BY <1>1, SumBounds DEF Units

(* Tills with the same items have as many units. *)
LEMMA UnitsSame ==
  \A c, e, T, p : (\A u \in T : e[u].items[p] = c[u].items[p]) => Units(e, T, p) = Units(c, T, p)
<1> TAKE c, e, T, p
<1> SUFFICES ASSUME \A u \in T : e[u].items[p] = c[u].items[p]
             PROVE  Units(e, T, p) = Units(c, T, p)
  OBVIOUS
<1>1. [t \in T |-> c[t].items[p]] = [t \in T |-> e[t].items[p]]
  OBVIOUS
<1> QED
  BY <1>1 DEF Units

(* A till more among them. *)
LEMMA UnitsGrow ==
  \A c, e, T, t, p :
    /\ IsFiniteSet(T) /\ t \notin T
    /\ \A u \in T \cup {t} : e[u].items[p] \in Nat
    /\ \A u \in T : e[u].items[p] = c[u].items[p]
    => /\ Units(c, T, p) \in Nat
       /\ Units(e, T \cup {t}, p) = Units(c, T, p) + e[t].items[p]
<1> TAKE c, e, T, t, p
<1> SUFFICES ASSUME IsFiniteSet(T), t \notin T,
                    \A u \in T \cup {t} : e[u].items[p] \in Nat,
                    \A u \in T : e[u].items[p] = c[u].items[p]
             PROVE  /\ Units(c, T, p) \in Nat
                    /\ Units(e, T \cup {t}, p) = Units(c, T, p) + e[t].items[p]
  OBVIOUS
<1> DEFINE f == [u \in T |-> c[u].items[p]]
           g == [u \in T \cup {t} |-> e[u].items[p]]
<1>1. f \in [T -> Nat] /\ g \in [T \cup {t} -> Nat] /\ (\A u \in T : g[u] = f[u])
      /\ g[t] = e[t].items[p]
  OBVIOUS
<1>2. Units(c, T, p) = SumFunction(f) /\ Units(e, T \cup {t}, p) = SumFunction(g)
  BY DEF Units
<1> HIDE DEF f, g
<1>3. PICK V : V = T \cup {t}
  OBVIOUS
<1>4. g \in [V -> Nat]
  BY <1>1, <1>3
<1>5. SumFunction(f) \in Nat /\ SumFunction(g) = g[t] + SumFunction(f)
  <2>1. IsFiniteSet(T) /\ f \in [T -> Nat] /\ t \notin T /\ \A y \in T : g[y] = f[y]
    BY <1>1
  <2> QED
    BY <1>3, <1>4, <2>1, SumGrows
<1> QED
  BY <1>1, <1>2, <1>5

(* The units of p in the orders of O. *)
Items(O, p) == SumFunction([o \in O |-> o.items[p]])

(* An order more. *)
LEMMA ItemsGrow ==
  \A O, o, p :
    /\ IsFiniteSet(O) /\ o \notin O
    /\ \A r \in O \cup {o} : r.items[p] \in Nat
    => /\ Items(O, p) \in Nat
       /\ Items(O \cup {o}, p) = Items(O, p) + o.items[p]
<1> TAKE O, o, p
<1> SUFFICES ASSUME IsFiniteSet(O), o \notin O, \A r \in O \cup {o} : r.items[p] \in Nat
             PROVE  /\ Items(O, p) \in Nat
                    /\ Items(O \cup {o}, p) = Items(O, p) + o.items[p]
  OBVIOUS
<1> DEFINE f == [r \in O |-> r.items[p]]
           g == [r \in O \cup {o} |-> r.items[p]]
<1>1. f \in [O -> Nat] /\ g \in [O \cup {o} -> Nat] /\ (\A r \in O : g[r] = f[r])
      /\ g[o] = o.items[p]
  OBVIOUS
<1>2. Items(O, p) = SumFunction(f) /\ Items(O \cup {o}, p) = SumFunction(g)
  BY DEF Items
<1> HIDE DEF f, g
<1>3. PICK V : V = O \cup {o}
  OBVIOUS
<1>4. g \in [V -> Nat]
  BY <1>1, <1>3
<1>5. SumFunction(f) \in Nat /\ SumFunction(g) = g[o] + SumFunction(f)
  <2>1. IsFiniteSet(O) /\ f \in [O -> Nat] /\ o \notin O /\ \A y \in O : g[y] = f[y]
    BY <1>1
  <2> QED
    BY <1>3, <1>4, <2>1, SumGrows
<1> QED
  BY <1>1, <1>2, <1>5

-----------------------------------------------------------------------------
(* Every operation of shoppers, tills and staff keeps it. *)

(* What a till is. *)
Till == [at : {"CLOSED", "TAKING"}, shopper : Browsers \cup {"none"},
         browser : Browsers \cup {"none"}, items : [Products -> 0..MaxUnits],
         left : SUBSET Products]

(* The bounds are numbers, and empty carts and closed tills are what they   *)
(* should be.                                                               *)
LEMMA Bounds ==
  /\ MaxUnits \in Nat /\ MaxOrders \in Nat /\ MaxEdits \in Nat
  /\ IsFiniteSet(Products) /\ IsFiniteSet(Tills) /\ "none" \notin Browsers
  /\ NoItems \in [Products -> 0..MaxUnits]
  /\ Closed \in Till
BY StorefrontAssumption DEF NoItems, Closed, Till

(* The shop opens with everything in order. *)
LEMMA SaleStart == Init => SaleInv
<1> SUFFICES ASSUME Init PROVE SaleInv
  OBVIOUS
<1>1. SaleTyped
  BY Bounds DEF Init, SaleTyped, Till, NoItems
<1>2. \A t \in Tills : checkout[t] = Closed
  BY DEF Init
<1>3. Open = {}
  BY <1>2 DEF Open, Closed
<1> QED
  BY <1>1, <1>2, <1>3, EmptyCounts, Bounds
     DEF Init, SaleInv, TillsAreSound, OrdersAreNumbered, CartsAreChosen, Closed, NoItems

(* What shopping keeps and who else does. *)
shopVars == <<listed, stock, cart, seen, checkout, orders, begun, edits, shelved, abandoned,
              chosen, unsure>>

(* Steps that leave the sale alone keep it in order. *)
LEMMA ShopKept == SaleInv /\ UNCHANGED shopVars => SaleInv'
<1> SUFFICES ASSUME SaleInv, UNCHANGED shopVars PROVE SaleInv'
  OBVIOUS
<1>1. SaleTyped'
  BY DEF shopVars, SaleInv, SaleTyped
<1>2. TillsAreSound' /\ CartsAreChosen'
  BY DEF shopVars, SaleInv, TillsAreSound, CartsAreChosen
<1>3. OrdersAreNumbered'
  BY DEF shopVars, SaleInv, OrdersAreNumbered, Open
<1> QED
  BY <1>1, <1>2, <1>3 DEF SaleInv

(* Steps of the tables alone. *)
LEMMA TablesKeepSaleInv ==
  ASSUME SaleInv, UNCHANGED <<cart, seen, checkout, orders, begun, abandoned, chosen, unsure>>,
         listed' \subseteq Products, stock' \in [Products -> Int],
         shelved' \in [Products -> [units : Int, taken : Nat]], edits' \in 0..MaxEdits
  PROVE  SaleInv'
<1>1. SaleTyped'
  BY DEF SaleInv, SaleTyped
<1>2. TillsAreSound' /\ CartsAreChosen'
  BY DEF SaleInv, TillsAreSound, CartsAreChosen
<1>3. OrdersAreNumbered'
  BY DEF SaleInv, OrdersAreNumbered, Open
<1> QED
  BY <1>1, <1>2, <1>3 DEF SaleInv

(* An update of one entry of the stock keeps its type. *)
LEMMA TakenTyped ==
  ASSUME SaleInv
  PROVE  /\ \A T \in SUBSET Tills, p \in Products : TakenBy(T, p) \in Nat
         /\ \A p \in Products : Ordered(p) \in Nat /\ Held(p) \in Nat /\ Taken(p) \in Nat
<1>1. \A t \in Tills, p \in Products : checkout[t].items[p] \in Nat
  BY Bounds DEF SaleInv, SaleTyped
<1>2. ASSUME NEW T \in SUBSET Tills, NEW p \in Products
      PROVE  TakenBy(T, p) \in Nat
  <2> DEFINE V == {u \in T : p \notin checkout[u].left}
  <2>1. TakenBy(T, p) = Units(checkout, V, p)
    BY DEF TakenBy, Units
  <2>2. IsFiniteSet(V) /\ \A u \in V : checkout[u].items[p] \in Nat
    BY <1>1, Bounds, FiniteParts
  <2> QED
    BY <2>1, <2>2, UnitsTyped
<1>3. ASSUME NEW p \in Products
      PROVE  Ordered(p) \in Nat /\ Held(p) \in Nat /\ Taken(p) \in Nat
  <2>1. IsFiniteSet(orders) /\ [o \in orders |-> o.items[p]] \in [orders -> Nat]
    BY Bounds DEF SaleInv, SaleTyped, OrdersAreNumbered
  <2>2. Ordered(p) \in Nat
    BY <2>1, SumBounds DEF Ordered
  <2>3. Held(p) \in Nat
    BY <1>2 DEF Held
  <2> QED
    BY <2>2, <2>3 DEF SaleInv, SaleTyped, Taken
<1> QED
  BY <1>2, <1>3

(* What was abandoned stays a number. *)
LEMMA AbandonedTyped ==
  ASSUME SaleInv, NEW T \in SUBSET Tills
  PROVE  AbandonedWith(T) \in [Products -> Nat]
<1>1. \A p \in Products : TakenBy(T, p) \in Nat
  BY TakenTyped
<1>2. \A p \in Products : abandoned[p] \in Nat
  BY DEF SaleInv, SaleTyped
<1>3. \A p \in Products : abandoned[p] + TakenBy(T, p) \in Nat
  BY <1>1, <1>2
<1> QED
  BY <1>3 DEF AbandonedWith

(* A unit goes into a cart. *)
LEMMA AddKeepsSaleInv ==
  ASSUME SaleInv, NEW b \in Browsers, NEW p \in Products, AddToCart(b, p)
  PROVE  SaleInv'
<1>1. /\ cart' = [cart EXCEPT ![b][p] = @ + 1] /\ chosen' = [chosen EXCEPT ![b][p] = @ + 1]
      /\ UNCHANGED <<listed, stock, seen, checkout, orders, begun, edits, shelved, abandoned, unsure>>
  BY DEF AddToCart, bootVars, saleVars
<1>2. chosen[b][p] < MaxUnits
  <2>1. PICK f : f = chosen[b]
    OBVIOUS
  <2>2. f \in [Products -> Nat] /\ SumFunction(f) < MaxUnits
    BY <2>1, Bounds DEF SaleInv, SaleTyped, AddToCart
  <2>3. f[p] <= SumFunction(f) /\ SumFunction(f) \in Nat
    BY <2>2, Bounds, SumBounds
  <2> QED
    BY <2>1, <2>2, <2>3, Bounds
<1>3. /\ cart \in [Browsers -> [Products -> 0..MaxUnits]]
      /\ chosen \in [Browsers -> [Products -> 0..MaxUnits]]
      /\ \A a \in Browsers, q \in Products : cart[a][q] <= chosen[a][q]
  BY DEF SaleInv, SaleTyped, CartsAreChosen
<1>4. /\ cart' \in [Browsers -> [Products -> 0..MaxUnits]]
      /\ chosen' \in [Browsers -> [Products -> 0..MaxUnits]]
  BY <1>1, <1>2, <1>3, Bounds
<1>5. CartsAreChosen'
  BY <1>1, <1>3 DEF CartsAreChosen
<1>6. SaleTyped'
  BY <1>1, <1>4 DEF SaleInv, SaleTyped
<1>7. TillsAreSound' /\ OrdersAreNumbered'
  BY <1>1 DEF SaleInv, TillsAreSound, OrdersAreNumbered, Open
<1> QED
  BY <1>5, <1>6, <1>7 DEF SaleInv

(* Units leave a cart. *)
LEMMA ChosenKept ==
  ASSUME SaleInv, NEW b \in Browsers, NEW c \in [Products -> Nat],
         \A q \in Products : c[q] <= cart[b][q]
  PROVE  /\ ChosenWith(b, c) \in [Browsers -> [Products -> 0..MaxUnits]]
         /\ \A a \in Browsers \ {b} : ChosenWith(b, c)[a] = chosen[a]
         /\ \A q \in Products : c[q] <= ChosenWith(b, c)[b][q]
         /\ Buying(b) => ChosenWith(b, c) = chosen
         /\ ~Buying(b) => \A q \in Products :
              ChosenWith(b, c)[b][q] = chosen[b][q] - (cart[b][q] - c[q])
<1>1. /\ cart \in [Browsers -> [Products -> 0..MaxUnits]]
      /\ chosen \in [Browsers -> [Products -> 0..MaxUnits]]
      /\ \A a \in Browsers, q \in Products : cart[a][q] <= chosen[a][q]
  BY DEF SaleInv, SaleTyped, CartsAreChosen
<1>2. CASE Buying(b)
  <2>1. ChosenWith(b, c) = chosen
    BY <1>2 DEF ChosenWith
  <2>2. \A q \in Products : c[q] <= chosen[b][q]
    <3> TAKE q \in Products
    <3>1. c[q] \in Nat /\ cart[b][q] \in Nat /\ chosen[b][q] \in Nat
      BY <1>1, Bounds
    <3> QED
      BY <1>1, <3>1
  <2> QED
    BY <1>1, <1>2, <2>1, <2>2
<1>3. CASE ~Buying(b)
  <2> DEFINE f == [q \in Products |-> chosen[b][q] - (cart[b][q] - c[q])]
  <2>1. ChosenWith(b, c) = [chosen EXCEPT ![b] = f]
    BY <1>3 DEF ChosenWith
  <2>2. f \in [Products -> 0..MaxUnits] /\ \A q \in Products : c[q] <= f[q]
    <3>1. ASSUME NEW q \in Products
          PROVE  f[q] \in 0..MaxUnits /\ c[q] <= f[q]
      <4>1. c[q] \in Nat /\ cart[b][q] \in 0..MaxUnits /\ chosen[b][q] \in 0..MaxUnits
        BY <1>1
      <4> QED
        BY <1>1, <4>1, Bounds
    <3> QED
      BY <3>1
  <2>3. \A q \in Products : f[q] = chosen[b][q] - (cart[b][q] - c[q])
    OBVIOUS
  <2> HIDE DEF f
  <2> QED
    BY <1>1, <1>3, <2>1, <2>2, <2>3
<1> QED
  BY <1>2, <1>3

(* An item leaves a cart. *)
LEMMA RemoveKeepsSaleInv ==
  ASSUME SaleInv, NEW b \in Browsers, NEW p \in Products, RemoveFromCart(b, p)
  PROVE  SaleInv'
<1>1. /\ cart' = [cart EXCEPT ![b][p] = 0] /\ chosen' = ChosenWith(b, cart'[b])
      /\ UNCHANGED <<listed, stock, seen, checkout, orders, begun, edits, shelved, abandoned, unsure>>
  BY DEF RemoveFromCart, bootVars, saleVars
<1>2. /\ cart \in [Browsers -> [Products -> 0..MaxUnits]]
      /\ \A a \in Browsers, q \in Products : cart[a][q] <= chosen[a][q]
  BY DEF SaleInv, SaleTyped, CartsAreChosen
<1>3. PICK c : c = cart'[b]
  OBVIOUS
<1>4. /\ cart' \in [Browsers -> [Products -> 0..MaxUnits]]
      /\ c \in [Products -> Nat]
      /\ \A q \in Products : c[q] <= cart[b][q]
      /\ \A a \in Browsers \ {b} : cart'[a] = cart[a]
  BY <1>1, <1>2, <1>3, Bounds
<1>9. chosen' = ChosenWith(b, c)
  BY <1>1, <1>3
<1>5. /\ chosen' \in [Browsers -> [Products -> 0..MaxUnits]]
      /\ \A a \in Browsers \ {b} : chosen'[a] = chosen[a]
      /\ \A q \in Products : c[q] <= chosen'[b][q]
  BY <1>4, <1>9, ChosenKept
<1>6. CartsAreChosen'
  BY <1>2, <1>3, <1>4, <1>5 DEF CartsAreChosen
<1>7. SaleTyped'
  BY <1>1, <1>4, <1>5 DEF SaleInv, SaleTyped
<1>8. TillsAreSound' /\ OrdersAreNumbered'
  BY <1>1 DEF SaleInv, TillsAreSound, OrdersAreNumbered, Open
<1> QED
  BY <1>6, <1>7, <1>8 DEF SaleInv

(* There are finitely many open tills and orders, and no more than checkouts. *)
LEMMA OpenTills ==
  ASSUME SaleInv
  PROVE  /\ IsFiniteSet(Open) /\ Open \subseteq Tills /\ Cardinality(Open) \in Nat
         /\ IsFiniteSet(orders) /\ Cardinality(orders) \in Nat
         /\ Cardinality(orders) + Cardinality(Open) <= begun
         /\ begun \in Nat /\ begun <= MaxOrders
<1>1. IsFiniteSet(Open) /\ Open \subseteq Tills /\ Cardinality(Open) \in Nat
  BY Bounds, FiniteParts, Counting DEF Open
<1>2. IsFiniteSet(orders) /\ Cardinality(orders) \in Nat
  BY Counting DEF SaleInv, OrdersAreNumbered
<1> QED
  BY <1>1, <1>2, Bounds DEF SaleInv, OrdersAreNumbered, SaleTyped

(* A page is left: no till listens to it any more. *)
LEMMA LeaveKeepsSaleInv ==
  ASSUME SaleInv, NEW b \in Browsers, PageLeft(b), UNCHANGED listed, UNCHANGED shelved
  PROVE  SaleInv'
<1>1. /\ cart' = [cart EXCEPT ![b] = NoItems]
      /\ chosen' = ChosenWith(b, NoItems)
      /\ checkout' = [t \in Tills |-> IF checkout[t].browser = b
                                      THEN [checkout[t] EXCEPT !.browser = "none"]
                                      ELSE checkout[t]]
      /\ UNCHANGED <<listed, stock, seen, orders, begun, edits, shelved, abandoned, unsure>>
  BY DEF PageLeft, bootVars
<1>2. /\ cart \in [Browsers -> [Products -> 0..MaxUnits]]
      /\ checkout \in [Tills -> Till]
      /\ \A a \in Browsers, q \in Products : cart[a][q] <= chosen[a][q]
  BY DEF SaleInv, SaleTyped, CartsAreChosen, Till
<1>3. /\ NoItems \in [Products -> Nat]
      /\ \A q \in Products : NoItems[q] = 0 /\ NoItems[q] <= cart[b][q]
  BY <1>2, Bounds DEF NoItems
<1>4. /\ chosen' \in [Browsers -> [Products -> 0..MaxUnits]]
      /\ \A a \in Browsers \ {b} : chosen'[a] = chosen[a]
      /\ \A q \in Products : NoItems[q] <= chosen'[b][q]
  BY <1>1, <1>3, ChosenKept
<1>5. CartsAreChosen'
  BY <1>1, <1>2, <1>3, <1>4 DEF CartsAreChosen
<1>6. checkout' \in [Tills -> Till]
  <2>1. \A x \in Till : [x EXCEPT !.browser = "none"] \in Till
    BY DEF Till
  <2>2. \A t \in Tills : checkout[t] \in Till
    BY <1>2
  <2> QED
    BY <1>1, <2>1, <2>2
<1>7. cart' \in [Browsers -> [Products -> 0..MaxUnits]]
  BY <1>1, <1>2, Bounds
<1>8. SaleTyped'
  BY <1>1, <1>4, <1>6, <1>7 DEF SaleInv, SaleTyped, Till
<1>9. \A t \in Tills : /\ checkout'[t].at = checkout[t].at
                       /\ checkout'[t].shopper = checkout[t].shopper
                       /\ checkout'[t].browser \in {checkout[t].browser, "none"}
                       /\ checkout[t].browser # b => checkout'[t] = checkout[t]
  BY <1>1, <1>2 DEF Till
<1>10. TillsAreSound'
  <2>1. ASSUME NEW t \in Tills, checkout'[t].at = "CLOSED"
        PROVE  checkout'[t] = Closed
    <3>1. checkout[t] = Closed
      BY <1>9, <2>1 DEF SaleInv, TillsAreSound
    <3>2. checkout[t].browser # b
      BY <3>1, Bounds DEF Closed
    <3> QED
      BY <1>9, <3>1, <3>2
  <2>2. ASSUME NEW t \in Tills, checkout'[t].at = "TAKING"
        PROVE  /\ checkout'[t].shopper \in Browsers
               /\ checkout'[t].browser \in {checkout'[t].shopper, "none"}
    BY <1>9, <2>2 DEF SaleInv, TillsAreSound
  <2> QED
    BY <2>1, <2>2 DEF TillsAreSound
<1>11. Open' = Open
  BY <1>9 DEF Open
<1>12. OrdersAreNumbered'
  BY <1>1, <1>11 DEF SaleInv, OrdersAreNumbered
<1> QED
  BY <1>5, <1>8, <1>10, <1>12 DEF SaleInv

(* A till opens with what is in the cart. *)
LEMMA CheckoutKeepsSaleInv ==
  ASSUME SaleInv, NEW b \in Browsers, NEW t \in Tills, CheckoutCart(b, t)
  PROVE  SaleInv'
<1> DEFINE r == [at |-> "TAKING", shopper |-> b, browser |-> b, items |-> cart[b],
                 left |-> {p \in Products : cart[b][p] > 0}]
<1>1. /\ checkout[t] = Closed /\ begun < MaxOrders /\ begun' = begun + 1
      /\ checkout' = [checkout EXCEPT ![t] = r]
      /\ unsure' \in {unsure, unsure \cup {b}}
      /\ UNCHANGED <<listed, stock, cart, seen, orders, edits, shelved, abandoned, chosen>>
  BY DEF CheckoutCart, bootVars
<1>2. r \in Till /\ checkout \in [Tills -> Till]
  BY DEF SaleInv, SaleTyped, Till
<1>3. r.at = "TAKING" /\ r.shopper = b /\ r.browser = b
  OBVIOUS
<1> HIDE DEF r
<1>4. checkout' \in [Tills -> Till] /\ \A u \in Tills : checkout'[u] = IF u = t THEN r ELSE checkout[u]
  BY <1>1, <1>2
<1>5. SaleTyped'
  BY <1>1, <1>4, Bounds DEF SaleInv, SaleTyped, Till
<1>6. TillsAreSound'
  BY <1>3, <1>4 DEF SaleInv, TillsAreSound
<1>7. CartsAreChosen'
  BY <1>1 DEF SaleInv, CartsAreChosen
<1>8. Open' = Open \cup {t} /\ t \notin Open
  BY <1>1, <1>3, <1>4 DEF Open, Closed
<1>9. Cardinality(Open') = Cardinality(Open) + 1
  BY <1>8, OpenTills, Counting
<1>10. OrdersAreNumbered'
  BY <1>1, <1>9, OpenTills DEF SaleInv, OrdersAreNumbered
<1> QED
  BY <1>5, <1>6, <1>7, <1>10 DEF SaleInv

(* A till takes one more product: what is left of its list is less. *)
LEMMA TakingTill ==
  ASSUME SaleInv, NEW t \in Tills, NEW p \in Products, TakeItem(t, p)
  PROVE  /\ checkout[t].at = "TAKING" /\ p \in checkout[t].left
         /\ checkout[t].items[p] \in Nat
         /\ checkout' \in [Tills -> Till]
         /\ checkout'[t] = [checkout[t] EXCEPT !.left = @ \ {p}]
         /\ checkout'[t].left = checkout[t].left \ {p}
         /\ \A u \in Tills : /\ checkout'[u].at = checkout[u].at
                              /\ checkout'[u].shopper = checkout[u].shopper
                              /\ checkout'[u].browser = checkout[u].browser
                              /\ checkout'[u].items = checkout[u].items
         /\ \A u \in Tills \ {t} : checkout'[u] = checkout[u]
         /\ stock' = [stock EXCEPT ![p] = IF stock[p] < checkout[t].items[p] THEN 0
                                          ELSE stock[p] - checkout[t].items[p]]
         /\ UNCHANGED <<listed, cart, seen, orders, begun, edits, shelved, abandoned, chosen, unsure>>
<1>1. /\ p \in checkout[t].left
      /\ stock' = Less(p, checkout[t].items[p])
      /\ checkout' = [checkout EXCEPT ![t].left = @ \ {p}]
      /\ UNCHANGED <<listed, cart, seen, orders, begun, edits, shelved, abandoned, chosen, unsure>>
  BY DEF TakeItem, tillRest, bootVars
<1>2. checkout \in [Tills -> Till]
  BY DEF SaleInv, SaleTyped, Till
<1>3. checkout[t].at = "TAKING"
  BY <1>1, <1>2 DEF SaleInv, TillsAreSound, Closed, Till
<1>4. /\ checkout' \in [Tills -> Till]
      /\ checkout'[t] = [checkout[t] EXCEPT !.left = @ \ {p}]
      /\ \A u \in Tills \ {t} : checkout'[u] = checkout[u]
  <2>1. checkout[t] \in Till
    BY <1>2
  <2>2. checkout' = [checkout EXCEPT ![t] = [checkout[t] EXCEPT !.left = @ \ {p}]]
    BY <1>1
  <2>3. [checkout[t] EXCEPT !.left = @ \ {p}] \in Till
    BY <2>1 DEF Till
  <2> QED
    BY <1>2, <2>2, <2>3
<1>5. checkout[t].items[p] \in Nat
  BY <1>2, Bounds DEF Till
<1>6. /\ checkout'[t].at = checkout[t].at
      /\ checkout'[t].shopper = checkout[t].shopper
      /\ checkout'[t].browser = checkout[t].browser
      /\ checkout'[t].items = checkout[t].items
      /\ checkout'[t].left = checkout[t].left \ {p}
  <2>1. checkout[t] \in Till
    BY <1>2
  <2> QED
    BY <1>4, <2>1 DEF Till
<1> QED
  BY <1>1, <1>3, <1>4, <1>5, <1>6 DEF Less

(* A till takes one product off the shelf. *)
LEMMA TakeKeepsSaleInv ==
  ASSUME SaleInv, NEW t \in Tills, NEW p \in Products, TakeItem(t, p)
  PROVE  SaleInv'
<1>1. stock' \in [Products -> Int]
  <2>1. PICK n \in Nat : n = checkout[t].items[p]
    BY TakingTill
  <2>2. stock' = [stock EXCEPT ![p] = IF stock[p] < n THEN 0 ELSE stock[p] - n]
    BY <2>1, TakingTill
  <2> QED
    BY <2>1, <2>2 DEF SaleInv, SaleTyped
<1>2. SaleTyped'
  BY <1>1, TakingTill DEF SaleInv, SaleTyped, Till
<1>3. \A u \in Tills : /\ checkout'[u].at = checkout[u].at
                       /\ checkout'[u].shopper = checkout[u].shopper
                       /\ checkout'[u].browser = checkout[u].browser
                       /\ checkout[u].at = "CLOSED" => checkout'[u] = checkout[u]
  BY TakingTill
<1>4. TillsAreSound'
  BY <1>3 DEF SaleInv, TillsAreSound
<1>5. CartsAreChosen'
  BY TakingTill DEF SaleInv, CartsAreChosen
<1>6. Open' = Open
  BY <1>3 DEF Open
<1>7. OrdersAreNumbered'
  BY <1>6, TakingTill DEF SaleInv, OrdersAreNumbered
<1> QED
  BY <1>2, <1>4, <1>5, <1>7 DEF SaleInv

(* A till closes. *)
LEMMA ClosingTill ==
  ASSUME SaleInv, NEW t \in Tills, checkout[t].at = "TAKING",
         checkout' = [checkout EXCEPT ![t] = Closed]
  PROVE  /\ checkout' \in [Tills -> Till] /\ checkout'[t] = Closed
         /\ \A u \in Tills \ {t} : checkout'[u] = checkout[u]
         /\ TillsAreSound'
         /\ t \in Open /\ Open' = Open \ {t}
         /\ Cardinality(Open') \in Nat
         /\ Cardinality(Open) = Cardinality(Open') + 1
<1>1. checkout \in [Tills -> Till]
  BY DEF SaleInv, SaleTyped, Till
<1>2. /\ checkout' \in [Tills -> Till] /\ checkout'[t] = Closed
      /\ \A u \in Tills \ {t} : checkout'[u] = checkout[u]
  BY <1>1, Bounds
<1>3. TillsAreSound'
  BY <1>2 DEF SaleInv, TillsAreSound, Closed
<1>4. t \in Open /\ Open' = Open \ {t}
  BY <1>2 DEF Open, Closed
<1>5. /\ Cardinality(Open') \in Nat
      /\ Cardinality(Open) = Cardinality(Open') + 1
  <2>1. /\ IsFiniteSet(Open \ {t})
        /\ Cardinality(Open \ {t}) = Cardinality(Open) - 1
    BY <1>4, OpenTills, Counting
  <2>2. Cardinality(Open \ {t}) \in Nat
    BY <2>1, Counting
  <2> QED
    BY <1>4, <2>1, <2>2, OpenTills
<1> QED
  BY <1>2, <1>3, <1>4, <1>5

(* A till closes without an order. *)
LEMMA FailKeepsSaleInv ==
  ASSUME SaleInv, NEW t \in Tills, CheckoutFails(t)
  PROVE  SaleInv'
<1>1. /\ checkout[t].at = "TAKING" /\ checkout' = [checkout EXCEPT ![t] = Closed]
      /\ abandoned' = AbandonedWith({t})
      /\ UNCHANGED <<listed, stock, cart, seen, orders, begun, edits, shelved, chosen, unsure>>
  BY DEF CheckoutFails, tillRest, bootVars
<1>2. abandoned' \in [Products -> Nat]
  BY <1>1, AbandonedTyped
<1>3. SaleTyped'
  BY <1>1, <1>2, ClosingTill DEF SaleInv, SaleTyped, Till
<1>4. CartsAreChosen'
  BY <1>1 DEF SaleInv, CartsAreChosen
<1>5. OrdersAreNumbered'
  <2>1. /\ Cardinality(Open') \in Nat /\ Cardinality(Open) = Cardinality(Open') + 1
    BY <1>1, ClosingTill
  <2>2. Cardinality(orders) + Cardinality(Open') <= begun
    BY <2>1, OpenTills
  <2> QED
    BY <1>1, <2>2 DEF SaleInv, OrdersAreNumbered
<1> QED
  BY <1>1, <1>3, <1>4, <1>5, ClosingTill DEF SaleInv

(* All tills close at once with the storefront. *)
LEMMA ShopStops ==
  ASSUME SaleInv, abandoned' = AbandonedWith(Open), checkout' = [t \in Tills |-> Closed],
         UNCHANGED <<listed, stock, cart, seen, orders, begun, edits, shelved, chosen, unsure>>
  PROVE  SaleInv'
<1>1. abandoned' \in [Products -> Nat]
  <2>1. AbandonedWith(Open) \in [Products -> Nat]
    BY AbandonedTyped, OpenTills
  <2> QED
    BY <2>1
<1>2. checkout' \in [Tills -> Till]
  BY Bounds
<1>3. SaleTyped'
  BY <1>1, <1>2 DEF SaleInv, SaleTyped, Till
<1>4. TillsAreSound'
  BY DEF TillsAreSound, Closed
<1>5. CartsAreChosen'
  BY DEF SaleInv, CartsAreChosen
<1>6. Open' = {}
  BY DEF Open, Closed
<1>7. OrdersAreNumbered'
  BY <1>6, OpenTills, EmptyCounts DEF SaleInv, OrdersAreNumbered
<1> QED
  BY <1>3, <1>4, <1>5, <1>7 DEF SaleInv

(* An order comes of a till that has taken everything. *)
OrderOf(t) == [id |-> Cardinality(orders) + 1, shopper |-> checkout[t].shopper,
               items |-> checkout[t].items]

(* The new order has a number of its own. *)
LEMMA OrderingTill ==
  ASSUME SaleInv, NEW t \in Tills, InsertOrder(t)
  PROVE  /\ checkout[t].at = "TAKING" /\ checkout[t].left = {}
         /\ checkout' = [checkout EXCEPT ![t] = Closed]
         /\ orders' = orders \cup {OrderOf(t)} /\ OrderOf(t) \notin orders
         /\ OrderOf(t) \in [id : 1..MaxOrders, shopper : Browsers, items : [Products -> 0..MaxUnits]]
         /\ OrderOf(t).id = Cardinality(orders) + 1
         /\ OrderOf(t).shopper = checkout[t].shopper
         /\ OrderOf(t).items = checkout[t].items
         /\ \/ cart' = CartEmptied(t) /\ unsure' = unsure
            \/ cart' = cart /\ unsure' = unsure \cup {checkout[t].shopper}
         /\ UNCHANGED <<listed, stock, seen, begun, edits, shelved, abandoned, chosen>>
<1>1. /\ checkout[t].at = "TAKING" /\ checkout[t].left = {}
      /\ checkout' = [checkout EXCEPT ![t] = Closed]
      /\ orders' = orders \cup {OrderOf(t)}
      /\ \/ cart' = CartEmptied(t) /\ unsure' = unsure
         \/ cart' = cart /\ unsure' = unsure \cup {checkout[t].shopper}
      /\ UNCHANGED <<listed, stock, seen, begun, edits, shelved, abandoned, chosen>>
  BY DEF InsertOrder, tillRest, bootVars, OrderOf
<1>2. Cardinality(orders) + 1 \in 1..MaxOrders
  <2>1. /\ Cardinality(Open') \in Nat /\ Cardinality(Open) = Cardinality(Open') + 1
    BY <1>1, ClosingTill
  <2> QED
    BY <2>1, OpenTills, Bounds
<1>3. checkout[t].shopper \in Browsers /\ checkout[t].items \in [Products -> 0..MaxUnits]
  BY <1>1 DEF SaleInv, SaleTyped, TillsAreSound
<1>4. /\ OrderOf(t) \in [id : 1..MaxOrders, shopper : Browsers, items : [Products -> 0..MaxUnits]]
      /\ OrderOf(t).id = Cardinality(orders) + 1
      /\ OrderOf(t).shopper = checkout[t].shopper
      /\ OrderOf(t).items = checkout[t].items
  BY <1>2, <1>3 DEF OrderOf
<1>5. OrderOf(t) \notin orders
  BY <1>4, OpenTills DEF SaleInv, OrdersAreNumbered
<1> QED
  BY <1>1, <1>4, <1>5

(* The cart of an answered page is empty, all others stay. *)
LEMMA EmptiedCart ==
  ASSUME SaleInv, NEW t \in Tills, checkout[t].at = "TAKING"
  PROVE  /\ CartEmptied(t) \in [Browsers -> [Products -> 0..MaxUnits]]
         /\ \A b \in Browsers : CartEmptied(t)[b] = IF checkout[t].browser = b THEN NoItems ELSE cart[b]
  BY Bounds DEF CartEmptied, SaleInv, SaleTyped, TillsAreSound

(* A till closes with its order. *)
LEMMA OrderKeepsSaleInv ==
  ASSUME SaleInv, NEW t \in Tills, InsertOrder(t)
  PROVE  SaleInv'
<1>1. checkout[t].at = "TAKING" /\ checkout' = [checkout EXCEPT ![t] = Closed]
  BY OrderingTill
<1>2. cart' \in [Browsers -> [Products -> 0..MaxUnits]] /\ \A b \in Browsers : cart'[b] \in {cart[b], NoItems}
  <2>1. CASE cart' = CartEmptied(t)
    BY <1>1, <2>1, EmptiedCart
  <2>2. CASE cart' = cart
    BY <2>2 DEF SaleInv, SaleTyped
  <2> QED
    BY <2>1, <2>2, OrderingTill
<1>3. unsure' \subseteq Browsers
  <2>1. checkout[t].shopper \in Browsers /\ unsure \subseteq Browsers
    BY <1>1 DEF SaleInv, SaleTyped, TillsAreSound
  <2>2. unsure' \in {unsure, unsure \cup {checkout[t].shopper}}
    BY OrderingTill
  <2> QED
    BY <2>1, <2>2
<1>4. SaleTyped'
  <2>1. checkout' \in [Tills -> Till]
    BY <1>1, ClosingTill
  <2>2. orders' \subseteq [id : 1..MaxOrders, shopper : Browsers, items : [Products -> 0..MaxUnits]]
    BY OrderingTill DEF SaleInv, SaleTyped
  <2>3. UNCHANGED <<listed, stock, seen, begun, edits, shelved, abandoned, chosen>>
    BY OrderingTill
  <2> QED
    BY <1>2, <1>3, <2>1, <2>2, <2>3 DEF SaleInv, SaleTyped, Till
<1>5. CartsAreChosen'
  <2>1. chosen' = chosen /\ chosen \in [Browsers -> [Products -> 0..MaxUnits]]
    BY OrderingTill DEF SaleInv, SaleTyped
  <2> QED
    BY <1>2, <2>1, Bounds DEF SaleInv, CartsAreChosen, NoItems
<1>6. IsFiniteSet(orders') /\ Cardinality(orders') = Cardinality(orders) + 1
  BY OrderingTill, OpenTills, Counting
<1>7. OrdersAreNumbered'
  <2>1. \A o \in orders : o.id \in Int /\ o.id <= Cardinality(orders)
    BY DEF SaleInv, SaleTyped, OrdersAreNumbered
  <2>2. \A o \in orders' : o.id <= Cardinality(orders')
    BY <1>6, <2>1, OrderingTill, OpenTills
  <2>3. Cardinality(orders') + Cardinality(Open') <= begun'
    <3>1. /\ Cardinality(Open') \in Nat /\ Cardinality(Open) = Cardinality(Open') + 1
      BY <1>1, ClosingTill
    <3>2. begun' = begun
      BY OrderingTill
    <3> QED
      BY <1>6, <3>1, <3>2, OpenTills
  <2> QED
    BY <1>6, <2>2, <2>3 DEF OrdersAreNumbered
<1> QED
  BY <1>1, <1>4, <1>5, <1>7, ClosingTill DEF SaleInv

-----------------------------------------------------------------------------
(* The steps of the whole storefront, seen from the sale. *)

(* A product of the catalogue comes in, the storefront goes down. *)
Seeds(p) ==
  /\ p \in Products /\ p \notin listed
  /\ listed' = listed \cup {p}
  /\ stock' = [stock EXCEPT ![p] = SeedStock[p]]
  /\ shelved' = [shelved EXCEPT ![p] = [units |-> SeedStock[p], taken |-> 0]]
  /\ UNCHANGED <<cart, seen, checkout, orders, begun, edits, abandoned, chosen, unsure>>

Stops ==
  /\ abandoned' = AbandonedWith(Open)
  /\ checkout' = [t \in Tills |-> Closed]
  /\ UNCHANGED <<listed, stock, cart, seen, orders, begun, edits, shelved, chosen, unsure>>

(* A page is left while the tables stay. *)
Leaves(b) == PageLeft(b) /\ UNCHANGED <<listed, shelved>>

(* Staff set the stock of a product that was listed or is now. *)
Stocks(p, n) == Shelve(p, n) /\ (listed' = listed \cup {p} \/ (listed' = listed /\ p \in listed))

(* What a step of the storefront does to the sale. *)
ShopStep ==
  \/ UNCHANGED shopVars
  \/ \E p \in Products : Seeds(p)
  \/ Stops
  \/ \E b \in Browsers : Leaves(b)
  \/ \E b \in Browsers : FetchCatalog(b)
  \/ \E b \in Browsers, p \in Products : AddToCart(b, p)
  \/ \E b \in Browsers, p \in Products : RemoveFromCart(b, p)
  \/ \E b \in Browsers, t \in Tills : CheckoutCart(b, t)
  \/ \E t \in Tills, p \in Products : TakeItem(t, p)
  \/ \E t \in Tills : InsertOrder(t)
  \/ \E t \in Tills : CheckoutFails(t)
  \/ \E p \in Products, n \in StaffStocks : Stocks(p, n)

(* Every step of the storefront is one of these, or leaves the sale alone. *)
LEMMA NextIsShopStep == SeedInv /\ [Next]_vars => ShopStep
<1> SUFFICES ASSUME SeedInv, [Next]_vars PROVE ShopStep
  OBVIOUS
<1>1. ASSUME NEW x \in Processes, SeedProduct(x)
      PROVE  UNCHANGED shopVars \/ \E p \in Products : Seeds(p)
  <2> DEFINE p == Catalog[server[x].next]
  <2>1. p \in Products
    BY StorefrontAssumption DEF SeedInv, ServerTyped, Places
  <2>2. CASE p \in listed
    BY <1>1, <2>2 DEF SeedProduct, seedRest, cartVars, saleVars, shopVars
  <2>3. CASE p \notin listed
    BY <1>1, <2>1, <2>3 DEF SeedProduct, seedRest, cartVars, saleVars, Seeds
  <2> QED
    BY <2>2, <2>3
<1>2. CASE \E x \in Processes : StartSeeding(x) \/ SelectEmployees(x) \/ SeedEmployee(x)
                                  \/ SeedCredentials(x)
  BY <1>2 DEF StartSeeding, SelectEmployees, SeedEmployee, SeedCredentials, SeedStaff, seedRest,
              cartVars, saleVars, shopVars, ShopStep
<1>3. ASSUME NEW x \in Processes, Crash(x)
      PROVE  UNCHANGED shopVars \/ Stops
  BY <1>3 DEF Crash, cartVars, shopVars, Stops, Open
<1>4. ASSUME NEW b \in Browsers, Reload(b)
      PROVE  Leaves(b)
  BY <1>4 DEF Reload, Leaves, PageLeft, bootVars
<1>5. ASSUME NEW p \in Products, NEW n \in StaffStocks, UpdateStock(p, n) \/ AddProduct(p, n)
      PROVE  Stocks(p, n)
  BY <1>5 DEF UpdateStock, AddProduct, Stocks
<1>6. CASE UNCHANGED vars \/ UNCHANGED ordersVars
  BY <1>6 DEF vars, ordersVars, bootVars, cartVars, saleVars, shopVars, ShopStep
<1> QED
  BY <1>1, <1>2, <1>3, <1>4, <1>5, <1>6 DEF Next, ShopStep

(* A page shows the table. *)
LEMMA FetchKeepsSaleInv ==
  ASSUME SaleInv, NEW b \in Browsers, FetchCatalog(b)
  PROVE  SaleInv'
<1>1. /\ seen' = [seen EXCEPT ![b] = stock]
      /\ UNCHANGED <<listed, stock, cart, checkout, orders, begun, edits, shelved, abandoned, chosen,
                     unsure>>
  BY DEF FetchCatalog, bootVars, saleVars
<1>2. SaleTyped'
  BY <1>1 DEF SaleInv, SaleTyped
<1>3. TillsAreSound' /\ OrdersAreNumbered' /\ CartsAreChosen'
  BY <1>1 DEF SaleInv, TillsAreSound, OrdersAreNumbered, CartsAreChosen, Open
<1> QED
  BY <1>2, <1>3 DEF SaleInv

(* A product of the catalogue comes in. *)
LEMMA SeedsKeepSaleInv ==
  ASSUME SaleInv, NEW p \in Products, Seeds(p)
  PROVE  SaleInv'
<1>1. SeedStock[p] \in Nat
  BY StorefrontAssumption
<1>2. /\ listed' \subseteq Products /\ stock' \in [Products -> Int]
      /\ shelved' \in [Products -> [units : Int, taken : Nat]]
      /\ edits' \in 0..MaxEdits
  BY <1>1 DEF Seeds, SaleInv, SaleTyped
<1> QED
  BY <1>2, TablesKeepSaleInv DEF Seeds

(* Staff set a stock. *)
LEMMA StocksKeepSaleInv ==
  ASSUME SaleInv, NEW p \in Products, NEW n \in StaffStocks, Stocks(p, n)
  PROVE  SaleInv'
<1>1. /\ edits < MaxEdits /\ edits' = edits + 1
      /\ stock' = [stock EXCEPT ![p] = n]
      /\ shelved' = [shelved EXCEPT ![p] = [units |-> n, taken |-> Taken(p)]]
      /\ listed' \in {listed, listed \cup {p}}
      /\ UNCHANGED <<cart, seen, checkout, orders, begun, abandoned, chosen, unsure>>
  BY DEF Stocks, Shelve, cartVars
<1>2. n \in Int /\ Taken(p) \in Nat
  BY StorefrontAssumption, TakenTyped
<1>3. [units |-> n, taken |-> Taken(p)] \in [units : Int, taken : Nat]
  BY <1>2
<1>4. /\ listed' \subseteq Products /\ stock' \in [Products -> Int]
      /\ shelved' \in [Products -> [units : Int, taken : Nat]]
  BY <1>1, <1>2, <1>3 DEF SaleInv, SaleTyped
<1>5. edits' \in 0..MaxEdits
  BY <1>1, Bounds DEF SaleInv, SaleTyped
<1> QED
  BY <1>1, <1>4, <1>5, TablesKeepSaleInv

(* One step after the other. *)
LEMMA StepKeepsSaleInv == SaleInv /\ ShopStep => SaleInv'
<1> SUFFICES ASSUME SaleInv, ShopStep PROVE SaleInv'
  OBVIOUS
<1>1. CASE Stops
  BY <1>1, ShopStops DEF Stops
<1>2. CASE \E b \in Browsers : Leaves(b)
  BY <1>2, LeaveKeepsSaleInv DEF Leaves
<1> QED
  BY <1>1, <1>2, ShopKept, SeedsKeepSaleInv, FetchKeepsSaleInv, AddKeepsSaleInv, RemoveKeepsSaleInv,
     CheckoutKeepsSaleInv, TakeKeepsSaleInv, OrderKeepsSaleInv, FailKeepsSaleInv, StocksKeepSaleInv
  DEF ShopStep

(* The one part of the type that only the staff app and the seeding change. *)
StaffTyped == staff \subseteq {"employee", "credentials"}

(* Nobody but them changes it. *)
LEMMA NextKeepsStaffTyped == SeedInv /\ StaffTyped /\ [Next]_vars => StaffTyped'
<1> SUFFICES ASSUME SeedInv, StaffTyped, [Next]_vars PROVE StaffTyped'
  OBVIOUS
<1>1. CASE \E x \in Processes : StartSeeding(x) \/ SeedProduct(x) \/ SelectEmployees(x)
                                  \/ SeedEmployee(x) \/ SeedCredentials(x)
  BY <1>1 DEF StartSeeding, SeedProduct, SelectEmployees, SeedEmployee, SeedCredentials,
              SeedStaff, StaffTyped
<1>2. CASE \E x \in Processes : Crash(x)
  BY <1>2 DEF Crash, StaffTyped
<1>3. CASE \E p \in Products, n \in StaffStocks : AddProduct(p, n)
  BY <1>3 DEF AddProduct, Shelve, StaffTyped
<1>4. CASE UNCHANGED seedVars
  BY <1>4 DEF seedVars, StaffTyped
<1> QED
  BY <1>1, <1>2, <1>3, <1>4, OthersKeepSeedVars DEF Next

(* The invariant holds throughout. *)
LEMMA SaleInvHolds == Spec => []SaleInv
<1>1. SeedInv /\ [Next]_vars => SeedInv'
  BY NextKeepsSeedInv
<1> QED
  BY <1>1, SaleStart, InitSeedInv, NextIsShopStep, StepKeepsSaleInv, PTL DEF Spec

(* Whatever shoppers, staff, starts and accounts do (server.ts, admin-      *)
(* server.ts, db.ts), tables, tills and carts hold what they are meant to: no *)
(* more units than were chosen, a stock that is an integer and no more, and  *)
(* an order id that is in range although it is made of a count.              *)
THEOREM ShopTypeCorrect == Spec => []TypeOK
<1>1. SeedInv /\ [Next]_vars => SeedInv'
  BY NextKeepsSeedInv
<1>2. Init => StaffTyped
  BY DEF Init, StaffTyped
<1>3. SaleInv /\ StaffTyped /\ SeedInv /\ AccountsTypeOK => TypeOK
  <2> SUFFICES ASSUME SaleInv, StaffTyped, SeedInv, AccountsTypeOK PROVE TypeOK
    OBVIOUS
  <2>1. Places = 1..Len(Catalog)
    BY PlacesOfCatalog
  <2> QED
    BY <2>1 DEF SaleInv, SaleTyped, StaffTyped, SeedInv, ServerTyped, TypeOK
<1> QED
  BY <1>1, <1>2, <1>3, InitSeedInv, NextKeepsStaffTyped, SaleInvHolds, AccountsAreSafe, PTL DEF Spec

-----------------------------------------------------------------------------
(* What is taken off the shelves. *)

(* Sums as one operator: the provers take a named one in a lemma, not a bare *)
(* +.                                                                       *)
Plus(a, b) == a + b

(* A till more, its units added. *)
LEMMA UnitsPlus ==
  \A c, T, t, p :
    /\ IsFiniteSet(T) /\ t \notin T
    /\ \A u \in T \cup {t} : c[u].items[p] \in Nat
    => /\ Units(c, T, p) \in Nat
       /\ Units(c, T \cup {t}, p) = Plus(Units(c, T, p), c[t].items[p])
<1> TAKE c, T, t, p
<1> SUFFICES ASSUME IsFiniteSet(T), t \notin T, \A u \in T \cup {t} : c[u].items[p] \in Nat
             PROVE  /\ Units(c, T, p) \in Nat
                    /\ Units(c, T \cup {t}, p) = Plus(Units(c, T, p), c[t].items[p])
  OBVIOUS
<1>1. PICK n : n = c[t].items[p]
  OBVIOUS
<1>2. n \in Nat
  BY <1>1
<1>3. /\ Units(c, T, p) \in Nat
      /\ Units(c, T \cup {t}, p) = Units(c, T, p) + n
  BY <1>1, <1>2, UnitsGrow
<1> QED
  BY <1>1, <1>3 DEF Plus

(* One till of many changes its units. *)
LEMMA UnitsOne ==
  \A c, t, p : c[t].items[p] \in Nat => Units(c, {t}, p) = Plus(0, c[t].items[p])
<1> TAKE c, t, p
<1> SUFFICES ASSUME c[t].items[p] \in Nat PROVE Units(c, {t}, p) = Plus(0, c[t].items[p])
  OBVIOUS
<1>1. PICK E : E = {}
  OBVIOUS
<1>2. /\ IsFiniteSet(E) /\ t \notin E
      /\ \A u \in E \cup {t} : c[u].items[p] \in Nat
  BY <1>1, EmptyCounts
<1>3. Units(c, E \cup {t}, p) = Plus(Units(c, E, p), c[t].items[p])
  BY <1>2, UnitsPlus
<1>4. Units(c, E, p) = 0
  BY <1>1, SumOfNothing DEF Units
<1>5. E \cup {t} = {t}
  BY <1>1
<1> QED
  BY <1>3, <1>4, <1>5

(* The tills that have taken p. *)
Takers(p) == {t \in Tills : checkout[t].at = "TAKING" /\ p \notin checkout[t].left}

(* What the tills hold of p is what the takers of p have of it. *)
LEMMA TakenIsUnits ==
  \A p : /\ Held(p) = Units(checkout, Takers(p), p)
         /\ Ordered(p) = Items(orders, p)
         /\ TakenBy(Open, p) = Held(p)
<1> TAKE p
<1>1. {u \in {t \in Tills : checkout[t].at = "TAKING"} : p \notin checkout[u].left} = Takers(p)
  BY DEF Takers
<1> QED
  BY <1>1 DEF Held, TakenBy, Units, Ordered, Items, Open

(* And so after a step. *)
LEMMA TakenIsUnitsNext ==
  \A p : /\ Held(p)' = Units(checkout', Takers(p)', p)
         /\ Ordered(p)' = Items(orders', p)
<1> TAKE p
<1>1. {u \in {t \in Tills : checkout[t].at = "TAKING"} : p \notin checkout[u].left}' = Takers(p)'
  BY DEF Takers
<1> QED
  BY <1>1 DEF Held, TakenBy, Units, Ordered, Items

(* Numbers, as long as tills and orders are sound. *)
LEMMA ItemsTyped ==
  ASSUME SaleInv
  PROVE  /\ checkout \in [Tills -> Till]
         /\ \A t \in Tills, p \in Products : checkout[t].items[p] \in Nat
         /\ IsFiniteSet(orders)
         /\ \A o \in orders, p \in Products : o.items[p] \in Nat
         /\ \A p : IsFiniteSet(Takers(p)) /\ Takers(p) \subseteq Tills
<1>1. \A t \in Tills, p \in Products : checkout[t].items[p] \in Nat
  BY Bounds DEF SaleInv, SaleTyped
<1>2. \A o \in orders, p \in Products : o.items[p] \in Nat
  BY Bounds DEF SaleInv, SaleTyped
<1>3. \A p : Takers(p) \subseteq Tills
  BY DEF Takers
<1>4. \A p : IsFiniteSet(Takers(p))
  BY <1>3, Bounds, FiniteParts
<1> QED
  BY <1>1, <1>2, <1>3, <1>4 DEF SaleInv, SaleTyped, Till, OrdersAreNumbered

(* Nothing is taken where the tills take alike. *)
LEMMA HeldSame ==
  ASSUME NEW p, Takers(p)' = Takers(p),
         \A t \in Takers(p) : checkout'[t].items[p] = checkout[t].items[p]
  PROVE  Held(p)' = Held(p)
BY TakenIsUnits, TakenIsUnitsNext, UnitsSame

(* A till has taken one product more, or one that none is wanted of. *)
LEMMA HeldGrows ==
  ASSUME SaleInv, SaleInv', NEW p \in Products, NEW t \in Tills,
         t \notin Takers(p), Takers(p)' = Takers(p) \cup {t},
         \A u \in Takers(p) : checkout'[u].items[p] = checkout[u].items[p]
  PROVE  Held(p)' = Held(p) + checkout'[t].items[p]
<1>1. \A u \in Takers(p) \cup {t} : checkout'[u].items[p] \in Nat
  <2>1. (\A u \in Tills, q \in Products : checkout[u].items[q] \in Nat)'
    BY ItemsTyped, Bounds DEF SaleInv, SaleTyped
  <2> QED
    BY <2>1 DEF Takers
<1>2. IsFiniteSet(Takers(p)) /\ t \notin Takers(p)
  BY ItemsTyped
<1>3. Units(checkout', Takers(p) \cup {t}, p) = Plus(Units(checkout, Takers(p), p), checkout'[t].items[p])
  <2>1. Units(checkout', Takers(p) \cup {t}, p) = Plus(Units(checkout', Takers(p), p), checkout'[t].items[p])
    BY <1>1, <1>2, UnitsPlus
  <2>2. Units(checkout', Takers(p), p) = Units(checkout, Takers(p), p)
    BY UnitsSame
  <2> QED
    BY <2>1, <2>2
<1> QED
  BY <1>3, TakenIsUnits, TakenIsUnitsNext DEF Plus

(* A till closes that had taken it. *)
LEMMA HeldShrinks ==
  ASSUME SaleInv, NEW p \in Products, NEW t \in Takers(p),
         Takers(p)' = Takers(p) \ {t},
         \A u \in Takers(p)' : checkout'[u].items[p] = checkout[u].items[p]
  PROVE  Held(p) = Held(p)' + checkout[t].items[p] /\ Held(p)' \in Nat
<1>1. PICK T : T = Takers(p) \ {t}
  OBVIOUS
<1>2. /\ T \cup {t} = Takers(p) /\ t \notin T
      /\ IsFiniteSet(T)
      /\ \A u \in T \cup {t} : checkout[u].items[p] \in Nat
      /\ \A u \in T : checkout[u].items[p] = checkout'[u].items[p]
      /\ Takers(p)' = T
  <2>1. T \cup {t} = Takers(p) /\ t \notin T /\ T \subseteq Takers(p)
    BY <1>1
  <2>2. IsFiniteSet(T)
    BY <2>1, ItemsTyped, FiniteParts
  <2> QED
    BY <1>1, <2>1, <2>2, ItemsTyped
<1>3. /\ Units(checkout', T, p) \in Nat
      /\ Units(checkout, T \cup {t}, p) = Plus(Units(checkout', T, p), checkout[t].items[p])
  <2>1. /\ Units(checkout, T, p) \in Nat
        /\ Units(checkout, T \cup {t}, p) = Plus(Units(checkout, T, p), checkout[t].items[p])
    BY <1>2, UnitsPlus
  <2>2. Units(checkout', T, p) = Units(checkout, T, p)
    BY <1>2, UnitsSame
  <2> QED
    BY <2>1, <2>2
<1>4. Held(p) = Units(checkout, T \cup {t}, p) /\ Held(p)' = Units(checkout', T, p)
  BY <1>2, TakenIsUnits, TakenIsUnitsNext
<1> QED
  BY <1>3, <1>4 DEF Plus

(* Who has taken p once a till is closed. *)
LEMMA ClosingTakers ==
  ASSUME SaleInv, NEW t \in Tills, checkout[t].at = "TAKING",
         checkout' = [checkout EXCEPT ![t] = Closed], NEW p \in Products
  PROVE  /\ p \notin checkout[t].left => /\ Held(p) = Held(p)' + checkout[t].items[p]
                                         /\ Held(p)' \in Nat
         /\ p \in checkout[t].left => Held(p)' = Held(p)
<1>1. /\ \A u \in Tills \ {t} : checkout'[u] = checkout[u]
      /\ checkout'[t].at = "CLOSED"
  BY ClosingTill DEF Closed
<1>2. CASE p \in checkout[t].left
  <2>1. Takers(p)' = Takers(p) /\ t \notin Takers(p)
    BY <1>1, <1>2 DEF Takers
  <2>2. \A u \in Takers(p) : checkout'[u].items[p] = checkout[u].items[p]
    BY <1>1, <2>1 DEF Takers
  <2> QED
    BY <1>2, <2>1, <2>2, HeldSame
<1>3. CASE p \notin checkout[t].left
  <2>1. Takers(p)' = Takers(p) \ {t} /\ t \in Takers(p)
    BY <1>1, <1>3 DEF Takers
  <2>2. \A u \in Takers(p)' : checkout'[u].items[p] = checkout[u].items[p]
    BY <1>1, <2>1 DEF Takers
  <2> QED
    BY <1>3, <2>1, <2>2, HeldShrinks
<1> QED
  BY <1>2, <1>3

(* How Taken changes, step by step. *)
LEMMA TakenKept ==
  ASSUME UNCHANGED <<checkout, orders, abandoned>>
  PROVE  \A p : Taken(p)' = Taken(p)
BY DEF Taken, Ordered, Held, TakenBy

(* A stop turns what tills held into what was abandoned. *)
LEMMA StopKeepsTaken ==
  ASSUME SaleInv, Stops, NEW p \in Products
  PROVE  Taken(p)' = Taken(p)
<1>1. Takers(p)' = {}
  BY DEF Stops, Takers, Closed
<1>2. Held(p)' = 0
  <2>1. Units(checkout', {}, p) = 0
    BY EmptyCounts, SumOfNothing DEF Units
  <2> QED
    BY <1>1, <2>1, TakenIsUnitsNext
<1>3. abandoned'[p] = abandoned[p] + Held(p)
  BY TakenIsUnits DEF Stops, AbandonedWith
<1>4. Ordered(p)' = Ordered(p)
  BY TakenIsUnits, TakenIsUnitsNext DEF Stops
<1>5. abandoned[p] \in Nat /\ Held(p) \in Nat /\ Ordered(p) \in Nat
  BY TakenTyped DEF SaleInv, SaleTyped
<1> QED
  BY <1>2, <1>3, <1>4, <1>5 DEF Taken

(* A page that is left takes nothing back. *)
LEMMA LeaveKeepsTaken ==
  ASSUME SaleInv, NEW b \in Browsers, PageLeft(b), NEW p \in Products
  PROVE  Taken(p)' = Taken(p)
<1>1. /\ checkout' = [t \in Tills |-> IF checkout[t].browser = b
                                      THEN [checkout[t] EXCEPT !.browser = "none"]
                                      ELSE checkout[t]]
      /\ UNCHANGED <<orders, abandoned>>
  BY DEF PageLeft
<1>2. \A t \in Tills : /\ checkout'[t].at = checkout[t].at
                       /\ checkout'[t].left = checkout[t].left
                       /\ checkout'[t].items = checkout[t].items
  BY <1>1, ItemsTyped DEF Till
<1>3. Takers(p)' = Takers(p)
  BY <1>2 DEF Takers
<1>4. Held(p)' = Held(p)
  BY <1>2, <1>3, HeldSame DEF Takers
<1>5. Ordered(p)' = Ordered(p)
  BY <1>1, TakenIsUnits, TakenIsUnitsNext
<1> QED
  BY <1>1, <1>4, <1>5 DEF Taken

(* A till that opens has taken nothing yet. *)
LEMMA CheckoutKeepsTaken ==
  ASSUME SaleInv, SaleInv', NEW b \in Browsers, NEW t \in Tills, CheckoutCart(b, t),
         NEW p \in Products
  PROVE  Taken(p)' = Taken(p)
<1>1. /\ checkout[t].at = "CLOSED" /\ UNCHANGED <<orders, abandoned>>
      /\ checkout'[t] = [at |-> "TAKING", shopper |-> b, browser |-> b, items |-> cart[b],
                         left |-> {q \in Products : cart[b][q] > 0}]
      /\ \A u \in Tills \ {t} : checkout'[u] = checkout[u]
  BY ItemsTyped DEF CheckoutCart, Closed
<1>2. /\ checkout'[t].at = "TAKING" /\ checkout'[t].items[p] = cart[b][p]
      /\ p \notin checkout'[t].left <=> ~(cart[b][p] > 0)
  BY <1>1
<1>3. cart[b][p] \in Nat
  BY Bounds DEF SaleInv, SaleTyped
<1>4. t \notin Takers(p)
  BY <1>1 DEF Takers
<1>5. \A u \in Takers(p) : checkout'[u].items[p] = checkout[u].items[p]
  BY <1>1, <1>4 DEF Takers
<1>6. Held(p)' = Held(p)
  <2>1. CASE cart[b][p] = 0
    <3>1. Takers(p)' = Takers(p) \cup {t}
      BY <1>1, <1>2, <2>1 DEF Takers
    <3>2. Held(p)' = Held(p) + 0
      BY <1>2, <1>4, <1>5, <2>1, <3>1, HeldGrows
    <3> QED
      BY <3>2, TakenTyped
  <2>2. CASE cart[b][p] # 0
    <3>1. p \in checkout'[t].left
      BY <1>2, <1>3, <2>2
    <3>2. Takers(p)' = Takers(p)
      BY <1>1, <1>4, <3>1 DEF Takers
    <3> QED
      BY <1>5, <3>2, HeldSame
  <2> QED
    BY <2>1, <2>2
<1>7. Ordered(p)' = Ordered(p)
  BY <1>1, TakenIsUnits, TakenIsUnitsNext
<1> QED
  BY <1>1, <1>6, <1>7 DEF Taken

(* A till takes one product: that much more of it is taken, and nothing of  *)
(* the others.                                                              *)
LEMMA TakeAddsToTaken ==
  ASSUME SaleInv, SaleInv', NEW t \in Tills, NEW p \in Products, TakeItem(t, p)
  PROVE  /\ Taken(p)' = Taken(p) + checkout[t].items[p]
         /\ \A q \in Products \ {p} : Taken(q)' = Taken(q)
<1>1. /\ p \in checkout[t].left /\ checkout[t].at = "TAKING"
      /\ checkout'[t].left = checkout[t].left \ {p}
      /\ \A u \in Tills : checkout'[u].at = checkout[u].at /\ checkout'[u].items = checkout[u].items
      /\ \A u \in Tills \ {t} : checkout'[u] = checkout[u]
      /\ checkout[t].items[p] \in Nat
      /\ UNCHANGED <<orders, abandoned>>
  BY TakingTill
<1>2. \A q \in Products : Ordered(q)' = Ordered(q)
  BY <1>1, TakenIsUnits, TakenIsUnitsNext
<1>3. ASSUME NEW q \in Products \ {p}
      PROVE  Taken(q)' = Taken(q)
  <2>1. Takers(q)' = Takers(q)
    BY <1>1 DEF Takers
  <2>2. Held(q)' = Held(q)
    BY <1>1, <2>1, HeldSame DEF Takers
  <2> QED
    BY <1>1, <1>2, <2>2 DEF Taken
<1>4. Held(p)' = Held(p) + checkout[t].items[p]
  <2>1. t \notin Takers(p) /\ Takers(p)' = Takers(p) \cup {t}
    BY <1>1 DEF Takers
  <2>2. \A u \in Takers(p) : checkout'[u].items[p] = checkout[u].items[p]
    BY <1>1 DEF Takers
  <2>3. Held(p)' = Held(p) + checkout'[t].items[p]
    BY <2>1, <2>2, HeldGrows
  <2> QED
    BY <1>1, <2>3
<1>5. abandoned[p] \in Nat /\ Held(p) \in Nat /\ Ordered(p) \in Nat
  BY TakenTyped DEF SaleInv, SaleTyped
<1>6. Taken(p)' = Taken(p) + checkout[t].items[p]
  BY <1>1, <1>2, <1>4, <1>5 DEF Taken
<1> QED
  BY <1>3, <1>6

(* What a till held is ordered when it closes. *)
LEMMA OrderKeepsTaken ==
  ASSUME SaleInv, NEW t \in Tills, InsertOrder(t), NEW p \in Products
  PROVE  Taken(p)' = Taken(p)
<1>1. /\ checkout[t].at = "TAKING" /\ checkout[t].left = {}
      /\ checkout' = [checkout EXCEPT ![t] = Closed]
      /\ orders' = orders \cup {OrderOf(t)} /\ OrderOf(t) \notin orders
      /\ OrderOf(t).items = checkout[t].items
      /\ UNCHANGED abandoned
  BY OrderingTill
<1>2. Held(p) = Held(p)' + checkout[t].items[p] /\ Held(p)' \in Nat
  BY <1>1, ClosingTakers
<1>3. checkout[t].items[p] \in Nat
  BY ItemsTyped
<1>4. /\ Items(orders, p) \in Nat
      /\ Items(orders', p) = Items(orders, p) + checkout[t].items[p]
  <2>1. PICK o : o = OrderOf(t)
    OBVIOUS
  <2>2. /\ IsFiniteSet(orders) /\ o \notin orders
        /\ \A r \in orders \cup {o} : r.items[p] \in Nat
    BY <1>1, <1>3, <2>1, ItemsTyped
  <2>3. Items(orders, p) \in Nat /\ Items(orders \cup {o}, p) = Items(orders, p) + o.items[p]
    BY <2>2, ItemsGrow, Zenon
  <2> QED
    BY <1>1, <2>1, <2>3
<1>5. Ordered(p) \in Nat /\ Ordered(p)' = Ordered(p) + checkout[t].items[p]
  BY <1>4, TakenIsUnits, TakenIsUnitsNext
<1>6. abandoned[p] \in Nat
  BY DEF SaleInv, SaleTyped
<1> QED
  BY <1>1, <1>2, <1>3, <1>5, <1>6 DEF Taken

(* And abandoned when it fails. *)
LEMMA FailKeepsTaken ==
  ASSUME SaleInv, NEW t \in Tills, CheckoutFails(t), NEW p \in Products
  PROVE  Taken(p)' = Taken(p)
<1>1. /\ checkout[t].at = "TAKING" /\ checkout' = [checkout EXCEPT ![t] = Closed]
      /\ abandoned' = AbandonedWith({t}) /\ UNCHANGED orders
  BY DEF CheckoutFails
<1>2. abandoned'[p] = abandoned[p] + TakenBy({t}, p)
  BY <1>1 DEF AbandonedWith
<1>3. Ordered(p)' = Ordered(p)
  BY <1>1, TakenIsUnits, TakenIsUnitsNext
<1>4. abandoned[p] \in Nat /\ Held(p) \in Nat /\ Ordered(p) \in Nat /\ checkout[t].items[p] \in Nat
  BY TakenTyped, ItemsTyped DEF SaleInv, SaleTyped
<1>5. CASE p \in checkout[t].left
  <2>1. TakenBy({t}, p) = 0
    <3>1. {u \in {t} : p \notin checkout[u].left} = {}
      BY <1>5
    <3> QED
      BY <3>1, SumOfNothing DEF TakenBy
  <2>2. Held(p)' = Held(p)
    BY <1>1, <1>5, ClosingTakers
  <2> QED
    BY <1>2, <1>3, <1>4, <2>1, <2>2 DEF Taken
<1>6. CASE p \notin checkout[t].left
  <2>1. TakenBy({t}, p) = checkout[t].items[p]
    <3>1. {u \in {t} : p \notin checkout[u].left} = {t}
      BY <1>6
    <3>2. TakenBy({t}, p) = Units(checkout, {t}, p)
      BY <3>1 DEF TakenBy, Units
    <3>3. checkout[t].items[p] \in Nat
      BY <1>4
    <3>4. Units(checkout, {t}, p) = Plus(0, checkout[t].items[p])
      BY <3>3, UnitsOne
    <3> QED
      BY <3>2, <3>3, <3>4 DEF Plus
  <2>2. Held(p) = Held(p)' + checkout[t].items[p] /\ Held(p)' \in Nat
    BY <1>1, <1>6, ClosingTakers
  <2> QED
    BY <1>2, <1>3, <1>4, <2>1, <2>2 DEF Taken
<1> QED
  BY <1>5, <1>6

-----------------------------------------------------------------------------
(* The stock. *)

(* The invariant of the stock: what is not listed yet must count as         *)
(* untouched, or its seeding would not account for it.                      *)
StockInv == UnlistedIsUntouched /\ StockIsAccounted

(* The stock s of a product that was set to u when k of it had been taken,    *)
(* once n have been.                                                          *)
Balanced(s, u, k, n) ==
  n - k >= 0 /\ s = IF n - k > 0 /\ u - (n - k) < 0 THEN 0 ELSE u - (n - k)

(* The stock is accounted for product by product. *)
LEMMA AccountedIs ==
  StockIsAccounted <=>
    \A p \in Products : Balanced(stock[p], shelved[p].units, shelved[p].taken, Taken(p))
BY DEF StockIsAccounted, Balanced

(* And so after a step. *)
LEMMA AccountedIsNext ==
  StockIsAccounted' <=>
    \A p \in Products : Balanced(stock'[p], shelved'[p].units, shelved'[p].taken, Taken(p)')
BY DEF StockIsAccounted, Balanced

(* GREATEST(0, stock - qty) keeps the balance when something is taken.        *)
LEMMA TakingBalances ==
  \A s, u \in Int, k, n \in Nat, m \in Nat \ {0} :
     Balanced(s, u, k, n) => Balanced(IF s < m THEN 0 ELSE s - m, u, k, n + m)
BY DEF Balanced

(* What was just set balances, whatever the number.                           *)
LEMMA SettingBalances == \A u \in Int, n \in Nat : Balanced(u, u, n, n)
BY DEF Balanced

(* It holds of the empty table. *)
LEMMA StockStart == Init => StockInv
<1> SUFFICES ASSUME Init PROVE StockInv
  OBVIOUS
<1>1. /\ \A p \in Products : /\ stock[p] = 0 /\ abandoned[p] = 0
                               /\ shelved[p] = [units |-> 0, taken |-> 0]
      /\ \A b \in Browsers, p \in Products : cart[b][p] = 0 /\ seen[b][p] = 0
      /\ \A t \in Tills : checkout[t] = Closed
      /\ \A p \in Products : Closed.items[p] = 0
      /\ orders = {}
  BY DEF Init, NoItems, Closed
<1>2. ASSUME NEW p \in Products
      PROVE  Taken(p) = 0
  <2>1. Takers(p) = {}
    BY <1>1 DEF Takers, Closed
  <2>2. Units(checkout, {}, p) = 0 /\ Items({}, p) = 0
    BY SumOfNothing DEF Units, Items
  <2>3. Held(p) = 0 /\ Ordered(p) = 0
    BY <1>1, <2>1, <2>2, TakenIsUnits
  <2> QED
    BY <1>1, <2>3 DEF Taken
<1>3. \A p \in Products, t \in Tills : checkout[t].items[p] = 0
  BY <1>1
<1>4. UnlistedIsUntouched
  BY <1>1, <1>2, <1>3 DEF UnlistedIsUntouched
<1>5. StockIsAccounted
  BY <1>1, <1>2, SettingBalances, AccountedIs
<1> QED
  BY <1>4, <1>5 DEF StockInv

(* It stays where the stock and what is taken of it do. *)
LEMMA AccountedKept ==
  ASSUME StockInv, UNCHANGED <<listed, stock, shelved>>, \A p \in Products : Taken(p)' = Taken(p),
         \A p \in Products \ listed :
           /\ \A b \in Browsers : seen'[b][p] = 0 /\ cart'[b][p] = 0
           /\ \A t \in Tills : checkout'[t].items[p] = 0
  PROVE  StockInv'
<1>1. StockIsAccounted'
  BY AccountedIs, AccountedIsNext DEF StockInv
<1>2. UnlistedIsUntouched'
  BY DEF StockInv, UnlistedIsUntouched
<1> QED
  BY <1>1, <1>2 DEF StockInv

(* Nothing that is not listed is chosen or taken. *)
LEMMA UnlistedItems ==
  ASSUME StockInv, NEW p \in Products \ listed
  PROVE  /\ \A b \in Browsers : seen[b][p] = 0 /\ cart[b][p] = 0
         /\ \A t \in Tills : checkout[t].items[p] = 0
         /\ stock[p] = 0 /\ Taken(p) = 0
BY DEF StockInv, UnlistedIsUntouched

(* Steps that leave the sale alone. *)
LEMMA QuietKeepsStock ==
  ASSUME StockInv, UNCHANGED shopVars
  PROVE  StockInv'
<1>1. \A p \in Products : Taken(p)' = Taken(p)
  BY TakenKept DEF shopVars
<1> QED
  BY <1>1, AccountedKept, UnlistedItems DEF shopVars

(* The seeding sets the stock that is shelved. *)
LEMMA SeedsKeepStock ==
  ASSUME SaleInv, StockInv, NEW p \in Products, Seeds(p)
  PROVE  StockInv'
<1>1. /\ \A q \in Products : Taken(q)' = Taken(q)
      /\ \A q \in Products \ {p} : stock'[q] = stock[q] /\ shelved'[q] = shelved[q]
      /\ stock'[p] = SeedStock[p] /\ shelved'[p] = [units |-> SeedStock[p], taken |-> 0]
      /\ SeedStock[p] \in Nat
  BY TakenKept, StorefrontAssumption DEF Seeds, SaleInv, SaleTyped
<1>2. Taken(p) = 0
  BY UnlistedItems DEF Seeds
<1>3. StockIsAccounted'
  <2>1. \A q \in Products \ {p} : Balanced(stock'[q], shelved'[q].units, shelved'[q].taken, Taken(q)')
    BY <1>1, AccountedIs DEF StockInv
  <2>2. Balanced(stock'[p], shelved'[p].units, shelved'[p].taken, Taken(p)')
    <3>1. Taken(p)' = 0
      BY <1>1, <1>2
    <3> QED
      BY <1>1, <3>1, SettingBalances
  <2> QED
    BY <2>1, <2>2, AccountedIsNext
<1>4. UnlistedIsUntouched'
  BY <1>1 DEF Seeds, StockInv, UnlistedIsUntouched
<1> QED
  BY <1>3, <1>4 DEF StockInv

(* The storefront stops. *)
LEMMA StopsKeepStock ==
  ASSUME SaleInv, StockInv, Stops
  PROVE  StockInv'
<1>1. \A p \in Products : Taken(p)' = Taken(p)
  BY StopKeepsTaken
<1>2. \A p \in Products, t \in Tills : checkout'[t].items[p] = 0
  BY DEF Stops, Closed, NoItems
<1> QED
  BY <1>1, <1>2, AccountedKept, UnlistedItems DEF Stops

(* A page is left. *)
LEMMA LeaveKeepsStock ==
  ASSUME SaleInv, StockInv, NEW b \in Browsers, Leaves(b)
  PROVE  StockInv'
<1>1. /\ cart' = [cart EXCEPT ![b] = NoItems]
      /\ checkout' = [t \in Tills |-> IF checkout[t].browser = b
                                      THEN [checkout[t] EXCEPT !.browser = "none"]
                                      ELSE checkout[t]]
      /\ UNCHANGED <<listed, stock, seen, shelved>>
  BY DEF Leaves, PageLeft
<1>2. \A t \in Tills : checkout'[t].items = checkout[t].items
  BY <1>1, ItemsTyped DEF Till
<1>3. \A p \in Products : Taken(p)' = Taken(p)
  BY LeaveKeepsTaken DEF Leaves
<1>4. \A a \in Browsers, p \in Products : cart'[a][p] \in {cart[a][p], 0}
  BY <1>1 DEF NoItems, SaleInv, SaleTyped
<1>5. ASSUME NEW p \in Products \ listed
      PROVE  /\ \A a \in Browsers : seen'[a][p] = 0 /\ cart'[a][p] = 0
             /\ \A t \in Tills : checkout'[t].items[p] = 0
  BY <1>1, <1>2, <1>4, UnlistedItems
<1> QED
  BY <1>1, <1>3, <1>5, AccountedKept

(* A page shows the table. *)
LEMMA FetchKeepsStock ==
  ASSUME SaleInv, StockInv, NEW b \in Browsers, FetchCatalog(b)
  PROVE  StockInv'
<1>1. /\ seen' = [seen EXCEPT ![b] = stock]
      /\ UNCHANGED <<listed, stock, cart, checkout, orders, shelved, abandoned>>
  BY DEF FetchCatalog, bootVars, saleVars
<1>2. \A p \in Products : Taken(p)' = Taken(p)
  BY <1>1, TakenKept
<1>3. \A a \in Browsers, p \in Products : seen'[a][p] \in {seen[a][p], stock[p]}
  BY <1>1 DEF SaleInv, SaleTyped
<1> QED
  BY <1>1, <1>2, <1>3, AccountedKept, UnlistedItems

(* A cart changes. *)
LEMMA CartKeepsStock ==
  ASSUME SaleInv, StockInv, NEW b \in Browsers, NEW p \in Products,
         AddToCart(b, p) \/ RemoveFromCart(b, p)
  PROVE  StockInv'
<1>1. /\ \/ cart[b][p] < seen[b][p] /\ cart' = [cart EXCEPT ![b][p] = cart[b][p] + 1]
         \/ cart' = [cart EXCEPT ![b][p] = 0]
      /\ UNCHANGED <<listed, stock, seen, checkout, orders, shelved, abandoned>>
  BY DEF AddToCart, RemoveFromCart, bootVars, saleVars
<1>2. \A q \in Products : Taken(q)' = Taken(q)
  BY <1>1, TakenKept
<1>3. ASSUME NEW q \in Products \ listed
      PROVE  \A a \in Browsers : cart'[a][q] = 0
  <2>1. /\ \A a \in Browsers : seen[a][q] = 0 /\ cart[a][q] = 0
        /\ cart \in [Browsers -> [Products -> 0..MaxUnits]]
    BY UnlistedItems DEF SaleInv, SaleTyped
  <2>2. CASE q = p
    <3>1. ~(cart[b][p] < seen[b][p])
      BY <2>1, <2>2
    <3>2. cart' = [cart EXCEPT ![b][p] = 0]
      BY <1>1, <3>1
    <3> QED
      BY <2>1, <2>2, <3>2
  <2>3. CASE q # p
    <3>1. \A a \in Browsers : cart'[a][q] = cart[a][q]
      BY <1>1, <2>1, <2>3
    <3> QED
      BY <2>1, <3>1
  <2> QED
    BY <2>2, <2>3
<1> QED
  BY <1>1, <1>2, <1>3, AccountedKept, UnlistedItems

(* A till opens. *)
LEMMA CheckoutKeepsStock ==
  ASSUME SaleInv, SaleInv', StockInv, NEW b \in Browsers, NEW t \in Tills, CheckoutCart(b, t)
  PROVE  StockInv'
<1>1. /\ checkout'[t].items = cart[b]
      /\ \A u \in Tills \ {t} : checkout'[u] = checkout[u]
      /\ UNCHANGED <<listed, stock, cart, seen, shelved>>
  BY ItemsTyped DEF CheckoutCart, bootVars
<1>2. \A p \in Products : Taken(p)' = Taken(p)
  BY CheckoutKeepsTaken
<1>3. \A p \in Products \ listed, u \in Tills : checkout'[u].items[p] = 0
  <2>1. \A p \in Products \ listed, u \in Tills \ {t} : checkout'[u].items[p] = 0
    BY <1>1, UnlistedItems
  <2>2. \A p \in Products \ listed : checkout'[t].items[p] = 0
    BY <1>1, UnlistedItems
  <2> QED
    BY <2>1, <2>2
<1> QED
  BY <1>1, <1>2, <1>3, AccountedKept, UnlistedItems

(* A till takes a product: the stock is less by what is taken more. *)
LEMMA TakeKeepsStock ==
  ASSUME SaleInv, SaleInv', LeftIsWanted, StockInv, NEW t \in Tills, NEW p \in Products,
         TakeItem(t, p)
  PROVE  StockInv'
<1>1. /\ stock' = [stock EXCEPT ![p] = IF stock[p] < checkout[t].items[p] THEN 0
                                       ELSE stock[p] - checkout[t].items[p]]
      /\ \A u \in Tills : checkout'[u].items = checkout[u].items
      /\ UNCHANGED <<listed, cart, seen, shelved>>
  BY TakingTill
<1>2. PICK n \in Nat \ {0} : n = checkout[t].items[p]
  <2>1. checkout[t].items[p] \in Nat /\ p \in checkout[t].left
    BY TakingTill
  <2> QED
    BY <2>1 DEF LeftIsWanted
<1>3. /\ Taken(p)' = Taken(p) + n
      /\ \A q \in Products \ {p} : Taken(q)' = Taken(q)
  BY <1>2, TakeAddsToTaken
<1>4. /\ stock'[p] = IF stock[p] < n THEN 0 ELSE stock[p] - n
      /\ \A q \in Products \ {p} : stock'[q] = stock[q]
  BY <1>1, <1>2 DEF SaleInv, SaleTyped
<1>5. StockIsAccounted'
  <2>1. \A q \in Products \ {p} : Balanced(stock'[q], shelved'[q].units, shelved'[q].taken, Taken(q)')
    BY <1>1, <1>3, <1>4, AccountedIs DEF StockInv
  <2>2. Balanced(stock'[p], shelved'[p].units, shelved'[p].taken, Taken(p)')
    <3>1. PICK s \in Int : s = stock[p]
      BY DEF SaleInv, SaleTyped
    <3>2. PICK u \in Int, k \in Nat : u = shelved[p].units /\ k = shelved[p].taken
      BY DEF SaleInv, SaleTyped
    <3>3. PICK m \in Nat : m = Taken(p)
      BY TakenTyped
    <3>4. Balanced(s, u, k, m)
      BY <3>1, <3>2, <3>3, AccountedIs DEF StockInv
    <3>5. Balanced(IF s < n THEN 0 ELSE s - n, u, k, m + n)
      BY <3>4, TakingBalances
    <3>6. /\ stock'[p] = (IF s < n THEN 0 ELSE s - n) /\ Taken(p)' = m + n
          /\ shelved'[p].units = u /\ shelved'[p].taken = k
      BY <1>1, <1>3, <1>4, <3>1, <3>2, <3>3
    <3> QED
      BY <3>5, <3>6
  <2> QED
    BY <2>1, <2>2, AccountedIsNext
<1>6. ASSUME NEW q \in Products \ listed
      PROVE  stock'[q] = 0 /\ Taken(q)' = 0
  <2>1. stock[q] = 0 /\ Taken(q) = 0 /\ checkout[t].items[q] = 0
    BY UnlistedItems
  <2>2. q # p
    BY <1>2, <2>1
  <2> QED
    BY <1>3, <1>4, <2>1, <2>2
<1>7. UnlistedIsUntouched'
  BY <1>1, <1>6 DEF StockInv, UnlistedIsUntouched
<1> QED
  BY <1>5, <1>7 DEF StockInv

(* A till closes, with an order or without. *)
LEMMA CloseKeepsStock ==
  ASSUME SaleInv, StockInv, NEW t \in Tills, InsertOrder(t) \/ CheckoutFails(t)
  PROVE  StockInv'
<1>1. /\ checkout[t].at = "TAKING" /\ checkout' = [checkout EXCEPT ![t] = Closed]
      /\ UNCHANGED <<listed, stock, seen, shelved>>
  BY DEF InsertOrder, CheckoutFails, tillRest, bootVars
<1>2. \A p \in Products : Taken(p)' = Taken(p)
  BY OrderKeepsTaken, FailKeepsTaken
<1>3. \A a \in Browsers : cart'[a] \in {cart[a], NoItems}
  <2>1. CASE cart' = CartEmptied(t)
    BY <1>1, <2>1, EmptiedCart
  <2>2. CASE cart' = cart
    BY <2>2
  <2> QED
    BY <2>1, <2>2 DEF InsertOrder, CheckoutFails
<1>4. \A p \in Products \ listed, u \in Tills : checkout'[u].items[p] = 0
  <2>1. /\ checkout'[t] = Closed
        /\ \A u \in Tills \ {t} : checkout'[u] = checkout[u]
        /\ \A p \in Products : Closed.items[p] = 0
    BY <1>1, ClosingTill DEF Closed, NoItems
  <2> QED
    BY <2>1, UnlistedItems
<1>5. \A p \in Products \ listed, a \in Browsers : cart'[a][p] = 0
  BY <1>3, UnlistedItems DEF NoItems
<1> QED
  BY <1>1, <1>2, <1>4, <1>5, AccountedKept, UnlistedItems

(* Staff set a stock: it is counted from there. *)
LEMMA StocksKeepStock ==
  ASSUME SaleInv, StockInv, NEW p \in Products, NEW n \in StaffStocks, Stocks(p, n)
  PROVE  StockInv'
<1>1. /\ stock' = [stock EXCEPT ![p] = n]
      /\ shelved' = [shelved EXCEPT ![p] = [units |-> n, taken |-> Taken(p)]]
      /\ p \in listed' /\ listed \subseteq listed'
      /\ UNCHANGED <<cart, seen, checkout, orders, abandoned>>
  BY DEF Stocks, Shelve, cartVars
<1>2. n \in Int /\ Taken(p) \in Nat
  BY StorefrontAssumption, TakenTyped
<1>3. \A q \in Products : Taken(q)' = Taken(q)
  BY <1>1, TakenKept
<1>4. /\ \A q \in Products \ {p} : stock'[q] = stock[q] /\ shelved'[q] = shelved[q]
      /\ stock'[p] = n /\ shelved'[p] = [units |-> n, taken |-> Taken(p)]
  BY <1>1 DEF SaleInv, SaleTyped
<1>5. StockIsAccounted'
  <2>1. \A q \in Products \ {p} : Balanced(stock'[q], shelved'[q].units, shelved'[q].taken, Taken(q)')
    BY <1>3, <1>4, AccountedIs DEF StockInv
  <2>2. Balanced(stock'[p], shelved'[p].units, shelved'[p].taken, Taken(p)')
    <3>1. PICK m \in Nat : m = Taken(p)
      BY <1>2
    <3>2. Taken(p)' = m /\ stock'[p] = n /\ shelved'[p].units = n /\ shelved'[p].taken = m
      BY <1>3, <1>4, <3>1
    <3>3. Balanced(n, n, m, m)
      BY <1>2, SettingBalances
    <3> QED
      BY <3>2, <3>3
  <2> QED
    BY <2>1, <2>2, AccountedIsNext
<1>6. UnlistedIsUntouched'
  BY <1>1, <1>3, <1>4 DEF StockInv, UnlistedIsUntouched
<1> QED
  BY <1>5, <1>6 DEF StockInv

(* No till is open at the start. *)
LEMMA WantedStart == Init => LeftIsWanted
BY DEF Init, Closed, LeftIsWanted

(* A till begins with what is in the cart, and never has more to take later. *)
LEMMA StepKeepsWanted == SaleInv /\ LeftIsWanted /\ ShopStep => LeftIsWanted'
<1> SUFFICES ASSUME SaleInv, LeftIsWanted, ShopStep PROVE LeftIsWanted'
  OBVIOUS
<1>1. ASSUME checkout' = checkout
      PROVE  LeftIsWanted'
  BY <1>1 DEF LeftIsWanted
<1>2. ASSUME \A t \in Tills : \/ checkout'[t].left = {}
                              \/ /\ checkout'[t].left \subseteq checkout[t].left
                                 /\ checkout'[t].items = checkout[t].items
      PROVE  LeftIsWanted'
  BY <1>2 DEF LeftIsWanted
<1>3. Closed.left = {}
  BY DEF Closed
<1>4. CASE Stops
  BY <1>2, <1>3, <1>4 DEF Stops
<1>5. ASSUME NEW b \in Browsers, Leaves(b)
      PROVE  LeftIsWanted'
  <2>1. checkout' = [t \in Tills |-> IF checkout[t].browser = b
                                     THEN [checkout[t] EXCEPT !.browser = "none"]
                                     ELSE checkout[t]]
    BY <1>5 DEF Leaves, PageLeft
  <2>2. \A t \in Tills : checkout'[t].left = checkout[t].left /\ checkout'[t].items = checkout[t].items
    BY <2>1, ItemsTyped DEF Till
  <2> QED
    BY <1>2, <2>2
<1>6. ASSUME NEW b \in Browsers, NEW t \in Tills, CheckoutCart(b, t)
      PROVE  LeftIsWanted'
  <2>1. /\ checkout'[t].items = cart[b] /\ checkout'[t].left = {p \in Products : cart[b][p] > 0}
        /\ \A u \in Tills \ {t} : checkout'[u] = checkout[u]
    BY <1>6, ItemsTyped DEF CheckoutCart
  <2> QED
    BY <2>1 DEF LeftIsWanted
<1>7. ASSUME NEW t \in Tills, NEW p \in Products, TakeItem(t, p)
      PROVE  LeftIsWanted'
  <2>1. /\ checkout'[t].left = checkout[t].left \ {p}
        /\ \A u \in Tills : checkout'[u].items = checkout[u].items
        /\ \A u \in Tills \ {t} : checkout'[u] = checkout[u]
    BY <1>7, TakingTill
  <2> QED
    BY <1>2, <2>1
<1>8. ASSUME NEW t \in Tills, InsertOrder(t) \/ CheckoutFails(t)
      PROVE  LeftIsWanted'
  <2>1. checkout' = [checkout EXCEPT ![t] = Closed]
    BY <1>8 DEF InsertOrder, CheckoutFails
  <2>2. checkout'[t] = Closed /\ \A u \in Tills \ {t} : checkout'[u] = checkout[u]
    BY <2>1, ItemsTyped
  <2> QED
    BY <1>2, <1>3, <2>2
<1>9. CASE UNCHANGED shopVars
  BY <1>1, <1>9 DEF shopVars
<1>10. CASE \/ \E p \in Products : Seeds(p)
            \/ \E b \in Browsers : FetchCatalog(b)
            \/ \E b \in Browsers, p \in Products : AddToCart(b, p) \/ RemoveFromCart(b, p)
            \/ \E p \in Products, n \in StaffStocks : Stocks(p, n)
  BY <1>1, <1>10 DEF Seeds, FetchCatalog, AddToCart, RemoveFromCart, Stocks, Shelve, saleVars
<1> QED
  BY <1>4, <1>5, <1>6, <1>7, <1>8, <1>9, <1>10 DEF ShopStep

(* One step after the other. *)
LEMMA StepKeepsStock ==
  SaleInv /\ SaleInv' /\ LeftIsWanted /\ StockInv /\ ShopStep => StockInv'
BY QuietKeepsStock, SeedsKeepStock, StopsKeepStock, LeaveKeepsStock, FetchKeepsStock, CartKeepsStock,
   CheckoutKeepsStock, TakeKeepsStock, CloseKeepsStock, StocksKeepStock DEF ShopStep

(* The stock that the UPDATE of the checkout, the admin portal and the      *)
(* seeding write is what it was last set to, be it below zero, less what      *)
(* orders, tills at work and failed checkouts took since, and no less than    *)
(* zero once they took any, however checkouts, staff and restarts interleave. *)
THEOREM StockAddsUp == Spec => []StockIsAccounted
<1>1. SeedInv /\ [Next]_vars => SeedInv'
  BY NextKeepsSeedInv
<1>2. SeedInv /\ SaleInv /\ LeftIsWanted /\ [Next]_vars => LeftIsWanted'
  BY NextIsShopStep, StepKeepsWanted
<1>3. SeedInv /\ SaleInv /\ SaleInv' /\ LeftIsWanted /\ StockInv /\ [Next]_vars => StockInv'
  BY NextIsShopStep, StepKeepsStock
<1>4. StockInv => StockIsAccounted
  BY DEF StockInv
<1> QED
  BY <1>1, <1>2, <1>3, <1>4, InitSeedInv, WantedStart, StockStart, SaleInvHolds, PTL DEF Spec

-----------------------------------------------------------------------------
(* What shoppers are charged for. *)

(* What is being ordered for b, and what of it a page of b no longer hears  *)
(* of.                                                                      *)
Ordering(b, p) == Units(checkout, Pending(b), p)
Forgotten(b, p) == Units(checkout, Unheard(b), p)

(* The part of the invariant about b. *)
Charged(b) ==
  /\ \A t, u \in Tills : checkout[t].browser = b /\ checkout[u].browser = b => t = u
  /\ \A p \in Products :
       /\ OrderedBy(b, p) + Ordering(b, p) <= chosen[b][p]
       /\ OrderedBy(b, p) + Forgotten(b, p) + cart[b][p] <= chosen[b][p]

(* The invariant is that of each shopper but the unsure ones. *)
LEMMA ChargesInvIs == ChargesInv <=> \A b \in Browsers \ unsure : Charged(b)
BY DEF ChargesInv, Charged, Ordering, Forgotten

(* The orders of b. *)
OrdersOf(b) == {r \in orders : r.shopper = b}

(* What b ordered is in the orders of b. *)
LEMMA OrderedByIs == \A b, p : OrderedBy(b, p) = Items(OrdersOf(b), p)
BY DEF OrderedBy, Items, OrdersOf

(* And so after a step. *)
LEMMA OrderedByIsNext == \A b, p : OrderedBy(b, p)' = Items(OrdersOf(b)', p)
BY DEF OrderedBy, Items, OrdersOf

(* All these are numbers. *)
LEMMA ChargesTyped ==
  ASSUME SaleInv, NEW b \in Browsers, NEW p \in Products
  PROVE  /\ OrderedBy(b, p) \in Nat /\ Ordering(b, p) \in Nat /\ Forgotten(b, p) \in Nat
         /\ cart[b][p] \in Nat /\ chosen[b][p] \in Nat
<1>1. /\ IsFiniteSet(Pending(b)) /\ IsFiniteSet(Unheard(b))
      /\ \A t \in Pending(b) \cup Unheard(b) : checkout[t].items[p] \in Nat
  <2>1. Pending(b) \subseteq Tills /\ Unheard(b) \subseteq Tills
    BY DEF Pending, Unheard
  <2> QED
    BY <2>1, ItemsTyped, Bounds, FiniteParts
<1>2. Ordering(b, p) \in Nat /\ Forgotten(b, p) \in Nat
  BY <1>1, UnitsTyped DEF Ordering, Forgotten
<1>3. OrderedBy(b, p) \in Nat
  <2>1. IsFiniteSet(OrdersOf(b)) /\ \A o \in OrdersOf(b) : o.items[p] \in Nat
    <3>1. OrdersOf(b) \subseteq orders
      BY DEF OrdersOf
    <3> QED
      BY <3>1, ItemsTyped, FiniteParts
  <2>2. [o \in OrdersOf(b) |-> o.items[p]] \in [OrdersOf(b) -> Nat]
    BY <2>1
  <2>3. Items(OrdersOf(b), p) \in Nat
    BY <2>1, <2>2, SumBounds DEF Items
  <2> QED
    BY <2>3, OrderedByIs
<1>4. cart[b][p] \in Nat /\ chosen[b][p] \in Nat
  BY Bounds DEF SaleInv, SaleTyped
<1> QED
  BY <1>2, <1>3, <1>4

(* Who does not buy waits for nothing. *)
LEMMA NotBuying ==
  ASSUME SaleInv, NEW b \in Browsers, ~Buying(b)
  PROVE  Pending(b) = Unheard(b)
BY DEF Buying, Pending, Unheard

(* The tills of b are the one its page listens to and those it forgot. *)
LEMMA ListeningTills ==
  ASSUME SaleInv, NEW b \in Browsers
  PROVE  \A t \in Tills : /\ checkout[t].browser = b => /\ checkout[t].at = "TAKING"
                                                        /\ checkout[t].shopper = b
                          /\ checkout[t].shopper = b => checkout[t].at = "TAKING"
<1>1. \A t \in Tills : checkout[t].at \in {"CLOSED", "TAKING"}
  BY DEF SaleInv, SaleTyped
<1>2. Closed.browser = "none" /\ Closed.shopper = "none" /\ b # "none"
  BY Bounds DEF Closed
<1> QED
  BY <1>1, <1>2 DEF SaleInv, TillsAreSound

(* The tills of b and their items stay. *)
LEMMA ChargesSame ==
  ASSUME SaleInv, NEW b \in Browsers, NEW p \in Products,
         \A t \in Tills : /\ (checkout'[t].shopper = b) <=> (checkout[t].shopper = b)
                          /\ checkout[t].shopper = b =>
                               /\ checkout'[t].items = checkout[t].items
                               /\ checkout'[t].browser = checkout[t].browser
  PROVE  Ordering(b, p)' = Ordering(b, p) /\ Forgotten(b, p)' = Forgotten(b, p)
<1>1. Pending(b)' = Pending(b) /\ Unheard(b)' = Unheard(b)
  BY DEF Pending, Unheard
<1>2. \A t \in Pending(b) \cup Unheard(b) : checkout'[t].items[p] = checkout[t].items[p]
  BY DEF Pending, Unheard
<1>3. /\ Units(checkout', Pending(b), p) = Units(checkout, Pending(b), p)
      /\ Units(checkout', Unheard(b), p) = Units(checkout, Unheard(b), p)
  BY <1>2, UnitsSame
<1> QED
  BY <1>1, <1>3 DEF Ordering, Forgotten

(* Neither tills nor orders nor the cart of b change. *)
LEMMA ChargedStays ==
  ASSUME SaleInv, NEW b \in Browsers, Charged(b), orders' = orders,
         cart'[b] = cart[b], chosen'[b] = chosen[b],
         \A t \in Tills : /\ (checkout'[t].shopper = b) <=> (checkout[t].shopper = b)
                          /\ (checkout'[t].browser = b) <=> (checkout[t].browser = b)
                          /\ checkout[t].shopper = b =>
                               /\ checkout'[t].items = checkout[t].items
                               /\ checkout'[t].browser = checkout[t].browser
  PROVE  Charged(b)'
<1>1. \A p \in Products : /\ Ordering(b, p)' = Ordering(b, p)
                          /\ Forgotten(b, p)' = Forgotten(b, p)
                          /\ OrderedBy(b, p)' = OrderedBy(b, p)
  BY ChargesSame, OrderedByIs, OrderedByIsNext DEF OrdersOf
<1> QED
  BY <1>1 DEF Charged

(* A unit goes into a cart: it is chosen with that. *)
LEMMA AddKeepsCharged ==
  ASSUME SaleInv, SaleInv', NEW b \in Browsers, Charged(b), NEW a \in Browsers, NEW p \in Products,
         AddToCart(a, p)
  PROVE  Charged(b)'
<1>1. /\ cart' = [cart EXCEPT ![a][p] = cart[a][p] + 1]
      /\ chosen' = [chosen EXCEPT ![a][p] = chosen[a][p] + 1]
      /\ UNCHANGED <<checkout, orders>>
  BY DEF AddToCart, saleVars
<1>2. /\ cart \in [Browsers -> [Products -> 0..MaxUnits]]
      /\ chosen \in [Browsers -> [Products -> 0..MaxUnits]]
  BY DEF SaleInv, SaleTyped
<1>3. CASE a # b
  <2>1. cart'[b] = cart[b] /\ chosen'[b] = chosen[b]
    BY <1>1, <1>2, <1>3
  <2> QED
    BY <1>1, <2>1, ChargedStays
<1>4. CASE a = b
  <2>1. ASSUME NEW q \in Products
        PROVE  /\ OrderedBy(b, q)' + Ordering(b, q)' <= chosen'[b][q]
               /\ OrderedBy(b, q)' + Forgotten(b, q)' + cart'[b][q] <= chosen'[b][q]
    <3>1. /\ Ordering(b, q)' = Ordering(b, q) /\ Forgotten(b, q)' = Forgotten(b, q)
          /\ OrderedBy(b, q)' = OrderedBy(b, q)
      BY <1>1, ChargesSame, OrderedByIs, OrderedByIsNext DEF OrdersOf
    <3>2. \/ cart'[b][q] = cart[b][q] /\ chosen'[b][q] = chosen[b][q]
          \/ cart'[b][q] = cart[b][q] + 1 /\ chosen'[b][q] = chosen[b][q] + 1
      BY <1>1, <1>2, <1>4
    <3>3. /\ OrderedBy(b, q) + Ordering(b, q) <= chosen[b][q]
          /\ OrderedBy(b, q) + Forgotten(b, q) + cart[b][q] <= chosen[b][q]
      BY DEF Charged
    <3> QED
      BY <3>1, <3>2, <3>3, ChargesTyped
  <2> QED
    BY <1>1, <2>1 DEF Charged
<1> QED
  BY <1>3, <1>4

(* A cart with less in it; nobody listens to less. *)
LEMMA RemoveKeepsCharged ==
  ASSUME SaleInv, SaleInv', NEW b \in Browsers, Charged(b), NEW a \in Browsers, NEW p \in Products,
         RemoveFromCart(a, p)
  PROVE  Charged(b)'
<1>1. /\ cart' = [cart EXCEPT ![a][p] = 0]
      /\ chosen' = ChosenWith(a, cart'[a])
      /\ UNCHANGED <<checkout, orders>>
  BY DEF RemoveFromCart, saleVars
<1>2. cart \in [Browsers -> [Products -> 0..MaxUnits]]
  BY DEF SaleInv, SaleTyped
<1>3. PICK c : c = cart'[a]
  OBVIOUS
<1>4. c \in [Products -> Nat] /\ \A q \in Products : c[q] <= cart[a][q]
  BY <1>1, <1>2, <1>3, Bounds
<1>5. chosen' = ChosenWith(a, c)
  BY <1>1, <1>3
<1>6. CASE a # b
  <2>1. cart'[b] = cart[b] /\ chosen'[b] = chosen[b]
    BY <1>1, <1>2, <1>4, <1>5, <1>6, ChosenKept
  <2> QED
    BY <1>1, <2>1, ChargedStays
<1>7. CASE a = b
  <2>1. ASSUME NEW q \in Products
        PROVE  /\ OrderedBy(b, q)' + Ordering(b, q)' <= chosen'[b][q]
               /\ OrderedBy(b, q)' + Forgotten(b, q)' + cart'[b][q] <= chosen'[b][q]
    <3>1. /\ Ordering(b, q)' = Ordering(b, q) /\ Forgotten(b, q)' = Forgotten(b, q)
          /\ OrderedBy(b, q)' = OrderedBy(b, q)
      BY <1>1, ChargesSame, OrderedByIs, OrderedByIsNext DEF OrdersOf
    <3>2. cart'[b][q] = c[q] /\ c[q] \in Nat /\ c[q] <= cart[b][q]
      BY <1>3, <1>4, <1>7
    <3>3. /\ OrderedBy(b, q) + Ordering(b, q) <= chosen[b][q]
          /\ OrderedBy(b, q) + Forgotten(b, q) + cart[b][q] <= chosen[b][q]
      BY DEF Charged
    <3>4. CASE Buying(b)
      <4>1. chosen'[b][q] = chosen[b][q]
        BY <1>4, <1>5, <1>7, <3>4, ChosenKept
      <4> QED
        BY <3>1, <3>2, <3>3, <4>1, ChargesTyped
    <3>5. CASE ~Buying(b)
      <4>1. chosen'[b][q] = chosen[b][q] - (cart[b][q] - c[q])
        BY <1>4, <1>5, <1>7, <3>5, ChosenKept
      <4>2. Ordering(b, q) = Forgotten(b, q)
        BY <3>5, NotBuying DEF Ordering, Forgotten
      <4> QED
        BY <3>1, <3>2, <3>3, <4>1, <4>2, ChargesTyped
    <3> QED
      BY <3>4, <3>5
  <2> QED
    BY <1>1, <2>1 DEF Charged
<1> QED
  BY <1>6, <1>7

(* The units of p at one till, named for the same reason as Plus. *)
Has(c, u, p) == c[u].items[p]

(* A till more. *)
LEMMA HasPlus ==
  \A c, T, t, p :
    /\ IsFiniteSet(T) /\ t \notin T
    /\ \A u \in T \cup {t} : Has(c, u, p) \in Nat
    => /\ Units(c, T, p) \in Nat
       /\ Units(c, T \cup {t}, p) = Plus(Units(c, T, p), Has(c, t, p))
BY UnitsPlus DEF Has

(* Tills with the same units have the same sum. *)
LEMMA HasSame ==
  \A c, e, T, p : (\A u \in T : Has(e, u, p) = Has(c, u, p)) => Units(e, T, p) = Units(c, T, p)
BY UnitsSame DEF Has

(* A page is left: the till it listened to is forgotten, and the cart empty. *)
LEMMA LeaveKeepsCharged ==
  ASSUME SaleInv, SaleInv', NEW b \in Browsers, Charged(b), NEW a \in Browsers, PageLeft(a)
  PROVE  Charged(b)'
<1>1. /\ cart' = [cart EXCEPT ![a] = NoItems]
      /\ chosen' = ChosenWith(a, NoItems)
      /\ checkout' = [t \in Tills |-> IF checkout[t].browser = a
                                      THEN [checkout[t] EXCEPT !.browser = "none"]
                                      ELSE checkout[t]]
      /\ UNCHANGED orders
  BY DEF PageLeft
<1>2. cart \in [Browsers -> [Products -> 0..MaxUnits]]
  BY DEF SaleInv, SaleTyped
<1>3. /\ NoItems \in [Products -> Nat]
      /\ \A q \in Products : NoItems[q] = 0 /\ NoItems[q] <= cart[a][q]
  BY <1>2, Bounds DEF NoItems
<1>4. \A t \in Tills :
        /\ checkout'[t].items = checkout[t].items
        /\ checkout'[t].shopper = checkout[t].shopper
        /\ checkout'[t].browser = IF checkout[t].browser = a THEN "none" ELSE checkout[t].browser
  BY <1>1, ItemsTyped DEF Till
<1>5. a # "none" /\ b # "none"
  BY Bounds
<1>6. CASE a # b
  <2>1. cart'[b] = cart[b] /\ chosen'[b] = chosen[b]
    BY <1>1, <1>2, <1>3, <1>6, ChosenKept
  <2>2. \A t \in Tills : /\ (checkout'[t].shopper = b) <=> (checkout[t].shopper = b)
                         /\ (checkout'[t].browser = b) <=> (checkout[t].browser = b)
    BY <1>4, <1>5, <1>6
  <2>3. \A t \in Tills : checkout[t].shopper = b => /\ checkout'[t].items = checkout[t].items
                                                    /\ checkout'[t].browser = checkout[t].browser
    <3>1. \A t \in Tills : checkout[t].browser = a => checkout[t].shopper = a
      BY ListeningTills
    <3> QED
      BY <1>4, <1>6, <3>1
  <2> QED
    BY <1>1, <2>1, <2>2, <2>3, ChargedStays
<1>7. CASE a = b
  <2>1. ASSUME NEW q \in Products
        PROVE  /\ OrderedBy(b, q)' + Ordering(b, q)' <= chosen'[b][q]
               /\ OrderedBy(b, q)' + Forgotten(b, q)' + cart'[b][q] <= chosen'[b][q]
    <3>1. Pending(b)' = Pending(b) /\ Unheard(b)' = Pending(b)
      BY <1>4, <1>5, <1>7 DEF Pending, Unheard
    <3>2. Units(checkout', Pending(b), q) = Units(checkout, Pending(b), q)
      <4>1. \A u \in Pending(b) : checkout'[u].items[q] = checkout[u].items[q]
        BY <1>4 DEF Pending
      <4> QED
        BY <4>1, UnitsSame
    <3>3. Ordering(b, q)' = Ordering(b, q) /\ Forgotten(b, q)' = Ordering(b, q)
      BY <3>1, <3>2 DEF Ordering, Forgotten
    <3>4. OrderedBy(b, q)' = OrderedBy(b, q)
      BY <1>1, OrderedByIs, OrderedByIsNext DEF OrdersOf
    <3>5. cart'[b][q] = 0
      BY <1>1, <1>2, <1>3, <1>7
    <3>6. /\ OrderedBy(b, q) + Ordering(b, q) <= chosen[b][q]
          /\ OrderedBy(b, q) + Forgotten(b, q) + cart[b][q] <= chosen[b][q]
      BY DEF Charged
    <3>7. CASE Buying(b)
      <4>1. chosen'[b][q] = chosen[b][q]
        BY <1>1, <1>3, <1>7, <3>7, ChosenKept
      <4> QED
        BY <3>3, <3>4, <3>5, <3>6, <4>1, ChargesTyped
    <3>8. CASE ~Buying(b)
      <4>1. chosen'[b][q] = chosen[b][q] - (cart[b][q] - NoItems[q])
        BY <1>1, <1>3, <1>7, <3>8, ChosenKept
      <4>2. chosen'[b][q] = chosen[b][q] - cart[b][q]
        BY <1>3, <4>1, ChargesTyped
      <4>3. Ordering(b, q) = Forgotten(b, q)
        BY <3>8, NotBuying DEF Ordering, Forgotten
      <4> QED
        BY <3>3, <3>4, <3>5, <3>6, <4>2, <4>3, ChargesTyped
    <3> QED
      BY <3>7, <3>8
  <2>2. \A t \in Tills : checkout'[t].browser # b
    BY <1>4, <1>5, <1>7
  <2> QED
    BY <2>1, <2>2 DEF Charged
<1> QED
  BY <1>6, <1>7

(* A till opens with the cart, which counts no longer beside it. *)
LEMMA CheckoutKeepsCharged ==
  ASSUME SaleInv, SaleInv', NEW b \in Browsers, Charged(b), b \notin unsure',
         NEW a \in Browsers, NEW t \in Tills, CheckoutCart(a, t)
  PROVE  Charged(b)'
<1>1. /\ checkout[t] = Closed
      /\ checkout'[t].shopper = a /\ checkout'[t].browser = a /\ checkout'[t].items = cart[a]
      /\ \A u \in Tills \ {t} : checkout'[u] = checkout[u]
      /\ UNCHANGED <<cart, orders, chosen>>
  BY ItemsTyped DEF CheckoutCart
<1>2. checkout[t].shopper = "none" /\ checkout[t].browser = "none" /\ b # "none"
  BY <1>1, Bounds DEF Closed
<1>3. CASE a # b
  <2>1. \A u \in Tills : /\ (checkout'[u].shopper = b) <=> (checkout[u].shopper = b)
                         /\ (checkout'[u].browser = b) <=> (checkout[u].browser = b)
                         /\ checkout[u].shopper = b => /\ checkout'[u].items = checkout[u].items
                                                       /\ checkout'[u].browser = checkout[u].browser
    <3> TAKE u \in Tills
    <3>1. CASE u = t
      BY <1>1, <1>2, <1>3, <3>1
    <3>2. CASE u # t
      BY <1>1, <3>2
    <3> QED
      BY <3>1, <3>2
  <2> QED
    BY <1>1, <2>1, ChargedStays
<1>4. CASE a = b
  <2>1. ~Buying(b)
    BY <1>4 DEF CheckoutCart
  <2>2. \A u \in Tills : checkout'[u].browser = b => u = t
    BY <1>1, <2>1 DEF Buying
  <2>3. /\ Pending(b)' = Pending(b) \cup {t} /\ t \notin Pending(b)
        /\ Unheard(b)' = Unheard(b) /\ Pending(b) = Unheard(b)
    <3>1. Pending(b)' = Pending(b) \cup {t} /\ t \notin Pending(b)
      BY <1>1, <1>2, <1>4 DEF Pending
    <3>2. Unheard(b)' = Unheard(b)
      BY <1>1, <1>2, <1>4 DEF Unheard
    <3> QED
      BY <2>1, <3>1, <3>2, NotBuying
  <2>4. ASSUME NEW q \in Products
        PROVE  /\ OrderedBy(b, q)' + Ordering(b, q)' <= chosen'[b][q]
               /\ OrderedBy(b, q)' + Forgotten(b, q)' + cart'[b][q] <= chosen'[b][q]
    <3>1. \A u \in Pending(b) : checkout'[u].items[q] = checkout[u].items[q]
      BY <1>1, <2>3 DEF Pending
    <3>2. Units(checkout', Pending(b), q) = Units(checkout, Pending(b), q)
      BY <3>1, UnitsSame
    <3>3. Units(checkout', Pending(b) \cup {t}, q)
            = Plus(Units(checkout', Pending(b), q), checkout'[t].items[q])
      <4>0. PICK T : T = Pending(b)
        OBVIOUS
      <4>1. /\ IsFiniteSet(T) /\ t \notin T
            /\ \A u \in T \cup {t} : Has(checkout', u, q) \in Nat
        <5>1. Pending(b) \subseteq Tills
          BY DEF Pending
        <5>2. \A u \in Pending(b) : checkout'[u].items[q] \in Nat
          BY <3>1, <5>1, ItemsTyped
        <5>3. checkout'[t].items[q] \in Nat
          BY <1>1, <1>4, ChargesTyped
        <5> QED
          BY <2>3, <4>0, <5>1, <5>2, <5>3, Bounds, FiniteParts DEF Has
      <4>2. Units(checkout', T \cup {t}, q) = Plus(Units(checkout', T, q), Has(checkout', t, q))
        BY <4>1, HasPlus
      <4> QED
        BY <4>0, <4>2 DEF Has
    <3>4. checkout'[t].items[q] = cart[b][q]
      BY <1>1, <1>4
    <3>5. Ordering(b, q)' = Ordering(b, q) + cart[b][q]
      BY <2>3, <3>2, <3>3, <3>4 DEF Ordering, Plus
    <3>6. Forgotten(b, q)' = Forgotten(b, q) /\ Ordering(b, q) = Forgotten(b, q)
      BY <2>3, <3>2 DEF Forgotten, Ordering
    <3>7. OrderedBy(b, q)' = OrderedBy(b, q)
      BY <1>1, OrderedByIs, OrderedByIsNext DEF OrdersOf
    <3>8. OrderedBy(b, q) + Forgotten(b, q) + cart[b][q] <= chosen[b][q]
      BY DEF Charged
    <3>9. OrderedBy(b, q) + (Ordering(b, q) + cart[b][q]) <= chosen[b][q]
      BY <3>6, <3>8, ChargesTyped
    <3> QED
      BY <1>1, <3>5, <3>6, <3>7, <3>8, <3>9
  <2> QED
    BY <2>2, <2>4 DEF Charged
<1> QED
  BY <1>3, <1>4

(* A till takes a product; what is ordered stays. *)
LEMMA TakeKeepsCharged ==
  ASSUME SaleInv, SaleInv', NEW b \in Browsers, Charged(b), NEW t \in Tills, NEW p \in Products,
         TakeItem(t, p)
  PROVE  Charged(b)'
<1>1. /\ \A u \in Tills : /\ checkout'[u].shopper = checkout[u].shopper
                          /\ checkout'[u].browser = checkout[u].browser
                          /\ checkout'[u].items = checkout[u].items
      /\ UNCHANGED <<cart, orders, chosen>>
  BY TakingTill
<1> QED
  BY <1>1, ChargedStays

(* A till of b closes: what it held leaves the sums. *)
LEMMA ClosingCharges ==
  ASSUME SaleInv, NEW t \in Tills, NEW b \in Browsers, checkout[t].shopper = b, NEW p \in Products,
         checkout'[t].shopper # b, \A u \in Tills \ {t} : checkout'[u] = checkout[u]
  PROVE  /\ Ordering(b, p)' \in Nat /\ Forgotten(b, p)' \in Nat
         /\ checkout[t].items[p] \in Nat
         /\ Ordering(b, p) = Ordering(b, p)' + checkout[t].items[p]
         /\ checkout[t].browser = b => Forgotten(b, p)' = Forgotten(b, p)
         /\ checkout[t].browser # b => Forgotten(b, p) = Forgotten(b, p)' + checkout[t].items[p]
<1>2. checkout[t].items[p] \in Nat
  BY ItemsTyped
<1>3. PICK T : T = Pending(b) \ {t}
  OBVIOUS
<1>4. PICK V : V = Unheard(b) \ {t}
  OBVIOUS
<1>5. /\ Pending(b)' = T /\ Pending(b) = T \cup {t} /\ t \notin T
      /\ Unheard(b)' = V /\ t \notin V
      /\ checkout[t].browser = b => Unheard(b) = V
      /\ checkout[t].browser # b => Unheard(b) = V \cup {t}
  <2>1. Pending(b)' = T
    BY <1>3 DEF Pending
  <2>2. Unheard(b)' = V
    BY <1>4 DEF Unheard
  <2> QED
    BY <1>3, <1>4, <2>1, <2>2 DEF Pending, Unheard
<1>6. /\ IsFiniteSet(T) /\ IsFiniteSet(V)
      /\ \A u \in T \cup {t} : Has(checkout, u, p) \in Nat
      /\ \A u \in V \cup {t} : Has(checkout, u, p) \in Nat
  <2>1. T \subseteq Tills /\ V \subseteq Tills
    BY <1>3, <1>4 DEF Pending, Unheard
  <2> QED
    BY <1>2, <2>1, Bounds, FiniteParts, ItemsTyped DEF Has
<1>7. /\ Units(checkout', T, p) = Units(checkout, T, p)
      /\ Units(checkout', V, p) = Units(checkout, V, p)
  <2>1. /\ \A u \in T : Has(checkout', u, p) = Has(checkout, u, p)
        /\ \A u \in V : Has(checkout', u, p) = Has(checkout, u, p)
    BY <1>3, <1>4 DEF Pending, Unheard, Has
  <2>2. Units(checkout', T, p) = Units(checkout, T, p)
    BY <2>1, HasSame
  <2>3. Units(checkout', V, p) = Units(checkout, V, p)
    BY <2>1, HasSame
  <2> QED
    BY <2>2, <2>3
<1>8. /\ Units(checkout, T, p) \in Nat
      /\ Units(checkout, T \cup {t}, p) = Plus(Units(checkout, T, p), Has(checkout, t, p))
  <2>1. /\ IsFiniteSet(T) /\ t \notin T
        /\ \A u \in T \cup {t} : Has(checkout, u, p) \in Nat
    BY <1>5, <1>6
  <2> QED
    BY <2>1, HasPlus
<1>9. /\ Units(checkout, V, p) \in Nat
      /\ Units(checkout, V \cup {t}, p) = Plus(Units(checkout, V, p), Has(checkout, t, p))
  <2>1. /\ IsFiniteSet(V) /\ t \notin V
        /\ \A u \in V \cup {t} : Has(checkout, u, p) \in Nat
    BY <1>5, <1>6
  <2> QED
    BY <2>1, HasPlus
<1>10. /\ Ordering(b, p)' = Units(checkout, T, p)
       /\ Forgotten(b, p)' = Units(checkout, V, p)
  BY <1>5, <1>7 DEF Ordering, Forgotten
<1>11. Ordering(b, p) = Plus(Units(checkout, T, p), Has(checkout, t, p))
  BY <1>5, <1>8 DEF Ordering
<1>12. /\ checkout[t].browser = b => Forgotten(b, p) = Units(checkout, V, p)
       /\ checkout[t].browser # b =>
            Forgotten(b, p) = Plus(Units(checkout, V, p), Has(checkout, t, p))
  BY <1>5, <1>9 DEF Forgotten
<1> QED
  BY <1>2, <1>8, <1>9, <1>10, <1>11, <1>12 DEF Plus, Has

(* Who a closing till was for. *)
LEMMA ClosesFor ==
  ASSUME SaleInv, NEW t \in Tills, checkout[t].at = "TAKING",
         checkout' = [checkout EXCEPT ![t] = Closed], NEW b \in Browsers
  PROVE  checkout'[t].shopper # b /\ \A u \in Tills \ {t} : checkout'[u] = checkout[u]
BY ClosingTill, Bounds DEF Closed

(* Nothing changes for the other shoppers. *)
LEMMA ClosingOthers ==
  ASSUME SaleInv, NEW t \in Tills, checkout[t].at = "TAKING",
         checkout' = [checkout EXCEPT ![t] = Closed],
         NEW b \in Browsers, checkout[t].shopper # b
  PROVE  \A u \in Tills : /\ (checkout'[u].shopper = b) <=> (checkout[u].shopper = b)
                          /\ (checkout'[u].browser = b) <=> (checkout[u].browser = b)
                          /\ checkout[u].shopper = b => /\ checkout'[u].items = checkout[u].items
                                                        /\ checkout'[u].browser = checkout[u].browser
<1>1. /\ checkout'[t].shopper = "none" /\ checkout'[t].browser = "none" /\ b # "none"
      /\ \A u \in Tills \ {t} : checkout'[u] = checkout[u]
  BY ClosingTill, Bounds DEF Closed
<1>2. checkout[t].browser # b
  BY ListeningTills
<1> TAKE u \in Tills
<1>3. CASE u = t
  BY <1>1, <1>2, <1>3
<1>4. CASE u # t
  BY <1>1, <1>4
<1> QED
  BY <1>3, <1>4

(* A till closes without an order. *)
LEMMA FailKeepsCharged ==
  ASSUME SaleInv, SaleInv', NEW b \in Browsers, Charged(b), NEW t \in Tills, CheckoutFails(t)
  PROVE  Charged(b)'
<1>1. /\ checkout[t].at = "TAKING" /\ checkout' = [checkout EXCEPT ![t] = Closed]
      /\ UNCHANGED <<cart, orders, chosen>>
  BY DEF CheckoutFails, tillRest
<1>2. CASE checkout[t].shopper # b
  BY <1>1, <1>2, ClosingOthers, ChargedStays
<1>3. CASE checkout[t].shopper = b
  <2>1. \A u, v \in Tills : checkout'[u].browser = b /\ checkout'[v].browser = b => u = v
    <3>1. \A u \in Tills : checkout'[u].browser = b => checkout[u].browser = b
      BY <1>1, ClosingTill, Bounds DEF Closed
    <3> QED
      BY <3>1 DEF Charged
  <2>2. ASSUME NEW q \in Products
        PROVE  /\ OrderedBy(b, q)' + Ordering(b, q)' <= chosen'[b][q]
               /\ OrderedBy(b, q)' + Forgotten(b, q)' + cart'[b][q] <= chosen'[b][q]
    <3>1. OrderedBy(b, q)' = OrderedBy(b, q)
      BY <1>1, OrderedByIs, OrderedByIsNext DEF OrdersOf
    <3>2. /\ Ordering(b, q)' \in Nat /\ Forgotten(b, q)' \in Nat
          /\ Ordering(b, q)' <= Ordering(b, q) /\ Forgotten(b, q)' <= Forgotten(b, q)
      <4>1. PICK n \in Nat : n = checkout[t].items[q]
        BY ItemsTyped
      <4>2. /\ Ordering(b, q)' \in Nat /\ Forgotten(b, q)' \in Nat
            /\ Ordering(b, q) = Ordering(b, q)' + n
            /\ Forgotten(b, q)' = Forgotten(b, q) \/ Forgotten(b, q) = Forgotten(b, q)' + n
        BY <1>1, <1>3, <4>1, ClosesFor, ClosingCharges
      <4> QED
        BY <4>2
    <3>3. /\ OrderedBy(b, q) + Ordering(b, q) <= chosen[b][q]
          /\ OrderedBy(b, q) + Forgotten(b, q) + cart[b][q] <= chosen[b][q]
      BY DEF Charged
    <3> QED
      BY <1>1, <3>1, <3>2, <3>3, ChargesTyped
  <2> QED
    BY <2>1, <2>2 DEF Charged
<1> QED
  BY <1>2, <1>3

(* All tills close at once. *)
LEMMA StopKeepsCharged ==
  ASSUME SaleInv, SaleInv', NEW b \in Browsers, Charged(b), Stops
  PROVE  Charged(b)'
<1>1. /\ \A t \in Tills : checkout'[t] = Closed
      /\ UNCHANGED <<cart, orders, chosen>>
  BY DEF Stops
<1>2. b # "none" /\ Closed.shopper = "none" /\ Closed.browser = "none"
  BY Bounds DEF Closed
<1>3. ASSUME NEW q \in Products
      PROVE  /\ OrderedBy(b, q)' + Ordering(b, q)' <= chosen'[b][q]
             /\ OrderedBy(b, q)' + Forgotten(b, q)' + cart'[b][q] <= chosen'[b][q]
  <2>1. OrderedBy(b, q)' = OrderedBy(b, q)
    BY <1>1, OrderedByIs, OrderedByIsNext DEF OrdersOf
  <2>2. Ordering(b, q)' = 0 /\ Forgotten(b, q)' = 0
    <3>1. Pending(b)' = {} /\ Unheard(b)' = {}
      BY <1>1, <1>2 DEF Pending, Unheard
    <3>2. Units(checkout', {}, q) = 0
      BY SumOfNothing DEF Units
    <3> QED
      BY <3>1, <3>2 DEF Ordering, Forgotten
  <2>3. /\ OrderedBy(b, q) + Ordering(b, q) <= chosen[b][q]
        /\ OrderedBy(b, q) + Forgotten(b, q) + cart[b][q] <= chosen[b][q]
    BY DEF Charged
  <2> QED
    BY <1>1, <2>1, <2>2, <2>3, ChargesTyped
<1> QED
  BY <1>1, <1>2, <1>3 DEF Charged

(* A till closes with its order: what was being ordered is. *)
LEMMA OrderKeepsCharged ==
  ASSUME SaleInv, SaleInv', NEW b \in Browsers, Charged(b), b \notin unsure',
         NEW t \in Tills, InsertOrder(t)
  PROVE  Charged(b)'
<1>1. /\ checkout[t].at = "TAKING" /\ checkout' = [checkout EXCEPT ![t] = Closed]
      /\ orders' = orders \cup {OrderOf(t)} /\ OrderOf(t) \notin orders
      /\ OrderOf(t).shopper = checkout[t].shopper /\ OrderOf(t).items = checkout[t].items
      /\ UNCHANGED chosen
  BY OrderingTill
<1>2. CASE checkout[t].shopper # b
  <2>1. OrdersOf(b)' = OrdersOf(b)
    BY <1>1, <1>2 DEF OrdersOf
  <2>2. checkout[t].at = "TAKING" /\ checkout' = [checkout EXCEPT ![t] = Closed]
    BY <1>1
  <2>3. \A u \in Tills : /\ (checkout'[u].shopper = b) <=> (checkout[u].shopper = b)
                         /\ (checkout'[u].browser = b) <=> (checkout[u].browser = b)
                         /\ checkout[u].shopper = b => /\ checkout'[u].items = checkout[u].items
                                                       /\ checkout'[u].browser = checkout[u].browser
    BY <1>2, <2>2, ClosingOthers
  <2>4. cart'[b] = cart[b]
    <3>1. checkout[t].browser # b
      BY <1>2, ListeningTills
    <3>2. CASE cart' = CartEmptied(t)
      BY <1>1, <3>1, <3>2, EmptiedCart
    <3> QED
      BY <3>2, OrderingTill
  <2>5. \A q \in Products : /\ Ordering(b, q)' = Ordering(b, q)
                            /\ Forgotten(b, q)' = Forgotten(b, q)
                            /\ OrderedBy(b, q)' = OrderedBy(b, q)
    <3> TAKE q \in Products
    <3>1. \A u \in Tills : /\ (checkout'[u].shopper = b) <=> (checkout[u].shopper = b)
                           /\ checkout[u].shopper = b =>
                                /\ checkout'[u].items = checkout[u].items
                                /\ checkout'[u].browser = checkout[u].browser
      BY <2>3
    <3>2. Ordering(b, q)' = Ordering(b, q) /\ Forgotten(b, q)' = Forgotten(b, q)
      BY <3>1, ChargesSame
    <3>3. OrderedBy(b, q)' = OrderedBy(b, q)
      BY <2>1, OrderedByIs, OrderedByIsNext
    <3> QED
      BY <3>2, <3>3
  <2>6. \A u \in Tills : (checkout'[u].browser = b) <=> (checkout[u].browser = b)
    BY <2>3
  <2> QED
    BY <1>1, <2>4, <2>5, <2>6 DEF Charged
<1>3. CASE checkout[t].shopper = b
  <2>1. cart' = CartEmptied(t)
    BY <1>3, OrderingTill
  <2>2. \A u \in Tills : checkout'[u].browser = b => checkout[u].browser = b /\ u # t
    BY <1>1, ClosingTill, Bounds DEF Closed
  <2>3. ASSUME NEW q \in Products
        PROVE  /\ OrderedBy(b, q)' + Ordering(b, q)' <= chosen'[b][q]
               /\ OrderedBy(b, q)' + Forgotten(b, q)' + cart'[b][q] <= chosen'[b][q]
    <3>1. PICK n \in Nat : n = checkout[t].items[q]
      BY ItemsTyped
    <3>2. /\ Ordering(b, q)' \in Nat /\ Forgotten(b, q)' \in Nat
          /\ Ordering(b, q) = Ordering(b, q)' + n
          /\ checkout[t].browser = b => Forgotten(b, q)' = Forgotten(b, q)
          /\ checkout[t].browser # b => Forgotten(b, q) = Forgotten(b, q)' + n
      BY <1>1, <1>3, <3>1, ClosesFor, ClosingCharges
    <3>3. OrderedBy(b, q)' = OrderedBy(b, q) + n
      <4>1. PICK o : o = OrderOf(t)
        OBVIOUS
      <4>2. OrdersOf(b)' = OrdersOf(b) \cup {o}
        BY <1>1, <1>3, <4>1 DEF OrdersOf
      <4>3. /\ IsFiniteSet(OrdersOf(b)) /\ o \notin OrdersOf(b)
            /\ \A r \in OrdersOf(b) \cup {o} : r.items[q] \in Nat
            /\ o.items[q] = n
        <5>1. OrdersOf(b) \subseteq orders /\ o \notin OrdersOf(b)
          BY <1>1, <4>1 DEF OrdersOf
        <5>2. o.items[q] = n
          BY <1>1, <3>1, <4>1
        <5> QED
          BY <5>1, <5>2, ItemsTyped, FiniteParts
      <4>4. Items(OrdersOf(b) \cup {o}, q) = Items(OrdersOf(b), q) + o.items[q]
        BY <4>3, ItemsGrow, Zenon
      <4> QED
        BY <4>2, <4>3, <4>4, OrderedByIs, OrderedByIsNext
    <3>4. /\ OrderedBy(b, q) + Ordering(b, q) <= chosen[b][q]
          /\ OrderedBy(b, q) + Forgotten(b, q) + cart[b][q] <= chosen[b][q]
      BY DEF Charged
    <3>5. CASE checkout[t].browser = b
      <4>1. cart'[b][q] = 0
        BY <1>1, <2>1, <3>5, EmptiedCart DEF NoItems
      <4>2. Forgotten(b, q)' = Ordering(b, q)'
        <5>1. Unheard(b)' = Pending(b)'
          <6>1. \A u \in Tills : checkout'[u].browser # b
            BY <2>2, <3>5 DEF Charged
          <6> QED
            BY <6>1 DEF Unheard, Pending
        <5> QED
          BY <5>1 DEF Forgotten, Ordering
      <4> QED
        BY <1>1, <3>2, <3>3, <3>4, <4>1, <4>2, ChargesTyped
    <3>6. CASE checkout[t].browser # b
      <4>1. cart'[b][q] = cart[b][q]
        BY <1>1, <2>1, <3>6, EmptiedCart
      <4>2. Forgotten(b, q) = Forgotten(b, q)' + n
        BY <3>2, <3>6
      <4> QED
        BY <1>1, <3>2, <3>3, <3>4, <4>1, <4>2, ChargesTyped
    <3> QED
      BY <3>5, <3>6
  <2>4. \A u, v \in Tills : checkout'[u].browser = b /\ checkout'[v].browser = b => u = v
    BY <2>2 DEF Charged
  <2> QED
    BY <2>3, <2>4 DEF Charged
<1> QED
  BY <1>2, <1>3

(* Nobody was charged yet. *)
LEMMA ChargesStart == Init => ChargesInv
<1> SUFFICES ASSUME Init, NEW b \in Browsers PROVE Charged(b)
  BY ChargesInvIs
<1>1. /\ \A t \in Tills : checkout[t].browser = "none" /\ checkout[t].shopper = "none"
      /\ b # "none" /\ orders = {}
  BY Bounds DEF Init, Closed
<1>2. ASSUME NEW q \in Products
      PROVE  /\ OrderedBy(b, q) = 0 /\ Ordering(b, q) = 0 /\ Forgotten(b, q) = 0
             /\ cart[b][q] = 0 /\ chosen[b][q] = 0
  <2>1. Pending(b) = {} /\ Unheard(b) = {} /\ OrdersOf(b) = {}
    BY <1>1 DEF Pending, Unheard, OrdersOf
  <2>2. Units(checkout, {}, q) = 0 /\ Items({}, q) = 0
    BY SumOfNothing DEF Units, Items
  <2> QED
    BY <2>1, <2>2, OrderedByIs DEF Ordering, Forgotten, Init, NoItems
<1> QED
  BY <1>1, <1>2 DEF Charged

(* One step after the other. *)
LEMMA StepKeepsCharges == SaleInv /\ SaleInv' /\ ChargesInv /\ ShopStep => ChargesInv'
<1> SUFFICES ASSUME SaleInv, SaleInv', ChargesInv, ShopStep,
                    NEW b \in Browsers, b \notin unsure'
             PROVE  Charged(b)'
  <2>1. (\A b \in Browsers \ unsure : Charged(b))' => ChargesInv'
    BY ChargesInvIs, PTL
  <2> QED
    BY <2>1
<1>1. unsure \subseteq unsure'
  BY DEF ShopStep, shopVars, Seeds, Stops, Leaves, PageLeft, FetchCatalog, AddToCart, RemoveFromCart,
         CheckoutCart, TakeItem, InsertOrder, CheckoutFails, Stocks, Shelve, cartVars
<1>2. Charged(b)
  BY <1>1, ChargesInvIs
<1>3. ASSUME UNCHANGED <<cart, checkout, orders, chosen>>
      PROVE  Charged(b)'
  BY <1>2, <1>3, ChargedStays
<1>4. CASE UNCHANGED shopVars \/ (\E p \in Products : Seeds(p))
             \/ (\E a \in Browsers : FetchCatalog(a)) \/ (\E p \in Products, n \in StaffStocks : Stocks(p, n))
  BY <1>3, <1>4 DEF shopVars, Seeds, FetchCatalog, saleVars, Stocks, Shelve, cartVars
<1> QED
  BY <1>2, <1>4, StopKeepsCharged, LeaveKeepsCharged, AddKeepsCharged, RemoveKeepsCharged,
     CheckoutKeepsCharged, TakeKeepsCharged, OrderKeepsCharged, FailKeepsCharged
  DEF ShopStep, Leaves

(* Nobody has more of a product in orders than was ever chosen, unless a    *)
(* checkout was pressed twice or its answer got lost: neither the cart that *)
(* checkoutCart leaves in place after a failure nor a reload of the page    *)
(* charges anything again.                                                  *)
THEOREM ChargesAreChosen == Spec => []ChargedForChosen
<1>1. SeedInv /\ [Next]_vars => SeedInv'
  BY NextKeepsSeedInv
<1>2. SeedInv /\ SaleInv /\ SaleInv' /\ ChargesInv /\ [Next]_vars => ChargesInv'
  BY NextIsShopStep, StepKeepsCharges
<1>3. SaleInv /\ ChargesInv => ChargedForChosen
  <2> SUFFICES ASSUME SaleInv, ChargesInv, NEW b \in Browsers \ unsure, NEW p \in Products
               PROVE  OrderedBy(b, p) <= chosen[b][p]
    BY DEF ChargedForChosen
  <2>1. OrderedBy(b, p) + Ordering(b, p) <= chosen[b][p]
    BY ChargesInvIs DEF Charged
  <2> QED
    BY <2>1, ChargesTyped
<1> QED
  BY <1>1, <1>2, <1>3, InitSeedInv, ChargesStart, SaleInvHolds, PTL DEF Spec
=============================================================================
