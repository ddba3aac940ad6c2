---------------------------- MODULE Totals_proofs ----------------------------
(***************************************************************************)
(* What adding up obeys: a total over a finite set is a natural number, it *)
(* grows by f[x] when x joins the set and shrinks by it when x leaves, and *)
(* only the values on the set matter.                                      *)
(***************************************************************************)
EXTENDS Totals, Integers, FiniteSetTheorems, TLAPS

\* One row's coins are as many as its amount.
LEMMA CoinsCardinality ==
    ASSUME NEW x, NEW f, f[x] \in Nat
    PROVE  IsFiniteSet(Coins(x, f)) /\ Cardinality(Coins(x, f)) = f[x]
<1>1. IsFiniteSet({x}) /\ Cardinality({x}) = 1
  BY FS_Singleton
<1>2. IsFiniteSet(1..f[x]) /\ Cardinality(1..f[x]) = f[x]
  <2> DEFINE n == f[x]
  <2>1. 1 \in Int /\ n \in Int /\ n \in Nat
    OBVIOUS
  <2> HIDE DEF n
  <2>2. IsFiniteSet(1..n) /\ Cardinality(1..n) = IF 1 > n THEN 0 ELSE n - 1 + 1
    BY ONLY <2>1, FS_Interval
  <2>3. Cardinality(1..n) = n
    BY <2>1, <2>2
  <2> QED BY <2>2, <2>3 DEF n
<1> DEFINE pile == 1..f[x]
<1>3. IsFiniteSet({x} \X pile) /\ Cardinality({x} \X pile) = 1 * f[x]
  <2>1. IsFiniteSet(pile) /\ Cardinality(pile) = f[x]
    BY <1>2
  <2> HIDE DEF pile
  <2>2. IsFiniteSet({x} \X pile) /\ Cardinality({x} \X pile) = Cardinality({x}) * Cardinality(pile)
    BY ONLY <1>1, <2>1, FS_Product
  <2> QED BY <1>1, <2>1, <2>2
<1> QED
  BY <1>3 DEF Coins

\* Finitely many rows put down finitely many coins.
LEMMA CoinsFinite ==
    ASSUME NEW S, IsFiniteSet(S), NEW f, \A x \in S : f[x] \in Nat
    PROVE  IsFiniteSet(CoinsOf(S, f))
<1> DEFINE piles == {Coins(x, f) : x \in S}
           pile  == [x \in S |-> Coins(x, f)]
<1>1. pile \in Surjection(S, piles)
  BY DEF Surjection
<1>2. IsFiniteSet(piles)
  BY <1>1, FS_Surjection
<1>3. \A P \in piles : IsFiniteSet(P)
  BY CoinsCardinality
<1>4. IsFiniteSet(UNION piles)
  <2> HIDE DEF piles
  <2> QED BY <1>2, <1>3, FS_UNION
<1> QED
  BY <1>4 DEF CoinsOf

\* A total is a natural number.
LEMMA TotalNat ==
    ASSUME NEW S, IsFiniteSet(S), NEW f, \A x \in S : f[x] \in Nat
    PROVE  Total(S, f) \in Nat
  BY CoinsFinite, FS_CardinalityType DEF Total

\* Nothing adds up to 0.
LEMMA TotalEmpty == \A f : Total({}, f) = 0
<1>1. \A f : CoinsOf({}, f) = {}
  BY DEF CoinsOf
<1> QED
  BY <1>1, FS_EmptySet DEF Total

\* A new row adds its amount.
LEMMA TotalAdd ==
    ASSUME NEW S, IsFiniteSet(S), NEW f, \A y \in S : f[y] \in Nat,
           NEW x, x \notin S, f[x] \in Nat
    PROVE  Total(S \cup {x}, f) = Total(S, f) + f[x]
<1>1. CoinsOf(S \cup {x}, f) = CoinsOf(S, f) \cup Coins(x, f)
  BY DEF CoinsOf
<1>2. CoinsOf(S, f) \cap Coins(x, f) = {}
  BY DEF CoinsOf, Coins
<1>3. IsFiniteSet(CoinsOf(S, f))
  BY CoinsFinite
<1>4. IsFiniteSet(Coins(x, f)) /\ Cardinality(Coins(x, f)) = f[x]
  BY CoinsCardinality
<1>5. Cardinality(CoinsOf(S, f) \cup Coins(x, f))
        = Cardinality(CoinsOf(S, f)) + f[x] - Cardinality({})
  BY <1>2, <1>3, <1>4, FS_Union
<1>6. Cardinality(CoinsOf(S, f)) \in Nat
  BY <1>3, FS_CardinalityType
<1>7. Cardinality(CoinsOf(S, f) \cup Coins(x, f)) = Cardinality(CoinsOf(S, f)) + f[x]
  <2> DEFINE c == Cardinality(CoinsOf(S, f))
  <2>1. c + f[x] - 0 = c + f[x]
    BY <1>6
  <2> QED BY <1>5, <2>1, FS_EmptySet
<1> QED
  BY <1>1, <1>7 DEF Total

\* A row that leaves takes its amount with it.
LEMMA TotalRemove ==
    ASSUME NEW S, IsFiniteSet(S), NEW f, \A y \in S : f[y] \in Nat, NEW x \in S
    PROVE  /\ Total(S, f) = Total(S \ {x}, f) + f[x]
           /\ Total(S, f) >= f[x]
<1>1. IsFiniteSet(S \ {x})
  BY FS_Subset, S \ {x} \in SUBSET S
<1>2. S = (S \ {x}) \cup {x}
  OBVIOUS
<1>3. Total((S \ {x}) \cup {x}, f) = Total(S \ {x}, f) + f[x]
  BY <1>1, TotalAdd
<1>4. Total(S, f) = Total(S \ {x}, f) + f[x]
  BY <1>2, <1>3
<1>5. Total(S \ {x}, f) \in Nat /\ f[x] \in Nat
  BY <1>1, TotalNat
<1>6. \A m, n \in Nat : m + n >= n
  OBVIOUS
<1> QED
  BY <1>4, <1>5, <1>6

\* Only the amounts of the rows in the set count.
LEMMA TotalAgree ==
    ASSUME NEW S, NEW f, NEW g, \A x \in S : f[x] = g[x]
    PROVE  Total(S, f) = Total(S, g)
<1>1. \A x \in S : Coins(x, f) = Coins(x, g)
  BY DEF Coins
<1>2. CoinsOf(S, f) = CoinsOf(S, g)
  BY <1>1 DEF CoinsOf
<1> QED
  BY <1>2 DEF Total
=============================================================================
