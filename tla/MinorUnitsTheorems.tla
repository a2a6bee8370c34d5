-------------------------- MODULE MinorUnitsTheorems --------------------------
(* Facts about sums of money, for every finite collection of amounts. *)
EXTENDS MinorUnits, FiniteSetTheorems, FunctionTheorems, TLAPS

(* The units of finitely many amounts are a finite set, so a sum of money is
   a natural number: the reduce() over allocations cannot go negative. *)
LEMMA TotalIsNat ==
  ASSUME NEW S, IsFiniteSet(S), NEW f
  PROVE  /\ IsFiniteSet(Units(S, f))
         /\ Total(S, f) \in Nat
<1>1. IsFiniteSet(1 .. MaxMinor)
  BY FS_Interval, MaxMinorAssumption
<1>2. IsFiniteSet(S \X (1 .. MaxMinor))
  BY <1>1, FS_Product
<1>3. Units(S, f) \in SUBSET (S \X (1 .. MaxMinor))
  BY DEF Units
<1>4. IsFiniteSet(Units(S, f))
  BY <1>2, <1>3, FS_Subset
<1> QED
  BY <1>4, FS_CardinalityType DEF Total

(* A sum depends only on its summands. *)
LEMMA TotalUnchanged ==
  ASSUME NEW S, NEW f, NEW g, \A i \in S : f[i] = g[i]
  PROVE  Total(S, f) = Total(S, g)
<1>1. Units(S, f) = Units(S, g)
  BY DEF Units
<1> QED
  BY <1>1 DEF Total

(* The sum of nothing is nothing. *)
LEMMA TotalOfZeros ==
  ASSUME NEW S, NEW f, \A i \in S : f[i] = 0
  PROVE  Total(S, f) = 0
<1>1. Units(S, f) = {}
  BY MaxMinorAssumption DEF Units
<1> QED
  BY <1>1, FS_EmptySet DEF Total

(* Raising one summand from zero to a raises the sum by a: what creating or
   applying one allocation does to a due. *)
LEMMA TotalRaised ==
  ASSUME NEW S, IsFiniteSet(S), NEW f, NEW g, NEW p \in S, NEW a \in Minor,
         f[p] = 0, g[p] = a, \A i \in S \ {p} : g[i] = f[i]
  PROVE  Total(S, g) = Total(S, f) + a
<1> DEFINE Added == {p} \X (1 .. a)
<1>1. IsFiniteSet(1 .. a) /\ Cardinality(1 .. a) = a
  BY FS_Interval DEF Minor
<1>2. IsFiniteSet({p}) /\ Cardinality({p}) = 1
  BY FS_Singleton
<1>3. IsFiniteSet(Added) /\ Cardinality(Added) = Cardinality({p}) * Cardinality(1 .. a)
  BY <1>1, <1>2, FS_Product
<1>4. Cardinality(Added) = a
  BY <1>1, <1>2, <1>3 DEF Minor
<1>5. Units(S, g) = Units(S, f) \cup Added
  <2>1. ASSUME NEW u \in Units(S, g) PROVE u \in Units(S, f) \cup Added
    <3>1. CASE u[1] = p
      BY <2>1, <3>1, MaxMinorAssumption DEF Units, Minor
    <3>2. CASE u[1] # p
      BY <2>1, <3>2 DEF Units
    <3> QED
      BY <3>1, <3>2
  <2>2. ASSUME NEW u \in Units(S, f) PROVE u \in Units(S, g)
    <3>1. u[1] # p
      BY <2>2, MaxMinorAssumption DEF Units
    <3> QED
      BY <2>2, <3>1 DEF Units
  <2>3. ASSUME NEW u \in Added PROVE u \in Units(S, g)
    BY <2>3, MaxMinorAssumption DEF Units, Minor
  <2> QED
    BY <2>1, <2>2, <2>3
<1>6. Units(S, f) \cap Added = {}
  BY MaxMinorAssumption DEF Units, Minor
<1>7. IsFiniteSet(Units(S, f))
  BY TotalIsNat
<1>8. Cardinality(Units(S, g))
        = Cardinality(Units(S, f)) + Cardinality(Added) - Cardinality(Units(S, f) \cap Added)
  BY <1>3, <1>5, <1>7, FS_Union
<1>9. Cardinality(Units(S, f) \cap Added) = 0
  BY <1>6, FS_EmptySet
<1>10. Cardinality(Units(S, f)) \in Nat
  BY <1>7, FS_CardinalityType
<1> QED
  BY <1>4, <1>8, <1>9, <1>10 DEF Total, Minor

(* A sum over more things, or of larger amounts, is not smaller. *)
LEMMA TotalGrows ==
  ASSUME NEW S, NEW T, IsFiniteSet(T), S \subseteq T, NEW f, NEW g,
         \A i \in S : f[i] \in Minor /\ g[i] \in Minor /\ f[i] <= g[i]
  PROVE  Total(S, f) <= Total(T, g)
<1>1. Units(S, f) \subseteq Units(T, g)
  BY MaxMinorAssumption DEF Units, Minor
<1>2. IsFiniteSet(Units(T, g))
  BY TotalIsNat
<1> QED
  BY <1>1, <1>2, FS_Subset DEF Total

(* The amounts that are zero do not count. *)
LEMMA TotalOfSupport ==
  ASSUME NEW S, NEW T, S \subseteq T, NEW f, \A i \in T \ S : f[i] = 0
  PROVE  Total(S, f) = Total(T, f)
<1>1. Units(S, f) = Units(T, f)
  BY MaxMinorAssumption DEF Units
<1> QED
  BY <1>1 DEF Total

(* One more thing raises the sum by its amount. *)
LEMMA TotalExtended ==
  ASSUME NEW S, IsFiniteSet(S), NEW p, p \notin S, NEW f, f[p] \in Minor
  PROVE  Total(S \cup {p}, f) = Total(S, f) + f[p]
<1> DEFINE g == [i \in S \cup {p} |-> IF i = p THEN 0 ELSE f[i]]
           h == [i \in S \cup {p} |-> f[i]]
<1>1. IsFiniteSet(S \cup {p})
  BY FS_AddElement
<1>2. Total(S \cup {p}, h) = Total(S \cup {p}, g) + f[p]
  BY <1>1, TotalRaised
<1>3. Total(S \cup {p}, h) = Total(S \cup {p}, f)
  BY TotalUnchanged
<1>4. Total(S, g) = Total(S \cup {p}, g)
  BY TotalOfSupport
<1>5. Total(S, g) = Total(S, f)
  BY TotalUnchanged
<1> QED
  BY <1>2, <1>3, <1>4, <1>5

(* Raising many amounts at once raises the sum by the sum of the raises: what
   charging one text to several packages does to the credits used. *)
LEMMA TotalOfRaises ==
  ASSUME NEW S, IsFiniteSet(S), NEW f \in [S -> Minor], NEW g \in [S -> Minor],
         \A i \in S : f[i] <= g[i]
  PROVE  Total(S, g) = Total(S, f) + Total(S, [i \in S |-> g[i] - f[i]])
<1> DEFINE d == [i \in S |-> g[i] - f[i]]
           A == Units(S, g) \ Units(S, f)
           Lift == [u \in Units(S, d) |-> <<u[1], u[2] + f[u[1]]>>]
<1>1. Units(S, f) \subseteq Units(S, g)
  BY MaxMinorAssumption DEF Units, Minor
<1>2. /\ IsFiniteSet(Units(S, f)) /\ IsFiniteSet(Units(S, g)) /\ IsFiniteSet(Units(S, d))
      /\ Total(S, f) \in Nat /\ Total(S, g) \in Nat /\ Total(S, d) \in Nat
  BY TotalIsNat
<1>3. Lift \in Bijection(Units(S, d), A)
  <2>1. ASSUME NEW u \in Units(S, d) PROVE Lift[u] \in A
    BY MaxMinorAssumption DEF Units, Minor
  <2>2. ASSUME NEW u \in Units(S, d), NEW v \in Units(S, d), Lift[u] = Lift[v] PROVE u = v
    BY <2>2, MaxMinorAssumption DEF Units, Minor
  <2>3. ASSUME NEW v \in A PROVE \E u \in Units(S, d) : Lift[u] = v
    <3> DEFINE u == <<v[1], v[2] - f[v[1]]>>
    <3>1. v \in S \X (1 .. MaxMinor) /\ v[2] <= g[v[1]] /\ v[2] > f[v[1]]
      BY MaxMinorAssumption DEF Units, Minor
    <3>2. u \in Units(S, d)
      BY <3>1, MaxMinorAssumption DEF Units, Minor
    <3>3. Lift[u] = v
      BY <3>1, <3>2, MaxMinorAssumption DEF Minor
    <3> QED
      BY <3>2, <3>3
  <2> QED
    BY <2>1, <2>2, <2>3, Fun_IsBij
<1>4. Cardinality(A) = Total(S, d)
  BY <1>2, <1>3, FS_Bijection DEF Total, ExistsBijection
<1>5. Cardinality(A) = Cardinality(Units(S, g)) - Cardinality(Units(S, g) \cap Units(S, f))
  BY <1>2, FS_Difference
<1>6. Units(S, g) \cap Units(S, f) = Units(S, f)
  BY <1>1
<1>7. Cardinality(A) = Total(S, g) - Total(S, f)
  BY <1>5, <1>6 DEF Total
<1>8. Total(S, g) = Total(S, f) + Total(S, d)
  <2> HIDE DEF A, d
  <2> QED
    BY <1>2, <1>4, <1>7
<1> QED
  BY <1>8

=============================================================================
