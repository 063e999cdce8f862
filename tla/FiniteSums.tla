----------------------------- MODULE FiniteSums -----------------------------
(***************************************************************************)
(* Facts about SumFunctionOnSet, the sum of f[x] over the members x of a   *)
(* finite set, which is how the models add up permits, instances and the   *)
(* bytes of a queue.                                                       *)
(*                                                                         *)
(* The sum is a fold: the value for S in a table that a recursive function *)
(* defines on the subsets of S.  That there is such a table, and only one, *)
(* is an induction over finite sets.  The library's induction theorems     *)
(* take a predicate as a parameter; here each induction is a minimal       *)
(* counterexample, which WFMin gives for the well-founded order on finite  *)
(* subsets.                                                                *)
(***************************************************************************)
EXTENDS SequencesExt, FiniteSetTheorems, TLAPS

Pick(s) == CHOOSE x \in s : TRUE
Rest(s) == s \ {Pick(s)}

(***************************************************************************)
(* t is the table of the sums of f on the subsets of S.                    *)
(***************************************************************************)
IsTable(f, S, t) ==
  t = [s \in SUBSET S |-> IF s = {} THEN 0 ELSE f[Pick(s)] + t[Rest(s)]]

IntegersOn(f, S) == \A x \in S : f[x] \in Int

-----------------------------------------------------------------------------
(***************************************************************************)
(* A set of finite subsets that is not empty has a member without a proper *)
(* subset in the set.                                                      *)
(***************************************************************************)
LEMMA MinimalSubset ==
  ASSUME NEW S, IsFiniteSet(S), NEW C \in SUBSET SUBSET S, C # {}
  PROVE  \E m \in C : \A s \in C : s \subseteq m => s = m
<1> DEFINE order == StrictSubsetOrdering(S)
<1>1. IsWellFoundedOn(order, SUBSET S)
  BY FS_StrictSubsetOrderingWellFounded, FS_FiniteSubsetsOfFinite
<1>2. PICK m \in C : \A s \in C : <<s, m>> \notin order
  <2> HIDE DEF order
  <2> QED  BY <1>1, WFMin
<1>3. ASSUME NEW s \in C, s \subseteq m, s # m
      PROVE  FALSE
  BY <1>2, <1>3 DEF StrictSubsetOrdering
<1> QED  BY <1>3

(***************************************************************************)
(* What is picked from a set is in it, and the rest is a proper subset.    *)
(***************************************************************************)
LEMMA PickAndRest ==
  ASSUME NEW s, s # {}
  PROVE  Pick(s) \in s /\ Rest(s) \subseteq s /\ Rest(s) # s
BY DEF Pick, Rest

(***************************************************************************)
(* An entry of a table.                                                    *)
(***************************************************************************)
LEMMA TableEntry ==
  ASSUME NEW f, NEW S, NEW t, IsTable(f, S, t), NEW s \in SUBSET S
  PROVE  t[s] = IF s = {} THEN 0 ELSE f[Pick(s)] + t[Rest(s)]
BY DEF IsTable

(***************************************************************************)
(* Two tables agree on the subsets that both have.                         *)
(***************************************************************************)
LEMMA TablesAgree ==
  ASSUME NEW f, NEW S, NEW R, IsFiniteSet(S), NEW t, NEW u,
         IsTable(f, S, t), IsTable(f, R, u), NEW z \in SUBSET S,
         z \in SUBSET R
  PROVE  t[z] = u[z]
<1> DEFINE C == {s \in SUBSET z : t[s] # u[s]}
<1>1. SUFFICES ASSUME C # {}
               PROVE  FALSE
  OBVIOUS
<1>2. IsFiniteSet(z)
  BY FS_Subset
<1>3. PICK m \in C : \A s \in C : s \subseteq m => s = m
  <2>1. C \in SUBSET SUBSET z
    OBVIOUS
  <2> HIDE DEF C
  <2> QED  BY <1>1, <1>2, <2>1, MinimalSubset
<1>4. m \subseteq z /\ t[m] # u[m]
  BY <1>3
<1>5. /\ t[m] = IF m = {} THEN 0 ELSE f[Pick(m)] + t[Rest(m)]
      /\ u[m] = IF m = {} THEN 0 ELSE f[Pick(m)] + u[Rest(m)]
  BY <1>4, TableEntry
<1>6. m # {} /\ t[Rest(m)] # u[Rest(m)]
  BY <1>4, <1>5
<1>7. Rest(m) \in C /\ Rest(m) \subseteq m /\ Rest(m) # m
  BY <1>4, <1>6, PickAndRest
<1> QED  BY <1>3, <1>7

(***************************************************************************)
(* Every finite set has a table.                                           *)
(***************************************************************************)
LEMMA TableExists ==
  ASSUME NEW f, NEW S, IsFiniteSet(S)
  PROVE  \E t : IsTable(f, S, t)
<1> DEFINE C == {s \in SUBSET S : ~ \E t : IsTable(f, s, t)}
<1>1. SUFFICES ASSUME C # {}
               PROVE  FALSE
  OBVIOUS
<1>2. PICK m \in C : \A s \in C : s \subseteq m => s = m
  <2>1. C \in SUBSET SUBSET S
    OBVIOUS
  <2> HIDE DEF C
  <2> QED  BY <1>1, <2>1, MinimalSubset
<1>3. m \subseteq S /\ ~ \E t : IsTable(f, m, t)
  BY <1>2
<1> DEFINE tab(s) == CHOOSE t : IsTable(f, s, t)
           top(s) == tab(s)[s]
           table == [s \in SUBSET m |->
                       IF s = {} THEN 0 ELSE f[Pick(s)] + top(Rest(s))]
<1>4. ASSUME NEW s \in SUBSET m, s # m
      PROVE  IsTable(f, s, tab(s))
  <2>1. s \notin C
    BY <1>2, <1>4
  <2>2. \E t : IsTable(f, s, t)
    BY <1>3, <2>1
  <2> QED  BY <2>2
<1> HIDE DEF tab, C
<1>5. ASSUME NEW s \in SUBSET m, s # m
      PROVE  top(s) = IF s = {} THEN 0 ELSE f[Pick(s)] + top(Rest(s))
  <2>1. IsTable(f, s, tab(s))
    BY <1>4, <1>5
  <2>2. top(s) = IF s = {} THEN 0 ELSE f[Pick(s)] + tab(s)[Rest(s)]
    BY <2>1, TableEntry
  <2>3. ASSUME s # {}
        PROVE  tab(s)[Rest(s)] = top(Rest(s))
    <3>1. Rest(s) \in SUBSET s /\ Rest(s) # s
      BY <2>3, PickAndRest
    <3>2. IsTable(f, Rest(s), tab(Rest(s)))
      BY <1>4, <1>5, <3>1
    <3>3. IsFiniteSet(s)
      BY <1>3, FS_Subset
    <3> QED  BY <2>1, <3>1, <3>2, <3>3, TablesAgree
  <2> QED  BY <2>2, <2>3
<1>6. ASSUME NEW s \in SUBSET m
      PROVE  table[s] = IF s = {} THEN 0 ELSE f[Pick(s)] + table[Rest(s)]
  <2>1. ASSUME s # {}
        PROVE  table[Rest(s)] = top(Rest(s))
    <3>1. Rest(s) \in SUBSET m /\ Rest(s) # m
      BY <2>1, PickAndRest
    <3>2. table[Rest(s)] = IF Rest(s) = {} THEN 0
                           ELSE f[Pick(Rest(s))] + top(Rest(Rest(s)))
      BY <3>1
    <3> HIDE DEF table, top
    <3> QED  BY <1>5, <3>1, <3>2
  <2> QED  BY <2>1
<1>7. table = [s \in SUBSET m |-> table[s]]
  OBVIOUS
<1>8. IsTable(f, m, table)
  <2> HIDE DEF table
  <2>1. [s \in SUBSET m |-> table[s]] =
          [s \in SUBSET m |-> IF s = {} THEN 0 ELSE f[Pick(s)] + table[Rest(s)]]
    BY <1>6
  <2> QED  BY <1>7, <2>1 DEF IsTable
<1> QED  BY <1>3, <1>8

-----------------------------------------------------------------------------
(***************************************************************************)
(* The sum of nothing, and the step of the fold.                           *)
(***************************************************************************)
LEMMA SumPicked ==
  ASSUME NEW f, NEW S, IsFiniteSet(S)
  PROVE  SumFunctionOnSet(f, S) =
           IF S = {} THEN 0
           ELSE f[Pick(S)] + SumFunctionOnSet(f, Rest(S))
<1> DEFINE tab(s) == CHOOSE t : IsTable(f, s, t)
<1>1. ASSUME NEW s
      PROVE  SumFunctionOnSet(f, s) = tab(s)[s]
  BY DEF SumFunctionOnSet, FoldFunctionOnSet, MapThenFoldSet, IsTable, Pick,
         Rest
<1>2. ASSUME NEW s, IsFiniteSet(s)
      PROVE  IsTable(f, s, tab(s))
  <2>1. \E t : IsTable(f, s, t)
    BY <1>2, TableExists
  <2> QED  BY <2>1
<1> HIDE DEF tab
<1>3. tab(S)[S] = IF S = {} THEN 0 ELSE f[Pick(S)] + tab(S)[Rest(S)]
  BY <1>2, TableEntry
<1>4. ASSUME S # {}
      PROVE  tab(S)[Rest(S)] = tab(Rest(S))[Rest(S)]
  <2>1. Rest(S) \in SUBSET S
    BY <1>4, PickAndRest
  <2>2. IsFiniteSet(Rest(S))
    BY <2>1, FS_Subset
  <2> QED  BY <1>2, <2>1, <2>2, TablesAgree
<1> QED  BY <1>1, <1>3, <1>4

LEMMA SumEmpty ==
  ASSUME NEW f
  PROVE  SumFunctionOnSet(f, {}) = 0
BY SumPicked, FS_EmptySet

(***************************************************************************)
(* A sum of integers is one.                                               *)
(***************************************************************************)
LEMMA SumInteger ==
  ASSUME NEW f, NEW S, IsFiniteSet(S), IntegersOn(f, S)
  PROVE  SumFunctionOnSet(f, S) \in Int
<1> DEFINE C == {s \in SUBSET S : SumFunctionOnSet(f, s) \notin Int}
<1>1. SUFFICES ASSUME C # {}
               PROVE  FALSE
  OBVIOUS
<1>2. PICK m \in C : \A s \in C : s \subseteq m => s = m
  <2>1. C \in SUBSET SUBSET S
    OBVIOUS
  <2> HIDE DEF C
  <2> QED  BY <1>1, <2>1, MinimalSubset
<1>3. m \subseteq S /\ SumFunctionOnSet(f, m) \notin Int
  BY <1>2
<1>4. IsFiniteSet(m)
  BY <1>3, FS_Subset
<1>5. m # {}
  BY <1>3, SumEmpty
<1>6. Pick(m) \in m /\ Rest(m) \subseteq m /\ Rest(m) # m
  BY <1>5, PickAndRest
<1>7. SumFunctionOnSet(f, Rest(m)) \in Int
  BY <1>2, <1>3, <1>6
<1>8. f[Pick(m)] \in Int
  BY <1>3, <1>6 DEF IntegersOn
<1> QED  BY <1>3, <1>4, <1>5, <1>7, <1>8, SumPicked

(***************************************************************************)
(* Any member may be taken out first: the sum does not depend on the order *)
(* in which the fold picks them.                                           *)
(***************************************************************************)
LEMMA SumStep ==
  ASSUME NEW f, NEW S, IsFiniteSet(S), IntegersOn(f, S), NEW x \in S
  PROVE  SumFunctionOnSet(f, S) = f[x] + SumFunctionOnSet(f, S \ {x})
<1> DEFINE Sum(s) == SumFunctionOnSet(f, s)
           C == {s \in SUBSET S : \E y \in s : Sum(s) # f[y] + Sum(s \ {y})}
<1>1. SUFFICES ASSUME C # {}
               PROVE  FALSE
  OBVIOUS
<1>2. PICK m \in C : \A s \in C : s \subseteq m => s = m
  <2>1. C \in SUBSET SUBSET S
    OBVIOUS
  <2> HIDE DEF C
  <2> QED  BY <1>1, <2>1, MinimalSubset
<1>3. PICK y \in m : Sum(m) # f[y] + Sum(m \ {y})
  BY <1>2
<1>4. \A s \in SUBSET m : /\ IsFiniteSet(s)
                          /\ Sum(s) \in Int
  <2>1. ASSUME NEW s \in SUBSET m
        PROVE  IsFiniteSet(s) /\ Sum(s) \in Int
    <3>1. s \subseteq S
      BY <1>2
    <3>2. IsFiniteSet(s)
      BY <3>1, FS_Subset
    <3>3. IntegersOn(f, s)
      BY <3>1 DEF IntegersOn
    <3> QED  BY <3>2, <3>3, SumInteger
  <2> QED  BY <2>1
<1>5. ASSUME NEW s \in SUBSET m, s # m, NEW z \in s
      PROVE  Sum(s) = f[z] + Sum(s \ {z})
  BY <1>2, <1>5
<1> HIDE DEF Sum, C
<1> DEFINE p == Pick(m)
<1>6. p \in m /\ Sum(m) = f[p] + Sum(m \ {p})
  <2>1. IsFiniteSet(m) /\ m # {}
    BY <1>3, <1>4
  <2> QED  BY <2>1, SumPicked, PickAndRest DEF Rest, Sum
<1>7. p # y
  BY <1>3, <1>6
<1> HIDE DEF p
<1>8. Sum(m \ {p}) = f[y] + Sum((m \ {p}) \ {y})
  BY <1>5, <1>6, <1>7
<1>9. Sum(m \ {y}) = f[p] + Sum((m \ {y}) \ {p})
  BY <1>5, <1>6, <1>7
<1>10. (m \ {p}) \ {y} = (m \ {y}) \ {p}
  OBVIOUS
<1>11. f[p] \in Int /\ f[y] \in Int
  <2>1. p \in S /\ y \in S
    BY <1>2, <1>3, <1>6 DEF C
  <2> QED  BY <2>1 DEF IntegersOn
<1>12. Sum((m \ {y}) \ {p}) \in Int
  BY <1>4
<1> DEFINE r == Sum((m \ {y}) \ {p})
<1>13. Sum(m) = f[p] + (f[y] + r) /\ Sum(m \ {y}) = f[p] + r
  BY <1>6, <1>8, <1>9, <1>10
<1>14. r \in Int
  BY <1>12
<1> HIDE DEF r
<1>15. Sum(m) = f[y] + Sum(m \ {y})
  BY <1>11, <1>13, <1>14
<1> QED  BY <1>3, <1>15

-----------------------------------------------------------------------------
(***************************************************************************)
(* Sums compare as their terms do.                                         *)
(***************************************************************************)
LEMMA SumMonotone ==
  ASSUME NEW f, NEW g, NEW S, IsFiniteSet(S), IntegersOn(f, S),
         IntegersOn(g, S), \A x \in S : f[x] <= g[x]
  PROVE  SumFunctionOnSet(f, S) <= SumFunctionOnSet(g, S)
<1> DEFINE C == {s \in SUBSET S :
                   ~ SumFunctionOnSet(f, s) <= SumFunctionOnSet(g, s)}
<1>1. SUFFICES ASSUME C # {}
               PROVE  FALSE
  OBVIOUS
<1>2. PICK m \in C : \A s \in C : s \subseteq m => s = m
  <2>1. C \in SUBSET SUBSET S
    OBVIOUS
  <2> HIDE DEF C
  <2> QED  BY <1>1, <2>1, MinimalSubset
<1>3. m \subseteq S /\ ~ SumFunctionOnSet(f, m) <= SumFunctionOnSet(g, m)
  BY <1>2
<1>4. IsFiniteSet(m)
  BY <1>3, FS_Subset
<1>5. m # {}
  BY <1>3, SumEmpty
<1>6. Pick(m) \in m /\ Rest(m) \subseteq m /\ Rest(m) # m
  BY <1>5, PickAndRest
<1>7. SumFunctionOnSet(f, Rest(m)) <= SumFunctionOnSet(g, Rest(m))
  BY <1>2, <1>3, <1>6
<1>8. /\ SumFunctionOnSet(f, Rest(m)) \in Int
      /\ SumFunctionOnSet(g, Rest(m)) \in Int
  <2>1. IsFiniteSet(Rest(m)) /\ IntegersOn(f, Rest(m)) /\ IntegersOn(g, Rest(m))
    BY <1>3, <1>4, <1>6, FS_Subset DEF IntegersOn
  <2> QED  BY <2>1, SumInteger
<1>9. /\ f[Pick(m)] \in Int /\ g[Pick(m)] \in Int
      /\ f[Pick(m)] <= g[Pick(m)]
  BY <1>3, <1>6 DEF IntegersOn
<1> HIDE DEF C
<1>10. /\ SumFunctionOnSet(f, m) = f[Pick(m)] + SumFunctionOnSet(f, Rest(m))
       /\ SumFunctionOnSet(g, m) = g[Pick(m)] + SumFunctionOnSet(g, Rest(m))
  BY <1>4, <1>5, SumPicked
<1> QED  BY <1>3, <1>7, <1>8, <1>9, <1>10

(***************************************************************************)
(* A sum depends on the terms alone.                                       *)
(***************************************************************************)
LEMMA SumSame ==
  ASSUME NEW f, NEW g, NEW S, IsFiniteSet(S), IntegersOn(f, S),
         \A x \in S : f[x] = g[x]
  PROVE  SumFunctionOnSet(f, S) = SumFunctionOnSet(g, S)
<1>1. IntegersOn(g, S)
  BY DEF IntegersOn
<1>2. /\ \A x \in S : f[x] <= g[x]
      /\ \A x \in S : g[x] <= f[x]
  BY DEF IntegersOn
<1>3. /\ SumFunctionOnSet(f, S) <= SumFunctionOnSet(g, S)
      /\ SumFunctionOnSet(g, S) <= SumFunctionOnSet(f, S)
  BY <1>1, <1>2, SumMonotone
<1>4. SumFunctionOnSet(f, S) \in Int /\ SumFunctionOnSet(g, S) \in Int
  BY <1>1, SumInteger
<1> QED  BY <1>3, <1>4

(***************************************************************************)
(* One term changes.                                                       *)
(***************************************************************************)
LEMMA SumUpdate ==
  ASSUME NEW f, NEW g, NEW S, IsFiniteSet(S), IntegersOn(f, S),
         NEW x \in S, g[x] \in Int, \A y \in S \ {x} : g[y] = f[y]
  PROVE  SumFunctionOnSet(g, S) = SumFunctionOnSet(f, S) + g[x] - f[x]
<1>1. IntegersOn(g, S) /\ IntegersOn(f, S \ {x}) /\ f[x] \in Int
  BY DEF IntegersOn
<1>2. IsFiniteSet(S \ {x})
  BY FS_RemoveElement
<1>3. SumFunctionOnSet(g, S \ {x}) = SumFunctionOnSet(f, S \ {x})
  BY <1>1, <1>2, SumSame
<1>4. /\ SumFunctionOnSet(g, S) = g[x] + SumFunctionOnSet(g, S \ {x})
      /\ SumFunctionOnSet(f, S) = f[x] + SumFunctionOnSet(f, S \ {x})
  BY <1>1, SumStep
<1>5. SumFunctionOnSet(f, S \ {x}) \in Int
  BY <1>1, <1>2, SumInteger
<1> QED  BY <1>1, <1>3, <1>4, <1>5

(***************************************************************************)
(* A sum of zeros, and a sum of natural numbers.                           *)
(***************************************************************************)
LEMMA SumZero ==
  ASSUME NEW f, NEW S, IsFiniteSet(S), \A x \in S : f[x] = 0
  PROVE  SumFunctionOnSet(f, S) = 0
<1> DEFINE C == {s \in SUBSET S : SumFunctionOnSet(f, s) # 0}
<1>1. SUFFICES ASSUME C # {}
               PROVE  FALSE
  OBVIOUS
<1>2. PICK m \in C : \A s \in C : s \subseteq m => s = m
  <2>1. C \in SUBSET SUBSET S
    OBVIOUS
  <2> HIDE DEF C
  <2> QED  BY <1>1, <2>1, MinimalSubset
<1>3. m \subseteq S /\ SumFunctionOnSet(f, m) # 0
  BY <1>2
<1>4. IsFiniteSet(m) /\ m # {}
  BY <1>3, FS_Subset, SumEmpty
<1>5. Pick(m) \in m /\ Rest(m) \subseteq m /\ Rest(m) # m
  BY <1>4, PickAndRest
<1>6. SumFunctionOnSet(f, Rest(m)) = 0 /\ f[Pick(m)] = 0
  BY <1>2, <1>3, <1>5
<1> QED  BY <1>3, <1>4, <1>6, SumPicked

LEMMA SumNatural ==
  ASSUME NEW f, NEW S, IsFiniteSet(S), \A x \in S : f[x] \in Nat
  PROVE  SumFunctionOnSet(f, S) \in Nat
<1> DEFINE zero == [x \in S |-> 0]
<1>1. \A x \in S : zero[x] = 0
  OBVIOUS
<1> HIDE DEF zero
<1>2. IntegersOn(f, S) /\ IntegersOn(zero, S) /\ \A x \in S : zero[x] <= f[x]
  BY <1>1 DEF IntegersOn
<1>3. SumFunctionOnSet(zero, S) = 0
  BY <1>1, SumZero
<1>4. SumFunctionOnSet(zero, S) <= SumFunctionOnSet(f, S)
  BY <1>2, SumMonotone
<1>5. SumFunctionOnSet(f, S) \in Int
  BY <1>2, SumInteger
<1> QED  BY <1>3, <1>4, <1>5

(***************************************************************************)
(* A member of a sum of natural numbers, and a part of it.                 *)
(***************************************************************************)
LEMMA SumMember ==
  ASSUME NEW f, NEW S, IsFiniteSet(S), \A x \in S : f[x] \in Nat, NEW x \in S
  PROVE  f[x] <= SumFunctionOnSet(f, S)
<1>1. IntegersOn(f, S) /\ IsFiniteSet(S \ {x})
  BY FS_RemoveElement DEF IntegersOn
<1>2. SumFunctionOnSet(f, S) = f[x] + SumFunctionOnSet(f, S \ {x})
  BY <1>1, SumStep
<1>3. SumFunctionOnSet(f, S \ {x}) \in Nat
  BY <1>1, SumNatural
<1>4. f[x] \in Nat
  OBVIOUS
<1> QED  BY <1>2, <1>3, <1>4

LEMMA SumPart ==
  ASSUME NEW f, NEW S, IsFiniteSet(S), \A x \in S : f[x] \in Nat,
         NEW R \in SUBSET S
  PROVE  SumFunctionOnSet(f, R) <= SumFunctionOnSet(f, S)
<1> DEFINE Sum(s) == SumFunctionOnSet(f, s)
           C == {s \in SUBSET S : R \subseteq s /\ ~ Sum(R) <= Sum(s)}
<1>1. \A s \in SUBSET S : IsFiniteSet(s) /\ IntegersOn(f, s) /\ Sum(s) \in Nat
  BY FS_Subset, SumNatural DEF IntegersOn
<1>2. SUFFICES ASSUME C # {}
               PROVE  FALSE
  OBVIOUS
<1>3. PICK m \in C : \A s \in C : s \subseteq m => s = m
  <2>1. C \in SUBSET SUBSET S
    OBVIOUS
  <2> HIDE DEF C
  <2> QED  BY <1>2, <2>1, MinimalSubset
<1>4. /\ m \in SUBSET S /\ R \subseteq m /\ ~ Sum(R) <= Sum(m)
      /\ Sum(R) \in Nat /\ Sum(m) \in Nat
  BY <1>1, <1>3
<1>5. PICK x \in m : x \notin R
  <2>1. m # R
    <3> HIDE DEF Sum
    <3> QED  BY <1>4
  <2> QED  BY <1>4, <2>1
<1>6. m \ {x} \in SUBSET S /\ R \subseteq m \ {x} /\ m \ {x} # m
  BY <1>4, <1>5
<1>7. Sum(R) <= Sum(m \ {x}) /\ Sum(m \ {x}) \in Nat
  BY <1>1, <1>3, <1>6
<1>8. Sum(m) = f[x] + Sum(m \ {x})
  BY <1>1, <1>4, <1>5, SumStep
<1>9. f[x] \in Nat
  BY <1>4
<1> HIDE DEF Sum
<1> QED  BY <1>4, <1>7, <1>8, <1>9

-----------------------------------------------------------------------------
(***************************************************************************)
(* The members of a sum may be numbered otherwise.                         *)
(***************************************************************************)
LEMMA SumShifted ==
  ASSUME NEW f, NEW g, NEW S, S \subseteq Int, IsFiniteSet(S),
         IsFiniteSet({i + 1 : i \in S}),
         \A i \in S : g[i] \in Int /\ g[i] = f[i + 1]
  PROVE  SumFunctionOnSet(g, S) = SumFunctionOnSet(f, {i + 1 : i \in S})
<1> DEFINE Up(s) == {i + 1 : i \in s}
           C == {s \in SUBSET S : SumFunctionOnSet(g, s) # SumFunctionOnSet(f, Up(s))}
<1>1. SUFFICES ASSUME C # {}
               PROVE  FALSE
  OBVIOUS
<1>2. PICK m \in C : \A s \in C : s \subseteq m => s = m
  <2>1. C \in SUBSET SUBSET S
    OBVIOUS
  <2>2. IsFiniteSet(S)
    OBVIOUS
  <2> HIDE DEF C, Up
  <2> QED  BY ONLY <1>1, <2>1, <2>2, MinimalSubset
<1>3. /\ m \in SUBSET S /\ IsFiniteSet(m)
      /\ SumFunctionOnSet(g, m) # SumFunctionOnSet(f, Up(m))
  BY <1>2, FS_Subset
<1>4. PICK x \in m : TRUE
  <2>1. Up({}) = {}
    OBVIOUS
  <2>2. m # {}
    BY <1>3, <2>1, SumEmpty
  <2> QED  BY <2>2
<1>5. m \ {x} \in SUBSET S /\ m \ {x} # m /\ x \in Int
  BY <1>3
<1>6. SumFunctionOnSet(g, m \ {x}) = SumFunctionOnSet(f, Up(m \ {x}))
  BY <1>2, <1>5
<1>7. SumFunctionOnSet(g, m) = g[x] + SumFunctionOnSet(g, m \ {x})
  <2>1. IntegersOn(g, m)
    BY <1>3 DEF IntegersOn
  <2> QED  BY <1>3, <2>1, SumStep
<1>8. SumFunctionOnSet(f, Up(m)) = f[x + 1] + SumFunctionOnSet(f, Up(m) \ {x + 1})
  <2>1. IsFiniteSet(Up(m))
    <3>1. Up(m) \subseteq Up(S)
      BY <1>3
    <3> QED  BY <3>1, FS_Subset
  <2>2. IntegersOn(f, Up(m)) /\ x + 1 \in Up(m)
    BY <1>3 DEF IntegersOn
  <2> QED  BY <2>1, <2>2, SumStep
<1>9. Up(m) \ {x + 1} = Up(m \ {x})
  <2>1. \A i \in m : i \in Int /\ (i + 1 = x + 1 => i = x)
    BY <1>3, <1>5
  <2> QED  BY <2>1
<1>10. g[x] = f[x + 1]
  BY <1>3
<1> QED  BY <1>3, <1>6, <1>7, <1>8, <1>9, <1>10

(***************************************************************************)
(* The elements of a sequence, added up by FoldSeq.                        *)
(***************************************************************************)
Total(s) == FoldSeq(+, 0, s)

LEMMA TotalIsSum ==
  ASSUME NEW s
  PROVE  Total(s) = SumFunctionOnSet(s, DOMAIN s)
BY DEF Total, FoldSeq, FoldFunction, SumFunctionOnSet, FoldFunctionOnSet,
       MapThenFoldSet

LEMMA TotalEmpty == Total(<<>>) = 0
<1>1. DOMAIN <<>> = {}
  OBVIOUS
<1> QED  BY <1>1, TotalIsSum, SumEmpty

LEMMA TotalNatural ==
  ASSUME NEW s \in Seq(Nat)
  PROVE  Total(s) \in Nat
<1>1. IsFiniteSet(DOMAIN s)
  <2>1. DOMAIN s = 1 .. Len(s) /\ Len(s) \in Int
    OBVIOUS
  <2> QED  BY <2>1, FS_Interval
<1>2. \A i \in DOMAIN s : s[i] \in Nat
  OBVIOUS
<1> QED  BY <1>1, <1>2, TotalIsSum, SumNatural

LEMMA TotalAppend ==
  ASSUME NEW s \in Seq(Nat), NEW x \in Nat
  PROVE  Total(Append(s, x)) = Total(s) + x
<1> DEFINE t == Append(s, x)
           n == Len(s) + 1
<1>1. /\ DOMAIN s = 1 .. Len(s) /\ DOMAIN t = 1 .. n /\ Len(s) \in Nat
      /\ n \in DOMAIN t /\ DOMAIN t \ {n} = DOMAIN s
      /\ t[n] = x /\ \A i \in DOMAIN s : t[i] = s[i] /\ s[i] \in Nat
      /\ \A i \in DOMAIN t : t[i] \in Nat
  <2>1. DOMAIN s = 1 .. Len(s) /\ Len(s) \in Nat /\ DOMAIN t = 1 .. n
    OBVIOUS
  <2>2. t[n] = x /\ \A i \in DOMAIN s : t[i] = s[i] /\ s[i] \in Nat
    OBVIOUS
  <2>3. n \in Nat \ {0} /\ n = Len(s) + 1
    OBVIOUS
  <2> HIDE DEF t, n
  <2>4. n \in DOMAIN t /\ DOMAIN t \ {n} = DOMAIN s
    BY <2>1, <2>3
  <2> QED  BY <2>1, <2>2, <2>4
<1>2. IsFiniteSet(DOMAIN s) /\ IsFiniteSet(DOMAIN t)
  BY <1>1, FS_Interval
<1> HIDE DEF t, n
<1>3. IntegersOn(t, DOMAIN t) /\ IntegersOn(s, DOMAIN s)
  BY <1>1 DEF IntegersOn
<1>4. SumFunctionOnSet(t, DOMAIN t) = x + SumFunctionOnSet(t, DOMAIN s)
  <2>1. n \in DOMAIN t /\ t[n] = x /\ DOMAIN t \ {n} = DOMAIN s
    BY <1>1
  <2>2. SumFunctionOnSet(t, DOMAIN t)
          = t[n] + SumFunctionOnSet(t, DOMAIN t \ {n})
    BY <1>2, <1>3, <2>1, SumStep
  <2> QED  BY <2>1, <2>2
<1>5. SumFunctionOnSet(t, DOMAIN s) = SumFunctionOnSet(s, DOMAIN s)
  BY <1>1, <1>2, <1>3, SumSame
<1>6. SumFunctionOnSet(s, DOMAIN s) \in Int
  BY <1>2, <1>3, SumInteger
<1>7. SumFunctionOnSet(t, DOMAIN t) = SumFunctionOnSet(s, DOMAIN s) + x
  BY <1>4, <1>5, <1>6
<1> QED  BY <1>7, TotalIsSum DEF t

LEMMA TotalTail ==
  ASSUME NEW s \in Seq(Nat), s # <<>>
  PROVE  Total(s) = Head(s) + Total(Tail(s))
<1> DEFINE t == Tail(s)
<1>1. /\ DOMAIN s = 1 .. Len(s) /\ DOMAIN t = 1 .. (Len(s) - 1)
      /\ Len(s) \in Nat \ {0} /\ 1 \in DOMAIN s /\ s[1] = Head(s)
      /\ \A i \in DOMAIN t : t[i] = s[i + 1] /\ t[i] \in Nat
      /\ \A i \in DOMAIN s : s[i] \in Nat
  OBVIOUS
<1>2. IsFiniteSet(DOMAIN s) /\ IsFiniteSet(DOMAIN t)
  BY <1>1, FS_Interval
<1> HIDE DEF t
<1>3. SumFunctionOnSet(s, DOMAIN s)
        = Head(s) + SumFunctionOnSet(s, DOMAIN s \ {1})
  <2>1. IntegersOn(s, DOMAIN s)
    BY <1>1 DEF IntegersOn
  <2> QED  BY <1>1, <1>2, <2>1, SumStep
<1>4. DOMAIN s \ {1} = {i + 1 : i \in DOMAIN t}
  <2>1. ASSUME NEW j \in DOMAIN s \ {1}
        PROVE  j - 1 \in DOMAIN t /\ j = (j - 1) + 1
    BY <1>1
  <2>2. ASSUME NEW i \in DOMAIN t
        PROVE  i + 1 \in DOMAIN s \ {1}
    BY <1>1
  <2> QED  BY <2>1, <2>2
<1>5. SumFunctionOnSet(t, DOMAIN t)
        = SumFunctionOnSet(s, {i + 1 : i \in DOMAIN t})
  <2>1. DOMAIN t \in SUBSET Int
    BY <1>1
  <2>2. \A i \in DOMAIN t : t[i] \in Int /\ t[i] = s[i + 1]
    BY <1>1
  <2>3. IsFiniteSet({i + 1 : i \in DOMAIN t})
    <3>1. IsFiniteSet(DOMAIN s \ {1})
      BY <1>2, FS_RemoveElement
    <3> QED  BY <1>4, <3>1
  <2> QED  BY <1>2, <2>1, <2>2, <2>3, SumShifted
<1> QED  BY <1>3, <1>4, <1>5, TotalIsSum DEF t
=============================================================================
