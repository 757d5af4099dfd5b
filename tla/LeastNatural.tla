------------------------------ MODULE LeastNatural ------------------------------
(***************************************************************************)
(* Every set of natural numbers that is not empty has a least element: why *)
(* the choices of a first file, or of a nearest citation, are choices of   *)
(* something.  Below any member there are finitely many, and among finite  *)
(* sets the strict subset order is well-founded.                           *)
(***************************************************************************)
EXTENDS Naturals, FiniteSetTheorems, WellFoundedInduction, TLAPS

LEMMA LeastExists ==
  ASSUME NEW S \in SUBSET Nat, S # {}
  PROVE  \E n \in S : \A k \in S : n <= k
  <1> DEFINE Below(n) == {k \in S : k < n}
             Families == {Below(n) : n \in S}
             R == StrictSubsetOrdering(S)
  <1>1. \A n \in S : Below(n) \in FiniteSubsetsOf(S)
    <2> SUFFICES ASSUME NEW n \in S PROVE Below(n) \in FiniteSubsetsOf(S)
      OBVIOUS
    <2>1. n \in Nat /\ Below(n) \in SUBSET Nat
      OBVIOUS
    <2>2. \A k \in Below(n) : k <= n
      OBVIOUS
    <2>3. IsFiniteSet(Below(n))
      BY <2>1, <2>2, FS_BoundedSetOfNaturals
    <2> QED BY <2>3 DEF FiniteSubsetsOf
  <1>2. PICK B \in Families : \A C \in Families : ~(<<C, B>> \in R)
    <2>1. IsWellFoundedOn(R, FiniteSubsetsOf(S))
      BY FS_StrictSubsetOrderingWellFounded
    <2>2. Families \subseteq FiniteSubsetsOf(S) /\ Families # {}
      BY <1>1
    <2> HIDE DEF R, Families
    <2> QED BY <2>1, <2>2, WFMin
  <1>3. PICK n \in S : B = Below(n)
    OBVIOUS
  <1>4. ASSUME NEW k \in S, k < n PROVE FALSE
    <2>1. Below(k) \in Families
      OBVIOUS
    <2>2. k \in Nat /\ n \in Nat /\ \A l \in S : l \in Nat
      OBVIOUS
    <2>3. \A l \in Below(k) : l \in Below(n)
      BY <1>4, <2>2
    <2>4. k \in Below(n) /\ k \notin Below(k)
      BY <1>4, <2>2
    <2>5. <<Below(k), B>> \in R
      BY <2>3, <2>4, <1>3 DEF StrictSubsetOrdering
    <2> QED BY <2>1, <2>5, <1>2
  <1> QED BY <1>4

(* So is there a first of anything by three numbers, compared one after the other. *)
Ranks(S) == [S -> Nat]

LEMMA FirstOfThree ==
  ASSUME NEW S, S # {}, NEW f \in Ranks(S), NEW g \in Ranks(S), NEW h \in Ranks(S)
  PROVE  \E a \in S : \A b \in S :
            \/ f[a] < f[b]
            \/ f[a] = f[b] /\ (g[a] < g[b] \/ (g[a] = g[b] /\ h[a] <= h[b]))
  <1> USE DEF Ranks
  <1>1. PICK u \in S : \A b \in S : f[u] <= f[b]
    <2> DEFINE V == {f[x] : x \in S}
    <2>1. V \in SUBSET Nat /\ V # {}
      OBVIOUS
    <2>2. PICK n \in V : \A k \in V : n <= k
      <3> HIDE DEF V
      <3> QED BY <2>1, LeastExists
    <2> QED BY <2>2
  <1> DEFINE T == {x \in S : f[x] = f[u]}
  <1>2. PICK v \in T : \A b \in T : g[v] <= g[b]
    <2> DEFINE V == {g[x] : x \in T}
    <2>1. V \in SUBSET Nat /\ V # {}
      OBVIOUS
    <2>2. PICK n \in V : \A k \in V : n <= k
      <3> HIDE DEF V
      <3> QED BY <2>1, LeastExists
    <2> QED BY <2>2
  <1> DEFINE U == {x \in T : g[x] = g[v]}
  <1>3. PICK w \in U : \A b \in U : h[w] <= h[b]
    <2> DEFINE V == {h[x] : x \in U}
    <2>1. V \in SUBSET Nat /\ V # {}
      OBVIOUS
    <2>2. PICK n \in V : \A k \in V : n <= k
      <3> HIDE DEF V
      <3> QED BY <2>1, LeastExists
    <2> QED BY <2>2
  <1>4. w \in S /\ f[w] = f[u] /\ g[w] = g[v]
    OBVIOUS
  <1>5. ASSUME NEW b \in S
        PROVE  \/ f[w] < f[b]
               \/ f[w] = f[b] /\ (g[w] < g[b] \/ (g[w] = g[b] /\ h[w] <= h[b]))
    <2>1. f[w] <= f[b] /\ f[w] \in Nat /\ f[b] \in Nat
      BY <1>1, <1>4
    <2>2. f[w] = f[b] => g[w] <= g[b] /\ g[w] \in Nat /\ g[b] \in Nat
      BY <1>2, <1>4
    <2>3. f[w] = f[b] /\ g[w] = g[b] => h[w] <= h[b]
      BY <1>3, <1>4
    <2> QED BY <2>1, <2>2, <2>3
  <1> QED BY <1>4, <1>5

================================================================================
