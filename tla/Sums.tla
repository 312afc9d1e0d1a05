-------------------------------- MODULE Sums --------------------------------
(***************************************************************************)
(* Lemmas about sums over finite sets, SumFunctionOnSet of the community   *)
(* modules, and about listing a finite set in an order.  Induction is by   *)
(* least counterexample: a set of finite sets, or of naturals, that is not *)
(* empty has a smallest member.                                            *)
(***************************************************************************)
EXTENDS Integers, FunctionTheorems, FiniteSetTheorems, WellFoundedInduction, TLAPS

-----------------------------------------------------------------------------
(* Smallest members. *)

LEMMA HasSmallest ==
    \A C : C # {} /\ (\A s \in C : IsFiniteSet(s))
               => \E m \in C : \A s \in C : s \subseteq m => s = m
<1> SUFFICES ASSUME NEW C, C # {}, \A s \in C : IsFiniteSet(s)
             PROVE  \E m \in C : \A s \in C : s \subseteq m => s = m
  OBVIOUS
<1>1. PICK U : U = UNION C
  OBVIOUS
<1>2. C \subseteq FiniteSubsetsOf(U)
  BY <1>1 DEF FiniteSubsetsOf
<1>3. IsWellFoundedOn(StrictSubsetOrdering(U), FiniteSubsetsOf(U))
  BY FS_StrictSubsetOrderingWellFounded
<1>4. PICK m \in C : \A s \in C : ~(<<s, m>> \in StrictSubsetOrdering(U))
  <2>1. PICK R, S : R = StrictSubsetOrdering(U) /\ S = FiniteSubsetsOf(U)
    OBVIOUS
  <2>2. IsWellFoundedOn(R, S) /\ C \subseteq S
    BY ONLY <1>2, <1>3, <2>1
  <2>3. \E m \in C : \A s \in C : ~(<<s, m>> \in R)
    BY ONLY <2>2, C # {}, WFMin, Zenon
  <2> QED BY ONLY <2>1, <2>3
<1>5. \A s \in C : s \in SUBSET U
  BY <1>1
<1>6. ASSUME NEW s \in C, s \subseteq m PROVE s = m
  BY <1>4, <1>5, <1>6 DEF StrictSubsetOrdering
<1> QED BY <1>6

-----------------------------------------------------------------------------
(* SumFunctionOnSet is what its definition says. *)

Pick(s) == CHOOSE x \in s : TRUE

(* g is the table of the sums of f over the subsets of S. *)
IsTable(g, f, S) ==
    g = [s \in SUBSET S |-> IF s = {} THEN 0 ELSE f[Pick(s)] + g[s \ {Pick(s)}]]

LEMMA SumDefined ==
    ASSUME NEW f, NEW S
    PROVE  SumFunctionOnSet(f, S) = (CHOOSE g : IsTable(g, f, S))[S]
BY Zenon DEF SumFunctionOnSet, FoldFunctionOnSet, MapThenFoldSet, IsTable, Pick

LEMMA TableEntry ==
    ASSUME NEW f, NEW S, NEW g, IsTable(g, f, S), NEW s \in SUBSET S
    PROVE  g[s] = IF s = {} THEN 0 ELSE f[Pick(s)] + g[s \ {Pick(s)}]
BY DEF IsTable

LEMMA TablesAgree ==
    ASSUME NEW f, NEW S, NEW T, NEW g, NEW h, IsTable(g, f, S), IsTable(h, f, T),
           NEW U, IsFiniteSet(U), U \subseteq S, U \subseteq T
    PROVE  g[U] = h[U]
<1> SUFFICES ASSUME g[U] # h[U] PROVE FALSE
  OBVIOUS
<1> DEFINE C == {s \in SUBSET U : g[s] # h[s]}
<1>1. C # {} /\ \A s \in C : IsFiniteSet(s)
  BY FS_Subset
<1>2. PICK m \in C : \A s \in C : s \subseteq m => s = m
  <2>1. PICK c : c = C
    OBVIOUS
  <2>2. c # {} /\ \A s \in c : IsFiniteSet(s)
    BY ONLY <1>1, <2>1
  <2>3. \E m \in c : \A s \in c : s \subseteq m => s = m
    BY ONLY <2>2, HasSmallest
  <2> QED BY ONLY <2>1, <2>3
<1>3. m \in SUBSET S /\ m \in SUBSET T
  OBVIOUS
<1>4. /\ g[m] = IF m = {} THEN 0 ELSE f[Pick(m)] + g[m \ {Pick(m)}]
      /\ h[m] = IF m = {} THEN 0 ELSE f[Pick(m)] + h[m \ {Pick(m)}]
  BY <1>3 DEF IsTable
<1>5. m # {}
  BY <1>2, <1>4
<1>6. Pick(m) \in m
  BY <1>5 DEF Pick
<1>7. m \ {Pick(m)} \in SUBSET U /\ m \ {Pick(m)} # m
  BY <1>6
<1>8. g[m \ {Pick(m)}] = h[m \ {Pick(m)}]
  BY <1>2, <1>7
<1> QED BY <1>2, <1>4, <1>8

LEMMA TableExists ==
    ASSUME NEW f, NEW S, IsFiniteSet(S)
    PROVE  \E g : IsTable(g, f, S)
<1> SUFFICES ASSUME ~ \E g : IsTable(g, f, S) PROVE FALSE
  OBVIOUS
<1> DEFINE C == {s \in SUBSET S : ~ \E g : IsTable(g, f, s)}
<1>1. C # {} /\ \A s \in C : IsFiniteSet(s)
  BY FS_Subset
<1>2. PICK m \in C : \A s \in C : s \subseteq m => s = m
  <2>1. PICK c : c = C
    OBVIOUS
  <2>2. c # {} /\ \A s \in c : IsFiniteSet(s)
    BY ONLY <1>1, <2>1
  <2>3. \E m \in c : \A s \in c : s \subseteq m => s = m
    BY ONLY <2>2, HasSmallest
  <2> QED BY ONLY <2>1, <2>3
<1> DEFINE Table(s) == CHOOSE g : IsTable(g, f, s)
           G == [s \in SUBSET m |->
                    IF s = {} THEN 0
                    ELSE f[Pick(s)] + Table(s \ {Pick(s)})[s \ {Pick(s)}]]
<1>3. ASSUME NEW s \in SUBSET m, s # m PROVE IsTable(Table(s), f, s) /\ IsFiniteSet(s)
  BY <1>1, <1>2, <1>3, FS_Subset
<1>4. ASSUME NEW s \in SUBSET m, s # m PROVE G[s] = Table(s)[s]
  <2>1. CASE s = {}
    <3>1. PICK a : a = Table(s)
      OBVIOUS
    <3>2. IsTable(a, f, s)
      BY <1>3, <1>4, <3>1
    <3>3. a[s] = 0
      BY ONLY <2>1, <3>2, TableEntry
    <3>4. G[s] = 0
      BY <2>1
    <3> QED BY <3>1, <3>3, <3>4
  <2>2. CASE s # {}
    <3>1. PICK t : t = s \ {Pick(s)}
      OBVIOUS
    <3>2. t \subseteq s /\ t \in SUBSET m /\ t # m
      BY <1>4, <2>2, <3>1 DEF Pick
    <3>3. Table(s)[s] = f[Pick(s)] + Table(s)[t]
      <4>1. PICK a : a = Table(s)
        OBVIOUS
      <4>2. IsTable(a, f, s)
        BY <1>3, <1>4, <4>1
      <4>3. a[s] = f[Pick(s)] + a[t]
        BY ONLY <2>2, <3>1, <4>2, TableEntry
      <4> QED BY <4>1, <4>3
    <3>4. Table(s)[t] = Table(t)[t]
      <4>1. PICK a, b : a = Table(s) /\ b = Table(t)
        OBVIOUS
      <4>2. IsTable(a, f, s) /\ IsTable(b, f, t) /\ IsFiniteSet(t)
        BY <1>3, <1>4, <3>2, <4>1
      <4> HIDE DEF Table, G, C
      <4>3. a[t] = b[t]
        BY ONLY <3>2, <4>2, TablesAgree
      <4> QED BY <4>1, <4>3
    <3>5. G[s] = f[Pick(s)] + Table(t)[t]
      BY <2>2, <3>1
    <3> QED BY <3>3, <3>4, <3>5
  <2> QED BY <2>1, <2>2
<1>5. ASSUME NEW s \in SUBSET m, s # {}
      PROVE  G[s] = f[Pick(s)] + G[s \ {Pick(s)}]
  <2>1. Pick(s) \in s
    BY <1>5 DEF Pick
  <2>2. PICK t : t = s \ {Pick(s)}
    OBVIOUS
  <2>3. t \in SUBSET m /\ t # m
    BY <2>1, <2>2
  <2>4. G[s] = f[Pick(s)] + Table(t)[t]
    BY <1>5, <2>2
  <2> HIDE DEF Table, G, C
  <2>5. G[t] = Table(t)[t]
    BY <1>4, <2>3
  <2> QED BY <2>2, <2>4, <2>5
<1>6. G = [s \in SUBSET m |-> IF s = {} THEN 0 ELSE f[Pick(s)] + G[s \ {Pick(s)}]]
  <2>1. G[{}] = 0 /\ DOMAIN G = SUBSET m
    OBVIOUS
  <2>2. G = [s \in SUBSET m |-> G[s]]
    OBVIOUS
  <2> HIDE DEF Table, G, C
  <2> QED BY <1>5, <2>1, <2>2
<1>7. \E g : IsTable(g, f, m)
  BY ONLY <1>6 DEF IsTable
<1> QED BY <1>2, <1>7

(* The equation behind SumFunctionOnSet. *)
LEMMA SumStep ==
    ASSUME NEW f, NEW S, IsFiniteSet(S)
    PROVE  SumFunctionOnSet(f, S) =
              IF S = {} THEN 0 ELSE f[Pick(S)] + SumFunctionOnSet(f, S \ {Pick(S)})
<1>1. PICK t : t = S \ {Pick(S)}
  OBVIOUS
<1>2. IsFiniteSet(t) /\ t \in SUBSET S
  BY <1>1, FS_Subset
<1>3. PICK g, h : g = (CHOOSE a : IsTable(a, f, S)) /\ h = (CHOOSE a : IsTable(a, f, t))
  OBVIOUS
<1>4. IsTable(g, f, S) /\ IsTable(h, f, t)
  BY ONLY <1>2, <1>3, IsFiniteSet(S), TableExists
<1>5. g[t] = h[t]
  BY ONLY <1>2, <1>4, TablesAgree
<1>6. g[S] = IF S = {} THEN 0 ELSE f[Pick(S)] + g[t]
  BY ONLY <1>1, <1>4, TableEntry
<1>7. SumFunctionOnSet(f, S) = g[S] /\ SumFunctionOnSet(f, t) = h[t]
  BY ONLY <1>3, SumDefined
<1> QED BY ONLY <1>1, <1>5, <1>6, <1>7

LEMMA SumEmpty == \A f : SumFunctionOnSet(f, {}) = 0
BY SumStep, FS_EmptySet

NatOn(f, S) == \A x \in S : f[x] \in Nat

LEMMA SumInNat ==
    ASSUME NEW f, NEW S, IsFiniteSet(S), NatOn(f, S)
    PROVE  SumFunctionOnSet(f, S) \in Nat
<1> DEFINE C == {s \in SUBSET S : SumFunctionOnSet(f, s) \notin Nat}
<1> SUFFICES ASSUME SumFunctionOnSet(f, S) \notin Nat PROVE FALSE
  OBVIOUS
<1>1. PICK c : c = C
  OBVIOUS
<1>2. c # {} /\ \A s \in c : IsFiniteSet(s)
  BY <1>1, FS_Subset
<1>3. PICK m \in c : \A s \in c : s \subseteq m => s = m
  BY ONLY <1>2, HasSmallest
<1>4. m \in SUBSET S /\ IsFiniteSet(m) /\ SumFunctionOnSet(f, m) \notin Nat
  BY <1>1, <1>2, <1>3
<1>5. m # {}
  BY <1>4, SumEmpty
<1>6. PICK x : x = Pick(m)
  OBVIOUS
<1>7. x \in m /\ f[x] \in Nat
  BY <1>4, <1>5, <1>6 DEF Pick, NatOn
<1>8. SumFunctionOnSet(f, m) = f[x] + SumFunctionOnSet(f, m \ {x})
  BY ONLY <1>4, <1>5, <1>6, SumStep
<1>9. m \ {x} \notin c
  BY <1>3, <1>7
<1>10. SumFunctionOnSet(f, m \ {x}) \in Nat
  BY <1>1, <1>4, <1>9
<1> QED BY <1>4, <1>7, <1>8, <1>10

LEMMA PartNatOn == ASSUME NEW f, NEW S, NatOn(f, S), NEW T \in SUBSET S PROVE NatOn(f, T)
BY DEF NatOn

(* Any element may come first. *)
LEMMA SumRemove ==
    ASSUME NEW f, NEW S, IsFiniteSet(S), NatOn(f, S), NEW x \in S
    PROVE  SumFunctionOnSet(f, S) = f[x] + SumFunctionOnSet(f, S \ {x})
<1> DEFINE Bad(s, y) == SumFunctionOnSet(f, s) # f[y] + SumFunctionOnSet(f, s \ {y})
           C == {s \in SUBSET S : \E y \in s : Bad(s, y)}
<1> SUFFICES ASSUME Bad(S, x) PROVE FALSE
  OBVIOUS
<1>1. PICK c : c = C
  OBVIOUS
<1>2. c # {} /\ \A s \in c : IsFiniteSet(s)
  BY <1>1, FS_Subset
<1>3. PICK m \in c : \A s \in c : s \subseteq m => s = m
  BY ONLY <1>2, HasSmallest
<1>4. m \in SUBSET S /\ IsFiniteSet(m)
  BY <1>1, <1>2, <1>3
<1>5. PICK y \in m : Bad(m, y)
  BY <1>1, <1>3
<1>6. PICK z, n, l, k : z = Pick(m) /\ n = m \ {z} /\ l = m \ {y} /\ k = n \ {y}
  OBVIOUS
<1>7. z \in m /\ k = l \ {z}
  BY <1>5, <1>6 DEF Pick
<1>8. SumFunctionOnSet(f, m) = f[z] + SumFunctionOnSet(f, n)
  BY ONLY <1>4, <1>5, <1>6, SumStep
<1>9. y # z
  BY <1>5, <1>6, <1>8
<1>10. n \notin c /\ l \notin c /\ y \in n /\ z \in l /\ n \in SUBSET S /\ l \in SUBSET S
  BY <1>3, <1>4, <1>5, <1>6, <1>7, <1>9
<1>11. /\ SumFunctionOnSet(f, n) = f[y] + SumFunctionOnSet(f, k)
       /\ SumFunctionOnSet(f, l) = f[z] + SumFunctionOnSet(f, k)
  BY <1>1, <1>6, <1>7, <1>10
<1>12. f[y] \in Nat /\ f[z] \in Nat
  BY <1>4, <1>5, <1>7 DEF NatOn
<1>13. SumFunctionOnSet(f, k) \in Nat
  <2>1. k \in SUBSET S
    BY <1>4, <1>6
  <2>2. IsFiniteSet(k) /\ NatOn(f, k)
    BY ONLY <2>1, IsFiniteSet(S), NatOn(f, S), FS_Subset, PartNatOn
  <2> QED BY ONLY <2>2, SumInNat
<1>14. SumFunctionOnSet(f, m) # f[y] + SumFunctionOnSet(f, l)
  BY <1>5, <1>6
<1> QED BY ONLY <1>8, <1>11, <1>12, <1>13, <1>14

LEMMA SumAdd ==
    ASSUME NEW f, NEW S, IsFiniteSet(S), NEW x, x \notin S, NatOn(f, S \cup {x})
    PROVE  SumFunctionOnSet(f, S \cup {x}) = f[x] + SumFunctionOnSet(f, S)
<1>1. PICK t : t = S \cup {x}
  OBVIOUS
<1>2. IsFiniteSet(t) /\ x \in t /\ t \ {x} = S /\ NatOn(f, t)
  BY <1>1, FS_AddElement
<1>3. SumFunctionOnSet(f, t) = f[x] + SumFunctionOnSet(f, t \ {x})
  BY ONLY <1>2, SumRemove
<1> QED BY ONLY <1>1, <1>2, <1>3

LEMMA SumSingleton ==
    ASSUME NEW f, NEW x, f[x] \in Nat
    PROVE  SumFunctionOnSet(f, {x}) = f[x]
<1>1. IsFiniteSet({}) /\ NatOn(f, {} \cup {x}) /\ x \notin {}
  BY FS_EmptySet DEF NatOn
<1>2. SumFunctionOnSet(f, {} \cup {x}) = f[x] + SumFunctionOnSet(f, {})
  BY ONLY <1>1, SumAdd
<1>3. {} \cup {x} = {x}
  OBVIOUS
<1> QED BY ONLY <1>2, <1>3, SumEmpty, f[x] \in Nat

(* No element is more than the sum. *)
LEMMA SumAtLeast ==
    ASSUME NEW f, NEW S, IsFiniteSet(S), NatOn(f, S), NEW x \in S
    PROVE  f[x] <= SumFunctionOnSet(f, S)
<1>1. PICK t : t = S \ {x}
  OBVIOUS
<1>2. IsFiniteSet(t) /\ NatOn(f, t)
  BY ONLY <1>1, IsFiniteSet(S), NatOn(f, S), FS_Subset, PartNatOn
<1>3. SumFunctionOnSet(f, t) \in Nat
  BY ONLY <1>2, SumInNat
<1>4. SumFunctionOnSet(f, S) = f[x] + SumFunctionOnSet(f, t)
  BY <1>1, SumRemove
<1>5. f[x] \in Nat
  BY DEF NatOn
<1> QED BY ONLY <1>3, <1>4, <1>5

LEMMA SumEqual ==
    ASSUME NEW f, NEW g, NEW S, IsFiniteSet(S), \A x \in S : f[x] = g[x]
    PROVE  SumFunctionOnSet(f, S) = SumFunctionOnSet(g, S)
<1> DEFINE C == {s \in SUBSET S : SumFunctionOnSet(f, s) # SumFunctionOnSet(g, s)}
<1> SUFFICES ASSUME SumFunctionOnSet(f, S) # SumFunctionOnSet(g, S) PROVE FALSE
  OBVIOUS
<1>1. PICK c : c = C
  OBVIOUS
<1>2. c # {} /\ \A s \in c : IsFiniteSet(s)
  BY <1>1, FS_Subset
<1>3. PICK m \in c : \A s \in c : s \subseteq m => s = m
  BY ONLY <1>2, HasSmallest
<1>4. m \in SUBSET S /\ IsFiniteSet(m) /\ SumFunctionOnSet(f, m) # SumFunctionOnSet(g, m)
  BY <1>1, <1>2, <1>3
<1>5. m # {}
  BY <1>4, SumEmpty
<1>6. PICK x : x = Pick(m)
  OBVIOUS
<1>7. x \in m /\ f[x] = g[x]
  BY <1>4, <1>5, <1>6 DEF Pick
<1>8. /\ SumFunctionOnSet(f, m) = f[x] + SumFunctionOnSet(f, m \ {x})
      /\ SumFunctionOnSet(g, m) = g[x] + SumFunctionOnSet(g, m \ {x})
  BY ONLY <1>4, <1>5, <1>6, SumStep
<1>9. m \ {x} \notin c
  BY <1>3, <1>7
<1>10. SumFunctionOnSet(f, m \ {x}) = SumFunctionOnSet(g, m \ {x})
  BY <1>1, <1>4, <1>9
<1> QED BY <1>4, <1>7, <1>8, <1>10

LEMMA SumSplit ==
    ASSUME NEW f, NEW S, NEW T, IsFiniteSet(S), IsFiniteSet(T), S \cap T = {},
           NatOn(f, S \cup T)
    PROVE  SumFunctionOnSet(f, S \cup T) = SumFunctionOnSet(f, S) + SumFunctionOnSet(f, T)
<1> DEFINE Bad(t) == SumFunctionOnSet(f, S \cup t)
                        # SumFunctionOnSet(f, S) + SumFunctionOnSet(f, t)
           C == {t \in SUBSET T : Bad(t)}
<1> SUFFICES ASSUME Bad(T) PROVE FALSE
  OBVIOUS
<1>1. PICK c : c = C
  OBVIOUS
<1>2. c # {} /\ \A t \in c : IsFiniteSet(t)
  BY <1>1, FS_Subset
<1>3. PICK m \in c : \A t \in c : t \subseteq m => t = m
  BY ONLY <1>2, HasSmallest
<1>4. m \in SUBSET T /\ IsFiniteSet(m) /\ Bad(m)
  BY <1>1, <1>2, <1>3
<1>5. SumFunctionOnSet(f, S) \in Nat
  BY SumInNat DEF NatOn
<1>6. m # {}
  BY <1>4, <1>5, SumEmpty
<1>7. PICK x \in m : TRUE
  BY <1>6
<1>8. PICK n : n = m \ {x}
  OBVIOUS
<1>9. n \in SUBSET T /\ n \notin c
  BY <1>3, <1>4, <1>8
<1>10. SumFunctionOnSet(f, S \cup n) = SumFunctionOnSet(f, S) + SumFunctionOnSet(f, n)
  BY <1>1, <1>9
<1>11. SumFunctionOnSet(f, m) = f[x] + SumFunctionOnSet(f, n)
  <2>1. NatOn(f, m)
    BY <1>4 DEF NatOn
  <2> QED BY ONLY <1>4, <1>7, <1>8, <2>1, SumRemove
<1>12. SumFunctionOnSet(f, S \cup m) = f[x] + SumFunctionOnSet(f, S \cup n)
  <2>1. PICK u, v : u = S \cup m /\ v = S \cup n
    OBVIOUS
  <2>2. x \in u /\ v = u \ {x}
    BY <1>4, <1>7, <1>8, <2>1
  <2>3. IsFiniteSet(u)
    BY ONLY <1>4, <2>1, IsFiniteSet(S), FS_Union
  <2>4. NatOn(f, u)
    BY <1>4, <2>1 DEF NatOn
  <2>5. SumFunctionOnSet(f, u) = f[x] + SumFunctionOnSet(f, v)
    BY ONLY <2>2, <2>3, <2>4, SumRemove
  <2> QED BY ONLY <2>1, <2>5
<1>13. f[x] \in Nat
  BY <1>4, <1>7 DEF NatOn
<1>14. SumFunctionOnSet(f, n) \in Nat
  <2>1. IsFiniteSet(n) /\ NatOn(f, n)
    BY <1>9, FS_Subset DEF NatOn
  <2> QED BY ONLY <2>1, SumInNat
<1>15. SumFunctionOnSet(f, S \cup m) # SumFunctionOnSet(f, S) + SumFunctionOnSet(f, m)
  BY <1>4
<1> QED BY ONLY <1>5, <1>10, <1>11, <1>12, <1>13, <1>14, <1>15

LEMMA SumOfPart ==
    ASSUME NEW f, NEW S, IsFiniteSet(S), NatOn(f, S), NEW T \in SUBSET S
    PROVE  SumFunctionOnSet(f, T) <= SumFunctionOnSet(f, S)
<1>1. PICK u : u = S \ T
  OBVIOUS
<1>2. IsFiniteSet(T) /\ IsFiniteSet(u)
  BY <1>1, FS_Subset
<1>3. T \cap u = {} /\ T \cup u = S /\ NatOn(f, T) /\ NatOn(f, u)
  BY <1>1 DEF NatOn
<1>4. SumFunctionOnSet(f, T \cup u) = SumFunctionOnSet(f, T) + SumFunctionOnSet(f, u)
  BY ONLY <1>2, <1>3, NatOn(f, S), SumSplit
<1>5. SumFunctionOnSet(f, T) \in Nat /\ SumFunctionOnSet(f, u) \in Nat
  BY ONLY <1>2, <1>3, SumInNat
<1>6. SumFunctionOnSet(f, S) = SumFunctionOnSet(f, T) + SumFunctionOnSet(f, u)
  BY ONLY <1>3, <1>4, Zenon
<1> QED BY ONLY <1>5, <1>6

(* The same numbers under other names have the same sum. *)
LEMMA SumRenamed ==
    ASSUME NEW f, NEW S, IsFiniteSet(S), NEW g, NEW b,
           \A x \in S : g[b[x]] = f[x] /\ f[x] \in Nat,
           \A x, y \in S : b[x] = b[y] => x = y
    PROVE  /\ IsFiniteSet({b[x] : x \in S})
           /\ SumFunctionOnSet(g, {b[x] : x \in S}) = SumFunctionOnSet(f, S)
<1> DEFINE Im(s) == {b[x] : x \in s}
           Good(s) == /\ IsFiniteSet(Im(s))
                      /\ SumFunctionOnSet(g, Im(s)) = SumFunctionOnSet(f, s)
           C == {s \in SUBSET S : ~Good(s)}
<1> SUFFICES ASSUME ~Good(S) PROVE FALSE
  OBVIOUS
<1>1. PICK c : c = C
  OBVIOUS
<1>2. c # {} /\ \A s \in c : IsFiniteSet(s)
  BY <1>1, FS_Subset
<1>3. PICK m \in c : \A s \in c : s \subseteq m => s = m
  BY ONLY <1>2, HasSmallest
<1>4. m \in SUBSET S /\ IsFiniteSet(m) /\ ~Good(m)
  BY <1>1, <1>2, <1>3
<1>5. m # {}
  <2>1. ASSUME m = {} PROVE Im(m) = {}
    BY <2>1
  <2> QED BY <1>4, <2>1, SumEmpty, FS_EmptySet
<1>6. PICK x \in m : TRUE
  BY <1>5
<1>7. PICK n : n = m \ {x}
  OBVIOUS
<1>8. n \in SUBSET S /\ n \notin c
  BY <1>3, <1>4, <1>7
<1>9. Good(n)
  BY <1>1, <1>8
<1>10. PICK i, j : i = Im(n) /\ j = Im(m)
  OBVIOUS
<1>11. /\ j = i \cup {b[x]}
       /\ b[x] \notin i
       /\ \A y \in j : g[y] \in Nat
       /\ g[b[x]] = f[x]
  BY <1>4, <1>6, <1>7, <1>10
<1>12. IsFiniteSet(i) /\ SumFunctionOnSet(g, i) = SumFunctionOnSet(f, n)
  BY <1>9, <1>10
<1>13. IsFiniteSet(j)
  BY ONLY <1>11, <1>12, FS_AddElement
<1>14. SumFunctionOnSet(g, j) = f[x] + SumFunctionOnSet(g, i)
  BY ONLY <1>11, <1>12, SumAdd DEF NatOn
<1>15. SumFunctionOnSet(f, m) = f[x] + SumFunctionOnSet(f, n)
  <2>1. NatOn(f, m)
    BY <1>4 DEF NatOn
  <2> QED BY ONLY <1>4, <1>6, <1>7, <2>1, SumRemove
<1>16. Good(m)
  BY ONLY <1>10, <1>12, <1>13, <1>14, <1>15
<1> QED BY <1>4, <1>16

(* Sums of the parts of a partition. *)
LEMMA SumOfSums ==
    ASSUME NEW f, NEW A, IsFiniteSet(A), NEW P, NEW h,
           \A t \in A : /\ IsFiniteSet(P[t])
                        /\ NatOn(f, P[t])
                        /\ h[t] = SumFunctionOnSet(f, P[t]),
           \A t, u \in A : t # u => P[t] \cap P[u] = {}
    PROVE  /\ IsFiniteSet(UNION {P[t] : t \in A})
           /\ SumFunctionOnSet(h, A) = SumFunctionOnSet(f, UNION {P[t] : t \in A})
<1> DEFINE All(s) == UNION {P[t] : t \in s}
           Good(s) == /\ IsFiniteSet(All(s))
                      /\ SumFunctionOnSet(h, s) = SumFunctionOnSet(f, All(s))
           C == {s \in SUBSET A : ~Good(s)}
<1> SUFFICES ASSUME ~Good(A) PROVE FALSE
  OBVIOUS
<1>1. PICK c : c = C
  OBVIOUS
<1>2. c # {} /\ \A s \in c : IsFiniteSet(s)
  BY <1>1, FS_Subset
<1>3. PICK m \in c : \A s \in c : s \subseteq m => s = m
  BY ONLY <1>2, HasSmallest
<1>4. m \in SUBSET A /\ IsFiniteSet(m) /\ ~Good(m)
  BY <1>1, <1>2, <1>3
<1>5. m # {}
  <2>1. ASSUME m = {} PROVE All(m) = {}
    BY <2>1
  <2> QED BY <1>4, <2>1, SumEmpty, FS_EmptySet
<1>6. PICK x \in m : TRUE
  BY <1>5
<1>7. PICK n : n = m \ {x}
  OBVIOUS
<1>8. n \in SUBSET A /\ n \notin c
  BY <1>3, <1>4, <1>7
<1>9. Good(n)
  BY <1>1, <1>8
<1>10. PICK i, j, q : i = All(n) /\ j = All(m) /\ q = P[x]
  OBVIOUS
<1>11. j = i \cup q /\ i \cap q = {}
  BY <1>4, <1>6, <1>7, <1>10
<1>12. IsFiniteSet(i) /\ SumFunctionOnSet(h, n) = SumFunctionOnSet(f, i)
  BY <1>9, <1>10
<1>13. IsFiniteSet(q) /\ NatOn(f, q) /\ h[x] = SumFunctionOnSet(f, q)
  BY <1>4, <1>6, <1>10
<1>14. NatOn(f, j)
  BY <1>4, <1>10 DEF NatOn
<1>15. IsFiniteSet(j)
  BY ONLY <1>11, <1>12, <1>13, FS_Union
<1>16. SumFunctionOnSet(f, j) = SumFunctionOnSet(f, i) + SumFunctionOnSet(f, q)
  BY ONLY <1>11, <1>12, <1>13, <1>14, SumSplit
<1>17. SumFunctionOnSet(h, m) = h[x] + SumFunctionOnSet(h, n)
  <2>1. NatOn(h, m)
    BY <1>4, SumInNat DEF NatOn
  <2> QED BY ONLY <1>4, <1>6, <1>7, <2>1, SumRemove
<1>18. SumFunctionOnSet(f, i) \in Nat /\ SumFunctionOnSet(f, q) \in Nat
  <2>1. NatOn(f, i) /\ NatOn(f, q)
    BY ONLY <1>11, <1>14 DEF NatOn
  <2> QED BY ONLY <1>12, <1>13, <2>1, SumInNat
<1>19. Good(m)
  BY ONLY <1>10, <1>12, <1>13, <1>15, <1>16, <1>17, <1>18
<1> QED BY <1>4, <1>19

-----------------------------------------------------------------------------
(* The elements of a finite set, each with the number of those before it. *)

StrictOrderOn(R, S) ==
    /\ \A k \in S : <<k, k>> \notin R
    /\ \A k, l, m \in S : <<k, l>> \in R /\ <<l, m>> \in R => <<k, m>> \in R
    /\ \A k, l \in S : k = l \/ <<k, l>> \in R \/ <<l, k>> \in R

Earlier(k, R, S) == {l \in S : <<l, k>> \in R}

LEMMA EarlierIsFewer ==
    ASSUME NEW S, IsFiniteSet(S), NEW R, StrictOrderOn(R, S), NEW k \in S
    PROVE  /\ Cardinality(Earlier(k, R, S)) \in Nat
           /\ Cardinality(Earlier(k, R, S)) < Cardinality(S)
           /\ Cardinality(S) \in Nat
           /\ \A l \in S : <<k, l>> \in R =>
                 Cardinality(Earlier(k, R, S)) < Cardinality(Earlier(l, R, S))
<1>1. ASSUME NEW A \in SUBSET S, NEW B \in SUBSET A, B # A
      PROVE  Cardinality(B) \in Nat /\ Cardinality(A) \in Nat /\ Cardinality(B) < Cardinality(A)
  <2>1. IsFiniteSet(A) /\ IsFiniteSet(B)
    BY FS_Subset
  <2>2. Cardinality(B) <= Cardinality(A) /\ Cardinality(A) # Cardinality(B)
    BY ONLY <2>1, B \in SUBSET A, B # A, FS_Subset
  <2> QED BY ONLY <2>1, <2>2, FS_CardinalityType
<1>2. Earlier(k, R, S) \in SUBSET S /\ Earlier(k, R, S) # S
  BY DEF Earlier, StrictOrderOn
<1>3. ASSUME NEW l \in S, <<k, l>> \in R
      PROVE  /\ Earlier(l, R, S) \in SUBSET S
             /\ Earlier(k, R, S) \in SUBSET Earlier(l, R, S)
             /\ Earlier(k, R, S) # Earlier(l, R, S)
  BY <1>3 DEF Earlier, StrictOrderOn
<1>4. S \in SUBSET S
  OBVIOUS
<1> HIDE DEF Earlier
<1> QED BY <1>1, <1>2, <1>3, <1>4

(* Every number below that of the elements is the place of one of them. *)
LEMMA PlacesTaken ==
    ASSUME NEW S, IsFiniteSet(S), NEW R, StrictOrderOn(R, S)
    PROVE  /\ \A n \in 1 .. Cardinality(S) :
                 \E k \in S : Cardinality(Earlier(k, R, S)) = n - 1
           /\ \A k, l \in S :
                 Cardinality(Earlier(k, R, S)) = Cardinality(Earlier(l, R, S)) => k = l
<1>1. PICK r : r = [k \in S |-> Cardinality(Earlier(k, R, S)) + 1]
  OBVIOUS
<1>2. PICK n : n = Cardinality(S)
  OBVIOUS
<1>3. n \in Nat
  BY ONLY <1>2, IsFiniteSet(S), FS_CardinalityType
<1>4. ASSUME NEW k \in S
      PROVE  /\ Cardinality(Earlier(k, R, S)) \in Nat
             /\ Cardinality(Earlier(k, R, S)) < n
             /\ \A l \in S : <<k, l>> \in R =>
                   Cardinality(Earlier(k, R, S)) < Cardinality(Earlier(l, R, S))
  BY <1>2, EarlierIsFewer
<1>5. \A k, l \in S : Cardinality(Earlier(k, R, S)) = Cardinality(Earlier(l, R, S)) => k = l
  <2> SUFFICES ASSUME NEW k \in S, NEW l \in S, k # l,
                      Cardinality(Earlier(k, R, S)) = Cardinality(Earlier(l, R, S))
               PROVE  FALSE
    OBVIOUS
  <2>1. <<k, l>> \in R \/ <<l, k>> \in R
    BY DEF StrictOrderOn
  <2>2. /\ Cardinality(Earlier(k, R, S)) \in Nat
        /\ Cardinality(Earlier(l, R, S)) \in Nat
    BY <1>4
  <2>3. CASE <<k, l>> \in R
    BY <1>4, <2>2, <2>3
  <2>4. CASE <<l, k>> \in R
    BY <1>4, <2>2, <2>4
  <2> QED BY <2>1, <2>3, <2>4
<1>6. r \in [S -> 1 .. n] /\ \A k, l \in S : r[k] = r[l] => k = l
  BY ONLY <1>1, <1>3, <1>4, <1>5
<1>7. r \in Injection(S, 1 .. n)
  BY ONLY <1>6, Fun_IsInj
<1>8. IsFiniteSet(1 .. n) /\ Cardinality(1 .. n) = n
  BY ONLY <1>3, FS_Interval
<1>9. r \in Surjection(S, 1 .. n)
  BY ONLY <1>2, <1>7, <1>8, FS_Injection
<1>10. \A m \in 1 .. n : \E k \in S : r[k] = m
  BY ONLY <1>9, Fun_SurjectionProperties
<1>11. ASSUME NEW m \in 1 .. n PROVE \E k \in S : Cardinality(Earlier(k, R, S)) = m - 1
  <2>1. PICK k \in S : r[k] = m
    BY <1>10
  <2>2. Cardinality(Earlier(k, R, S)) + 1 = m
    BY ONLY <1>1, <2>1
  <2> QED BY ONLY <1>4, <2>2
<1> QED BY ONLY <1>2, <1>5, <1>11

LEMMA HasLast ==
    ASSUME NEW S, IsFiniteSet(S), NEW R, StrictOrderOn(R, S), S # {}
    PROVE  \E k \in S : Earlier(k, R, S) = S \ {k}
<1>1. PICK n : n = Cardinality(S)
  OBVIOUS
<1>2. n \in Nat /\ n # 0
  BY <1>1, FS_CardinalityType, FS_EmptySet
<1>3. n \in 1 .. n
  BY ONLY <1>2
<1>4. \A m \in 1 .. n : \E k \in S : Cardinality(Earlier(k, R, S)) = m - 1
  BY ONLY <1>1, IsFiniteSet(S), StrictOrderOn(R, S), PlacesTaken
<1>5. PICK k \in S : Cardinality(Earlier(k, R, S)) = n - 1
  BY ONLY <1>3, <1>4
<1>6. PICK e, o : e = Earlier(k, R, S) /\ o = S \ {k}
  OBVIOUS
<1>7. e \in SUBSET o
  BY <1>6 DEF Earlier, StrictOrderOn
<1>8. IsFiniteSet(o) /\ Cardinality(o) = n - 1
  BY <1>1, <1>6, FS_RemoveElement
<1>9. Cardinality(e) = Cardinality(o)
  BY ONLY <1>5, <1>6, <1>8
<1>10. e = o
  BY ONLY <1>7, <1>8, <1>9, FS_Subset
<1> QED BY <1>6, <1>10
=============================================================================
