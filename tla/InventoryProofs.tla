---------------------------- MODULE InventoryProofs ----------------------------
(***************************************************************************)
(* What buildDesiredPools returns lies between what stood all through its  *)
(* calls and what was there at some time of them: the calls of one zone    *)
(* first, then the sums over the zones of a name.  A sum is the number of  *)
(* its units, so that it grows with its terms because a set grows.         *)
(***************************************************************************)
EXTENDS DesiredPools, FiniteSetTheorems, WellFoundedInduction, TLAPS

-------------------------------------------------------------------------------
(* Numbers *)

\* A set of naturals has a least element.
LEMMA Lowest ==
    ASSUME NEW S \in SUBSET Nat, S # {}
    PROVE  Min(S) \in S /\ \A y \in S : Min(S) <= y
<1>1. PICK x \in S : \A y \in S : ~ (<<y, x>> \in OpToRel(<, Nat))
  BY WFMin, NatLessThanWellFounded
<1>2. ASSUME NEW y \in S PROVE x <= y
  <2>1. x \in Nat /\ y \in Nat
    OBVIOUS
  <2>2. y < x => <<y, x>> \in OpToRel(<, Nat)
    BY <2>1 DEF OpToRel
  <2>3. ~(y < x)
    BY <1>1, <2>2
  <2> QED
    BY <2>1, <2>3
<1>3. \E m \in S : \A y \in S : m =< y
  BY <1>2
<1> QED
  BY <1>3 DEF Min

\* A finite one has a greatest element.
LEMMA Greatest ==
    ASSUME NEW S \in SUBSET Nat, S # {}, IsFiniteSet(S)
    PROVE  Max(S) \in S /\ \A y \in S : y <= Max(S)
<1> DEFINE Topped(U) == \E x \in U : \A y \in U : y <= x
           Bad == {U \in FiniteSubsetsOf(S) : U # {} /\ ~Topped(U)}
<1>1. Bad = {}
  <2> SUFFICES ASSUME Bad # {} PROVE FALSE
    OBVIOUS
  <2>1. Bad \subseteq FiniteSubsetsOf(S)
    OBVIOUS
  <2>2. PICK U \in Bad : \A V \in Bad : ~ (<<V, U>> \in StrictSubsetOrdering(S))
    <3> HIDE DEF Bad
    <3> QED
      BY <2>1, WFMin, FS_StrictSubsetOrderingWellFounded
  <2>3. PICK x \in U : TRUE
    OBVIOUS
  <2> DEFINE V == U \ {x}
  <2>4. U \subseteq S /\ IsFiniteSet(U)
    BY DEF FiniteSubsetsOf
  <2>5. V \in FiniteSubsetsOf(S)
    BY <2>4, FS_RemoveElement DEF FiniteSubsetsOf
  <2>6. <<V, U>> \in StrictSubsetOrdering(S)
    BY <2>3, <2>4 DEF StrictSubsetOrdering
  <2>7. V = {} \/ Topped(V)
    BY <2>2, <2>5, <2>6
  <2>8. U \subseteq Nat /\ x \in Nat
    BY <2>3, <2>4
  <2>9. Topped(U)
    <3>1. CASE V = {}
      <4>1. \A y \in U : y = x
        BY <3>1
      <4> QED
        BY <4>1, <2>3, <2>8
    <3>2. CASE Topped(V)
      <4>1. PICK m \in V : \A y \in V : y <= m
        BY <3>2
      <4>2. \A y \in U : y \in V \/ y = x
        OBVIOUS
      <4>3. CASE m <= x
        BY <4>1, <4>2, <4>3, <2>3, <2>8
      <4>4. CASE x <= m
        BY <4>1, <4>2, <4>4, <2>3, <2>8
      <4> QED
        BY <4>1, <4>3, <4>4, <2>8
    <3> QED
      BY <2>7, <3>1, <3>2
  <2> QED
    BY <2>9
<1>2. S \in FiniteSubsetsOf(S)
  BY DEF FiniteSubsetsOf
<1>3. \E x \in S : \A y \in S : x >= y
  BY <1>1, <1>2
<1> QED
  BY <1>3 DEF Max

LEMMA Greater ==
    ASSUME NEW a \in Nat, NEW b \in Nat
    PROVE  Max({a, b}) = IF a <= b THEN b ELSE a
<1>1. \E x \in {a, b} : \A y \in {a, b} : x >= y
  <2>1. CASE a <= b
    BY <2>1
  <2>2. CASE b <= a
    BY <2>2
  <2> QED
    BY <2>1, <2>2
<1>2. Max({a, b}) \in {a, b} /\ \A y \in {a, b} : Max({a, b}) >= y
  BY <1>1 DEF Max
<1> QED
  BY <1>2

LEMMA GreaterGrows ==
    ASSUME NEW a \in Nat, NEW b \in Nat, NEW c \in Nat, NEW d \in Nat, a <= c, b <= d
    PROVE  /\ Max({a, b}) \in Nat
           /\ Max({a, b}) <= Max({c, d})
BY Greater

LEMMA Division ==
    ASSUME NEW n \in Nat, NEW d \in Nat \ {0}
    PROVE  /\ n \div d \in Nat
           /\ (n \div d) * d <= n
           /\ n < (n \div d) * d + d
BY Z3

LEMMA Products ==
    ASSUME NEW a \in Nat, NEW b \in Nat, NEW c \in Nat, NEW d \in Nat
    PROVE  /\ a * c \in Nat
           /\ (a + 1) * c = a * c + c
           /\ a <= b /\ c <= d => a * c <= b * d
<1>1. a * c \in Nat /\ (a + 1) * c = a * c + c
  BY Z3
<1>2. a <= b => a * c <= b * c
  BY Z3
<1>3. c <= d => b * c <= b * d
  BY Z3
<1>4. b * c \in Nat /\ b * d \in Nat
  BY Z3
<1> QED
  BY <1>1, <1>2, <1>3, <1>4

LEMMA Quotients ==
    ASSUME NEW a \in Nat, NEW b \in Nat, NEW d \in Nat \ {0}, a <= b
    PROVE  a \div d <= b \div d
<1> DEFINE m == a \div d
           n == b \div d
<1>1. m \in Nat /\ m * d <= a /\ n \in Nat /\ b < n * d + d
  BY Division
<1>2. m * d \in Nat /\ n * d \in Nat /\ (n + 1) * d = n * d + d
  BY <1>1, Products
<1> HIDE DEF m, n
<1>3. m * d < (n + 1) * d
  BY <1>1, <1>2
<1>4. n + 1 <= m => (n + 1) * d <= m * d
  BY <1>1, Products
<1>5. (n + 1) * d \in Nat
  BY <1>1, Products
<1>6. m <= n
  BY <1>1, <1>2, <1>3, <1>4, <1>5
<1> QED
  BY <1>6 DEF m, n

\* oversubscribed grows with the hosts and with the target.
LEMMA OversubscribedGrows ==
    ASSUME NEW a \in Nat, NEW b \in Nat, NEW p \in Nat, NEW q \in Nat, a <= b, p <= q
    PROVE  /\ oversubscribed(a, p) \in Nat
           /\ oversubscribed(a, p) <= oversubscribed(b, q)
<1>1. Scale \in Nat \ {0}
  BY DesiredPoolsAssumption
<1>2. a * p \in Nat /\ b * q \in Nat /\ a * p <= b * q
  BY Products
<1>3. /\ (a * p) \div Scale \in Nat /\ (b * q) \div Scale \in Nat
      /\ (a * p) \div Scale <= (b * q) \div Scale
  BY <1>1, <1>2, Division, Quotients
<1>4. oversubscribed(a, p) = IF a <= 0 \/ p <= 0 THEN 0 ELSE (a * p) \div Scale
  BY DEF oversubscribed
<1>5. oversubscribed(b, q) = IF b <= 0 \/ q <= 0 THEN 0 ELSE (b * q) \div Scale
  BY DEF oversubscribed
<1> HIDE DEF oversubscribed
<1> QED
  BY <1>3, <1>4, <1>5

-------------------------------------------------------------------------------
(* Sums *)

LEMMA UnitsFinite ==
    ASSUME NEW S, IsFiniteSet(S), NEW w, \A x \in S : w[x] \in Int
    PROVE  IsFiniteSet(Units(w, S))
<1> DEFINE f == [x \in S |-> {x} \X (1 .. w[x])]
           T == {{x} \X (1 .. w[x]) : x \in S}
<1>1. f \in Surjection(S, T)
  BY DEF Surjection
<1>2. IsFiniteSet(T)
  <2> HIDE DEF f, T
  <2> QED
    BY <1>1, FS_Surjection
<1>3. ASSUME NEW x \in S PROVE IsFiniteSet({x} \X (1 .. w[x]))
  <2>1. IsFiniteSet({x})
    BY FS_Singleton
  <2>2. w[x] \in Int /\ 1 \in Int
    OBVIOUS
  <2>3. IsFiniteSet(1 .. w[x])
    BY <2>2, FS_Interval
  <2> QED
    BY <2>1, <2>3, FS_Product
<1>4. \A U \in T : IsFiniteSet(U)
  BY <1>3
<1>5. IsFiniteSet(UNION T)
  <2> HIDE DEF T
  <2> QED
    BY <1>2, <1>4, FS_UNION
<1> QED
  BY <1>5 DEF Units

\* More terms, and greater ones, have a greater sum.
LEMMA TotalGrows ==
    ASSUME NEW S, IsFiniteSet(S), NEW R \in SUBSET S, NEW v, NEW w,
           \A x \in S : w[x] \in Int,
           \A x \in R : v[x] \in Int /\ v[x] <= w[x]
    PROVE  /\ Total(v, R) \in Nat /\ Total(w, S) \in Nat
           /\ Total(v, R) <= Total(w, S)
<1>1. IsFiniteSet(Units(w, S))
  BY UnitsFinite
<1>2. Units(v, R) \subseteq Units(w, S)
  <2> SUFFICES ASSUME NEW u, NEW x \in R, u \in {x} \X (1 .. v[x])
               PROVE  u \in Units(w, S)
    BY DEF Units
  <2>1. u \in {x} \X (1 .. w[x])
    OBVIOUS
  <2> QED
    BY <2>1 DEF Units
<1>3. IsFiniteSet(Units(v, R)) /\ Cardinality(Units(v, R)) <= Cardinality(Units(w, S))
  BY <1>1, <1>2, FS_Subset
<1> QED
  BY <1>1, <1>3, FS_CardinalityType DEF Total

LEMMA TotalOfNone == \A w : Total(w, {}) = 0
BY FS_EmptySet DEF Total, Units

\* One term more adds itself.
LEMMA TotalAdds ==
    ASSUME NEW S, IsFiniteSet(S), NEW x, x \notin S, NEW w,
           \A y \in S : w[y] \in Nat, w[x] \in Nat
    PROVE  Total(w, S \cup {x}) = Total(w, S) + w[x]
<1> DEFINE A == Units(w, S)
           B == {x} \X (1 .. w[x])
<1>1. IsFiniteSet(A) /\ Cardinality(A) \in Nat
  BY UnitsFinite, FS_CardinalityType
<1>2. IsFiniteSet(B) /\ Cardinality(B) = w[x]
  <2>1. IsFiniteSet({x}) /\ Cardinality({x}) = 1
    BY FS_Singleton
  <2>2. IsFiniteSet(1 .. w[x]) /\ Cardinality(1 .. w[x]) = w[x]
    BY FS_Interval
  <2>3. IsFiniteSet(B) /\ Cardinality(B) = Cardinality({x}) * Cardinality(1 .. w[x])
    BY <2>1, <2>2, FS_Product
  <2> HIDE DEF B
  <2> QED
    BY <2>1, <2>2, <2>3
<1>3. Units(w, S \cup {x}) = A \cup B
  BY DEF Units
<1>4. A \cap B = {}
  BY DEF Units
<1>5. Cardinality(A \cap B) = 0
  BY <1>4, FS_EmptySet
<1>6. Cardinality(A \cup B) = Cardinality(A) + Cardinality(B) - Cardinality(A \cap B)
  <2> HIDE DEF A, B
  <2> QED
    BY <1>1, <1>2, FS_Union
<1> HIDE DEF A, B
<1>7. Cardinality(A \cup B) = Cardinality(A) + w[x]
  BY <1>1, <1>2, <1>5, <1>6
<1> QED
  BY <1>3, <1>7 DEF Total, A

-------------------------------------------------------------------------------
(* Targets *)

\* oversubscriptionTargets.For picks the first positive target.
LEMMA TargetInForce ==
    ASSUME NEW p \in Policies, NEW t \in Types
    PROVE  For(p, t) = InForce(p, t) /\ For(p, t) \in Nat \ {0}
<1> DEFINE targets == <<p.byType[t], p.default, Scale>>
           I == {i \in 1 .. 3 : targets[i] > 0}
<1>1. p.byType[t] \in Int /\ p.default \in Int /\ Scale \in Nat \ {0}
  BY DesiredPoolsAssumption
<1>2. targets[1] = p.byType[t] /\ targets[2] = p.default /\ targets[3] = Scale
  OBVIOUS
<1> HIDE DEF targets
<1>3. 3 \in I /\ I \in SUBSET Nat
  BY <1>1, <1>2
<1>4. Min(I) \in I /\ \A i \in I : Min(I) <= i
  <2> HIDE DEF I
  <2> QED
    BY <1>3, Lowest
<1>5. InForce(p, t) = targets[Min(I)]
  BY DEF InForce, targets
<1>6. CASE p.byType[t] > 0
  <2>1. 1 \in I
    BY <1>2, <1>6
  <2>2. Min(I) = 1
    BY <1>4, <2>1
  <2> QED
    BY <2>2, <1>1, <1>2, <1>5, <1>6 DEF For
<1>7. CASE ~(p.byType[t] > 0) /\ p.default > 0
  <2>1. 2 \in I /\ 1 \notin I
    BY <1>1, <1>2, <1>7
  <2>2. Min(I) = 2
    BY <1>4, <2>1
  <2> QED
    BY <2>2, <1>1, <1>2, <1>5, <1>7 DEF For
<1>8. CASE ~(p.byType[t] > 0) /\ ~(p.default > 0)
  <2>1. 2 \notin I /\ 1 \notin I
    BY <1>1, <1>2, <1>8
  <2>2. Min(I) = 3
    BY <1>4, <2>1
  <2> QED
    BY <2>2, <1>1, <1>2, <1>5, <1>8 DEF For
<1> QED
  BY <1>6, <1>7, <1>8

LEMMA NoTarget == \A t \in Types : For(Untargeted, t) = Scale
BY DesiredPoolsAssumption DEF For, Untargeted

Seen(P, t) == {InForce(p, t) : p \in P} \cup {Scale}

LEMMA SeenFacts ==
    ASSUME NEW P \in SUBSET Policies, IsFiniteSet(P), NEW t \in Types
    PROVE  /\ Seen(P, t) \in SUBSET Nat
           /\ Min(Seen(P, t)) \in Seen(P, t) /\ Max(Seen(P, t)) \in Seen(P, t)
           /\ \A x \in Seen(P, t) : Min(Seen(P, t)) <= x /\ x <= Max(Seen(P, t))
<1> DEFINE f == [p \in P |-> InForce(p, t)]
           T == {InForce(p, t) : p \in P}
<1>1. f \in Surjection(P, T)
  BY DEF Surjection
<1>2. IsFiniteSet(T)
  <2> HIDE DEF f, T
  <2> QED
    BY <1>1, FS_Surjection
<1>3. IsFiniteSet(Seen(P, t))
  <2> HIDE DEF T
  <2>1. IsFiniteSet(T \cup {Scale})
    BY <1>2, FS_AddElement
  <2> QED
    BY <2>1 DEF Seen, T
<1>4. Seen(P, t) \in SUBSET Nat /\ Seen(P, t) # {}
  <2>1. \A p \in P : InForce(p, t) \in Nat
    BY TargetInForce
  <2> QED
    BY <2>1, DesiredPoolsAssumption DEF Seen
<1> QED
  BY <1>3, <1>4, Lowest, Greatest

\* More targets have a lower least and a higher greatest one.
LEMMA SeenGrows ==
    ASSUME NEW Q \in SUBSET Policies, IsFiniteSet(Q), NEW P \in SUBSET Q, NEW t \in Types
    PROVE  /\ Min(Seen(P, t)) \in Nat /\ Max(Seen(P, t)) \in Nat
           /\ Min(Seen(Q, t)) \in Nat /\ Max(Seen(Q, t)) \in Nat
           /\ Min(Seen(Q, t)) <= Min(Seen(P, t))
           /\ Max(Seen(P, t)) <= Max(Seen(Q, t))
<1>1. IsFiniteSet(P) /\ P \in SUBSET Policies
  BY FS_Subset
<1>2. Seen(P, t) \subseteq Seen(Q, t)
  BY DEF Seen
<1>3. /\ Seen(P, t) \in SUBSET Nat
      /\ Min(Seen(P, t)) \in Seen(P, t) /\ Max(Seen(P, t)) \in Seen(P, t)
  BY <1>1, SeenFacts
<1>4. /\ Seen(Q, t) \in SUBSET Nat
      /\ Min(Seen(Q, t)) \in Seen(Q, t) /\ Max(Seen(Q, t)) \in Seen(Q, t)
      /\ \A x \in Seen(Q, t) : Min(Seen(Q, t)) <= x /\ x <= Max(Seen(Q, t))
  BY SeenFacts
<1> QED
  BY <1>2, <1>3, <1>4

-------------------------------------------------------------------------------
(* Counts *)

LEMMA CountGrows ==
    ASSUME NEW D, IsFiniteSet(D), NEW of \in [D -> GPUs], NEW B \in SUBSET D,
           NEW A \in SUBSET B, NEW t \in Types
    PROVE  /\ Count(A, of)[t] \in Nat /\ Count(B, of)[t] \in Nat
           /\ Count(A, of)[t] <= Count(B, of)[t]
<1> DEFINE Of(S) == {s \in S : Normal[of[s].type] = t /\ of[s].count > 0}
           n(S) == [s \in S |-> of[s].count]
<1>1. /\ Count(A, of)[t] = Total(n(A), Of(A))
      /\ Count(B, of)[t] = Total(n(B), Of(B))
  BY DEF Count
<1>2. \A s \in D : of[s].count \in Int
  BY DEF GPUs
<1>3. IsFiniteSet(Of(B))
  <2>1. Of(B) \in SUBSET D
    OBVIOUS
  <2> HIDE DEF Of
  <2> QED
    BY <2>1, FS_Subset
<1>4. Of(A) \in SUBSET Of(B)
  OBVIOUS
<1>5. \A s \in Of(B) : n(B)[s] \in Int
  BY <1>2
<1>6. \A s \in Of(A) : n(A)[s] \in Int /\ n(A)[s] <= n(B)[s]
  BY <1>2
<1> HIDE DEF Of, n
<1> QED
  BY <1>1, <1>3, <1>4, <1>5, <1>6, TotalGrows

LEMMA Finite ==
    /\ IsFiniteSet(Zones) /\ IsFiniteSet(Servers) /\ IsFiniteSet(Clients)
    /\ HostOf \in [Servers -> GPUs] /\ ClientOf \in [Clients -> GPUs]
BY DesiredPoolsAssumption

LEMMA CountType ==
    /\ \A S \in SUBSET Servers : Count(S, HostOf) \in [Types -> Nat]
    /\ \A S \in SUBSET Clients : Count(S, ClientOf) \in [Types -> Nat]
<1>1. ASSUME NEW S \in SUBSET Servers PROVE Count(S, HostOf) \in [Types -> Nat]
  <2>1. \A t \in Types : Count(S, HostOf)[t] \in Nat
    BY Finite, CountGrows
  <2> QED
    BY <2>1 DEF Count
<1>2. ASSUME NEW S \in SUBSET Clients PROVE Count(S, ClientOf) \in [Types -> Nat]
  <2>1. \A t \in Types : Count(S, ClientOf)[t] \in Nat
    BY Finite, CountGrows
  <2> QED
    BY <2>1 DEF Count
<1> QED
  BY <1>1, <1>2

\* Among more servers and clients, more are in a zone.
LEMMA UpGrows ==
    ASSUME NEW B, NEW A \in SUBSET B, NEW z \in Zones, NEW t \in Types
    PROVE  /\ HostsIn(A, z)[t] \in Nat /\ HostsIn(B, z)[t] \in Nat
           /\ HostsIn(A, z)[t] <= HostsIn(B, z)[t]
           /\ ClientsIn(A, z)[t] \in Nat /\ ClientsIn(B, z)[t] \in Nat
           /\ ClientsIn(A, z)[t] <= ClientsIn(B, z)[t]
<1>1. /\ InZone(B \cap Servers, HostOf, z) \in SUBSET Servers
      /\ InZone(A \cap Servers, HostOf, z) \in SUBSET InZone(B \cap Servers, HostOf, z)
      /\ InZone(B \cap Clients, ClientOf, z) \in SUBSET Clients
      /\ InZone(A \cap Clients, ClientOf, z) \in SUBSET InZone(B \cap Clients, ClientOf, z)
  BY DEF InZone
<1> QED
  BY <1>1, Finite, CountGrows DEF HostsIn, ClientsIn

LEMMA WorthGrows ==
    ASSUME NEW B, NEW A \in SUBSET B, NEW z \in Zones, NEW t \in Types,
           NEW p \in Nat, NEW q \in Nat, p <= q
    PROVE  /\ Worth(A, z, t, p) \in Nat /\ Worth(B, z, t, q) \in Nat
           /\ Worth(A, z, t, p) <= Worth(B, z, t, q)
<1> DEFINE h == HostsIn(A, z)[t]
           k == HostsIn(B, z)[t]
           c == ClientsIn(A, z)[t]
           d == ClientsIn(B, z)[t]
<1>1. h \in Nat /\ k \in Nat /\ h <= k /\ c \in Nat /\ d \in Nat /\ c <= d
  BY UpGrows
<1>2. /\ Worth(A, z, t, p) = Max({oversubscribed(h, p), c})
      /\ Worth(B, z, t, q) = Max({oversubscribed(k, q), d})
  BY DEF Worth
<1> HIDE DEF h, k, c, d
<1>3. /\ oversubscribed(h, p) \in Nat /\ oversubscribed(k, q) \in Nat
      /\ oversubscribed(h, p) <= oversubscribed(k, q)
  BY <1>1, OversubscribedGrows
<1> QED
  BY <1>1, <1>2, <1>3, GreaterGrows

-------------------------------------------------------------------------------
(* The bounds *)

LeastOf(up, P, t, S) == Total([z \in Zones |-> Worth(up, z, t, Min(Seen(P[z], t)))], S)
MostOf(up, P, t, S) == Total([z \in Zones |-> Worth(up, z, t, Max(Seen(P[z], t)))], S)

LEMMA Bounds ==
    ASSUME NEW t, NEW S
    PROVE  /\ Least(t, S) = LeastOf(stood, policies, t, S)
           /\ Most(t, S) = MostOf(ever, policies, t, S)
           /\ Least(t, S)' = LeastOf(stood', policies', t, S)
           /\ Most(t, S)' = MostOf(ever', policies', t, S)
BY DEF Least, Most, LeastOf, MostOf, TargetsSeen, Seen

History == {P \in [Zones -> SUBSET Policies] : \A z \in Zones : IsFiniteSet(P[z])}

LEMMA WorthType ==
    ASSUME NEW P \in History, NEW up, NEW z \in Zones, NEW t \in Types
    PROVE  /\ Worth(up, z, t, Min(Seen(P[z], t))) \in Nat
           /\ Worth(up, z, t, Max(Seen(P[z], t))) \in Nat
<1>1. P[z] \in SUBSET Policies /\ IsFiniteSet(P[z])
  BY DEF History
<1>2. Min(Seen(P[z], t)) \in Nat /\ Max(Seen(P[z], t)) \in Nat
  BY <1>1, SeenFacts
<1> QED
  BY <1>2, WorthGrows

\* What stands shrinks while what was there grows: the bounds only get slacker.
LEMMA BoundsSlacken ==
    ASSUME NEW P \in History, NEW Q \in History, \A z \in Zones : P[z] \subseteq Q[z],
           NEW A, NEW B \in SUBSET A, NEW t \in Types, NEW S \in SUBSET Zones
    PROVE  /\ LeastOf(B, Q, t, S) \in Nat /\ LeastOf(A, P, t, S) \in Nat
           /\ LeastOf(B, Q, t, S) <= LeastOf(A, P, t, S)
           /\ MostOf(B, P, t, S) \in Nat /\ MostOf(A, Q, t, S) \in Nat
           /\ MostOf(B, P, t, S) <= MostOf(A, Q, t, S)
<1>1. IsFiniteSet(S)
  BY Finite, FS_Subset
<1>2. ASSUME NEW z \in Zones
      PROVE  /\ Min(Seen(P[z], t)) \in Nat /\ Max(Seen(P[z], t)) \in Nat
             /\ Min(Seen(Q[z], t)) \in Nat /\ Max(Seen(Q[z], t)) \in Nat
             /\ Min(Seen(Q[z], t)) <= Min(Seen(P[z], t))
             /\ Max(Seen(P[z], t)) <= Max(Seen(Q[z], t))
  <2>1. Q[z] \in SUBSET Policies /\ IsFiniteSet(Q[z]) /\ P[z] \in SUBSET Q[z]
    BY DEF History
  <2> QED
    BY <2>1, SeenGrows
<1>3. LeastOf(B, Q, t, S) \in Nat /\ LeastOf(A, P, t, S) \in Nat
      /\ LeastOf(B, Q, t, S) <= LeastOf(A, P, t, S)
  <2> DEFINE v == [z \in Zones |-> Worth(B, z, t, Min(Seen(Q[z], t)))]
             w == [z \in Zones |-> Worth(A, z, t, Min(Seen(P[z], t)))]
  <2>1. \A z \in Zones : v[z] \in Nat /\ w[z] \in Nat /\ v[z] <= w[z]
    BY <1>2, WorthGrows
  <2>2. LeastOf(B, Q, t, S) = Total(v, S) /\ LeastOf(A, P, t, S) = Total(w, S)
    BY DEF LeastOf
  <2> HIDE DEF v, w
  <2>3. \A z \in S : v[z] \in Int /\ w[z] \in Int /\ v[z] <= w[z]
    BY <2>1
  <2> QED
    BY <2>2, <2>3, <1>1, TotalGrows
<1>4. MostOf(B, P, t, S) \in Nat /\ MostOf(A, Q, t, S) \in Nat
      /\ MostOf(B, P, t, S) <= MostOf(A, Q, t, S)
  <2> DEFINE v == [z \in Zones |-> Worth(B, z, t, Max(Seen(P[z], t)))]
             w == [z \in Zones |-> Worth(A, z, t, Max(Seen(Q[z], t)))]
  <2>1. \A z \in Zones : v[z] \in Nat /\ w[z] \in Nat /\ v[z] <= w[z]
    BY <1>2, WorthGrows
  <2>2. MostOf(B, P, t, S) = Total(v, S) /\ MostOf(A, Q, t, S) = Total(w, S)
    BY DEF MostOf
  <2> HIDE DEF v, w
  <2>3. \A z \in S : v[z] \in Int /\ w[z] \in Int /\ v[z] <= w[z]
    BY <2>1
  <2> QED
    BY <2>2, <2>3, <1>1, TotalGrows
<1> QED
  BY <1>3, <1>4

\* One more zone of a name adds what it is worth.
LEMMA BoundsAdd ==
    ASSUME NEW P \in History, NEW up, NEW t \in Types, NEW S \in SUBSET Zones,
           NEW z \in Zones, z \notin S
    PROVE  /\ LeastOf(up, P, t, S \cup {z}) =
                 LeastOf(up, P, t, S) + Worth(up, z, t, Min(Seen(P[z], t)))
           /\ MostOf(up, P, t, S \cup {z}) =
                 MostOf(up, P, t, S) + Worth(up, z, t, Max(Seen(P[z], t)))
<1>1. IsFiniteSet(S)
  BY Finite, FS_Subset
<1> DEFINE v == [y \in Zones |-> Worth(up, y, t, Min(Seen(P[y], t)))]
           w == [y \in Zones |-> Worth(up, y, t, Max(Seen(P[y], t)))]
<1>2. \A y \in Zones : v[y] \in Nat /\ w[y] \in Nat
  BY WorthType
<1>3. /\ v[z] = Worth(up, z, t, Min(Seen(P[z], t)))
      /\ w[z] = Worth(up, z, t, Max(Seen(P[z], t)))
  OBVIOUS
<1>4. \A T : LeastOf(up, P, t, T) = Total(v, T) /\ MostOf(up, P, t, T) = Total(w, T)
  BY DEF LeastOf, MostOf
<1> HIDE DEF v, w
<1>5. Total(v, S \cup {z}) = Total(v, S) + v[z]
  BY <1>1, <1>2, TotalAdds
<1>6. Total(w, S \cup {z}) = Total(w, S) + w[z]
  BY <1>1, <1>2, TotalAdds
<1> QED
  BY <1>3, <1>4, <1>5, <1>6

\* What a zone's calls returned is worth something between its bounds.
LEMMA ZoneWorth ==
    ASSUME NEW P \in History, NEW A, NEW B, NEW z \in Zones, NEW t \in Types,
           NEW h \in Nat, NEW c \in Nat, NEW over \in Seen(P[z], t),
           HostsIn(A, z)[t] <= h, h <= HostsIn(B, z)[t],
           ClientsIn(A, z)[t] <= c, c <= ClientsIn(B, z)[t]
    PROVE  /\ over \in Nat /\ Max({oversubscribed(h, over), c}) \in Nat
           /\ Worth(A, z, t, Min(Seen(P[z], t))) <= Max({oversubscribed(h, over), c})
           /\ Max({oversubscribed(h, over), c}) <= Worth(B, z, t, Max(Seen(P[z], t)))
<1> DEFINE lo == Min(Seen(P[z], t))
           hi == Max(Seen(P[z], t))
           hA == HostsIn(A, z)[t]
           hB == HostsIn(B, z)[t]
           cA == ClientsIn(A, z)[t]
           cB == ClientsIn(B, z)[t]
<1>1. P[z] \in SUBSET Policies /\ IsFiniteSet(P[z])
  BY DEF History
<1>2. lo \in Nat /\ hi \in Nat /\ over \in Nat /\ lo <= over /\ over <= hi
  BY <1>1, SeenFacts
<1>3. hA \in Nat /\ hB \in Nat /\ cA \in Nat /\ cB \in Nat
  BY UpGrows
<1>4. /\ Worth(A, z, t, lo) = Max({oversubscribed(hA, lo), cA})
      /\ Worth(B, z, t, hi) = Max({oversubscribed(hB, hi), cB})
  BY DEF Worth
<1>5. hA <= h /\ h <= hB /\ cA <= c /\ c <= cB
  OBVIOUS
<1> HIDE DEF lo, hi, hA, hB, cA, cB
<1>6. /\ oversubscribed(hA, lo) \in Nat /\ oversubscribed(h, over) \in Nat
      /\ oversubscribed(hB, hi) \in Nat
      /\ oversubscribed(hA, lo) <= oversubscribed(h, over)
      /\ oversubscribed(h, over) <= oversubscribed(hB, hi)
  <2>1. /\ oversubscribed(hA, lo) \in Nat
        /\ oversubscribed(hA, lo) <= oversubscribed(h, over)
    BY <1>2, <1>3, <1>5, OversubscribedGrows
  <2>2. /\ oversubscribed(h, over) \in Nat
        /\ oversubscribed(h, over) <= oversubscribed(hB, hi)
    BY <1>2, <1>3, <1>5, OversubscribedGrows
  <2>3. hi <= hi /\ hB <= hB
    BY <1>2, <1>3
  <2>4. oversubscribed(hB, hi) \in Nat
    BY <2>3, <1>2, <1>3, OversubscribedGrows
  <2> QED
    BY <2>1, <2>2, <2>4
<1>7. Max({oversubscribed(hA, lo), cA}) <= Max({oversubscribed(h, over), c})
  BY <1>3, <1>5, <1>6, GreaterGrows
<1>8. /\ Max({oversubscribed(h, over), c}) <= Max({oversubscribed(hB, hi), cB})
      /\ Max({oversubscribed(h, over), c}) \in Nat
  BY <1>3, <1>5, <1>6, GreaterGrows
<1> QED
  BY <1>2, <1>4, <1>7, <1>8 DEF lo, hi

-------------------------------------------------------------------------------
(* The calls *)

LEMMA NoReadType == NoRead \in Reading
BY DEF NoRead, Reading, NoPool, Pool

\* The lists that Thunder returns are of what is up.
LEMMA Listed ==
    ASSUME ReadInv, NEW z \in Zones
    PROVE  /\ Count({s \in InZone(Servers, HostOf, z) : nodeHealthy(status[s])}, HostOf)
                 = HostsIn(Up, z)
           /\ Count({c \in {c \in InZone(Clients, ClientOf, z) : client[c] # "absent"} :
                       client[c] # "decommissioned"}, ClientOf)
                 = ClientsIn(Up, z)
<1>1. Servers \cap Clients = {}
  BY DesiredPoolsAssumption
<1>2. {s \in InZone(Servers, HostOf, z) : nodeHealthy(status[s])}
        = InZone(Up \cap Servers, HostOf, z)
  BY <1>1 DEF InZone, Up
<1>3. {c \in {c \in InZone(Clients, ClientOf, z) : client[c] # "absent"} :
         client[c] # "decommissioned"}
        = InZone(Up \cap Clients, ClientOf, z)
  <2>1. \A c \in Clients : client[c] = "live"
          <=> client[c] # "absent" /\ client[c] # "decommissioned"
    BY DEF ReadInv
  <2>2. \A c : c \in Up \cap Clients <=> c \in Clients /\ client[c] = "live"
    BY <1>1 DEF Up
  <2> QED
    BY <2>1, <2>2 DEF InZone
<1> QED
  BY <1>2, <1>3 DEF HostsIn, ClientsIn

LEMMA HistoryType == ReadInv => policies \in History
BY DEF ReadInv, History

LEMMA ReadEnds ==
    ASSUME ReadInv, EndRead, UNCHANGED thunderVars, policies' \in History
    PROVE  ReadInv'
<1>1. read' \in Reading /\ read'.pc = "idle"
  BY NoReadType DEF EndRead, NoRead
<1> QED
  BY <1>1 DEF ReadInv, thunderVars, History

LEMMA ZonesListed == ReadInv /\ ListZones => ReadInv'
<1> SUFFICES ASSUME ReadInv, ListZones PROVE ReadInv'
  OBVIOUS
<1>0. policy \in [Zones -> Policies] /\ UNCHANGED thunderVars
  BY DEF ReadInv, ListZones
<1>1. policies' \in History /\ \A z \in Zones : policies'[z] = {policy[z]}
  <2>1. policies' = [z \in Zones |-> {policy[z]}]
    BY DEF ListZones
  <2>2. \A z \in Zones : {policy[z]} \in SUBSET Policies /\ IsFiniteSet({policy[z]})
    <3> TAKE z \in Zones
    <3>1. policy[z] \in Policies
      BY <1>0
    <3>2. IsFiniteSet({policy[z]})
      BY FS_Singleton
    <3> QED
      BY <3>1, <3>2
  <2> QED
    BY <2>1, <2>2 DEF History
<1>2. CASE EndRead
  BY <1>0, <1>1, <1>2, ReadEnds
<1>3. CASE read' = [NoRead EXCEPT !.pc = "zone", !.todo = {z \in Zones : zoneName(z) # Blank}]
  <2>1. /\ read' \in Reading /\ read'.pc = "zone" /\ read'.zone = Blank
        /\ read'.todo = {z \in Zones : zoneName(z) # Blank}
        /\ read'.desired = [k \in Keys |-> NoPool]
    BY <1>3, NoReadType DEF NoRead, Reading
  <2>2. Up' = Up /\ stood' = Up /\ ever' = Up
    BY <1>0 DEF ListZones, Up, thunderVars
  <2>3. Up \subseteq Servers \cup Clients
    BY DEF Up
  <2>4. ASSUME NEW k \in Keys
        PROVE  /\ Least(k[2], ReadSoFar(k[1]))' <= read'.desired[k].cap
               /\ read'.desired[k].cap <= Most(k[2], ReadSoFar(k[1]))'
    <3>1. ReadSoFar(k[1])' = {}
      BY <2>1 DEF ReadSoFar, ZonesOf, Keys, Names
    <3>2. Least(k[2], ReadSoFar(k[1]))' = 0 /\ Most(k[2], ReadSoFar(k[1]))' = 0
      BY <3>1, TotalOfNone DEF Least, Most
    <3>3. read'.desired[k].cap = 0
      BY <2>1 DEF NoPool
    <3> QED
      BY <3>2, <3>3
  <2>5. \A z \in Zones : policy'[z] \in policies'[z]
    BY <1>0, <1>1 DEF thunderVars
  <2>6. /\ status' = status /\ client' = client /\ policy' = policy
        /\ policies' \in [Zones -> SUBSET Policies]
        /\ \A z \in Zones : IsFiniteSet(policies'[z])
    BY <1>0, <1>1 DEF thunderVars, History
  <2> QED
    BY <2>1, <2>2, <2>3, <2>4, <2>5, <2>6 DEF ReadInv
<1> QED
  BY <1>2, <1>3 DEF ListZones

\* A call that adds no zone keeps what the sums over the zones have come to.
LEMMA SumsKept ==
    ASSUME ReadInv, read.pc # "idle", UNCHANGED <<thunderVars, historyVars>>,
           read'.desired = read.desired, \A n \in Names : ReadSoFar(n)' = ReadSoFar(n)
    PROVE  /\ stood' \subseteq Up' /\ Up' \subseteq ever' /\ ever' \subseteq Servers \cup Clients
           /\ \A z \in Zones : policy'[z] \in policies'[z]
           /\ \A k \in Keys : /\ Least(k[2], ReadSoFar(k[1]))' <= read'.desired[k].cap
                              /\ read'.desired[k].cap <= Most(k[2], ReadSoFar(k[1]))'
           /\ status' \in [Servers -> Statuses]
           /\ client' \in [Clients -> {"absent", "live", "decommissioned"}]
           /\ policy' \in [Zones -> Policies] /\ policies' \in [Zones -> SUBSET Policies]
           /\ \A z \in Zones : IsFiniteSet(policies'[z])
<1>1. Up' = Up
  BY DEF Up, thunderVars
<1>2. /\ stood' = stood /\ ever' = ever /\ policies' = policies
      /\ status' = status /\ client' = client /\ policy' = policy
  BY DEF thunderVars, historyVars
<1>3. ASSUME NEW k \in Keys
      PROVE  /\ Least(k[2], ReadSoFar(k[1]))' <= read'.desired[k].cap
             /\ read'.desired[k].cap <= Most(k[2], ReadSoFar(k[1]))'
  <2>1. k[1] \in Names
    BY DEF Keys
  <2>2. ReadSoFar(k[1])' = ReadSoFar(k[1])
    BY <2>1
  <2>3. /\ Least(k[2], ReadSoFar(k[1]))' = Least(k[2], ReadSoFar(k[1]))
        /\ Most(k[2], ReadSoFar(k[1]))' = Most(k[2], ReadSoFar(k[1]))
    BY <1>2, <2>2 DEF Least, Most, TargetsSeen
  <2> QED
    BY <2>3 DEF ReadInv
<1> QED
  BY <1>1, <1>2, <1>3 DEF ReadInv

LEMMA ServersListed == ASSUME NEW z \in Zones PROVE ReadInv /\ ListServers(z) => ReadInv'
<1> SUFFICES ASSUME ReadInv, ListServers(z) PROVE ReadInv'
  OBVIOUS
<1>0. /\ read.pc = "zone" /\ z \in read.todo /\ read.zone = Blank /\ read \in Reading
      /\ UNCHANGED <<thunderVars, historyVars>>
  BY DEF ReadInv, ListServers
<1>1. CASE EndRead
  <2>1. policies' \in History /\ UNCHANGED thunderVars
    BY <1>0, HistoryType DEF historyVars
  <2> QED
    BY <1>1, <2>1, ReadEnds
<1>2. CASE ~EndRead
  <2> DEFINE found == HostsIn(Up, z)
  <2>1. read' = [read EXCEPT !.pc = "clients", !.zone = z, !.todo = @ \ {z}, !.hosts = found]
    BY <1>2, Listed DEF ListServers
  <2>2. found \in [Types -> Nat]
    BY CountType DEF HostsIn, InZone
  <2> HIDE DEF found
  <2>3. /\ read' \in Reading /\ read'.pc = "clients" /\ read'.zone = z
        /\ read'.todo = read.todo \ {z} /\ read'.hosts = found
        /\ read'.desired = read.desired
    BY <1>0, <2>1, <2>2 DEF Reading
  <2>4. ASSUME NEW n \in Names PROVE ReadSoFar(n)' = ReadSoFar(n)
    <3>1. Blank \notin ZonesOf(n)
      BY DesiredPoolsAssumption DEF ZonesOf
    <3>2. ReadSoFar(n) = ZonesOf(n) \ read.todo
      BY <1>0, <3>1 DEF ReadSoFar
    <3>3. ReadSoFar(n)' = ZonesOf(n) \ (read'.todo \cup {z})
      BY <2>3 DEF ReadSoFar, ZonesOf
    <3> QED
      BY <1>0, <2>3, <3>2, <3>3
  <2>5. \A t \in Types : HostsIn(stood, z)[t] <= found[t] /\ found[t] <= HostsIn(ever, z)[t]
    <3>1. stood \in SUBSET Up /\ Up \in SUBSET ever
      BY <1>0 DEF ReadInv
    <3> QED
      BY <3>1, UpGrows DEF found
  <2>6. \A t \in Types : /\ HostsIn(stood, read.zone)'[t] <= read'.hosts[t]
                         /\ read'.hosts[t] <= HostsIn(ever, read.zone)'[t]
    <3>1. /\ HostsIn(stood, read.zone)' = HostsIn(stood, z)
          /\ HostsIn(ever, read.zone)' = HostsIn(ever, z)
      BY <1>0, <2>3 DEF HostsIn, historyVars
    <3> QED
      BY <2>3, <2>5, <3>1
  <2> QED
    BY <1>0, <2>3, <2>4, <2>6, SumsKept DEF ReadInv
<1> QED
  BY <1>1, <1>2

LEMMA ClientsListed == ReadInv /\ ListClients => ReadInv'
<1> SUFFICES ASSUME ReadInv, ListClients PROVE ReadInv'
  OBVIOUS
<1>0. /\ read.pc = "clients" /\ read.zone \in Zones \ read.todo /\ read \in Reading
      /\ UNCHANGED <<thunderVars, historyVars>>
  BY DEF ReadInv, ListClients
<1>1. CASE EndRead
  <2>1. policies' \in History /\ UNCHANGED thunderVars
    BY <1>0, HistoryType DEF historyVars
  <2> QED
    BY <1>1, <2>1, ReadEnds
<1>2. CASE ~EndRead
  <2> DEFINE found == ClientsIn(Up, read.zone)
  <2>1. read' = [read EXCEPT !.pc = "targets", !.clients = found]
    BY <1>0, <1>2, Listed DEF ListClients
  <2>2. found \in [Types -> Nat]
    BY CountType DEF ClientsIn, InZone
  <2> HIDE DEF found
  <2>3. /\ read' \in Reading /\ read'.pc = "targets" /\ read'.zone = read.zone
        /\ read'.todo = read.todo /\ read'.hosts = read.hosts /\ read'.clients = found
        /\ read'.desired = read.desired
    BY <1>0, <2>1, <2>2 DEF Reading
  <2>4. \A n \in Names : ReadSoFar(n)' = ReadSoFar(n)
    BY <2>3 DEF ReadSoFar, ZonesOf
  <2>5. \A t \in Types : /\ ClientsIn(stood, read.zone)[t] <= found[t]
                         /\ found[t] <= ClientsIn(ever, read.zone)[t]
    <3>1. stood \in SUBSET Up /\ Up \in SUBSET ever
      BY <1>0 DEF ReadInv
    <3> QED
      BY <1>0, <3>1, UpGrows DEF found
  <2>6. /\ HostsIn(stood, read.zone)' = HostsIn(stood, read.zone)
        /\ HostsIn(ever, read.zone)' = HostsIn(ever, read.zone)
        /\ ClientsIn(stood, read.zone)' = ClientsIn(stood, read.zone)
        /\ ClientsIn(ever, read.zone)' = ClientsIn(ever, read.zone)
    BY <1>0, <2>3 DEF HostsIn, ClientsIn, historyVars
  <2>7. \A t \in Types : /\ HostsIn(stood, read.zone)'[t] <= read'.hosts[t]
                         /\ read'.hosts[t] <= HostsIn(ever, read.zone)'[t]
                         /\ ClientsIn(stood, read.zone)'[t] <= read'.clients[t]
                         /\ read'.clients[t] <= ClientsIn(ever, read.zone)'[t]
    BY <1>0, <2>3, <2>5, <2>6 DEF ReadInv
  <2> QED
    BY <1>0, <2>3, <2>4, <2>7, SumsKept DEF ReadInv
<1> QED
  BY <1>1, <1>2

Gain(hosts, clients, targets, t) ==
    Max({oversubscribed(hosts[t], For(targets, t)), clients[t]})

LEMMA TargetsRead == ReadInv /\ ReadTargets => ReadInv'
<1> SUFFICES ASSUME ReadInv, ReadTargets PROVE ReadInv'
  OBVIOUS
<1> DEFINE z == read.zone
<1>0. /\ read.pc = "targets" /\ z \in Zones /\ z \notin read.todo /\ read \in Reading
      /\ read.hosts \in [Types -> Nat] /\ read.clients \in [Types -> Nat]
      /\ read.desired \in [Keys -> Pool]
      /\ UNCHANGED <<thunderVars, historyVars>>
  BY DEF ReadInv, ReadTargets, Reading
<1>1. PICK targets \in {policy[z], Untargeted} :
         read' = [NoRead EXCEPT !.pc = "zone", !.todo = read.todo,
                    !.desired = AddZone(read.desired, z, read.hosts, read.clients, targets)]
  BY DEF ReadTargets
<1> DEFINE added == AddZone(read.desired, z, read.hosts, read.clients, targets)
           worth(t) == Gain(read.hosts, read.clients, targets, t)
<1>2. policies \in History /\ policy[z] \in policies[z] /\ policy[z] \in Policies
  BY <1>0, HistoryType DEF ReadInv
<1>3. ASSUME NEW t \in Types PROVE For(targets, t) \in Seen(policies[z], t)
  <2>1. CASE targets = policy[z]
    BY <1>2, <2>1, TargetInForce DEF Seen
  <2>2. CASE targets = Untargeted
    BY <2>2, NoTarget DEF Seen
  <2> QED
    BY <2>1, <2>2
<1>4. ASSUME NEW t \in Types
      PROVE  /\ For(targets, t) \in Nat /\ worth(t) \in Nat
             /\ Worth(stood, z, t, Min(Seen(policies[z], t))) <= worth(t)
             /\ worth(t) <= Worth(ever, z, t, Max(Seen(policies[z], t)))
  <2>1. /\ HostsIn(stood, z)[t] <= read.hosts[t] /\ read.hosts[t] <= HostsIn(ever, z)[t]
        /\ ClientsIn(stood, z)[t] <= read.clients[t]
        /\ read.clients[t] <= ClientsIn(ever, z)[t]
        /\ read.hosts[t] \in Nat /\ read.clients[t] \in Nat
    BY <1>0 DEF ReadInv
  <2> HIDE DEF z
  <2> QED
    BY <2>1, <1>0, <1>2, <1>3, ZoneWorth DEF Gain
<1>5. ASSUME NEW k \in Keys
      PROVE  /\ added[k] \in Pool
             /\ k[1] # zoneName(z) => added[k].cap = read.desired[k].cap
             /\ k[1] = zoneName(z) => added[k].cap = read.desired[k].cap + worth(k[2])
  <2> DEFINE t == k[2]
             q == added[k]
             d == read.desired[k]
  <2>1. t \in Types
    BY DEF Keys
  <2>2. q = IF k[1] = zoneName(z) /\ worth(t) > 0
            THEN [host |-> d.host + read.hosts[t], client |-> d.client + read.clients[t],
                  over |-> For(targets, t), cap |-> d.cap + worth(t)]
            ELSE d
    BY DEF AddZone, Gain
  <2>3. For(targets, t) \in Nat /\ worth(t) \in Nat
    BY <1>4, <2>1
  <2>4. d \in Pool /\ read.hosts[t] \in Nat /\ read.clients[t] \in Nat
    BY <1>0, <2>1
  <2> HIDE DEF t, q, d, worth
  <2>5. CASE k[1] = zoneName(z) /\ worth(t) > 0
    BY <2>2, <2>3, <2>4, <2>5 DEF Pool, q, d, t
  <2>6. CASE ~(k[1] = zoneName(z) /\ worth(t) > 0)
    <3>1. q = d
      BY <2>2, <2>6
    <3>2. d.cap \in Nat /\ (k[1] = zoneName(z) => worth(t) = 0)
      BY <2>3, <2>4, <2>6 DEF Pool
    <3>3. q \in Pool /\ q.cap = d.cap /\ (k[1] = zoneName(z) => q.cap = d.cap + worth(t))
      BY <2>4, <3>1, <3>2
    <3> QED
      BY <3>3 DEF q, d, t
  <2> QED
    BY <2>5, <2>6
<1>6. added \in [Keys -> Pool]
  <2>1. DOMAIN added = Keys /\ added = [k \in Keys |-> added[k]]
    BY DEF AddZone
  <2> HIDE DEF added
  <2> QED
    BY <2>1, <1>5
<1> HIDE DEF added, worth
<1>7. /\ read' \in Reading /\ read'.pc = "zone" /\ read'.zone = Blank
      /\ read'.todo = read.todo /\ read'.desired = added
  <2>1. read' = [NoRead EXCEPT !.pc = "zone", !.todo = read.todo, !.desired = added]
    BY <1>1 DEF added
  <2>2. read.todo \in SUBSET Zones
    BY <1>0 DEF Reading
  <2> QED
    BY <2>1, <2>2, <1>6, NoReadType DEF NoRead, Reading
<1>8. /\ Up' = Up /\ stood' = stood /\ ever' = ever /\ policies' = policies
      /\ status' = status /\ client' = client /\ policy' = policy
  BY <1>0 DEF Up, thunderVars, historyVars
<1>9. ASSUME NEW k \in Keys
      PROVE  /\ Least(k[2], ReadSoFar(k[1]))' <= read'.desired[k].cap
             /\ read'.desired[k].cap <= Most(k[2], ReadSoFar(k[1]))'
  <2> DEFINE n == k[1]
             t == k[2]
             S == ReadSoFar(n)
  <2>1. t \in Types /\ n \in Names
    BY DEF Keys
  <2>2. Blank \notin ZonesOf(n) /\ ZonesOf(n) \subseteq Zones
    BY DesiredPoolsAssumption DEF ZonesOf
  <2>3. S = ZonesOf(n) \ (read.todo \cup {z}) /\ S \in SUBSET Zones /\ z \notin S
    BY <2>2 DEF ReadSoFar
  <2>4. ReadSoFar(n)' = ZonesOf(n) \ read.todo
    BY <1>7, <2>2 DEF ReadSoFar, ZonesOf
  <2>5. /\ LeastOf(stood, policies, t, S) <= read.desired[k].cap
        /\ read.desired[k].cap <= MostOf(ever, policies, t, S)
    BY <1>0, Bounds DEF ReadInv
  <2>6. /\ Least(t, ReadSoFar(n))' = LeastOf(stood, policies, t, ReadSoFar(n)')
        /\ Most(t, ReadSoFar(n))' = MostOf(ever, policies, t, ReadSoFar(n)')
    BY <1>8 DEF Least, Most, LeastOf, MostOf, TargetsSeen, Seen
  <2>7. read.desired[k].cap \in Nat
    BY <1>0 DEF Pool
  <2> HIDE DEF z, S
  <2>8. /\ LeastOf(stood, policies, t, S) \in Nat /\ MostOf(ever, policies, t, S) \in Nat
    <3>1. \A y \in Zones : policies[y] \subseteq policies[y]
      OBVIOUS
    <3>2. stood \in SUBSET stood /\ ever \in SUBSET ever
      OBVIOUS
    <3> QED
      BY <3>1, <3>2, <1>2, <2>1, <2>3, BoundsSlacken
  <2>9. CASE n = zoneName(z)
    <3>1. ReadSoFar(n)' = S \cup {z}
      BY <1>0, <2>3, <2>4, <2>9 DEF ZonesOf
    <3> HIDE DEF n, t
    <3>a. policies \in History /\ t \in Types /\ S \in SUBSET Zones /\ z \in Zones /\ z \notin S
      BY <1>0, <1>2, <2>1, <2>3
    <3>b. LeastOf(stood, policies, t, S \cup {z}) =
             LeastOf(stood, policies, t, S) + Worth(stood, z, t, Min(Seen(policies[z], t)))
      BY <3>a, BoundsAdd
    <3>2. MostOf(ever, policies, t, S \cup {z}) =
             MostOf(ever, policies, t, S) + Worth(ever, z, t, Max(Seen(policies[z], t)))
      BY <3>a, BoundsAdd
    <3>3. /\ Worth(stood, z, t, Min(Seen(policies[z], t))) \in Nat
          /\ Worth(ever, z, t, Max(Seen(policies[z], t))) \in Nat
      BY <1>0, <1>2, <2>1, WorthType
    <3>4. read'.desired[k].cap = read.desired[k].cap + worth(t)
      BY <1>5, <1>7, <2>9 DEF n, t
    <3>5. /\ worth(t) \in Nat
          /\ Worth(stood, z, t, Min(Seen(policies[z], t))) <= worth(t)
          /\ worth(t) <= Worth(ever, z, t, Max(Seen(policies[z], t)))
      BY <1>4, <2>1
    <3>6. /\ LeastOf(stood, policies, t, S \cup {z}) <= read'.desired[k].cap
          /\ read'.desired[k].cap <= MostOf(ever, policies, t, S \cup {z})
      BY <2>5, <2>7, <2>8, <3>b, <3>2, <3>3, <3>4, <3>5
    <3> QED
      BY <2>6, <3>1, <3>6 DEF n, t
  <2>10. CASE n # zoneName(z)
    <3>1. ReadSoFar(n)' = S
      BY <2>3, <2>4, <2>10 DEF ZonesOf
    <3>2. read'.desired[k].cap = read.desired[k].cap
      BY <1>5, <1>7, <2>10
    <3> QED
      BY <2>5, <2>6, <3>1, <3>2
  <2> QED
    BY <2>9, <2>10
<1> QED
  BY <1>0, <1>7, <1>8, <1>9 DEF ReadInv

LEMMA ThunderChanges == ReadInv /\ Change => ReadInv'
<1> SUFFICES ASSUME ReadInv, Change PROVE ReadInv'
  OBVIOUS
<1>0. /\ read.pc # "idle" /\ read' = read /\ read \in Reading
      /\ stood' = stood \cap Up' /\ ever' = ever \cup Up'
      /\ policies' = [z \in Zones |-> policies[z] \cup {policy'[z]}]
      /\ ever \subseteq Servers \cup Clients
  BY DEF ReadInv, Change
<1>1. /\ status' \in [Servers -> Statuses]
      /\ client' \in [Clients -> {"absent", "live", "decommissioned"}]
      /\ policy' \in [Zones -> Policies]
  BY DEF ReadInv, Change
<1>2. Up' \subseteq Servers \cup Clients
  BY DEF Up
<1>3. policies \in History
  BY HistoryType
<1>4. /\ policies' \in History
      /\ \A z \in Zones : policies[z] \subseteq policies'[z] /\ policy'[z] \in policies'[z]
  <2>1. ASSUME NEW z \in Zones
        PROVE  /\ policies[z] \cup {policy'[z]} \in SUBSET Policies
               /\ IsFiniteSet(policies[z] \cup {policy'[z]})
    <3>1. policies[z] \in SUBSET Policies /\ IsFiniteSet(policies[z])
      BY <1>3 DEF History
    <3>2. IsFiniteSet(policies[z] \cup {policy'[z]})
      BY <3>1, FS_AddElement
    <3> QED
      BY <3>1, <3>2, <1>1
  <2> QED
    BY <1>0, <2>1 DEF History
<1>5. stood' \in SUBSET stood /\ ever \in SUBSET ever'
  BY <1>0
<1>6. ASSUME NEW k \in Keys
      PROVE  /\ Least(k[2], ReadSoFar(k[1]))' <= read'.desired[k].cap
             /\ read'.desired[k].cap <= Most(k[2], ReadSoFar(k[1]))'
  <2> DEFINE t == k[2]
             S == ReadSoFar(k[1])
  <2>1. t \in Types
    BY DEF Keys
  <2>2. S \in SUBSET Zones
    BY DEF ReadSoFar, ZonesOf
  <2>3. ReadSoFar(k[1])' = S
    BY <1>0 DEF ReadSoFar, ZonesOf
  <2>4. /\ LeastOf(stood, policies, t, S) <= read.desired[k].cap
        /\ read.desired[k].cap <= MostOf(ever, policies, t, S)
    BY <1>0, Bounds DEF ReadInv
  <2>5. /\ Least(t, ReadSoFar(k[1]))' = LeastOf(stood', policies', t, ReadSoFar(k[1])')
        /\ Most(t, ReadSoFar(k[1]))' = MostOf(ever', policies', t, ReadSoFar(k[1])')
    BY DEF Least, Most, LeastOf, MostOf, TargetsSeen, Seen
  <2>6. read.desired[k].cap \in Nat
    BY <1>0 DEF Reading, Pool
  <2> HIDE DEF S, t
  <2>7. /\ LeastOf(stood', policies', t, S) \in Nat /\ LeastOf(stood, policies, t, S) \in Nat
        /\ LeastOf(stood', policies', t, S) <= LeastOf(stood, policies, t, S)
    BY <1>3, <1>4, <1>5, <2>1, <2>2, BoundsSlacken
  <2>8. /\ MostOf(ever, policies, t, S) \in Nat /\ MostOf(ever', policies', t, S) \in Nat
        /\ MostOf(ever, policies, t, S) <= MostOf(ever', policies', t, S)
    BY <1>3, <1>4, <1>5, <2>1, <2>2, BoundsSlacken
  <2>9. /\ LeastOf(stood', policies', t, S) <= read.desired[k].cap
        /\ read.desired[k].cap <= MostOf(ever', policies', t, S)
    BY <2>4, <2>6, <2>7, <2>8
  <2> QED
    BY <1>0, <2>3, <2>5, <2>9 DEF t
<1>7. read.pc \in {"clients", "targets"} =>
         \A t \in Types : /\ HostsIn(stood', read.zone)[t] <= read.hosts[t]
                          /\ read.hosts[t] <= HostsIn(ever', read.zone)[t]
  <2> SUFFICES ASSUME read.pc \in {"clients", "targets"}, NEW t \in Types
               PROVE  /\ HostsIn(stood', read.zone)[t] <= read.hosts[t]
                      /\ read.hosts[t] <= HostsIn(ever', read.zone)[t]
    OBVIOUS
  <2>1. /\ read.zone \in Zones /\ read.hosts[t] \in Nat
        /\ HostsIn(stood, read.zone)[t] <= read.hosts[t]
        /\ read.hosts[t] <= HostsIn(ever, read.zone)[t]
    BY <1>0 DEF ReadInv, Reading
  <2>2. /\ HostsIn(stood', read.zone)[t] \in Nat /\ HostsIn(stood, read.zone)[t] \in Nat
        /\ HostsIn(stood', read.zone)[t] <= HostsIn(stood, read.zone)[t]
    BY <1>5, <2>1, UpGrows
  <2>3. /\ HostsIn(ever', read.zone)[t] \in Nat /\ HostsIn(ever, read.zone)[t] \in Nat
        /\ HostsIn(ever, read.zone)[t] <= HostsIn(ever', read.zone)[t]
    BY <1>5, <2>1, UpGrows
  <2> QED
    BY <2>1, <2>2, <2>3
<1>8. read.pc = "targets" =>
         \A t \in Types : /\ ClientsIn(stood', read.zone)[t] <= read.clients[t]
                          /\ read.clients[t] <= ClientsIn(ever', read.zone)[t]
  <2> SUFFICES ASSUME read.pc = "targets", NEW t \in Types
               PROVE  /\ ClientsIn(stood', read.zone)[t] <= read.clients[t]
                      /\ read.clients[t] <= ClientsIn(ever', read.zone)[t]
    OBVIOUS
  <2>1. /\ read.zone \in Zones /\ read.clients[t] \in Nat
        /\ ClientsIn(stood, read.zone)[t] <= read.clients[t]
        /\ read.clients[t] <= ClientsIn(ever, read.zone)[t]
    BY <1>0 DEF ReadInv, Reading
  <2>2. /\ ClientsIn(stood', read.zone)[t] \in Nat /\ ClientsIn(stood, read.zone)[t] \in Nat
        /\ ClientsIn(stood', read.zone)[t] <= ClientsIn(stood, read.zone)[t]
    BY <1>5, <2>1, UpGrows
  <2>3. /\ ClientsIn(ever', read.zone)[t] \in Nat /\ ClientsIn(ever, read.zone)[t] \in Nat
        /\ ClientsIn(ever, read.zone)[t] <= ClientsIn(ever', read.zone)[t]
    BY <1>5, <2>1, UpGrows
  <2> QED
    BY <2>1, <2>2, <2>3
<1>9. /\ HostsIn(stood, read.zone)' = HostsIn(stood', read.zone)
      /\ HostsIn(ever, read.zone)' = HostsIn(ever', read.zone)
      /\ ClientsIn(stood, read.zone)' = ClientsIn(stood', read.zone)
      /\ ClientsIn(ever, read.zone)' = ClientsIn(ever', read.zone)
  BY <1>0 DEF HostsIn, ClientsIn
<1> QED
  BY <1>0, <1>1, <1>2, <1>4, <1>6, <1>7, <1>8, <1>9 DEF ReadInv, History

-------------------------------------------------------------------------------
(* The theorems *)

\* What each call of buildDesiredPools returned lies between what has stood since the
\* read began and what was ever there, in the zone at hand and, added up, in those
\* before it: for all zones, spellings, servers, clients, targets and interleavings.
THEOREM ReadsAreBracketed == DesiredPoolsSpec => []ReadInv
<1>1. DesiredPoolsInit => ReadInv
  <2> SUFFICES ASSUME DesiredPoolsInit PROVE ReadInv
    OBVIOUS
  <2>1. read \in Reading /\ read.pc = "idle"
    BY NoReadType DEF DesiredPoolsInit, NoRead
  <2>2. \A z \in Zones : policies[z] = {} /\ IsFiniteSet(policies[z])
    BY FS_EmptySet DEF DesiredPoolsInit
  <2>3. policies \in [Zones -> SUBSET Policies]
    BY DEF DesiredPoolsInit
  <2> QED
    BY <2>1, <2>2, <2>3 DEF DesiredPoolsInit, ReadInv
<1>2. ReadInv /\ [ReadStep \/ Change]_desiredVars => ReadInv'
  <2> SUFFICES ASSUME ReadInv, [ReadStep \/ Change]_desiredVars PROVE ReadInv'
    OBVIOUS
  <2>1. CASE Return
    <3>1. policies' \in History /\ UNCHANGED thunderVars
      BY <2>1, HistoryType DEF Return, historyVars
    <3> QED
      BY <2>1, <3>1, ReadEnds DEF Return
  <2>2. CASE UNCHANGED desiredVars
    BY <2>2 DEF desiredVars, historyVars, ReadInv, Up, Least, Most, TargetsSeen, ReadSoFar,
                HostsIn, ClientsIn
  <2> QED
    BY <2>1, <2>2, ZonesListed, ServersListed, ClientsListed, TargetsRead, ThunderChanges
    DEF ReadStep
<1> QED
  BY <1>1, <1>2, PTL DEF DesiredPoolsSpec

\* When all zones are read, what is read is every zone of every name.
LEMMA AllRead ==
    ASSUME ReadInv, Returned, NEW k \in Keys
    PROVE  /\ read.pc # "idle" /\ ReadSoFar(k[1]) = ZonesOf(k[1])
<1>1. read.pc = "zone" /\ read.todo = {} /\ read.zone = Blank
  BY DEF Returned, ReadInv
<1> QED
  BY <1>1, DesiredPoolsAssumption DEF ReadSoFar, ZonesOf

\* Hosts and committed clients that are there all through the calls of
\* buildDesiredPools are published in full, for every inventory.
THEOREM StandingPublished == DesiredPoolsSpec => []StandingIsPublished
<1>1. ReadInv => StandingIsPublished
  <2> SUFFICES ASSUME ReadInv, Returned, NEW k \in Keys
               PROVE  read.desired[k].cap >= Least(k[2], ZonesOf(k[1]))
    BY DEF StandingIsPublished
  <2>1. Least(k[2], ReadSoFar(k[1])) <= read.desired[k].cap
    BY AllRead DEF ReadInv
  <2>2. Least(k[2], ZonesOf(k[1])) <= read.desired[k].cap
    BY <2>1, AllRead
  <2> QED
    BY <2>2
<1> QED
  BY <1>1, ReadsAreBracketed, PTL

\* No pool is larger than what was there at some time of the calls, at the best
\* target of that time, for every inventory.
THEOREM NoneInvented == DesiredPoolsSpec => []NothingInvented
<1>1. ReadInv => NothingInvented
  <2> SUFFICES ASSUME ReadInv, Returned, NEW k \in Keys
               PROVE  read.desired[k].cap <= Most(k[2], ZonesOf(k[1]))
    BY DEF NothingInvented
  <2>1. read.desired[k].cap <= Most(k[2], ReadSoFar(k[1]))
    BY AllRead DEF ReadInv
  <2> QED
    BY <2>1, AllRead
<1> QED
  BY <1>1, ReadsAreBracketed, PTL
================================================================================
