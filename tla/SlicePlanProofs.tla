--------------------------- MODULE SlicePlanProofs ---------------------------
(***************************************************************************)
(* planSlices is right for every list of endpoints and every set of slices *)
(* it may find: what it writes presents the list.                          *)
(***************************************************************************)
EXTENDS SlicePlan, FiniteSetTheorems, TLAPS

-----------------------------------------------------------------------------
(* Numbers and ranks *)

(* A set of numbers that is not empty has a least one. *)
LEMMA LeastNumber ==
    ASSUME NEW T \in SUBSET Nat, T # {}
    PROVE  \E n \in T : \A m \in T : n <= m
  <1> DEFINE R == OpToRel(<, Nat)
  <1>w. IsWellFoundedOn(R, Nat)
    BY NatLessThanWellFounded, Zenon
  <1>2. \A m, n \in Nat : <<m, n>> \in R <=> m < n
    BY Zenon DEF OpToRel
  <1> HIDE DEF R
  <1>1. \E n \in T : \A m \in T : ~(<<m, n>> \in R)
    BY <1>w, WFMin, Zenon
  <1>3. PICK n \in T : \A m \in T : ~(<<m, n>> \in R)
    BY <1>1, Zenon
  <1>4. ASSUME NEW m \in T PROVE n <= m
    <2>1. m \in Nat /\ n \in Nat
      BY Zenon
    <2>2. ~(m < n)
      BY <1>2, <1>3, <2>1, Zenon
    <2> QED  BY <2>1, <2>2
  <1> QED  BY <1>4, Zenon

(* How many elements of S are below a: they are fewer than the ones below  *)
(* any larger element of S, and than all of S.                             *)
Rank(S, a) == Cardinality({b \in S : b < a})

(* Ranks number the elements of a finite set from 0, in their order. *)
LEMMA RankGrows ==
    ASSUME NEW S \in SUBSET Nat, IsFiniteSet(S), NEW a \in S
    PROVE  /\ Rank(S, a) \in Nat
           /\ Rank(S, a) < Cardinality(S)
           /\ \A b \in S : a < b => Rank(S, a) < Rank(S, b)
  <1> DEFINE below(x) == {b \in S : b < x}
  <1>1. \A x : IsFiniteSet(below(x)) /\ Cardinality(below(x)) \in Nat
    BY FS_Subset, FS_CardinalityType, Zenon
  <1>2. Cardinality(S) \in Nat
    BY FS_CardinalityType, Zenon
  <1>3. Cardinality(below(a)) < Cardinality(S)
    <2>1. below(a) \in SUBSET S /\ below(a) # S
      OBVIOUS
    <2> HIDE DEF below
    <2> QED  BY <1>1, <1>2, <2>1, FS_Subset
  <1>4. ASSUME NEW b \in S, a < b PROVE Cardinality(below(a)) < Cardinality(below(b))
    <2>0. \A x \in S : x \in Nat
      BY Zenon
    <2>1. below(a) \in SUBSET below(b)
      <3> SUFFICES ASSUME NEW x \in below(a) PROVE x \in below(b)
        BY Zenon
      <3>1. x \in Nat /\ a \in Nat /\ b \in Nat
        BY <2>0, Zenon
      <3> QED  BY <1>4, <3>1
    <2>2. below(a) # below(b)
      <3>1. a \in below(b) /\ a \notin below(a)
        BY <1>4
      <3> QED  BY <3>1, Zenon
    <2> HIDE DEF below
    <2> QED  BY <1>1, <2>1, <2>2, FS_Subset
  <1> QED  BY <1>1, <1>3, <1>4, Zenon DEF Rank

(* FirstN takes at most n, and all if there are no more than n. *)
LEMMA FirstNBound ==
    ASSUME NEW S \in SUBSET Nat, IsFiniteSet(S), NEW n \in Nat
    PROVE  /\ FirstN(S, n) \subseteq S
           /\ IsFiniteSet(FirstN(S, n))
           /\ Cardinality(FirstN(S, n)) \in Nat
           /\ Cardinality(FirstN(S, n)) <= n
           /\ Cardinality(S) <= n => FirstN(S, n) = S
  <1> DEFINE F == FirstN(S, n)
             f == [a \in F |-> Rank(S, a)]
  <1>1. F = {a \in S : Rank(S, a) < n}
    BY Zenon DEF FirstN, Rank
  <1>2. F \subseteq S
    BY <1>1, Zenon
  <1>3. IsFiniteSet(F) /\ Cardinality(F) \in Nat
    BY <1>2, FS_Subset, FS_CardinalityType, Zenon
  <1>4. f \in Injection(F, 0 .. n - 1)
    <2>1. \A a \in F : Rank(S, a) \in 0 .. n - 1
      <3> TAKE a \in F
      <3>1. a \in S /\ Rank(S, a) < n
        BY <1>1, Zenon
      <3>2. Rank(S, a) \in Nat
        BY <3>1, RankGrows, Zenon
      <3> QED  BY <3>1, <3>2
    <2>2. \A a, b \in F : Rank(S, a) = Rank(S, b) => a = b
      <3> SUFFICES ASSUME NEW a \in F, NEW b \in F, Rank(S, a) = Rank(S, b), a # b PROVE FALSE
        BY Zenon
      <3>0. a \in S /\ b \in S
        BY <1>2, Zenon
      <3>1. a \in Nat /\ b \in Nat
        BY <3>0, Zenon
      <3>2. a < b \/ b < a
        BY <3>1
      <3>3. Rank(S, a) \in Nat /\ Rank(S, b) \in Nat
        BY <3>0, RankGrows, Zenon
      <3> QED  BY <3>0, <3>2, <3>3, RankGrows
    <2> HIDE DEF F
    <2> QED  BY <2>1, <2>2, Zenon DEF Injection, IsInjective
  <1>5. IsFiniteSet(0 .. n - 1) /\ Cardinality(0 .. n - 1) = n
    BY FS_Interval
  <1>6. Cardinality(F) <= n
    BY <1>4, <1>5, FS_Injection
  <1>7. ASSUME Cardinality(S) <= n PROVE F = S
    <2>1. Cardinality(S) \in Nat
      BY FS_CardinalityType, Zenon
    <2>2. \A a \in S : Rank(S, a) \in Nat /\ Rank(S, a) < Cardinality(S)
      BY RankGrows, Zenon
    <2>3. \A a \in S : Rank(S, a) < n
      BY <1>7, <2>1, <2>2
    <2> QED  BY <1>1, <2>3, Zenon
  <1> QED  BY <1>2, <1>3, <1>6, <1>7, Zenon

(* Chunks of ranks are no larger than m. *)
LEMMA ChunkBound ==
    ASSUME NEW S \in SUBSET Nat, IsFiniteSet(S), NEW m \in Nat \ {0}, NEW k \in Nat
    PROVE  Cardinality({a \in S : Rank(S, a) \div m = k}) <= m
  <1> DEFINE C == {a \in S : Rank(S, a) \div m = k}
             f == [a \in C |-> Rank(S, a) % m]
  <1>1. \A a \in C : Rank(S, a) \in Nat /\ Rank(S, a) = m * k + (Rank(S, a) % m) /\ Rank(S, a) % m \in 0 .. m - 1
    <2> TAKE a \in C
    <2>1. Rank(S, a) \in Nat /\ Rank(S, a) \div m = k
      BY RankGrows, Zenon
    <2> QED  BY <2>1
  <1>2. f \in Injection(C, 0 .. m - 1)
    <2>1. \A a \in C : f[a] \in 0 .. m - 1
      BY <1>1, Zenon
    <2>2. \A a, b \in C : f[a] = f[b] => a = b
      <3> SUFFICES ASSUME NEW a \in C, NEW b \in C, f[a] = f[b], a # b PROVE FALSE
        BY Zenon
      <3>1. Rank(S, a) = Rank(S, b)
        BY <1>1, Zenon
      <3>2. a \in S /\ b \in S /\ (a < b \/ b < a)
        OBVIOUS
      <3> QED  BY <3>1, <3>2, RankGrows
    <2> HIDE DEF C
    <2> QED  BY <2>1, <2>2, Zenon DEF Injection, IsInjective
  <1>3. IsFiniteSet(0 .. m - 1) /\ Cardinality(0 .. m - 1) = m
    BY FS_Interval
  <1> QED  BY <1>2, <1>3, FS_Injection

-----------------------------------------------------------------------------
(* Names *)

(* Pairs of numbers are totally ordered by Before. *)
LEMMA BeforeOrders ==
    \A m, n, o \in Nat \X Nat : /\ ~Before(n, n)
                                /\ Before(m, n) /\ Before(n, o) => Before(m, o)
                                /\ m = n \/ Before(m, n) \/ Before(n, m)
  <1> SUFFICES ASSUME NEW m \in Nat \X Nat, NEW n \in Nat \X Nat, NEW o \in Nat \X Nat
               PROVE  /\ ~Before(n, n)
                      /\ Before(m, n) /\ Before(n, o) => Before(m, o)
                      /\ m = n \/ Before(m, n) \/ Before(n, m)
    BY Zenon
  <1> QED  BY DEF Before

(* A finite set of names that is not empty has a first one. *)
LEMMA FirstExists ==
    ASSUME NEW T \in SUBSET (Nat \X Nat), IsFiniteSet(T), T # {}
    PROVE  \E n \in T : \A m \in T : m = n \/ Before(n, m)
  <1> DEFINE below(n) == {m \in T : Before(m, n)}
             count(n) == Cardinality(below(n))
             C == {count(n) : n \in T}
  <1>1. \A n : IsFiniteSet(below(n)) /\ count(n) \in Nat
    BY FS_Subset, FS_CardinalityType, Zenon
  <1>2. C \in SUBSET Nat /\ C # {}
    BY <1>1, Zenon
  <1>3. PICK c \in C : \A d \in C : c <= d
    BY <1>2, LeastNumber, Zenon
  <1>4. PICK n \in T : c = count(n)
    BY Zenon
  <1>5. ASSUME NEW m \in T, Before(m, n) PROVE FALSE
    <2>1. below(m) \in SUBSET below(n)
      <3> SUFFICES ASSUME NEW x \in below(m) PROVE x \in below(n)
        BY Zenon
      <3>1. x \in Nat \X Nat /\ m \in Nat \X Nat /\ n \in Nat \X Nat /\ Before(x, m)
        BY Zenon
      <3>2. Before(x, n)
        BY <1>5, <3>1, BeforeOrders, Zenon
      <3> QED  BY <3>2, Zenon
    <2>2. below(m) # below(n)
      <3>1. m \in below(n)
        BY <1>5, Zenon
      <3>2. m \notin below(m)
        BY BeforeOrders, Zenon
      <3> QED  BY <3>1, <3>2, Zenon
    <2>3. IsFiniteSet(below(m)) /\ IsFiniteSet(below(n)) /\ count(m) \in Nat /\ count(n) \in Nat
      BY <1>1, Zenon
    <2>4. count(m) < count(n)
      <3> HIDE DEF below
      <3> QED  BY <2>1, <2>2, <2>3, FS_Subset
    <2>5. c <= count(m)
      BY <1>3, Zenon
    <2> HIDE DEF count
    <2> QED  BY <1>4, <2>3, <2>4, <2>5
  <1> QED  BY <1>5, BeforeOrders, Zenon

-----------------------------------------------------------------------------
(* The passes *)

(* What slice n takes in a pass, when f says what the slices before it took.*)
Take(D, may, wanted, room, f, n) ==
    FirstN(may[n] \cap (wanted \ UNION {f[m] : m \in {k \in D : Before(k, n)}}), room[n])

(* A pass is well defined: it goes through the slices in name order. *)
LEMMA PassTakes ==
    ASSUME NEW D \in SUBSET (Nat \X Nat), IsFiniteSet(D), NEW may, NEW wanted, NEW room
    PROVE  LET t == Pass(D, may, wanted, room)
           IN  t = [n \in D |-> Take(D, may, wanted, room, t, n)]
  <1> DEFINE take(f, n) == Take(D, may, wanted, room, f, n)
             Closed(E) == \A n \in E : \A m \in D : Before(m, n) => m \in E
             Solved(E) == \E f : f = [n \in E |-> take(f, n)]
             Good == {E \in SUBSET D : Closed(E) /\ Solved(E)}
             C == {Cardinality(D \ E) : E \in Good}
  <1>1. \A E \in SUBSET D : IsFiniteSet(D \ E) /\ Cardinality(D \ E) \in Nat
    BY FS_Subset, FS_CardinalityType, Zenon
  <1>2. {} \in Good
    <2>1. \E f : f = [n \in {} |-> take(f, n)]
      <3>1. [n \in {} |-> 0] = [n \in {} |-> take([n1 \in {} |-> 0], n)]
        BY Zenon
      <3> QED  BY <3>1, Zenon
    <2> QED  BY <2>1, Zenon
  <1>3. C \in SUBSET Nat /\ C # {}
    BY <1>1, <1>2, Zenon
  <1>4. PICK c \in C : \A d \in C : c <= d
    BY <1>3, LeastNumber, Zenon
  <1>5. PICK E \in Good : c = Cardinality(D \ E)
    BY Zenon
  <1>6. E \in SUBSET D /\ Closed(E) /\ Solved(E)
    BY Zenon
  <1>7. ASSUME D \ E # {} PROVE FALSE
    <2>1. PICK n \in D \ E : \A m \in D \ E : m = n \/ Before(n, m)
      BY <1>1, <1>6, <1>7, FirstExists, Zenon
    <2>2. \A m \in D : Before(m, n) => m \in E
      <3> SUFFICES ASSUME NEW m \in D, Before(m, n), m \notin E PROVE FALSE
        BY Zenon
      <3>1. m = n \/ Before(n, m)
        BY <2>1, Zenon
      <3> QED  BY <3>1, BeforeOrders, Zenon
    <2> DEFINE E2 == E \cup {n}
    <2>3. Closed(E2)
      BY <1>6, <2>2, Zenon
    <2>4. PICK f : f = [m \in E |-> take(f, m)]
      BY <1>6, Zenon
    <2> DEFINE f2 == [m \in E2 |-> IF m = n THEN take(f, n) ELSE f[m]]
    <2>5. ASSUME NEW o \in E2 PROVE take(f2, o) = take(f, o)
      <3>1. \A m \in {k \in D : Before(k, o)} : m \in E
        BY <1>6, <2>2, Zenon
      <3>2. \A m \in {k \in D : Before(k, o)} : f2[m] = f[m]
        BY <2>1, <3>1, Zenon
      <3>3. {f2[m] : m \in {k \in D : Before(k, o)}} = {f[m] : m \in {k \in D : Before(k, o)}}
        <4> DEFINE K == {k \in D : Before(k, o)}
        <4> HIDE DEF K, f2
        <4>1. \A m \in K : f2[m] = f[m]
          BY <3>2, Zenon DEF K
        <4>2. {f2[m] : m \in K} = {f[m] : m \in K}
          BY <4>1
        <4> QED  BY <4>2, Zenon DEF K
      <3> HIDE DEF f2
      <3> QED  BY <3>3, Zenon DEF Take
    <2>6. \A m \in E2 : f2[m] = take(f, m)
      <3> HIDE DEF take
      <3> QED  BY <2>4, Zenon
    <2>7. f2 = [m \in E2 |-> take(f2, m)]
      <3>1. \A m \in E2 : f2[m] = take(f2, m)
        BY <2>5, <2>6, Zenon
      <3>2. f2 = [m \in E2 |-> f2[m]]
        BY Zenon
      <3> HIDE DEF f2, take, E2
      <3> QED  BY <3>1, <3>2, Zenon
    <2>8. E2 \in Good
      <3>1. Solved(E2)
        BY <2>7, Zenon
      <3>2. E2 \in SUBSET D
        BY <1>6, <2>1, Zenon
      <3> QED  BY <2>3, <3>1, <3>2, Zenon
    <2>9. Cardinality(D \ E2) \in C
      BY <2>8, Zenon
    <2>10. Cardinality(D \ E2) < Cardinality(D \ E)
      <3>1. D \ E2 = (D \ E) \ {n}
        BY Zenon
      <3>2. IsFiniteSet(D \ E) /\ Cardinality(D \ E) \in Nat
        BY <1>1, <1>6, Zenon
      <3>3. Cardinality((D \ E) \ {n}) = Cardinality(D \ E) - 1
        BY <2>1, <3>2, FS_RemoveElement, Zenon
      <3>4. Cardinality(D \ E2) = Cardinality((D \ E) \ {n})
        BY <3>1, Zenon
      <3>5. \A i, j, k : i \in Nat /\ j = i - 1 /\ k = j => k < i
        OBVIOUS
      <3> QED  BY <3>2, <3>3, <3>4, <3>5, Zenon
    <2>11. c <= Cardinality(D \ E2)
      BY <1>4, <2>9, Zenon
    <2>12. Cardinality(D \ E2) \in Nat /\ Cardinality(D \ E) \in Nat
      BY <1>1, <1>6, <2>8, Zenon
    <2> HIDE DEF C, E2
    <2> QED  BY <1>5, <2>10, <2>11, <2>12
  <1>8. E = D
    BY <1>6, <1>7, Zenon
  <1>9. \E f : f = [n \in D |-> take(f, n)]
    BY <1>6, <1>8, Zenon
  <1>10. Pass(D, may, wanted, room) = CHOOSE f : f = [n \in D |-> take(f, n)]
    BY Zenon DEF Pass, Take
  <1> HIDE DEF take
  <1> QED  BY <1>9, <1>10, Zenon DEF take

(* A pass gives each slice some of what it may take and is wanted, within  *)
(* its room, and no endpoint to two slices.                                *)
LEMMA PassShares ==
    ASSUME NEW D \in SUBSET (Nat \X Nat), IsFiniteSet(D), NEW may, NEW room,
           NEW wanted \in SUBSET Nat, IsFiniteSet(wanted), \A n \in D : room[n] \in Nat
    PROVE  LET t == Pass(D, may, wanted, room)
           IN  /\ DOMAIN t = D
               /\ \A n \in D : /\ t[n] \subseteq may[n] /\ t[n] \subseteq wanted
                               /\ IsFiniteSet(t[n]) /\ Cardinality(t[n]) \in Nat
                               /\ Cardinality(t[n]) <= room[n]
               /\ \A m, n \in D : m # n => t[m] \cap t[n] = {}
  <1> DEFINE t == Pass(D, may, wanted, room)
             prior(n) == UNION {t[m] : m \in {k \in D : Before(k, n)}}
             open(n) == may[n] \cap (wanted \ prior(n))
  <1>1. t = [n \in D |-> Take(D, may, wanted, room, t, n)]
    BY PassTakes
  <1> HIDE DEF t
  <1>2. \A n \in D : t[n] = FirstN(open(n), room[n])
    BY <1>1, Zenon DEF Take
  <1>3. ASSUME NEW n \in D
        PROVE  /\ t[n] \subseteq open(n)
               /\ IsFiniteSet(t[n]) /\ Cardinality(t[n]) \in Nat /\ Cardinality(t[n]) <= room[n]
    <2>1. open(n) \in SUBSET wanted
      BY Zenon
    <2> HIDE DEF open
    <2>2. IsFiniteSet(open(n)) /\ open(n) \in SUBSET Nat
      BY <2>1, FS_Subset, Zenon
    <2> QED  BY <1>2, <2>2, FirstNBound
  <1>4. ASSUME NEW m \in D, NEW n \in D, Before(m, n) PROVE t[m] \cap t[n] = {}
    <2>1. t[m] \subseteq prior(n)
      BY <1>4, Zenon
    <2>2. t[n] \cap prior(n) = {}
      <3> HIDE DEF prior
      <3> QED  BY <1>3, Zenon
    <2> HIDE DEF prior
    <2> QED  BY <2>1, <2>2, Zenon
  <1>5. \A m, n \in D : m # n => t[m] \cap t[n] = {}
    <2> TAKE m \in D, n \in D
    <2>1. m = n \/ Before(m, n) \/ Before(n, m)
      BY BeforeOrders, Zenon
    <2>2. t[m] \cap t[n] = t[n] \cap t[m]
      BY Zenon
    <2>3. Before(m, n) => t[m] \cap t[n] = {}
      BY <1>4, Zenon
    <2>4. Before(n, m) => t[n] \cap t[m] = {}
      BY <1>4, Zenon
    <2> QED  BY <2>1, <2>2, <2>3, <2>4, Zenon
  <1>6. \A n \in D : t[n] \subseteq may[n] /\ t[n] \subseteq wanted
    BY <1>3, Zenon
  <1>7. DOMAIN t = D
    BY <1>1, Zenon
  <1> QED  BY <1>3, <1>5, <1>6, <1>7, Zenon DEF t

(* Slices as planSlices may find them. *)
IsLayout(existing) == IsFiniteSet(DOMAIN existing) /\ DOMAIN existing \subseteq Name

(* A group owns finitely many names. *)
LEMMA OwnedFinite ==
    ASSUME NEW existing, IsLayout(existing), NEW g
    PROVE  Owned(existing, g) \in SUBSET (Nat \X Nat) /\ IsFiniteSet(Owned(existing, g))
  <1>1. Owned(existing, g) \in SUBSET DOMAIN existing
    BY Zenon DEF Owned
  <1>2. DOMAIN existing \subseteq Nat \X Nat
    BY DEF IsLayout, Name
  <1>3. IsFiniteSet(Owned(existing, g))
    BY <1>1, FS_Subset, Zenon DEF IsLayout
  <1> QED  BY <1>1, <1>2, <1>3, Zenon

(* Pass 1 keeps what is wanted, on one slice each and within the limit. *)
LEMMA RetainedShares ==
    ASSUME NEW existing, IsLayout(existing), NEW g, NEW wanted \in SUBSET Nat, IsFiniteSet(wanted)
    PROVE  LET kept == Retained(existing, g, wanted)
               D == Owned(existing, g)
           IN  /\ \A n \in D : /\ kept[n] \subseteq DOMAIN existing[n].eps /\ kept[n] \subseteq wanted
                               /\ IsFiniteSet(kept[n]) /\ Cardinality(kept[n]) \in Nat
                               /\ Cardinality(kept[n]) <= maxPer
               /\ \A m, n \in D : m # n => kept[m] \cap kept[n] = {}
  <1> DEFINE D == Owned(existing, g)
             may == [n \in D |-> DOMAIN existing[n].eps]
             room == [n \in D |-> maxPer]
  <1>1. D \in SUBSET (Nat \X Nat) /\ IsFiniteSet(D)
    BY OwnedFinite, Zenon
  <1>2. Retained(existing, g, wanted) = Pass(D, may, wanted, room)
    BY Zenon DEF Retained
  <1>3. \A n \in D : may[n] = DOMAIN existing[n].eps /\ room[n] = maxPer /\ room[n] \in Nat
    BY PlanAssumption, Zenon
  <1> HIDE DEF D, may, room
  <1>4. LET t == Pass(D, may, wanted, room)
        IN  /\ \A n \in D : /\ t[n] \subseteq may[n] /\ t[n] \subseteq wanted
                            /\ IsFiniteSet(t[n]) /\ Cardinality(t[n]) \in Nat
                            /\ Cardinality(t[n]) <= room[n]
            /\ \A m, n \in D : m # n => t[m] \cap t[n] = {}
    BY <1>1, <1>3, PassShares, Zenon
  <1> QED  BY <1>2, <1>3, <1>4, Zenon DEF D

(* So does pass 2 with what is left over. *)
LEMMA FilledShares ==
    ASSUME NEW existing, IsLayout(existing), NEW g, NEW wanted \in SUBSET Nat, IsFiniteSet(wanted)
    PROVE  LET full == Filled(existing, g, wanted)
               D == Owned(existing, g)
           IN  /\ DOMAIN full = D
               /\ \A n \in D : /\ Retained(existing, g, wanted)[n] \subseteq full[n]
                               /\ full[n] \subseteq wanted
                               /\ IsFiniteSet(full[n]) /\ Cardinality(full[n]) <= maxPer
               /\ \A m, n \in D : m # n => full[m] \cap full[n] = {}
  <1> DEFINE D == Owned(existing, g)
             kept == Retained(existing, g, wanted)
             left == wanted \ UNION {kept[n] : n \in D}
             may == [n \in D |-> left]
             room == [n \in D |-> maxPer - Cardinality(kept[n])]
             extra == Pass(D, may, left, room)
             full == Filled(existing, g, wanted)
  <1>1. D \in SUBSET (Nat \X Nat) /\ IsFiniteSet(D)
    BY OwnedFinite, Zenon
  <1>2. /\ \A n \in D : /\ kept[n] \subseteq wanted
                        /\ IsFiniteSet(kept[n]) /\ Cardinality(kept[n]) \in Nat
                        /\ Cardinality(kept[n]) <= maxPer
        /\ \A m, n \in D : m # n => kept[m] \cap kept[n] = {}
    BY RetainedShares, Zenon
  <1>3. full = [n \in D |-> kept[n] \cup extra[n]]
    BY Zenon DEF Filled
  <1> HIDE DEF kept, full
  <1>4. \A n \in D : room[n] = maxPer - Cardinality(kept[n]) /\ room[n] \in Nat
    BY <1>2, PlanAssumption
  <1>5. left \in SUBSET Nat /\ IsFiniteSet(left) /\ left \subseteq wanted
    <2>1. left \in SUBSET wanted
      BY Zenon
    <2> HIDE DEF left
    <2> QED  BY <2>1, FS_Subset, Zenon
  <1>6. \A n \in D : kept[n] \cap left = {}
    BY Zenon
  <1> HIDE DEF D, left, may, room
  <1>7. /\ \A n \in D : /\ extra[n] \subseteq left
                        /\ IsFiniteSet(extra[n]) /\ Cardinality(extra[n]) \in Nat
                        /\ Cardinality(extra[n]) <= room[n]
        /\ \A m, n \in D : m # n => extra[m] \cap extra[n] = {}
    BY <1>1, <1>4, <1>5, PassShares, Zenon
  <1> HIDE DEF extra
  <1>8. ASSUME NEW n \in D
        PROVE  full[n] \subseteq wanted /\ IsFiniteSet(full[n]) /\ Cardinality(full[n]) <= maxPer
    <2>1. full[n] = kept[n] \cup extra[n]
      BY <1>3, Zenon
    <2>2. kept[n] \cap extra[n] = {}
      BY <1>6, <1>7, Zenon
    <2>3. IsFiniteSet(full[n]) /\ Cardinality(full[n])
                                    = Cardinality(kept[n]) + Cardinality(extra[n]) - Cardinality({})
      BY <1>2, <1>7, <2>1, <2>2, FS_Union
    <2>4. Cardinality(full[n]) = Cardinality(kept[n]) + Cardinality(extra[n])
      BY <1>2, <1>7, <2>3, FS_EmptySet
    <2>5. Cardinality(full[n]) <= maxPer
      BY <1>2, <1>4, <1>7, <2>4, PlanAssumption
    <2>6. full[n] \subseteq wanted
      BY <1>2, <1>5, <1>7, <2>1, Zenon
    <2> QED  BY <2>3, <2>5, <2>6, Zenon
  <1>9. \A m, n \in D : m # n => full[m] \cap full[n] = {}
    <2> SUFFICES ASSUME NEW m \in D, NEW n \in D, m # n PROVE full[m] \cap full[n] = {}
      BY Zenon
    <2>1. full[m] = kept[m] \cup extra[m] /\ full[n] = kept[n] \cup extra[n]
      BY <1>3, Zenon
    <2>2. /\ kept[m] \cap kept[n] = {} /\ extra[m] \cap extra[n] = {}
          /\ kept[m] \cap extra[n] = {} /\ extra[m] \cap kept[n] = {}
      BY <1>2, <1>6, <1>7, Zenon
    <2> QED  BY <2>1, <2>2, Zenon
  <1>10. DOMAIN full = D /\ \A n \in D : kept[n] \subseteq full[n]
    BY <1>3, Zenon
  <1> QED  BY <1>8, <1>9, <1>10, Zenon DEF D, kept, full

(* Pass 3 places the rest: no chunk is empty or over the limit, and every  *)
(* wanted endpoint is in one slice or in one chunk.                        *)
LEMMA ChunkShares ==
    ASSUME NEW existing, IsLayout(existing), NEW g, NEW wanted \in SUBSET Nat, IsFiniteSet(wanted)
    PROVE  LET chunks == Chunks(existing, g, wanted)
               full == Filled(existing, g, wanted)
           IN  /\ DOMAIN chunks \subseteq Nat
               /\ \A k \in DOMAIN chunks : /\ chunks[k] # {} /\ chunks[k] \subseteq wanted
                                           /\ IsFiniteSet(chunks[k])
                                           /\ Cardinality(chunks[k]) <= maxPer
                                           /\ \A n \in Owned(existing, g) : chunks[k] \cap full[n] = {}
               /\ \A k, l \in DOMAIN chunks : k # l => chunks[k] \cap chunks[l] = {}
               /\ \A a \in wanted : \/ \E n \in Owned(existing, g) : a \in full[n]
                                    \/ \E k \in DOMAIN chunks : a \in chunks[k]
  <1> DEFINE full == Filled(existing, g, wanted)
             rest == wanted \ UNION {full[n] : n \in Owned(existing, g)}
             of(k) == {a \in rest : Rank(rest, a) \div maxPer = k}
             D == {Rank(rest, a) \div maxPer : a \in rest}
             chunks == Chunks(existing, g, wanted)
  <1>1. chunks = [k \in D |-> of(k)]
    BY Zenon DEF Chunks, Rank
  <1>2. /\ rest \subseteq wanted
        /\ \A n \in Owned(existing, g) : rest \cap full[n] = {}
        /\ \A a \in wanted : a \in rest \/ \E n \in Owned(existing, g) : a \in full[n]
    BY Zenon
  <1> HIDE DEF rest, chunks, full
  <1>3. rest \in SUBSET Nat /\ IsFiniteSet(rest)
    BY <1>2, FS_Subset, Zenon
  <1>4. \A a \in rest : Rank(rest, a) \in Nat /\ Rank(rest, a) \div maxPer \in Nat
    <2> TAKE a \in rest
    <2>1. Rank(rest, a) \in Nat
      BY <1>3, RankGrows, Zenon
    <2> QED  BY <2>1, PlanAssumption
  <1>5. D \subseteq Nat
    BY <1>4, Zenon
  <1>6. ASSUME NEW k \in D PROVE of(k) # {} /\ of(k) \subseteq rest /\ IsFiniteSet(of(k))
                                 /\ Cardinality(of(k)) <= maxPer
    <2>1. of(k) # {} /\ of(k) \in SUBSET rest
      BY Zenon
    <2>2. Cardinality(of(k)) <= maxPer
      BY <1>3, <1>5, ChunkBound, PlanAssumption, Zenon
    <2>3. IsFiniteSet(of(k))
      <3> HIDE DEF of
      <3> QED  BY <1>3, <2>1, FS_Subset, Zenon
    <2> QED  BY <2>1, <2>2, <2>3, Zenon
  <1>7. \A k, l \in D : k # l => of(k) \cap of(l) = {}
    BY Zenon
  <1>8. \A a \in rest : \E k \in D : a \in of(k)
    <2> TAKE a \in rest
    <2>1. Rank(rest, a) \div maxPer \in D /\ a \in of(Rank(rest, a) \div maxPer)
      BY Zenon
    <2> QED  BY <2>1, Zenon
  <1> HIDE DEF D, of
  <1>9. DOMAIN chunks = D /\ \A k \in D : chunks[k] = of(k)
    BY <1>1, Zenon
  <1>10. \A k \in D : \A n \in Owned(existing, g) : of(k) \cap full[n] = {}
    BY <1>2, <1>6, Zenon
  <1>11. \A a \in wanted : \/ \E n \in Owned(existing, g) : a \in full[n]
                           \/ \E k \in DOMAIN chunks : a \in chunks[k]
    BY <1>2, <1>8, <1>9
  <1>12. \A k \in DOMAIN chunks : /\ chunks[k] # {} /\ chunks[k] \subseteq wanted
                                  /\ IsFiniteSet(chunks[k])
                                  /\ Cardinality(chunks[k]) <= maxPer
                                  /\ \A n \in Owned(existing, g) : chunks[k] \cap full[n] = {}
    <2> TAKE k \in DOMAIN chunks
    <2>1. k \in D /\ chunks[k] = of(k)
      BY <1>9, Zenon
    <2> QED  BY <1>2, <1>6, <1>10, <2>1, Zenon
  <1>13. \A k, l \in DOMAIN chunks : k # l => chunks[k] \cap chunks[l] = {}
    BY <1>7, <1>9, Zenon
  <1> QED  BY <1>5, <1>9, <1>11, <1>12, <1>13, Zenon DEF chunks, full

-----------------------------------------------------------------------------
(* New names *)

Used(existing, family) == {n[2] : n \in {m \in DOMAIN existing : m[1] = family}}

(* Finitely many numbers of a family are taken. *)
LEMMA UsedFinite ==
    ASSUME NEW existing, IsLayout(existing), NEW family
    PROVE  Used(existing, family) \in SUBSET Nat /\ IsFiniteSet(Used(existing, family))
  <1> DEFINE N == {m \in DOMAIN existing : m[1] = family}
             f == [n \in N |-> n[2]]
  <1>1. N \in SUBSET DOMAIN existing
    BY Zenon
  <1>2. IsFiniteSet(N)
    BY <1>1, FS_Subset, Zenon DEF IsLayout
  <1>3. Used(existing, family) \in SUBSET Nat
    BY Zenon DEF Used, IsLayout, Name
  <1>4. f \in Surjection(N, Used(existing, family))
    <2>1. Used(existing, family) = {n[2] : n \in N}
      BY Zenon DEF Used
    <2> HIDE DEF N
    <2> QED  BY <2>1, Zenon DEF Surjection
  <1> HIDE DEF N, f
  <1> QED  BY <1>2, <1>3, <1>4, FS_Surjection, Zenon

(* How many of the numbers below n are free. *)
Free(existing, family, n) == Cardinality((0 .. n - 1) \ Used(existing, family))

(* Every number that is not taken counts, so there is always another one. *)
LEMMA FreeCounts ==
    ASSUME NEW existing, IsLayout(existing), NEW family, NEW n \in Nat
    PROVE  /\ Free(existing, family, n) \in Nat
           /\ Free(existing, family, 0) = 0
           /\ Free(existing, family, n + 1)
                = Free(existing, family, n) + (IF n \in Used(existing, family) THEN 0 ELSE 1)
           /\ n <= Free(existing, family, n) + Cardinality(Used(existing, family))
  <1> DEFINE used == Used(existing, family)
             F(m) == (0 .. m - 1) \ used
  <1>1. used \in SUBSET Nat /\ IsFiniteSet(used) /\ Cardinality(used) \in Nat
    BY UsedFinite, FS_CardinalityType, Zenon
  <1> HIDE DEF used
  <1>2. \A m \in Nat : IsFiniteSet(0 .. m - 1) /\ Cardinality(0 .. m - 1) = m
    BY FS_Interval
  <1>3. IsFiniteSet(F(n)) /\ Cardinality(F(n)) \in Nat
    BY <1>2, FS_Difference, FS_CardinalityType, Zenon
  <1>4. Cardinality(F(0)) = 0
    <2>1. F(0) = {}
      OBVIOUS
    <2> QED  BY <2>1, FS_EmptySet, Zenon
  <1>5. Cardinality(F(n + 1)) = Cardinality(F(n)) + (IF n \in used THEN 0 ELSE 1)
    <2>1. CASE n \in used
      <3>1. F(n + 1) = F(n)
        BY <2>1
      <3>2. Cardinality(F(n + 1)) = Cardinality(F(n))
        BY <3>1, Zenon
      <3> HIDE DEF F
      <3> QED  BY <1>3, <2>1, <3>2
    <2>2. CASE n \notin used
      <3>1. F(n + 1) = F(n) \cup {n}
        BY <2>2
      <3>2. n \notin F(n)
        OBVIOUS
      <3>3. Cardinality(F(n + 1)) = Cardinality(F(n) \cup {n})
        BY <3>1, Zenon
      <3> HIDE DEF F
      <3>4. Cardinality(F(n) \cup {n}) = Cardinality(F(n)) + 1
        BY <1>3, <3>2, FS_AddElement, Zenon
      <3> QED  BY <2>2, <3>3, <3>4, Zenon
    <2> QED  BY <2>1, <2>2, Zenon
  <1>6. n <= Cardinality(F(n)) + Cardinality(used)
    <2> DEFINE I == 0 .. n - 1
    <2>1. IsFiniteSet(I) /\ Cardinality(I) = n
      BY <1>2, Zenon
    <2> HIDE DEF I
    <2>2. Cardinality(I \ used) = Cardinality(I) - Cardinality(I \cap used)
      BY <2>1, FS_Difference, Zenon
    <2>3. Cardinality(I \cap used) <= Cardinality(used) /\ IsFiniteSet(I \cap used)
      BY <1>1, FS_Intersection, Zenon
    <2>4. Cardinality(I \cap used) \in Nat
      BY <2>3, FS_CardinalityType, Zenon
    <2>5. F(n) = I \ used
      BY Zenon DEF I
    <2>6. n <= Cardinality(I \ used) + Cardinality(used)
      BY <1>1, <2>1, <2>2, <2>3, <2>4
    <2> HIDE DEF F
    <2> QED  BY <2>5, <2>6, Zenon
  <1> QED  BY <1>3, <1>4, <1>5, <1>6, Zenon DEF Free, used

(* nextSliceName finds a number, one that no slice of the family uses. *)
LEMMA NumberIsFree ==
    ASSUME NEW existing, IsLayout(existing), NEW family, NEW k \in Nat
    PROVE  LET n == FreeNumber(existing, family, k)
           IN  n \in Nat /\ n \notin Used(existing, family) /\ Free(existing, family, n) = k
  <1> DEFINE used == Used(existing, family)
             free(n) == Free(existing, family, n)
             top == k + Cardinality(used) + 1
             T == {n \in Nat : free(n) > k}
  <1>1. IsFiniteSet(used) /\ Cardinality(used) \in Nat
    BY UsedFinite, FS_CardinalityType, Zenon
  <1>2. \A n \in Nat : /\ free(n) \in Nat /\ free(0) = 0
                       /\ free(n + 1) = free(n) + (IF n \in used THEN 0 ELSE 1)
                       /\ n <= free(n) + Cardinality(used)
    BY FreeCounts, Zenon
  <1> HIDE DEF free, used
  <1>3. top \in T
    BY <1>1, <1>2
  <1>4. PICK t \in T : \A m \in T : t <= m
    BY <1>3, LeastNumber, Zenon
  <1>5. t # 0 /\ t \in Nat /\ t <= top
    BY <1>2, <1>3, <1>4
  <1> DEFINE n == t - 1
  <1>6. n \in Nat /\ t = n + 1
    BY <1>5
  <1>7. free(n) <= k
    BY <1>2, <1>4, <1>6
  <1>8. free(t) > k
    BY <1>4, Zenon
  <1>9. n \notin used /\ free(n) = k
    BY <1>2, <1>6, <1>7, <1>8
  <1>10. n \in 0 .. k + Cardinality(used)
    BY <1>1, <1>5, <1>6
  <1>11. FreeNumber(existing, family, k)
           = CHOOSE m \in 0 .. k + Cardinality(used) : m \notin used /\ free(m) = k
    BY Zenon DEF FreeNumber, used, free, Used, Free
  <1> HIDE DEF n
  <1>12. LET m == FreeNumber(existing, family, k)
         IN  m \in 0 .. k + Cardinality(used) /\ m \notin used /\ free(m) = k
    BY <1>9, <1>10, <1>11, Zenon
  <1> QED  BY <1>12 DEF used, free

-----------------------------------------------------------------------------
(* The plan *)

(* GroupEndpoints partitions the reachable addresses. *)
LEMMA GroupsPartition ==
    ASSUME NEW r \in Resolved
    PROVE  LET groups == GroupEndpoints(r)
           IN  /\ Reachable(r) \in SUBSET Nat /\ IsFiniteSet(Reachable(r))
               /\ Reachable(r) \subseteq Addresses /\ Reachable(r) \subseteq DOMAIN r
               /\ \A a \in Reachable(r) : r[a].cond \in Conditions
               /\ \A g \in DOMAIN groups :
                     /\ g \in Group
                     /\ groups[g] \in SUBSET Nat /\ IsFiniteSet(groups[g])
                     /\ groups[g] \subseteq Reachable(r)
                     /\ \A a \in groups[g] : GroupKey(r, a) = g
               /\ \A a \in Reachable(r) : /\ GroupKey(r, a) \in DOMAIN groups
                                          /\ a \in groups[GroupKey(r, a)]
  <1> DEFINE R == Reachable(r)
             G == {GroupKey(r, a) : a \in R}
             of(g) == {a \in R : GroupKey(r, a) = g}
             groups == GroupEndpoints(r)
  <1>1. PICK S \in SUBSET Addresses : r \in [S -> [ports : PortTuples \cup {Unreachable}, cond : Conditions]]
    BY Zenon DEF Resolved
  <1>2. R \subseteq S
    BY <1>1, Zenon DEF Reachable
  <1>3. R \in SUBSET Nat /\ IsFiniteSet(R) /\ R \subseteq Addresses /\ R \subseteq DOMAIN r
    BY <1>1, <1>2, PlanAssumption, FS_Subset, Zenon
  <1>4. \A a \in R : GroupKey(r, a) \in Group /\ r[a].cond \in Conditions
    <2> TAKE a \in R
    <2>1. /\ a \in S /\ r[a] \in [ports : PortTuples \cup {Unreachable}, cond : Conditions]
          /\ r[a].ports # Unreachable /\ FamilyOf[a] \in {4, 6}
      BY <1>1, <1>2, PlanAssumption, Zenon DEF Reachable
    <2>2. r[a].ports \in PortTuples /\ r[a].cond \in Conditions
      BY <2>1, Zenon
    <2> QED  BY <2>1, <2>2, Zenon DEF GroupKey, Group
  <1>5. groups = [g \in G |-> of(g)]
    BY Zenon DEF GroupEndpoints
  <1> HIDE DEF R, groups
  <1>6. DOMAIN groups = G /\ \A g \in G : groups[g] = of(g)
    BY <1>5, Zenon
  <1>7. \A g \in G : g \in Group
    BY <1>4, Zenon
  <1>8. \A g : of(g) \in SUBSET R
    BY Zenon
  <1>9. \A g : IsFiniteSet(of(g)) /\ of(g) \in SUBSET Nat
    <2> HIDE DEF of
    <2> QED  BY <1>3, <1>8, FS_Subset, Zenon
  <1>10. \A a \in R : GroupKey(r, a) \in DOMAIN groups /\ a \in groups[GroupKey(r, a)]
    BY <1>6, Zenon
  <1>11. \A g \in DOMAIN groups : \A a \in groups[g] : GroupKey(r, a) = g
    BY <1>6, Zenon
  <1> HIDE DEF G, of
  <1>12. \A g \in DOMAIN groups : g \in Group /\ groups[g] \in SUBSET Nat /\ IsFiniteSet(groups[g])
                                  /\ groups[g] \subseteq R
    BY <1>6, <1>7, <1>8, <1>9, Zenon
  <1> QED  BY <1>3, <1>4, <1>10, <1>11, <1>12, Zenon DEF R, groups

(* What the existing slices are to hold: their own group's addresses, one  *)
(* slice each, within the limit, and all that pass 1 kept.                 *)
LEMMA HeldShares ==
    ASSUME NEW existing, IsLayout(existing), NEW r \in Resolved
    PROVE  LET groups == GroupEndpoints(r)
               held == Held(existing, groups)
           IN  /\ \A n : n \in DOMAIN held <=>
                           n \in DOMAIN existing /\ existing[n].group \in DOMAIN groups
               /\ \A n \in DOMAIN held :
                     /\ held[n] = Filled(existing, existing[n].group, groups[existing[n].group])[n]
                     /\ held[n] \subseteq groups[existing[n].group]
                     /\ Cardinality(held[n]) <= maxPer
                     /\ Retained(existing, existing[n].group, groups[existing[n].group])[n]
                          \subseteq held[n]
               /\ \A m, n \in DOMAIN held : m # n => held[m] \cap held[n] = {}
  <1> DEFINE groups == GroupEndpoints(r)
             held == Held(existing, groups)
             D == {n \in DOMAIN existing : existing[n].group \in DOMAIN groups}
             g(n) == existing[n].group
  <1>1. \A h \in DOMAIN groups : groups[h] \in SUBSET Nat /\ IsFiniteSet(groups[h])
                                 /\ \A a \in groups[h] : GroupKey(r, a) = h
    BY GroupsPartition, Zenon
  <1> HIDE DEF groups
  <1>2. held = [n \in D |-> Filled(existing, g(n), groups[g(n)])[n]]
    BY Zenon DEF Held
  <1> HIDE DEF held
  <1>3. DOMAIN held = D /\ \A n \in D : held[n] = Filled(existing, g(n), groups[g(n)])[n]
    BY <1>2, Zenon
  <1>4. \A h \in DOMAIN groups :
          LET full == Filled(existing, h, groups[h])
          IN  /\ \A n \in Owned(existing, h) : /\ Retained(existing, h, groups[h])[n] \subseteq full[n]
                                               /\ full[n] \subseteq groups[h]
                                               /\ Cardinality(full[n]) <= maxPer
              /\ \A m, n \in Owned(existing, h) : m # n => full[m] \cap full[n] = {}
    BY <1>1, FilledShares, Zenon
  <1>5. \A n \in D : n \in Owned(existing, g(n)) /\ g(n) \in DOMAIN groups
    BY Zenon DEF Owned
  <1>6. \A n \in D : /\ held[n] \subseteq groups[g(n)]
                     /\ Cardinality(held[n]) <= maxPer
                     /\ Retained(existing, g(n), groups[g(n)])[n] \subseteq held[n]
    BY <1>3, <1>4, <1>5, Zenon
  <1>7. ASSUME NEW m \in D, NEW n \in D, m # n PROVE held[m] \cap held[n] = {}
    <2>1. CASE g(m) = g(n)
      BY <1>3, <1>4, <1>5, <1>7, <2>1
    <2>2. CASE g(m) # g(n)
      BY <1>1, <1>5, <1>6, <2>2, SMTT(30)
    <2> QED  BY <2>1, <2>2, Zenon
  <1> QED  BY <1>3, <1>6, <1>7, Zenon DEF held, groups

(* What goes to new slices: what the existing ones of the group do not     *)
(* hold, one slice each, within the limit.                                 *)
LEMMA FreshShares ==
    ASSUME NEW existing, IsLayout(existing), NEW r \in Resolved
    PROVE  LET groups == GroupEndpoints(r)
               held == Held(existing, groups)
               fresh == Fresh(existing, groups)
           IN  /\ \A id \in DOMAIN fresh :
                     /\ id \in (DOMAIN groups) \X Nat
                     /\ fresh[id] # {} /\ fresh[id] \subseteq groups[id[1]]
                     /\ Cardinality(fresh[id]) <= maxPer
                     /\ \A n \in DOMAIN held : fresh[id] \cap held[n] = {}
               /\ \A i, j \in DOMAIN fresh : i # j => fresh[i] \cap fresh[j] = {}
               /\ \A g \in DOMAIN groups : \A a \in groups[g] :
                     \/ \E n \in DOMAIN held : existing[n].group = g /\ a \in held[n]
                     \/ \E id \in DOMAIN fresh : id[1] = g /\ a \in fresh[id]
  <1> DEFINE groups == GroupEndpoints(r)
             held == Held(existing, groups)
             fresh == Fresh(existing, groups)
             chunks(g) == Chunks(existing, g, groups[g])
             full(g) == Filled(existing, g, groups[g])
             ids == UNION {{g} \X DOMAIN chunks(g) : g \in DOMAIN groups}
  <1>1. \A g \in DOMAIN groups : groups[g] \in SUBSET Nat /\ IsFiniteSet(groups[g])
                                 /\ \A a \in groups[g] : GroupKey(r, a) = g
    BY GroupsPartition, Zenon
  <1>2. /\ \A n : n \in DOMAIN held <=> n \in DOMAIN existing /\ existing[n].group \in DOMAIN groups
        /\ \A n \in DOMAIN held : /\ held[n] = full(existing[n].group)[n]
                                  /\ held[n] \subseteq groups[existing[n].group]
    <2>1. \A n : n \in DOMAIN held <=> n \in DOMAIN existing /\ existing[n].group \in DOMAIN groups
      BY HeldShares, Zenon
    <2>2. \A n \in DOMAIN held : held[n] = full(existing[n].group)[n]
      BY HeldShares, Zenon
    <2>3. \A n \in DOMAIN held : held[n] \subseteq groups[existing[n].group]
      BY HeldShares, Zenon
    <2> QED  BY <2>1, <2>2, <2>3, Zenon
  <1> HIDE DEF groups
  <1>3. fresh = [id \in ids |-> chunks(id[1])[id[2]]]
    <2> DEFINE cs == [g \in DOMAIN groups |-> chunks(g)]
               csids == UNION {{g} \X DOMAIN cs[g] : g \in DOMAIN groups}
    <2>1. fresh = [id \in csids |-> cs[id[1]][id[2]]]
      BY Zenon DEF Fresh
    <2>2. \A g \in DOMAIN groups : cs[g] = chunks(g)
      BY Zenon
    <2> HIDE DEF cs, chunks, fresh
    <2>3. csids = ids
      BY <2>2, Zenon
    <2>4. \A id \in ids : id[1] \in DOMAIN groups
      OBVIOUS
    <2> HIDE DEF csids, ids
    <2> QED  BY <2>1, <2>2, <2>3, <2>4, Zenon
  <1>4. \A id : id \in ids <=> \E g \in DOMAIN groups : \E k \in DOMAIN chunks(g) : id = <<g, k>>
    <2> HIDE DEF chunks
    <2> QED  OBVIOUS
  <1>5. \A g \in DOMAIN groups :
           /\ DOMAIN chunks(g) \subseteq Nat
           /\ \A k \in DOMAIN chunks(g) :
                 /\ chunks(g)[k] # {} /\ chunks(g)[k] \subseteq groups[g]
                 /\ Cardinality(chunks(g)[k]) <= maxPer
                 /\ \A n \in Owned(existing, g) : chunks(g)[k] \cap full(g)[n] = {}
           /\ \A k, l \in DOMAIN chunks(g) : k # l => chunks(g)[k] \cap chunks(g)[l] = {}
           /\ \A a \in groups[g] : \/ \E n \in Owned(existing, g) : a \in full(g)[n]
                                   \/ \E k \in DOMAIN chunks(g) : a \in chunks(g)[k]
    BY <1>1, ChunkShares
  <1> HIDE DEF fresh, held, chunks, full, ids
  <1>6. DOMAIN fresh = ids /\ \A g \in DOMAIN groups : \A k \in DOMAIN chunks(g) :
                                 <<g, k>> \in ids /\ fresh[<<g, k>>] = chunks(g)[k]
    <2>1. DOMAIN fresh = ids /\ \A id \in ids : fresh[id] = chunks(id[1])[id[2]]
      BY <1>3, Zenon
    <2> QED  BY <1>4, <2>1, Zenon
  <1>7. ASSUME NEW id \in ids
        PROVE  /\ id \in (DOMAIN groups) \X Nat
               /\ fresh[id] # {} /\ fresh[id] \subseteq groups[id[1]]
               /\ Cardinality(fresh[id]) <= maxPer
               /\ \A n \in DOMAIN held : fresh[id] \cap held[n] = {}
    <2>1. PICK g \in DOMAIN groups : \E k \in DOMAIN chunks(g) : id = <<g, k>>
      BY <1>4, Zenon
    <2>2. PICK k \in DOMAIN chunks(g) : id = <<g, k>>
      BY <2>1, Zenon
    <2>3. fresh[id] = chunks(g)[k] /\ id[1] = g
      BY <1>6, <2>2, Zenon
    <2>4. ASSUME NEW n \in DOMAIN held PROVE fresh[id] \cap held[n] = {}
      <3>1. CASE existing[n].group = g
        <4>1. n \in Owned(existing, g)
          BY <1>2, <3>1, Zenon DEF Owned
        <4> QED  BY <1>2, <1>5, <2>3, <3>1, <4>1
      <3>2. CASE existing[n].group # g
        <4>1. existing[n].group \in DOMAIN groups /\ held[n] \subseteq groups[existing[n].group]
          BY <1>2, Zenon
        <4>2. fresh[id] \subseteq groups[g]
          BY <1>5, <2>3
        <4> QED  BY <1>1, <3>2, <4>1, <4>2, Zenon
      <3> QED  BY <3>1, <3>2, Zenon
    <2> QED  BY <1>5, <2>2, <2>3, <2>4
  <1>8. ASSUME NEW i \in ids, NEW j \in ids, i # j PROVE fresh[i] \cap fresh[j] = {}
    <2>1. PICK g \in DOMAIN groups : \E k \in DOMAIN chunks(g) : i = <<g, k>>
      BY <1>4, Zenon
    <2>2. PICK k \in DOMAIN chunks(g) : i = <<g, k>>
      BY <2>1, Zenon
    <2>3. PICK h \in DOMAIN groups : \E l \in DOMAIN chunks(h) : j = <<h, l>>
      BY <1>4, Zenon
    <2>4. PICK l \in DOMAIN chunks(h) : j = <<h, l>>
      BY <2>3, Zenon
    <2>5. fresh[i] = chunks(g)[k] /\ fresh[j] = chunks(h)[l]
      BY <1>6, <2>2, <2>4, Zenon
    <2>6. CASE g = h
      BY <1>5, <1>8, <2>2, <2>4, <2>5, <2>6
    <2>7. CASE g # h
      BY <1>1, <1>5, <2>5, <2>7
    <2> QED  BY <2>6, <2>7, Zenon
  <1>9. ASSUME NEW g \in DOMAIN groups, NEW a \in groups[g]
        PROVE  \/ \E n \in DOMAIN held : existing[n].group = g /\ a \in held[n]
               \/ \E id \in DOMAIN fresh : id[1] = g /\ a \in fresh[id]
    <2>1. CASE \E n \in Owned(existing, g) : a \in full(g)[n]
      <3>1. PICK n \in Owned(existing, g) : a \in full(g)[n]
        BY <2>1, Zenon
      <3>2. n \in DOMAIN existing /\ existing[n].group = g
        BY Zenon DEF Owned
      <3> QED  BY <1>2, <3>1, <3>2, Zenon
    <2>2. CASE \E k \in DOMAIN chunks(g) : a \in chunks(g)[k]
      <3>1. PICK k \in DOMAIN chunks(g) : a \in chunks(g)[k]
        BY <2>2, Zenon
      <3>2. <<g, k>> \in DOMAIN fresh /\ fresh[<<g, k>>] = chunks(g)[k] /\ <<g, k>>[1] = g
        BY <1>6, Zenon
      <3> QED  BY <3>1, <3>2, Zenon
    <2> QED  BY <1>5, <2>1, <2>2
  <1> QED  BY <1>6, <1>7, <1>8, <1>9, Zenon DEF fresh, held, groups

(* Finitely many chunks need a new slice. *)
LEMMA FreshFinite ==
    ASSUME NEW existing, IsLayout(existing), NEW r \in Resolved
    PROVE  IsFiniteSet(DOMAIN Fresh(existing, GroupEndpoints(r)))
  <1> DEFINE groups == GroupEndpoints(r)
             fresh == Fresh(existing, groups)
             ids == DOMAIN fresh
             f == [id \in ids |-> CHOOSE a \in fresh[id] : TRUE]
  <1>1. /\ \A id \in ids : /\ id \in (DOMAIN groups) \X Nat
                           /\ fresh[id] # {} /\ fresh[id] \subseteq groups[id[1]]
        /\ \A i, j \in ids : i # j => fresh[i] \cap fresh[j] = {}
    BY FreshShares
  <1>2. \A g \in DOMAIN groups : groups[g] \subseteq Reachable(r)
    BY GroupsPartition, Zenon
  <1>3. IsFiniteSet(Reachable(r))
    BY GroupsPartition, Zenon
  <1> HIDE DEF groups, fresh
  <1>4. \A id \in ids : f[id] \in fresh[id] /\ fresh[id] \subseteq Reachable(r)
    BY <1>1, <1>2, Zenon
  <1> HIDE DEF ids
  <1>5. f \in [ids -> Reachable(r)]
    BY <1>4, Zenon
  <1>6. \A i, j \in ids : f[i] = f[j] => i = j
    BY <1>1, <1>4, Zenon
  <1>7. f \in Injection(ids, Reachable(r))
    <2> HIDE DEF f
    <2> QED  BY <1>5, <1>6, Zenon DEF Injection, IsInjective
  <1> QED  BY <1>3, <1>7, FS_Injection, Zenon DEF ids, fresh, groups

(* The chunks of one family are in one order. *)
LEMMA EarlierOrders ==
    \A i, j, k \in Group \X Nat :
        /\ ~Earlier(i, i)
        /\ Earlier(i, j) /\ Earlier(j, k) => Earlier(i, k)
        /\ i[1].family = j[1].family => i = j \/ Earlier(i, j) \/ Earlier(j, i)
  <1>0. \A g \in Group : g.ports \in Nat
    BY PlanAssumption, Zenon DEF Group
  <1>1. \A g, h \in Group : g.family = h.family /\ g.ports = h.ports => g = h
    BY DEF Group
  <1>2. \A i \in Group \X Nat : i[1] \in Group /\ i[2] \in Nat /\ i = <<i[1], i[2]>>
    OBVIOUS
  <1> SUFFICES ASSUME NEW i \in Group \X Nat, NEW j \in Group \X Nat, NEW k \in Group \X Nat
               PROVE  /\ ~Earlier(i, i)
                      /\ Earlier(i, j) /\ Earlier(j, k) => Earlier(i, k)
                      /\ i[1].family = j[1].family => i = j \/ Earlier(i, j) \/ Earlier(j, i)
    BY Zenon
  <1>3. /\ i[1].ports \in Nat /\ j[1].ports \in Nat /\ k[1].ports \in Nat
        /\ i[2] \in Nat /\ j[2] \in Nat /\ k[2] \in Nat
    BY <1>0, <1>2, Zenon
  <1>4. i[1].family = j[1].family /\ i[1].ports = j[1].ports => i[1] = j[1]
    BY <1>1, <1>2, Zenon
  <1>5. i[1] = j[1] /\ i[2] = j[2] => i = j
    BY <1>2, Zenon
  <1>6. ~Earlier(i, i)
    BY <1>3 DEF Earlier
  <1>7. Earlier(i, j) /\ Earlier(j, k) => Earlier(i, k)
    BY <1>3 DEF Earlier
  <1>8. i[1].family = j[1].family => i = j \/ Earlier(i, j) \/ Earlier(j, i)
    BY <1>3, <1>4, <1>5 DEF Earlier
  <1> QED  BY <1>6, <1>7, <1>8, Zenon

(* New slices have names of their own, and no existing slice's. *)
LEMMA FreshNamesDiffer ==
    ASSUME NEW existing, IsLayout(existing), NEW r \in Resolved
    PROVE  LET ids == DOMAIN Fresh(existing, GroupEndpoints(r))
           IN  /\ \A i \in ids : /\ FreshName(existing, ids, i) \in Name
                                 /\ FreshName(existing, ids, i) \notin DOMAIN existing
               /\ \A i, j \in ids : FreshName(existing, ids, i) = FreshName(existing, ids, j) => i = j
  <1> DEFINE ids == DOMAIN Fresh(existing, GroupEndpoints(r))
             earlier(i) == {k \in ids : Earlier(k, i)}
             pos(i) == Cardinality(earlier(i))
             num(i) == FreeNumber(existing, i[1].family, pos(i))
  <1>1. IsFiniteSet(ids)
    BY FreshFinite, Zenon
  <1>2. \A i \in ids : i \in Group \X Nat
    <2>1. \A i \in ids : i \in (DOMAIN GroupEndpoints(r)) \X Nat
      BY FreshShares, Zenon
    <2>2. \A g \in DOMAIN GroupEndpoints(r) : g \in Group
      BY GroupsPartition, Zenon
    <2> QED  BY <2>1, <2>2, Zenon
  <1> HIDE DEF ids
  <1>3. \A i \in ids : i[1].family \in {4, 6}
    BY <1>2, Zenon DEF Group
  <1>4. \A i : earlier(i) \in SUBSET ids /\ IsFiniteSet(earlier(i)) /\ pos(i) \in Nat
    <2>1. \A i : earlier(i) \in SUBSET ids
      BY Zenon
    <2> HIDE DEF earlier
    <2> QED  BY <1>1, <2>1, FS_Subset, FS_CardinalityType, Zenon
  <1>5. ASSUME NEW i \in ids, NEW j \in ids, Earlier(i, j) PROVE pos(i) < pos(j)
    <2>1. earlier(i) \subseteq earlier(j)
      <3> SUFFICES ASSUME NEW k \in ids, Earlier(k, i) PROVE Earlier(k, j)
        BY Zenon
      <3> QED  BY <1>2, <1>5, EarlierOrders, Zenon
    <2>2. i \in earlier(j) /\ i \notin earlier(i)
      BY <1>2, <1>5, EarlierOrders, Zenon
    <2> HIDE DEF earlier
    <2> QED  BY <1>4, <2>1, <2>2, FS_Subset
  <1>6. \A i \in ids : /\ num(i) \in Nat /\ num(i) \notin Used(existing, i[1].family)
                       /\ Free(existing, i[1].family, num(i)) = pos(i)
    <2> HIDE DEF pos
    <2> QED  BY <1>4, NumberIsFree, Zenon
  <1>7. \A i \in ids : FreshName(existing, ids, i) = <<i[1].family, num(i)>>
    BY Zenon DEF FreshName
  <1> HIDE DEF num
  <1>8. \A i \in ids : FreshName(existing, ids, i) \in Name /\ FreshName(existing, ids, i) \notin DOMAIN existing
    <2> TAKE i \in ids
    <2>1. <<i[1].family, num(i)>> \in Name
      BY <1>3, <1>6, Zenon DEF Name
    <2>2. ASSUME <<i[1].family, num(i)>> \in DOMAIN existing PROVE FALSE
      <3>1. num(i) \in Used(existing, i[1].family)
        BY <2>2 DEF Used
      <3> QED  BY <1>6, <3>1, Zenon
    <2> QED  BY <1>7, <2>1, <2>2, Zenon
  <1>9. ASSUME NEW i \in ids, NEW j \in ids,
               FreshName(existing, ids, i) = FreshName(existing, ids, j), i # j
        PROVE  FALSE
    <2>1. i[1].family = j[1].family /\ num(i) = num(j)
      BY <1>7, <1>9
    <2>2. pos(i) = pos(j)
      BY <1>6, <2>1, Zenon
    <2>3. Earlier(i, j) \/ Earlier(j, i)
      BY <1>2, <1>9, <2>1, EarlierOrders, Zenon
    <2>4. pos(i) < pos(j) \/ pos(j) < pos(i)
      BY <1>5, <2>3, Zenon
    <2>5. pos(i) \in Nat /\ pos(j) \in Nat
      BY <1>4, Zenon
    <2> HIDE DEF pos
    <2> QED  BY <2>2, <2>4, <2>5
  <1> QED  BY <1>8, <1>9, Zenon DEF ids

(* The slice that is written for the addresses S of a group. *)
LEMMA SliceOfShape ==
    ASSUME NEW r \in Resolved, NEW g \in DOMAIN GroupEndpoints(r),
           NEW S \in SUBSET GroupEndpoints(r)[g]
    PROVE  LET slice == SliceOf(g, S, r)
           IN  /\ slice \in Slice
               /\ slice.group = g
               /\ DOMAIN slice.eps = S
               /\ \A a \in S : slice.eps[a] = r[a].cond
  <1> DEFINE yes == TRUE
             eps == [a \in S |-> r[a].cond]
             slice == [group |-> g, listed |-> yes, eps |-> eps]
  <1>1. SliceOf(g, S, r) = slice
    BY Zenon DEF SliceOf
  <1>2. g \in Group /\ S \in SUBSET Reachable(r)
    BY GroupsPartition, Zenon
  <1>3. S \in SUBSET Addresses /\ \A a \in S : r[a].cond \in Conditions
    BY <1>2, GroupsPartition, Zenon
  <1>4. eps \in Entries /\ DOMAIN eps = S /\ \A a \in S : eps[a] = r[a].cond
    <2>1. eps \in [S -> Conditions]
      BY <1>3, Zenon
    <2> HIDE DEF eps
    <2>2. eps \in Entries
      BY <1>3, <2>1, Zenon DEF Entries
    <2> QED  BY <2>1, <2>2, Zenon DEF eps
  <1>5. yes \in BOOLEAN
    BY Zenon
  <1> HIDE DEF yes, eps
  <1>6. slice \in Slice /\ slice.group = g /\ slice.eps = eps
    BY <1>2, <1>4, <1>5, Zenon DEF Slice
  <1> HIDE DEF slice
  <1> QED  BY <1>1, <1>4, <1>6, Zenon

(* The names in a plan, and what is planned for one. *)
LEMMA ContentsNames ==
    ASSUME NEW existing, NEW held, NEW fresh, NEW r
    PROVE  \A n : n \in DOMAIN Contents(existing, held, fresh, r) <=>
                     \/ n \in DOMAIN held /\ held[n] # {}
                     \/ \E id \in DOMAIN fresh : n = FreshName(existing, DOMAIN fresh, id)
  BY Zenon DEF Contents

LEMMA ContentsAt ==
    ASSUME NEW existing, NEW held, NEW fresh, NEW r
    PROVE  LET ids == DOMAIN fresh
               write == Contents(existing, held, fresh, r)
           IN  \A n \in DOMAIN write :
                  write[n] = IF n \in DOMAIN held
                             THEN SliceOf(existing[n].group, held[n], r)
                             ELSE SliceOf(IdOf(existing, ids, n)[1], fresh[IdOf(existing, ids, n)], r)
  BY Zenon DEF Contents

(* What is planned is a function. *)
LEMMA ContentsMap ==
    ASSUME NEW existing, NEW held, NEW fresh, NEW r
    PROVE  LET write == Contents(existing, held, fresh, r)
           IN  write = [n \in DOMAIN write |-> write[n]]
  BY Zenon DEF Contents

(* What planSlices writes, and what it takes for orphans. *)
LEMMA PlanParts ==
    ASSUME NEW existing, IsLayout(existing), NEW r \in Resolved
    PROVE  LET groups == GroupEndpoints(r)
               held == Held(existing, groups)
               fresh == Fresh(existing, groups)
               plan == planSlices(existing, r)
               name(id) == FreshName(existing, DOMAIN fresh, id)
           IN  /\ \A n : n \in DOMAIN plan.write <=> \/ n \in DOMAIN held /\ held[n] # {}
                                                     \/ \E id \in DOMAIN fresh : n = name(id)
               /\ \A n \in DOMAIN held :
                     held[n] # {} => plan.write[n] = SliceOf(existing[n].group, held[n], r)
               /\ \A id \in DOMAIN fresh : plan.write[name(id)] = SliceOf(id[1], fresh[id], r)
               /\ \A n : n \in plan.foreign <=> n \in DOMAIN existing /\ n \notin DOMAIN held
               /\ \A n : n \in plan.emptied <=> n \in DOMAIN held /\ held[n] = {}
  <1> DEFINE groups == GroupEndpoints(r)
             held == Held(existing, groups)
             fresh == Fresh(existing, groups)
             ids == DOMAIN fresh
             name(id) == FreshName(existing, ids, id)
             write == Contents(existing, held, fresh, r)
             plan == planSlices(existing, r)
  <1>1. plan.write = write /\ plan.foreign = DOMAIN existing \ DOMAIN held
    BY Zenon DEF planSlices
  <1>2. plan.emptied = {n \in DOMAIN held : held[n] = {}}
    BY Zenon DEF planSlices
  <1>3. \A n \in DOMAIN held : n \in DOMAIN existing
    BY HeldShares, Zenon
  <1>4. /\ \A i \in ids : name(i) \notin DOMAIN existing
        /\ \A i, j \in ids : name(i) = name(j) => i = j
    BY FreshNamesDiffer, Zenon
  <1>5. \A id \in ids : IdOf(existing, ids, name(id)) = id
    <2> HIDE DEF fresh, held
    <2> QED  BY <1>4, Zenon DEF IdOf
  <1> HIDE DEF fresh, held, plan
  <1>6. \A n : n \in DOMAIN write <=> \/ n \in DOMAIN held /\ held[n] # {}
                                      \/ \E id \in ids : n = name(id)
    BY ContentsNames
  <1>7. \A n \in DOMAIN write :
          write[n] = IF n \in DOMAIN held
                     THEN SliceOf(existing[n].group, held[n], r)
                     ELSE SliceOf(IdOf(existing, ids, n)[1], fresh[IdOf(existing, ids, n)], r)
    BY ContentsAt
  <1> HIDE DEF write
  <1>8. \A n \in DOMAIN held : held[n] # {} => write[n] = SliceOf(existing[n].group, held[n], r)
    BY <1>6, <1>7, Zenon
  <1>9. \A id \in ids : write[name(id)] = SliceOf(id[1], fresh[id], r)
    <2> TAKE id \in ids
    <2>1. name(id) \notin DOMAIN held /\ name(id) \in DOMAIN write
      BY <1>3, <1>4, <1>6, Zenon
    <2>2. IdOf(existing, ids, name(id)) = id
      BY <1>5, Zenon
    <2> HIDE DEF name
    <2> QED  BY <1>7, <2>1, <2>2, Zenon
  <1> QED  BY <1>1, <1>2, <1>6, <1>8, <1>9, Zenon DEF plan, name, fresh, held

(* The facts about one plan that the theorems below need: every slice that *)
(* is written holds addresses of one group, none twice, and every          *)
(* reachable address is written under its group.                           *)
LEMMA PlanShares ==
    ASSUME NEW existing, IsLayout(existing), NEW r \in Resolved
    PROVE  LET write == planSlices(existing, r).write
           IN  /\ \A n \in DOMAIN write :
                     \E g \in DOMAIN GroupEndpoints(r) : \E S \in SUBSET GroupEndpoints(r)[g] :
                        write[n] = SliceOf(g, S, r) /\ S # {} /\ Cardinality(S) <= maxPer
               /\ \A m, n \in DOMAIN write :
                     m # n => (DOMAIN write[m].eps) \cap (DOMAIN write[n].eps) = {}
               /\ \A a \in Reachable(r) : \E n \in DOMAIN write :
                     a \in DOMAIN write[n].eps /\ write[n].group = GroupKey(r, a)
  <1> DEFINE groups == GroupEndpoints(r)
             held == Held(existing, groups)
             fresh == Fresh(existing, groups)
             write == planSlices(existing, r).write
             name(id) == FreshName(existing, DOMAIN fresh, id)
             Kept(n) == n \in DOMAIN held /\ held[n] # {}
  <1>1. /\ \A n : n \in DOMAIN write <=> Kept(n) \/ \E id \in DOMAIN fresh : n = name(id)
        /\ \A n : Kept(n) => write[n] = SliceOf(existing[n].group, held[n], r)
        /\ \A id \in DOMAIN fresh : write[name(id)] = SliceOf(id[1], fresh[id], r)
    BY PlanParts
  <1>2. /\ \A n \in DOMAIN held : /\ n \in DOMAIN existing
                                  /\ existing[n].group \in DOMAIN groups
                                  /\ held[n] \subseteq groups[existing[n].group]
                                  /\ Cardinality(held[n]) <= maxPer
        /\ \A m, n \in DOMAIN held : m # n => held[m] \cap held[n] = {}
    BY HeldShares, Zenon
  <1>3. /\ \A id \in DOMAIN fresh :
              /\ id \in (DOMAIN groups) \X Nat
              /\ fresh[id] # {} /\ fresh[id] \subseteq groups[id[1]]
              /\ Cardinality(fresh[id]) <= maxPer
              /\ \A n \in DOMAIN held : fresh[id] \cap held[n] = {}
        /\ \A i, j \in DOMAIN fresh : i # j => fresh[i] \cap fresh[j] = {}
        /\ \A g \in DOMAIN groups : \A a \in groups[g] :
              \/ \E n \in DOMAIN held : existing[n].group = g /\ a \in held[n]
              \/ \E id \in DOMAIN fresh : id[1] = g /\ a \in fresh[id]
    BY FreshShares
  <1>4. \A g \in DOMAIN groups : \A S \in SUBSET groups[g] :
           SliceOf(g, S, r).group = g /\ DOMAIN SliceOf(g, S, r).eps = S
    BY SliceOfShape
  <1>5. \A a \in Reachable(r) : GroupKey(r, a) \in DOMAIN groups /\ a \in groups[GroupKey(r, a)]
    BY GroupsPartition, Zenon
  <1> HIDE DEF groups, held, fresh, write, name
  <1>6. \A n : Kept(n) => /\ existing[n].group \in DOMAIN groups
                          /\ held[n] \in SUBSET groups[existing[n].group]
                          /\ held[n] # {} /\ Cardinality(held[n]) <= maxPer
                          /\ write[n].group = existing[n].group /\ DOMAIN write[n].eps = held[n]
    BY <1>1, <1>2, <1>4
  <1>7. \A id \in DOMAIN fresh :
           /\ id[1] \in DOMAIN groups /\ fresh[id] \in SUBSET groups[id[1]]
           /\ fresh[id] # {} /\ Cardinality(fresh[id]) <= maxPer
           /\ write[name(id)].group = id[1] /\ DOMAIN write[name(id)].eps = fresh[id]
    BY <1>1, <1>3, <1>4
  <1>8. ASSUME NEW n \in DOMAIN write
        PROVE  \E g \in DOMAIN groups : \E S \in SUBSET groups[g] :
                  write[n] = SliceOf(g, S, r) /\ S # {} /\ Cardinality(S) <= maxPer
    <2>1. CASE Kept(n)
      BY <1>1, <1>6, <2>1, Zenon
    <2>2. CASE \E id \in DOMAIN fresh : n = name(id)
      BY <1>1, <1>7, <2>2
    <2> QED  BY <1>1, <2>1, <2>2, Zenon
  <1>9. ASSUME NEW m \in DOMAIN write, NEW n \in DOMAIN write, m # n
        PROVE  (DOMAIN write[m].eps) \cap (DOMAIN write[n].eps) = {}
    <2>1. CASE Kept(m) /\ Kept(n)
      BY <1>2, <1>6, <1>9, <2>1, Zenon
    <2>2. CASE \E id \in DOMAIN fresh : m = name(id)
      <3>1. PICK i \in DOMAIN fresh : m = name(i)
        BY <2>2, Zenon
      <3>2. CASE Kept(n)
        BY <1>3, <1>6, <1>7, <3>1, <3>2, Zenon
      <3>3. CASE \E id \in DOMAIN fresh : n = name(id)
        BY <1>3, <1>7, <1>9, <3>1, <3>3
      <3> QED  BY <1>1, <3>2, <3>3, Zenon
    <2>3. CASE Kept(m) /\ \E id \in DOMAIN fresh : n = name(id)
      BY <1>3, <1>6, <1>7, <2>3
    <2> QED  BY <1>1, <2>1, <2>2, <2>3, Zenon
  <1>10. ASSUME NEW a \in Reachable(r)
         PROVE  \E n \in DOMAIN write : a \in DOMAIN write[n].eps /\ write[n].group = GroupKey(r, a)
    <2> DEFINE g == GroupKey(r, a)
    <2>1. g \in DOMAIN groups /\ a \in groups[g]
      BY <1>5, Zenon
    <2> HIDE DEF g
    <2>2. CASE \E n \in DOMAIN held : existing[n].group = g /\ a \in held[n]
      <3>1. PICK n \in DOMAIN held : existing[n].group = g /\ a \in held[n]
        BY <2>2, Zenon
      <3>2. Kept(n)
        BY <3>1, Zenon
      <3> QED  BY <1>1, <1>6, <3>1, <3>2, Zenon DEF g
    <2>3. CASE \E id \in DOMAIN fresh : id[1] = g /\ a \in fresh[id]
      <3>1. PICK id \in DOMAIN fresh : id[1] = g /\ a \in fresh[id]
        BY <2>3, Zenon
      <3> QED  BY <1>1, <1>7, <3>1 DEF g
    <2> QED  BY <1>3, <2>1, <2>2, <2>3
  <1> QED  BY <1>8, <1>9, <1>10, Zenon DEF write, groups

(* Writer.Reconcile's plan is right whatever slices it finds and whatever  *)
(* list it is given: what it writes presents the list, and every slice it  *)
(* finds is either written or an orphan, never both.                       *)
THEOREM PlanIsRight ==
    ASSUME NEW existing, IsLayout(existing), NEW r \in Resolved
    PROVE  LET plan == planSlices(existing, r)
           IN  /\ Presents(plan.write, r)
               /\ DOMAIN existing \subseteq DOMAIN plan.write \cup plan.foreign \cup plan.emptied
               /\ DOMAIN plan.write \cap (plan.foreign \cup plan.emptied) = {}
               /\ plan.foreign \cup plan.emptied \subseteq DOMAIN existing
  <1> DEFINE groups == GroupEndpoints(r)
             plan == planSlices(existing, r)
             write == plan.write
  <1>1. /\ \A n \in DOMAIN write : \E g \in DOMAIN groups : \E S \in SUBSET groups[g] :
              write[n] = SliceOf(g, S, r) /\ S # {} /\ Cardinality(S) <= maxPer
        /\ \A m, n \in DOMAIN write :
              m # n => (DOMAIN write[m].eps) \cap (DOMAIN write[n].eps) = {}
        /\ \A a \in Reachable(r) : \E n \in DOMAIN write :
              a \in DOMAIN write[n].eps /\ write[n].group = GroupKey(r, a)
    BY PlanShares
  <1>2. \A g \in DOMAIN groups : \A S \in SUBSET groups[g] :
           /\ DOMAIN SliceOf(g, S, r).eps = S
           /\ \A a \in S : SliceOf(g, S, r).eps[a] = r[a].cond
    BY SliceOfShape
  <1>3. \A g \in DOMAIN groups : groups[g] \subseteq Reachable(r)
    BY GroupsPartition, Zenon
  <1>4. /\ DOMAIN existing \subseteq DOMAIN plan.write \cup plan.foreign \cup plan.emptied
        /\ DOMAIN plan.write \cap (plan.foreign \cup plan.emptied) = {}
        /\ plan.foreign \cup plan.emptied \subseteq DOMAIN existing
    <2> DEFINE held == Held(existing, groups)
               ids == DOMAIN Fresh(existing, groups)
               name(id) == FreshName(existing, ids, id)
    <2>1. /\ \A n : n \in DOMAIN plan.write <=> \/ n \in DOMAIN held /\ held[n] # {}
                                                \/ \E id \in ids : n = name(id)
          /\ \A n : n \in plan.foreign <=> n \in DOMAIN existing /\ n \notin DOMAIN held
          /\ \A n : n \in plan.emptied <=> n \in DOMAIN held /\ held[n] = {}
      BY PlanParts
    <2>2. \A n \in DOMAIN held : n \in DOMAIN existing
      BY HeldShares, Zenon
    <2>3. \A id \in ids : name(id) \notin DOMAIN existing
      BY FreshNamesDiffer, Zenon
    <2> HIDE DEF held, ids, name, plan
    <2> QED  BY <2>1, <2>2, <2>3, Zenon
  <1> HIDE DEF groups, plan
  <1>5. ASSUME NEW n \in DOMAIN write
        PROVE  /\ DOMAIN write[n].eps # {}
               /\ DOMAIN write[n].eps \subseteq Reachable(r)
               /\ Cardinality(DOMAIN write[n].eps) <= maxPer
               /\ \A a \in DOMAIN write[n].eps : write[n].eps[a] = r[a].cond
    <2>1. PICK g \in DOMAIN groups : \E S \in SUBSET groups[g] :
             write[n] = SliceOf(g, S, r) /\ S # {} /\ Cardinality(S) <= maxPer
      BY <1>1, Zenon
    <2>2. PICK S \in SUBSET groups[g] :
             write[n] = SliceOf(g, S, r) /\ S # {} /\ Cardinality(S) <= maxPer
      BY <2>1, Zenon
    <2>3. /\ DOMAIN write[n].eps = S /\ \A a \in S : write[n].eps[a] = r[a].cond
          /\ S \subseteq Reachable(r)
      BY <1>2, <1>3, <2>2
    <2> QED  BY <2>2, <2>3, Zenon
  <1>6. ASSUME NEW a \in Reachable(r)
        PROVE  \E n \in DOMAIN write :
                  /\ a \in DOMAIN write[n].eps
                  /\ write[n].eps[a] = r[a].cond
                  /\ write[n].group = GroupKey(r, a)
                  /\ \A m \in DOMAIN write : a \in DOMAIN write[m].eps => m = n
    BY <1>1, <1>5
  <1>7. Presents(write, r)
    BY <1>5, <1>6, Zenon DEF Presents
  <1> QED  BY <1>4, <1>7, Zenon DEF plan

(* A plan is a record whose first field is a function. *)
LEMMA PlanShape ==
    ASSUME NEW existing, NEW r
    PROVE  \E w, f, e : /\ planSlices(existing, r) = [write |-> w, foreign |-> f, emptied |-> e]
                        /\ w = [n \in DOMAIN w |-> w[n]]
  <1> DEFINE held == Held(existing, GroupEndpoints(r))
             write == Contents(existing, held, Fresh(existing, GroupEndpoints(r)), r)
             foreign == DOMAIN existing \ DOMAIN held
             emptied == {n \in DOMAIN held : held[n] = {}}
  <1>1. planSlices(existing, r) = [write |-> write, foreign |-> foreign, emptied |-> emptied]
    BY Zenon DEF planSlices
  <1>2. write = [n \in DOMAIN write |-> write[n]]
    BY ContentsMap, Zenon
  <1> HIDE DEF write, foreign, emptied
  <1> QED  BY <1>1, <1>2, Zenon

(* The plan's slices are slices, finitely many and properly named. *)
LEMMA PlanTyped ==
    ASSUME NEW existing, IsLayout(existing), NEW r \in Resolved
    PROVE  LET plan == planSlices(existing, r)
               write == plan.write
           IN  /\ plan = [write |-> write, foreign |-> plan.foreign, emptied |-> plan.emptied]
               /\ write = [n \in DOMAIN write |-> write[n]]
               /\ IsLayout(write) /\ \A n \in DOMAIN write : write[n] \in Slice
  <1> DEFINE groups == GroupEndpoints(r)
             held == Held(existing, groups)
             ids == DOMAIN Fresh(existing, groups)
             name(id) == FreshName(existing, ids, id)
             write == planSlices(existing, r).write
             new == {name(id) : id \in ids}
             f == [id \in ids |-> name(id)]
  <1>1. \A n : n \in DOMAIN write <=> \/ n \in DOMAIN held /\ held[n] # {}
                                      \/ \E id \in ids : n = name(id)
    BY PlanParts
  <1>2. \A n \in DOMAIN held : n \in DOMAIN existing
    BY HeldShares, Zenon
  <1>3. \A id \in ids : name(id) \in Name
    BY FreshNamesDiffer, Zenon
  <1>4. IsFiniteSet(ids)
    BY FreshFinite, Zenon
  <1>5. \A n \in DOMAIN write : \E g \in DOMAIN groups : \E S \in SUBSET groups[g] : write[n] = SliceOf(g, S, r)
    BY PlanShares
  <1>6. \A g \in DOMAIN groups : \A S \in SUBSET groups[g] : SliceOf(g, S, r) \in Slice
    BY SliceOfShape, Zenon
  <1>a. PICK w, e, d : /\ planSlices(existing, r) = [write |-> w, foreign |-> e, emptied |-> d]
                       /\ w = [n \in DOMAIN w |-> w[n]]
    BY PlanShape, Zenon
  <1>b. /\ planSlices(existing, r) = [write |-> write, foreign |-> planSlices(existing, r).foreign,
                                      emptied |-> planSlices(existing, r).emptied]
        /\ write = [n \in DOMAIN write |-> write[n]]
    BY <1>a
  <1> HIDE DEF groups, held, ids, name, write
  <1>7. \A n \in DOMAIN write : write[n] \in Slice
    BY <1>5, <1>6, Zenon
  <1>8. IsFiniteSet(new)
    <2>1. f \in Surjection(ids, new)
      BY Zenon DEF Surjection
    <2> HIDE DEF new, f
    <2> QED  BY <1>4, <2>1, FS_Surjection, Zenon
  <1>9. DOMAIN write \in SUBSET (DOMAIN existing \cup new)
    BY <1>1, <1>2, Zenon
  <1>10. new \subseteq Name /\ DOMAIN existing \subseteq Name
    BY <1>3, Zenon DEF IsLayout
  <1>11. IsFiniteSet(DOMAIN existing \cup new)
    <2> HIDE DEF new
    <2> QED  BY <1>8, FS_Union, Zenon DEF IsLayout
  <1> HIDE DEF new
  <1>12. IsFiniteSet(DOMAIN write) /\ DOMAIN write \subseteq Name
    BY <1>9, <1>10, <1>11, FS_Subset, Zenon
  <1> QED  BY <1>b, <1>7, <1>12, Zenon DEF IsLayout, write

(* Pass 1 keeps an endpoint on the first slice that carries it, if that    *)
(* slice is within the limit.                                              *)
LEMMA RetainedKeeps ==
    ASSUME NEW existing, IsLayout(existing), NEW g, NEW wanted \in SUBSET Nat, IsFiniteSet(wanted),
           NEW n \in Owned(existing, g), IsFiniteSet(DOMAIN existing[n].eps),
           Cardinality(DOMAIN existing[n].eps) <= maxPer,
           NEW a \in wanted, a \in DOMAIN existing[n].eps,
           \A m \in DOMAIN existing : Before(m, n) => a \notin DOMAIN existing[m].eps
    PROVE  a \in Retained(existing, g, wanted)[n]
  <1> DEFINE D == Owned(existing, g)
             may == [m \in D |-> DOMAIN existing[m].eps]
             room == [m \in D |-> maxPer]
             kept == Retained(existing, g, wanted)
             prior == UNION {kept[m] : m \in {k \in D : Before(k, n)}}
             open == may[n] \cap (wanted \ prior)
  <1>1. D \in SUBSET (Nat \X Nat) /\ IsFiniteSet(D) /\ D \subseteq DOMAIN existing
    <2>1. D \subseteq DOMAIN existing
      BY Zenon DEF Owned
    <2> QED  BY <2>1, OwnedFinite, Zenon
  <1>2. \A m \in D : kept[m] \subseteq DOMAIN existing[m].eps
    BY RetainedShares, Zenon
  <1>3. kept = Pass(D, may, wanted, room)
    BY Zenon DEF Retained
  <1> HIDE DEF kept, D
  <1>4. kept = [m \in D |-> Take(D, may, wanted, room, kept, m)]
    <2> HIDE DEF may, room
    <2> QED  BY <1>1, <1>3, PassTakes
  <1>5. n \in D
    BY Zenon DEF D
  <1>6. kept[n] = Take(D, may, wanted, room, kept, n)
    <2> HIDE DEF may, room
    <2> QED  BY <1>4, <1>5, Zenon
  <1>7. kept[n] = FirstN(open, maxPer)
    BY <1>5, <1>6, Zenon DEF Take
  <1>8. a \notin prior
    BY <1>1, <1>2, Zenon
  <1>9. may[n] = DOMAIN existing[n].eps
    BY <1>5, Zenon
  <1> HIDE DEF may, room, prior
  <1>10. a \in open /\ open \in SUBSET wanted /\ open \in SUBSET DOMAIN existing[n].eps
    BY <1>8, <1>9, Zenon
  <1> HIDE DEF open
  <1>11. /\ IsFiniteSet(open) /\ open \in SUBSET Nat /\ Cardinality(open) \in Nat
         /\ Cardinality(open) <= Cardinality(DOMAIN existing[n].eps)
         /\ Cardinality(DOMAIN existing[n].eps) \in Nat
    BY <1>10, FS_Subset, FS_CardinalityType, Zenon
  <1>12. Cardinality(open) <= maxPer /\ maxPer \in Nat
    BY <1>11, PlanAssumption
  <1>13. FirstN(open, maxPer) = open
    BY <1>11, <1>12, FirstNBound, Zenon
  <1> QED  BY <1>7, <1>10, <1>13, Zenon DEF kept

(* A slice within the limit keeps every endpoint that is still wanted in   *)
(* its group and that no earlier slice carries: planSlices moves none.     *)
THEOREM PlanKeeps ==
    ASSUME NEW existing, IsLayout(existing), NEW r \in Resolved,
           NEW n \in DOMAIN existing, existing[n] \in Slice,
           NEW a \in DOMAIN existing[n].eps,
           a \in Reachable(r), GroupKey(r, a) = existing[n].group,
           Cardinality(DOMAIN existing[n].eps) <= maxPer,
           \A m \in DOMAIN existing : Before(m, n) => a \notin DOMAIN existing[m].eps
    PROVE  LET write == planSlices(existing, r).write
           IN  n \in DOMAIN write /\ a \in DOMAIN write[n].eps
  <1> DEFINE groups == GroupEndpoints(r)
             held == Held(existing, groups)
             g == existing[n].group
             write == planSlices(existing, r).write
  <1>1. g \in DOMAIN groups /\ a \in groups[g] /\ groups[g] \in SUBSET Nat /\ IsFiniteSet(groups[g])
    BY GroupsPartition
  <1>2. IsFiniteSet(DOMAIN existing[n].eps)
    <2>1. existing[n].eps \in Entries
      BY Zenon DEF Slice
    <2>2. PICK S \in SUBSET Addresses : existing[n].eps \in [S -> Conditions]
      BY <2>1, Zenon DEF Entries
    <2> QED  BY <2>2, PlanAssumption, FS_Subset, Zenon
  <1>3. n \in Owned(existing, g)
    BY Zenon DEF Owned
  <1>4. a \in Retained(existing, g, groups[g])[n]
    <2> HIDE DEF groups
    <2> QED  BY <1>1, <1>2, <1>3, RetainedKeeps, Zenon
  <1>5. n \in DOMAIN held
    BY <1>1, HeldShares, Zenon
  <1>6. Retained(existing, g, groups[g])[n] \subseteq held[n] /\ held[n] \in SUBSET groups[g]
    BY <1>5, HeldShares, Zenon
  <1>7. a \in held[n]
    BY <1>4, <1>6, Zenon
  <1>8. n \in DOMAIN write /\ write[n] = SliceOf(g, held[n], r)
    BY <1>5, <1>7, PlanParts, SMTT(30)
  <1>9. \A S \in SUBSET groups[g] : DOMAIN SliceOf(g, S, r).eps = S
    BY <1>1, SliceOfShape
  <1> HIDE DEF held, groups, write
  <1> QED  BY <1>6, <1>7, <1>8, <1>9, Zenon DEF write

(* Presents is about the slices that there are and what is on them. *)
LEMMA PresentsSame ==
    ASSUME NEW f, NEW g, DOMAIN f = DOMAIN g, \A n \in DOMAIN f : f[n] = g[n],
           NEW r, Presents(f, r)
    PROVE  Presents(g, r)
  BY DEF Presents
=============================================================================
