------------------------- MODULE SlicePackingProofs -------------------------
(***************************************************************************)
(* One plan carried out presents the list and moves nothing that could     *)
(* stay, for every layout of slices to start from, every limit and any     *)
(* number of endpoints.                                                    *)
(***************************************************************************)
EXTENDS SlicePacking, SlicePlanProofs

(* The slices are finitely many, each is one and listed, and the list is   *)
(* the one of the last plan but for one change.                            *)
PackingInv ==
    /\ IsLayout(slices) /\ \A n \in DOMAIN slices : slices[n] \in Slice /\ slices[n].listed
    /\ resolved \in Resolved /\ earlier \in Resolved
    /\ resolved = earlier \/ OneChange(earlier, resolved)
    /\ settled => resolved = earlier

(* A plan that is carried out leaves exactly what it writes. *)
LEMMA ReconcileWrites ==
    ASSUME PackingInv, Reconcile
    PROVE  LET write == planSlices(slices, resolved).write
           IN  DOMAIN slices' = DOMAIN write /\ \A n \in DOMAIN write : slices'[n] = write[n]
  <1> DEFINE plan == planSlices(slices, resolved)
             write == plan.write
  <1>1. /\ DOMAIN slices \subseteq DOMAIN plan.write \cup plan.foreign \cup plan.emptied
        /\ DOMAIN plan.write \cap (plan.foreign \cup plan.emptied) = {}
    BY PlanIsRight, Zenon DEF PackingInv
  <1>2. slices' = [n \in (DOMAIN slices \ (plan.foreign \cup plan.emptied)) \cup DOMAIN plan.write |->
                     IF n \in DOMAIN plan.write THEN plan.write[n] ELSE slices[n]]
    BY Zenon DEF Reconcile, CarriedOut
  <1> HIDE DEF plan
  <1>3. (DOMAIN slices \ (plan.foreign \cup plan.emptied)) \cup DOMAIN plan.write = DOMAIN plan.write
    BY <1>1, Zenon
  <1>4. slices' = [n \in DOMAIN plan.write |-> IF n \in DOMAIN plan.write THEN plan.write[n] ELSE slices[n]]
    BY <1>2, <1>3, Zenon
  <1> QED  BY <1>4, Zenon DEF plan

(* What a plan writes is listed. *)
LEMMA PlanListed ==
    ASSUME NEW existing, IsLayout(existing), NEW r \in Resolved,
           NEW n \in DOMAIN planSlices(existing, r).write
    PROVE  planSlices(existing, r).write[n].listed
  <1> DEFINE w == planSlices(existing, r).write
  <1>1. PICK g \in DOMAIN GroupEndpoints(r) :
           \E S \in SUBSET GroupEndpoints(r)[g] : w[n] = SliceOf(g, S, r)
    BY PlanShares, SMTT(30)
  <1>4. PICK S : w[n] = SliceOf(g, S, r)
    BY <1>1, Zenon
  <1>2. SliceOf(g, S, r).listed
    BY Zenon DEF SliceOf
  <1> HIDE DEF w
  <1>3. w[n].listed
    BY <1>2, <1>4, Zenon
  <1> QED  BY <1>3, Zenon DEF w

(* PackingInv is inductive. *)
LEMMA PackingStep ==
    Spec => []PackingInv
  <1>1. Init => PackingInv
    BY LayoutsAssumption, Zenon DEF Init, PackingInv, IsLayout
  <1>2. PackingInv /\ [Next]_vars => PackingInv'
    <2> SUFFICES ASSUME PackingInv, [Next]_vars PROVE PackingInv'
      BY Zenon
    <2>1. CASE Reconcile
      <3> DEFINE write == planSlices(slices, resolved).write
      <3>1. IsLayout(write) /\ \A n \in DOMAIN write : write[n] \in Slice
        BY PlanTyped, Zenon DEF PackingInv
      <3>4. \A n \in DOMAIN write : write[n].listed
        BY PlanListed, Zenon DEF PackingInv
      <3>2. DOMAIN slices' = DOMAIN write /\ \A n \in DOMAIN write : slices'[n] = write[n]
        BY <2>1, ReconcileWrites, Zenon
      <3>3. resolved' = resolved /\ earlier' = resolved
        BY <2>1, Zenon DEF Reconcile
      <3> HIDE DEF write
      <3>5. IsLayout(slices') /\ \A n \in DOMAIN slices' : slices'[n] \in Slice /\ slices'[n].listed
        BY <3>1, <3>2, <3>4, Zenon DEF IsLayout
      <3> QED  BY <3>3, <3>5, Zenon DEF PackingInv
    <2>2. CASE Change
      <3>1. /\ settled /\ ~settled' /\ slices' = slices /\ earlier' = earlier
            /\ resolved' \in Resolved /\ OneChange(resolved, resolved')
        BY <2>2, LayoutsAssumption, Zenon DEF Change
      <3> QED  BY <3>1, Zenon DEF PackingInv
    <2>3. CASE UNCHANGED vars
      BY <2>3, Zenon DEF vars, PackingInv
    <2> QED  BY <2>1, <2>2, <2>3, Zenon DEF Next
  <1> QED  BY <1>1, <1>2, PTL DEF Spec

(* The source changes when it changes. *)
LEMMA ChangeChanges ==
    ASSUME Change PROVE resolved' # resolved
  <1> SUFFICES ASSUME resolved' = resolved PROVE FALSE
    BY Zenon
  <1> DEFINE D == Differing(resolved, resolved')
  <1>1. Cardinality(D) = 1
    BY Zenon DEF Change, OneChange
  <1>2. D = {}
    BY Zenon DEF Differing
  <1>3. Cardinality(D) = 0
    BY <1>2, FS_EmptySet, Zenon
  <1> HIDE DEF D
  <1> QED  BY <1>1, <1>3

(* From any slices at all, one plan carried out presents the resolved list: *)
(* every endpoint once, under its group, no slice empty or over the limit. *)
THEOREM PackingPresents == Spec => PlanPresents
  <1>1. PackingInv /\ [Next]_vars => [resolved' = resolved => Presents(slices', resolved)]_vars
    <2> SUFFICES ASSUME PackingInv, Next, resolved' = resolved PROVE Presents(slices', resolved)
      BY Zenon DEF vars
    <2>1. Reconcile
      BY ChangeChanges, Zenon DEF Next
    <2> DEFINE write == planSlices(slices, resolved).write
    <2>2. Presents(write, resolved)
      BY PlanIsRight, Zenon DEF PackingInv
    <2>3. DOMAIN slices' = DOMAIN write /\ \A n \in DOMAIN write : slices'[n] = write[n]
      BY <2>1, ReconcileWrites, Zenon
    <2> HIDE DEF write
    <2> QED  BY <2>2, <2>3, PresentsSame, Zenon
  <1> QED  BY <1>1, PackingStep, PTL DEF Spec, PlanPresents

(* An endpoint that stays wanted only leaves a slice that is over the      *)
(* limit, or one of two that hold it.                                      *)
THEOREM PackingRetains == Spec => PlanRetains
  <1> DEFINE Stays ==
        \A n \in DOMAIN slices : \A a \in DOMAIN slices[n].eps :
           /\ a \in Reachable(resolved) /\ GroupKey(resolved, a) = slices[n].group
           /\ Cardinality(DOMAIN slices[n].eps) <= maxPer
           /\ \A m \in DOMAIN slices : Before(m, n) => a \notin DOMAIN slices[m].eps
           => n \in DOMAIN slices' /\ a \in DOMAIN slices'[n].eps
  <1>1. PackingInv /\ [Next]_vars => [resolved' = resolved => Stays]_vars
    <2> SUFFICES ASSUME PackingInv, Next, resolved' = resolved PROVE Stays
      BY Zenon DEF vars
    <2>1. Reconcile
      BY ChangeChanges, Zenon DEF Next
    <2> DEFINE write == planSlices(slices, resolved).write
    <2>2. DOMAIN slices' = DOMAIN write /\ \A n \in DOMAIN write : slices'[n] = write[n]
      BY <2>1, ReconcileWrites, Zenon
    <2> SUFFICES ASSUME NEW n \in DOMAIN slices, NEW a \in DOMAIN slices[n].eps,
                        a \in Reachable(resolved), GroupKey(resolved, a) = slices[n].group,
                        Cardinality(DOMAIN slices[n].eps) <= maxPer,
                        \A m \in DOMAIN slices : Before(m, n) => a \notin DOMAIN slices[m].eps
                 PROVE  n \in DOMAIN slices' /\ a \in DOMAIN slices'[n].eps
      BY Zenon
    <2>3. n \in DOMAIN write /\ a \in DOMAIN write[n].eps
      BY PlanKeeps, Zenon DEF PackingInv
    <2> HIDE DEF write
    <2> QED  BY <2>2, <2>3, Zenon
  <1> QED  BY <1>1, PackingStep, PTL DEF Spec, PlanRetains

(* An endpoint that is the same in two lists is reachable in both or in    *)
(* neither, under the same group and with the same condition.              *)
LEMMA SameEndpoint ==
    ASSUME NEW q \in Resolved, NEW r \in Resolved, NEW a \in Addresses, a \notin Differing(q, r)
    PROVE  /\ a \in Reachable(q) <=> a \in Reachable(r)
           /\ a \in Reachable(q) => GroupKey(q, a) = GroupKey(r, a) /\ q[a].cond = r[a].cond
  BY Zenon DEF Differing, Reachable, GroupKey

(* An endpoint of both lists has one group. *)
LEMMA SameGroup ==
    ASSUME NEW q, NEW r, NEW a \in Reachable(q) \cap Reachable(r),
           \A b \in DOMAIN q \cap DOMAIN r : q[b].ports = r[b].ports
    PROVE  GroupKey(q, a) = GroupKey(r, a)
  BY Zenon DEF Reachable, GroupKey

(* Where an endpoint is before or after a plan is carried out. *)
At(before, after, a, n) ==
    \/ n \in DOMAIN before /\ a \in DOMAIN before[n].eps
    \/ n \in DOMAIN after /\ a \in DOMAIN after[n].eps

(* From slices that present q, the plan for r keeps every endpoint of both *)
(* where it is, and the slices of the others are the same ones.            *)
LEMMA PlanKeepsAll ==
    ASSUME NEW E, IsLayout(E), \A n \in DOMAIN E : E[n] \in Slice,
           NEW q \in Resolved, NEW r \in Resolved, Presents(E, q),
           \A b \in DOMAIN q \cap DOMAIN r : q[b].ports = r[b].ports,
           NEW n \in DOMAIN E, NEW a \in DOMAIN E[n].eps, a \in Reachable(r)
    PROVE  LET w == planSlices(E, r).write
           IN  /\ n \in DOMAIN w /\ a \in DOMAIN w[n].eps /\ w[n].group = E[n].group
               /\ \A m \in DOMAIN E : a \in DOMAIN E[m].eps => m = n
               /\ \A m \in DOMAIN w : a \in DOMAIN w[m].eps => m = n
  <1> DEFINE w == planSlices(E, r).write
  <1>1. a \in Reachable(q) /\ Cardinality(DOMAIN E[n].eps) <= maxPer
    BY Zenon DEF Presents
  <1>2. PICK k \in DOMAIN E : /\ E[k].group = GroupKey(q, a)
                              /\ \A m \in DOMAIN E : a \in DOMAIN E[m].eps => m = k
    BY <1>1, Zenon DEF Presents
  <1>3. k = n /\ \A m \in DOMAIN E : a \in DOMAIN E[m].eps => m = n
    BY <1>2, Zenon
  <1>4. GroupKey(r, a) = E[n].group
    BY <1>1, <1>2, <1>3, SameGroup
  <1>5. \A m \in DOMAIN E : Before(m, n) => a \notin DOMAIN E[m].eps
    <2>1. n \in Nat \X Nat
      BY DEF IsLayout, Name
    <2>2. ~Before(n, n)
      BY <2>1, BeforeOrders, Zenon
    <2> QED  BY <1>3, <2>2, Zenon
  <1>6. n \in DOMAIN w /\ a \in DOMAIN w[n].eps
    BY <1>1, <1>4, <1>5, PlanKeeps, Zenon
  <1>7. Presents(w, r)
    BY PlanIsRight, Zenon
  <1> HIDE DEF w
  <1>8. PICK l \in DOMAIN w : /\ w[l].group = GroupKey(r, a)
                              /\ \A m \in DOMAIN w : a \in DOMAIN w[m].eps => m = l
    BY <1>7 DEF Presents
  <1>9. l = n
    BY <1>6, <1>8, Zenon
  <1> QED  BY <1>3, <1>4, <1>6, <1>8, <1>9, Zenon DEF w

(* A slice with no differing endpoint before or after is not written.      *)
LEMMA OthersUntouched ==
    ASSUME NEW E, IsLayout(E), \A n \in DOMAIN E : E[n] \in Slice /\ E[n].listed,
           NEW q \in Resolved, NEW r \in Resolved, Presents(E, q),
           \A b \in DOMAIN q \cap DOMAIN r : q[b].ports = r[b].ports,
           NEW n, n \in DOMAIN E \cup DOMAIN planSlices(E, r).write,
           \A a \in Differing(q, r) : ~At(E, planSlices(E, r).write, a, n)
    PROVE  LET w == planSlices(E, r).write
           IN  n \in DOMAIN E /\ n \in DOMAIN w /\ w[n] = E[n]
  <1> DEFINE w == planSlices(E, r).write
  <1>1. Presents(w, r) /\ \A m \in DOMAIN w : w[m] \in Slice /\ w[m].listed
    BY PlanIsRight, PlanTyped, PlanListed, Zenon
  <1>2. \A m \in DOMAIN E : \A a \in DOMAIN E[m].eps : a \in Reachable(r) =>
           /\ m \in DOMAIN w /\ a \in DOMAIN w[m].eps /\ w[m].group = E[m].group
           /\ \A k \in DOMAIN w : a \in DOMAIN w[k].eps => k = m
    BY PlanKeepsAll
  <1>3. /\ n \in DOMAIN E \cup DOMAIN w
        /\ \A a \in Differing(q, r) : ~At(E, w, a, n)
    BY Zenon
  <1> HIDE DEF w
  <1>4. Reachable(q) \subseteq Addresses /\ Reachable(r) \subseteq Addresses
    BY GroupsPartition, Zenon
  <1>5. ASSUME n \in DOMAIN E, NEW a \in DOMAIN E[n].eps
        PROVE  /\ a \in Reachable(r) /\ q[a].cond = r[a].cond /\ E[n].eps[a] = q[a].cond
    <2>1. a \in Reachable(q)
      BY <1>5, Zenon DEF Presents
    <2>2. a \notin Differing(q, r) /\ a \in Addresses
      BY <1>3, <1>4, <1>5, <2>1, Zenon DEF At
    <2>3. PICK m \in DOMAIN E : /\ E[m].eps[a] = q[a].cond
                                /\ \A k \in DOMAIN E : a \in DOMAIN E[k].eps => k = m
      BY <2>1, Zenon DEF Presents
    <2>4. m = n
      BY <1>5, <2>3, Zenon
    <2> QED  BY <2>1, <2>2, <2>3, <2>4, SameEndpoint, Zenon
  <1>6. ASSUME n \in DOMAIN w, NEW a \in DOMAIN w[n].eps
        PROVE  /\ n \in DOMAIN E /\ a \in DOMAIN E[n].eps /\ w[n].eps[a] = r[a].cond
    <2>1. a \in Reachable(r)
      BY <1>1, <1>6, Zenon DEF Presents
    <2>2. a \notin Differing(q, r) /\ a \in Addresses
      BY <1>3, <1>4, <1>6, <2>1, Zenon DEF At
    <2>3. a \in Reachable(q)
      BY <2>1, <2>2, SameEndpoint, Zenon
    <2>4. PICK m \in DOMAIN E : a \in DOMAIN E[m].eps
      BY <2>3, Zenon DEF Presents
    <2>5. n = m
      BY <1>2, <1>6, <2>1, <2>4, Zenon
    <2>6. PICK k \in DOMAIN w : /\ w[k].eps[a] = r[a].cond
                                /\ \A l \in DOMAIN w : a \in DOMAIN w[l].eps => l = k
      BY <1>1, <2>1 DEF Presents
    <2>7. k = n
      BY <1>6, <2>6, Zenon
    <2> QED  BY <2>4, <2>5, <2>6, <2>7, Zenon
  <1>7. n \in DOMAIN E
    <2>1. ASSUME n \in DOMAIN w PROVE n \in DOMAIN E
      <3>1. PICK a : a \in DOMAIN w[n].eps
        BY <1>1, <2>1, Zenon DEF Presents
      <3> QED  BY <1>6, <2>1, <3>1, Zenon
    <2> QED  BY <1>3, <2>1, Zenon
  <1>8. n \in DOMAIN w /\ w[n].group = E[n].group
    <2>1. PICK a : a \in DOMAIN E[n].eps
      BY <1>7, Zenon DEF Presents
    <2>2. a \in Reachable(r)
      BY <1>5, <1>7, <2>1, Zenon
    <2> QED  BY <1>2, <1>7, <2>1, <2>2, Zenon
  <1>9. w[n].eps = E[n].eps
    <2>1. DOMAIN w[n].eps = DOMAIN E[n].eps
      <3>1. \A a \in DOMAIN E[n].eps : a \in DOMAIN w[n].eps
        BY <1>2, <1>5, <1>7, Zenon
      <3>2. \A a \in DOMAIN w[n].eps : a \in DOMAIN E[n].eps
        BY <1>6, <1>8, Zenon
      <3> QED  BY <3>1, <3>2, Zenon
    <2>2. \A a \in DOMAIN w[n].eps : w[n].eps[a] = E[n].eps[a]
      BY <1>5, <1>6, <1>7, <1>8, Zenon
    <2>3. w[n].eps \in Entries /\ E[n].eps \in Entries
      BY <1>1, <1>7, <1>8, Zenon DEF Slice
    <2>4. \A f \in Entries : f = [a \in DOMAIN f |-> f[a]]
      BY Zenon DEF Entries
    <2> QED  BY <2>1, <2>2, <2>3, <2>4, Zenon
  <1>10. w[n].listed = E[n].listed
    <2>1. w[n] \in Slice /\ E[n] \in Slice /\ w[n].listed /\ E[n].listed
      BY <1>1, <1>7, <1>8, Zenon
    <2>2. \A v \in Slice : v.listed \in BOOLEAN
      BY Zenon DEF Slice
    <2> QED  BY <2>1, <2>2, Zenon
  <1>11. \A v \in Slice : v = [group |-> v.group, eps |-> v.eps, listed |-> v.listed]
    BY DEF Slice
  <1>12. w[n] = E[n]
    <2>1. w[n] \in Slice /\ E[n] \in Slice
      BY <1>1, <1>7, <1>8, Zenon
    <2> QED  BY <1>8, <1>9, <1>10, <1>11, <2>1, Zenon
  <1> QED  BY <1>7, <1>8, <1>12, Zenon DEF w

(* One endpoint is in one place at most before and after. *)
LEMMA OnePlace ==
    ASSUME NEW E, IsLayout(E), \A n \in DOMAIN E : E[n] \in Slice,
           NEW q \in Resolved, NEW r \in Resolved, Presents(E, q),
           \A b \in DOMAIN q \cap DOMAIN r : q[b].ports = r[b].ports,
           NEW a, NEW m, NEW n,
           At(E, planSlices(E, r).write, a, m), At(E, planSlices(E, r).write, a, n)
    PROVE  m = n
  <1> DEFINE w == planSlices(E, r).write
  <1>1. Presents(w, r)
    BY PlanIsRight, Zenon
  <1>2. \A k \in DOMAIN E : a \in DOMAIN E[k].eps /\ a \in Reachable(r) =>
           \A l \in DOMAIN w : a \in DOMAIN w[l].eps => l = k
    BY PlanKeepsAll
  <1>3. At(E, w, a, m) /\ At(E, w, a, n)
    BY Zenon
  <1> HIDE DEF w
  <1>4. \A k, l \in DOMAIN E : a \in DOMAIN E[k].eps /\ a \in DOMAIN E[l].eps => k = l
    BY Zenon DEF Presents
  <1>5. \A k, l \in DOMAIN w : a \in DOMAIN w[k].eps /\ a \in DOMAIN w[l].eps => k = l
    BY <1>1, Zenon DEF Presents
  <1>6. \A l \in DOMAIN w : a \in DOMAIN w[l].eps => a \in Reachable(r)
    BY <1>1, Zenon DEF Presents
  <1> QED  BY <1>2, <1>3, <1>4, <1>5, <1>6, Zenon DEF At

(* Slices that present a list are left alone while the list is the same,   *)
(* and one endpoint coming, going or changing its condition costs at most  *)
(* one write: the slice it was on, the one that has room for it or a new   *)
(* one.                                                                    *)
THEOREM PackingWritesOnce == Spec => OneChangeOneWrite
  <1>1. PackingInv /\ [Next]_vars =>
          [resolved' = resolved /\ Presents(slices, earlier) =>
             Cardinality(Touched) <= (IF resolved = earlier THEN 0 ELSE 1)]_vars
    <2> SUFFICES ASSUME PackingInv, Next, resolved' = resolved, Presents(slices, earlier)
                 PROVE  Cardinality(Touched) <= (IF resolved = earlier THEN 0 ELSE 1)
      BY Zenon DEF vars
    <2>1. Reconcile
      BY ChangeChanges, Zenon DEF Next
    <2> DEFINE w == planSlices(slices, resolved).write
               D == Differing(earlier, resolved)
    <2>2. DOMAIN slices' = DOMAIN w /\ \A n \in DOMAIN w : slices'[n] = w[n]
      BY <2>1, ReconcileWrites, Zenon
    <2>3. /\ IsLayout(slices) /\ \A n \in DOMAIN slices : slices[n] \in Slice /\ slices[n].listed
          /\ resolved \in Resolved /\ earlier \in Resolved
          /\ resolved = earlier \/ Cardinality(D) = 1
          /\ \A b \in DOMAIN earlier \cap DOMAIN resolved : earlier[b].ports = resolved[b].ports
      BY Zenon DEF PackingInv, OneChange
    <2>4. \A n \in Touched : \E a \in D : At(slices, w, a, n)
      <3> SUFFICES ASSUME NEW n \in Touched, \A a \in D : ~At(slices, w, a, n)
                   PROVE  FALSE
        BY Zenon
      <3>1. n \in DOMAIN slices \cup DOMAIN w
        BY <2>2, Zenon DEF Touched
      <3>2. n \in DOMAIN slices /\ n \in DOMAIN w /\ w[n] = slices[n]
        BY <2>3, <3>1, OthersUntouched
      <3> HIDE DEF w
      <3> QED  BY <2>2, <3>2, Zenon DEF Touched
    <2>5. \A a : \A m, n \in Touched : At(slices, w, a, m) /\ At(slices, w, a, n) => m = n
      BY <2>3, OnePlace, Zenon
    <2> HIDE DEF w
    <2>6. CASE resolved = earlier
      <3>1. D = {}
        BY <2>6, Zenon DEF Differing
      <3>2. Touched = {}
        BY <2>4, <3>1, Zenon
      <3>3. Cardinality(Touched) = 0
        BY <3>2, FS_EmptySet, Zenon
      <3> QED  BY <2>6, <3>3
    <2>7. CASE resolved # earlier
      <3>1. IsFiniteSet(D) /\ Cardinality(D) = 1
        <4>1. D \in SUBSET Addresses
          BY Zenon DEF Differing
        <4> QED  BY <2>3, <2>7, <4>1, PlanAssumption, FS_Subset, Zenon
      <3> HIDE DEF D
      <3>2. PICK d : D = {d}
        BY <3>1, FS_Singleton, Zenon
      <3>3. \A m, n \in Touched : m = n
        BY <2>4, <2>5, <3>2
      <3>4. Touched = {} \/ \E n : Touched = {n}
        BY <3>3
      <3>5. Cardinality(Touched) = 0 \/ Cardinality(Touched) = 1
        BY <3>4, FS_EmptySet, FS_Singleton, Zenon
      <3> QED  BY <2>7, <3>5
    <2> QED  BY <2>6, <2>7, Zenon
  <1> QED  BY <1>1, PackingStep, PTL DEF Spec, OneChangeOneWrite
=============================================================================
