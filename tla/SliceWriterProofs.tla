------------------------- MODULE SliceWriterProofs --------------------------
(***************************************************************************)
(* The slice writer makes good whatever stale lists, refused writes,       *)
(* restarts and people do: for any endpoints, any lag of the informer and  *)
(* any number of faults, what it rests on is what it should have written,  *)
(* and what needs not move stays where it is.                              *)
(***************************************************************************)
EXTENDS SliceWriter, SlicePlanProofs

-----------------------------------------------------------------------------
(* Maps of slices *)

SliceMap == UNION {[N -> Slice] : N \in {M \in SUBSET Name : IsFiniteSet(M)}}

(* A slice map is a layout with slices in it. *)
LEMMA SliceMapIs ==
    \A s : s \in SliceMap <=> /\ IsLayout(s) /\ \A n \in DOMAIN s : s[n] \in Slice
                              /\ s = [n \in DOMAIN s |-> s[n]]
  <1>1. ASSUME NEW s, s \in SliceMap
        PROVE  /\ IsLayout(s) /\ \A n \in DOMAIN s : s[n] \in Slice
               /\ s = [n \in DOMAIN s |-> s[n]]
    <2>1. PICK N \in SUBSET Name : IsFiniteSet(N) /\ s \in [N -> Slice]
      BY <1>1, Zenon DEF SliceMap
    <2> QED  BY <2>1, Zenon DEF IsLayout
  <1>2. ASSUME NEW s, IsLayout(s), \A n \in DOMAIN s : s[n] \in Slice, s = [n \in DOMAIN s |-> s[n]]
        PROVE  s \in SliceMap
    <2>1. s \in [DOMAIN s -> Slice]
      BY <1>2, Zenon
    <2>2. DOMAIN s \in {M \in SUBSET Name : IsFiniteSet(M)}
      BY <1>2, Zenon DEF IsLayout
    <2> QED  BY <2>1, <2>2, Zenon DEF SliceMap
  <1> QED  BY <1>1, <1>2, Zenon

(* No slices, one slice put or dropped, and the listed ones. *)
LEMMA SliceMapPut ==
    ASSUME NEW s \in SliceMap, NEW n \in Name, NEW v \in Slice
    PROVE  [m \in DOMAIN s \cup {n} |-> IF m = n THEN v ELSE s[m]] \in SliceMap
  <1> DEFINE t == [m \in DOMAIN s \cup {n} |-> IF m = n THEN v ELSE s[m]]
  <1>1. IsFiniteSet(DOMAIN s) /\ DOMAIN s \subseteq Name /\ \A m \in DOMAIN s : s[m] \in Slice
    BY SliceMapIs, Zenon DEF IsLayout
  <1>2. IsFiniteSet(DOMAIN s \cup {n})
    BY <1>1, FS_AddElement, Zenon
  <1>3. IsLayout(t)
    BY <1>1, <1>2, Zenon DEF IsLayout
  <1>4. \A m \in DOMAIN t : t[m] \in Slice
    BY <1>1, Zenon
  <1>5. t = [m \in DOMAIN t |-> t[m]]
    BY Zenon
  <1> HIDE DEF t
  <1>6. t \in SliceMap
    BY <1>3, <1>4, <1>5, SliceMapIs, Zenon
  <1> QED  BY <1>6, Zenon DEF t

(* A part of a slice map is one. *)
LEMMA SliceMapPart ==
    ASSUME NEW s \in SliceMap, NEW N \in SUBSET DOMAIN s
    PROVE  [m \in N |-> s[m]] \in SliceMap
  <1> DEFINE t == [m \in N |-> s[m]]
  <1>1. IsFiniteSet(DOMAIN s) /\ DOMAIN s \subseteq Name /\ \A m \in DOMAIN s : s[m] \in Slice
    BY SliceMapIs, Zenon DEF IsLayout
  <1>2. IsFiniteSet(N)
    BY <1>1, FS_Subset, Zenon
  <1>3. IsLayout(t) /\ (\A m \in DOMAIN t : t[m] \in Slice) /\ t = [m \in DOMAIN t |-> t[m]]
    BY <1>1, <1>2, Zenon DEF IsLayout
  <1> HIDE DEF t
  <1>4. t \in SliceMap
    BY <1>3, SliceMapIs, Zenon
  <1> QED  BY <1>4, Zenon DEF t

(* There are slice maps without a slice. *)
LEMMA NoSlicesMap == NoSlices \in SliceMap /\ DOMAIN NoSlices = {}
  <1>1. DOMAIN NoSlices = {} /\ NoSlices = [n \in DOMAIN NoSlices |-> NoSlices[n]]
    BY Zenon DEF NoSlices
  <1>2. IsLayout(NoSlices)
    BY <1>1, FS_EmptySet, Zenon DEF IsLayout
  <1> QED  BY <1>1, <1>2, SliceMapIs, Zenon

(* Writer.list gives slices. *)
LEMMA ListedMap ==
    ASSUME NEW s \in SliceMap
    PROVE  /\ Listed(s) \in SliceMap /\ DOMAIN Listed(s) \subseteq DOMAIN s
           /\ \A n \in DOMAIN Listed(s) : Listed(s)[n] = s[n]
  <1> DEFINE N == {m \in DOMAIN s : s[m].listed}
  <1>1. N \in SUBSET DOMAIN s
    BY Zenon
  <1>2. Listed(s) = [n \in N |-> s[n]]
    BY Zenon DEF Listed
  <1> HIDE DEF N
  <1> QED  BY <1>1, <1>2, SliceMapPart, Zenon

(* The order of names, on names. *)
LEMMA FirstNameIn ==
    ASSUME NEW S \in SUBSET (Nat \X Nat), IsFiniteSet(S), S # {}
    PROVE  FirstName(S) \in S
  <1>1. \E n \in S : \A m \in S : m = n \/ Before(n, m)
    BY FirstExists, Zenon
  <1> QED  BY <1>1, Zenon DEF FirstName

-----------------------------------------------------------------------------
(* Types of the writer *)

NoName == <<>>

Version == [slices : SliceMap, name : Name \cup {NoName}]

PlanType == [write : SliceMap, foreign : SUBSET Name, emptied : SUBSET Name]

WriterType ==
    /\ history \in Seq(Version) /\ Len(history) > 0
    /\ queued \in BOOLEAN
    /\ pc \in {"idle", "writing"}
    /\ existing \in SliceMap
    /\ plan \in PlanType
    /\ plan.foreign \cup plan.emptied \subseteq DOMAIN existing
    /\ DOMAIN plan.write \cap (plan.foreign \cup plan.emptied) = {}

(* What is left of the plan for the endpoints r, made from the slices that *)
(* are listed now: all that has been gone through needed no write.         *)
Rest(found, listed, left, r) ==
    LET p == planSlices(found, r)
    IN  /\ found = listed
        /\ DOMAIN left.write \subseteq DOMAIN p.write
        /\ \A n \in DOMAIN left.write : left.write[n] = p.write[n]
        /\ \A n \in DOMAIN p.write \ DOMAIN left.write : n \in DOMAIN found /\ found[n] = p.write[n]
        /\ left.foreign = p.foreign /\ left.emptied = p.emptied

(* Nothing is queued and nothing is on its way from the API server. *)
Calm == ~queued /\ Len(history) = 1

(* The server's slices, and the cached ones. *)
LEMMA ServerType ==
    ASSUME WriterType
    PROVE  /\ Server \in SliceMap /\ Listed(Server) \in SliceMap
           /\ Head(history).slices \in SliceMap
           /\ Len(history) = 1 => Head(history).slices = Server
  <1>1. Len(history) \in Nat /\ Len(history) > 0
    BY DEF WriterType
  <1>2. history[Len(history)] \in Version /\ Head(history) \in Version /\ Head(history) = history[1]
    BY <1>1 DEF WriterType
  <1>3. history[Len(history)].slices \in SliceMap /\ Head(history).slices \in SliceMap
    BY <1>2, Zenon DEF Version
  <1> QED  BY <1>2, <1>3, ListedMap, Zenon DEF Server

(* The last of one. *)
LEMMA LastOfOne == \A v : <<v>>[Len(<<v>>)] = v
  OBVIOUS

(* What the informer delivers leaves the server's version the last one. *)
LEMMA TailServer ==
    ASSUME WriterType, Len(history) > 1, history' = Tail(history)
    PROVE  Server' = Server /\ Len(history) # 1
  <1>1. history \in Seq(Version) /\ Len(history) \in Nat
    BY DEF WriterType
  <1>2. /\ Len(Tail(history)) = Len(history) - 1
        /\ Tail(history)[Len(history) - 1] = history[Len(history)]
        /\ Len(history) # 1
    BY <1>1
  <1>3. history'[Len(history')] = history[Len(history)]
    BY <1>2, Zenon
  <1> QED  BY <1>2, <1>3, Zenon DEF Server

(* A restart keeps the last version alone. *)
LEMMA LastServer ==
    ASSUME history' = history \/ history' = <<history[Len(history)]>>
    PROVE  Server' = Server
  BY LastOfOne, Zenon DEF Server

(* A write is one more version, the server's. *)
LEMMA CommitType ==
    ASSUME WriterType, NEW s \in SliceMap, NEW n \in Name, Commit(s, n)
    PROVE  history' \in Seq(Version) /\ Len(history') > 1
  <1>1. [slices |-> s, name |-> n] \in Version
    BY Zenon DEF Version
  <1>2. Len(history) \in Nat /\ history \in Seq(Version) /\ Len(history) > 0
    BY DEF WriterType
  <1> DEFINE v == [slices |-> s, name |-> n]
  <1>3. history' = Append(history, v)
    BY Zenon DEF Commit
  <1> HIDE DEF v
  <1> QED  BY <1>1, <1>2, <1>3 DEF v

(* A written slice makes one more version. *)
LEMMA PutType ==
    ASSUME WriterType, NEW n \in Name, NEW v \in Slice, Put(n, v)
    PROVE  history' \in Seq(Version) /\ Len(history') > 1
  BY ServerType, SliceMapPut, CommitType, Zenon DEF Put

(* So does a deleted one. *)
LEMMA DropType ==
    ASSUME WriterType, NEW n \in Name, Drop(n)
    PROVE  history' \in Seq(Version) /\ Len(history') > 1
  <1> DEFINE N == DOMAIN Server \ {n}
             s == [m \in N |-> Server[m]]
  <1>1. N \in SUBSET DOMAIN Server
    BY Zenon
  <1>2. Commit(s, n)
    BY Zenon DEF Drop
  <1> HIDE DEF N
  <1>3. s \in SliceMap
    BY <1>1, ServerType, SliceMapPart, Zenon
  <1> HIDE DEF s
  <1> QED  BY <1>2, <1>3, CommitType, Zenon

(* A plan is typed, its orphans were found, and none of them is written. *)
LEMMA PlanMap ==
    ASSUME NEW found \in SliceMap, NEW r \in Resolved
    PROVE  LET p == planSlices(found, r)
           IN  /\ p \in PlanType
               /\ p.foreign \cup p.emptied \subseteq DOMAIN found
               /\ DOMAIN p.write \cap (p.foreign \cup p.emptied) = {}
  <1> DEFINE p == planSlices(found, r)
  <1>1. IsLayout(found) /\ DOMAIN found \subseteq Name
    BY SliceMapIs, Zenon DEF IsLayout
  <1>2. /\ p = [write |-> p.write, foreign |-> p.foreign, emptied |-> p.emptied]
        /\ p.write = [n \in DOMAIN p.write |-> p.write[n]]
        /\ IsLayout(p.write) /\ \A n \in DOMAIN p.write : p.write[n] \in Slice
    BY <1>1, PlanTyped, Zenon
  <1>3. /\ p.foreign \cup p.emptied \subseteq DOMAIN found
        /\ DOMAIN p.write \cap (p.foreign \cup p.emptied) = {}
    BY <1>1, PlanIsRight, Zenon
  <1> HIDE DEF p
  <1>4. p.write \in SliceMap
    BY <1>2, SliceMapIs, Zenon
  <1>5. p.foreign \in SUBSET Name /\ p.emptied \in SUBSET Name
    BY <1>1, <1>3, Zenon
  <1>6. p \in PlanType
    BY <1>2, <1>4, <1>5, Zenon DEF PlanType
  <1> QED  BY <1>3, <1>6, Zenon DEF p

(* The empty plan is one. *)
LEMMA NoPlanType ==
    /\ NoPlan \in PlanType
    /\ DOMAIN NoPlan.write = {} /\ NoPlan.foreign = {} /\ NoPlan.emptied = {}
  <1>1. NoPlan.write = NoSlices /\ NoPlan.foreign = {} /\ NoPlan.emptied = {}
    BY Zenon DEF NoPlan
  <1>2. NoPlan \in PlanType
    BY NoSlicesMap, Zenon DEF NoPlan, PlanType
  <1> QED  BY <1>1, <1>2, NoSlicesMap, Zenon

-----------------------------------------------------------------------------
(* Steps of the writer *)

(* list and planSlices; a list that is up to date makes a plan of which    *)
(* all is left.                                                            *)
LEMMA PlanStep ==
    ASSUME WriterType, NEW r \in Resolved, Plan(r), history' = history, queued' \in BOOLEAN
    PROVE  /\ WriterType' /\ pc' = "writing"
           /\ Len(history) = 1 => Rest(existing', Listed(Server'), plan', r)
  <1> DEFINE found == Listed(Head(history).slices)
             p == planSlices(found, r)
  <1>1. existing' = found /\ plan' = p /\ pc' = "writing"
    BY Zenon DEF Plan
  <1>2. found \in SliceMap
    BY ServerType, ListedMap, Zenon
  <1>3. Len(history) = 1 => found = Listed(Server)
    BY ServerType, Zenon
  <1> HIDE DEF found
  <1>4. /\ p \in PlanType
        /\ p.foreign \cup p.emptied \subseteq DOMAIN found
        /\ DOMAIN p.write \cap (p.foreign \cup p.emptied) = {}
    BY <1>2, PlanMap, Zenon
  <1>5. Server' = Server
    BY Zenon DEF Server
  <1>6. WriterType'
    <2> HIDE DEF p
    <2> QED  BY <1>1, <1>2, <1>4, Zenon DEF WriterType
  <1>7. Rest(found, found, p, r)
    BY Zenon DEF Rest
  <1>8. Listed(Server') = Listed(Server)
    BY <1>5, Zenon
  <1> HIDE DEF p
  <1> QED  BY <1>1, <1>3, <1>6, <1>7, <1>8, Zenon

(* A reconcile that ends, well or not. *)
LEMMA FinishType ==
    ASSUME Finish, history' \in Seq(Version), Len(history') > 0, queued' \in BOOLEAN
    PROVE  WriterType'
  BY NoPlanType, NoSlicesMap, Zenon DEF Finish, WriterType

(* A refused call leaves everything to the next reconcile. *)
LEMMA RefusedStep ==
    ASSUME WriterType, Refused
    PROVE  WriterType' /\ queued' /\ pc' = "idle"
  <1>1. queued' = TRUE /\ Finish /\ history' = history
    BY Zenon DEF Refused
  <1>2. history' \in Seq(Version) /\ Len(history') > 0 /\ queued' \in BOOLEAN
    BY <1>1, Zenon DEF WriterType
  <1>3. WriterType'
    BY <1>1, <1>2, FinishType, Zenon
  <1> QED  BY <1>1, <1>3, Zenon DEF Finish

(* The next slice is one of those to write. *)
LEMMA NextNameIn ==
    ASSUME WriterType, DOMAIN plan.write # {}
    PROVE  NextName \in DOMAIN plan.write /\ NextName \in Name /\ plan.write[NextName] \in Slice
  <1>1. plan.write \in SliceMap
    BY Zenon DEF WriterType, PlanType
  <1>2. /\ IsFiniteSet(DOMAIN plan.write) /\ DOMAIN plan.write \subseteq Name
        /\ \A n \in DOMAIN plan.write : plan.write[n] \in Slice
    BY <1>1, SliceMapIs, Zenon DEF IsLayout
  <1>3. DOMAIN plan.write \in SUBSET (Nat \X Nat)
    BY <1>2 DEF Name
  <1>4. NextName \in DOMAIN plan.write
    BY <1>2, <1>3, FirstNameIn, Zenon DEF NextName
  <1> QED  BY <1>2, <1>4, Zenon

(* A slice that has been gone through is off the plan. *)
LEMMA WrittenType ==
    ASSUME WriterType, NEW n, Written(n)
    PROVE  /\ plan' \in PlanType
           /\ DOMAIN plan'.write = DOMAIN plan.write \ {n}
           /\ \A m \in DOMAIN plan'.write : plan'.write[m] = plan.write[m]
           /\ plan'.foreign = plan.foreign /\ plan'.emptied = plan.emptied
  <1> DEFINE N == DOMAIN plan.write \ {n}
             w == [m \in N |-> plan.write[m]]
  <1>1. plan' = [plan EXCEPT !.write = w]
    BY Zenon DEF Written
  <1>2. plan \in PlanType /\ plan.write \in SliceMap
    BY Zenon DEF WriterType, PlanType
  <1>3. N \in SUBSET DOMAIN plan.write
    BY Zenon
  <1>4. DOMAIN w = N /\ \A m \in N : w[m] = plan.write[m]
    BY Zenon
  <1> HIDE DEF N
  <1>5. w \in SliceMap
    BY <1>2, <1>3, SliceMapPart, Zenon
  <1> HIDE DEF w
  <1>6. /\ plan' \in PlanType /\ plan'.write = w
        /\ plan'.foreign = plan.foreign /\ plan'.emptied = plan.emptied
    BY <1>1, <1>2, <1>5, Zenon DEF PlanType
  <1> QED  BY <1>4, <1>6, Zenon DEF N

(* The next orphan is one. *)
LEMMA NextOrphanIn ==
    ASSUME WriterType, plan.foreign \cup plan.emptied # {}
    PROVE  NextOrphan \in plan.foreign \cup plan.emptied /\ NextOrphan \in Name
  <1> DEFINE key(n) == <<existing[n].group.family, existing[n].group.ports>>
             E == plan.emptied
             K == {key(n) : n \in E}
             F == {n \in E : \A m \in E : key(m) = key(n) \/ Before(key(n), key(m))}
  <1>1. /\ IsFiniteSet(DOMAIN existing) /\ DOMAIN existing \subseteq Name
        /\ \A n \in DOMAIN existing : existing[n] \in Slice
    BY SliceMapIs, Zenon DEF WriterType, IsLayout
  <1>2. plan.foreign \in SUBSET DOMAIN existing /\ E \in SUBSET DOMAIN existing
    BY Zenon DEF WriterType
  <1>3. IsFiniteSet(plan.foreign) /\ IsFiniteSet(E)
    BY <1>1, <1>2, FS_Subset, Zenon
  <1>4. plan.foreign \in SUBSET (Nat \X Nat) /\ E \in SUBSET (Nat \X Nat)
    BY <1>1, <1>2 DEF Name
  <1>5. CASE plan.foreign # {}
    <2>1. NextOrphan = FirstName(plan.foreign)
      BY <1>5, Zenon DEF NextOrphan
    <2>2. NextOrphan \in plan.foreign
      BY <1>3, <1>4, <1>5, <2>1, FirstNameIn, Zenon
    <2> QED  BY <1>1, <1>2, <2>2, Zenon
  <1>6. CASE plan.foreign = {}
    <2>1. NextOrphan = FirstName(F)
      BY <1>6, Zenon DEF NextOrphan
    <2>2. E # {}
      BY <1>6, Zenon
    <2>3. \A n \in E : key(n) \in Nat \X Nat
      <3> TAKE n \in E
      <3>1. existing[n].group \in Group
        BY <1>1, <1>2, Zenon DEF Slice
      <3>2. \A g \in Group : g.family \in Nat /\ g.ports \in PortTuples
        BY DEF Group
      <3>3. existing[n].group.family \in Nat /\ existing[n].group.ports \in PortTuples
        BY <3>1, <3>2, Zenon
      <3>4. PortTuples \subseteq Nat
        BY PlanAssumption, Zenon
      <3> QED  BY <3>3, <3>4, Zenon
    <2>4. IsFiniteSet(K) /\ K \in SUBSET (Nat \X Nat) /\ K # {}
      <3> DEFINE f == [n \in E |-> key(n)]
      <3>1. K \in SUBSET (Nat \X Nat) /\ K # {}
        BY <2>2, <2>3, Zenon
      <3> HIDE DEF E, key
      <3>2. f \in Surjection(E, K)
        BY Zenon DEF Surjection
      <3> HIDE DEF K, f
      <3> QED  BY <1>3, <3>1, <3>2, FS_Surjection, Zenon DEF E
    <2>5. PICK k \in K : \A l \in K : l = k \/ Before(k, l)
      <3> HIDE DEF K
      <3> QED  BY <2>4, FirstExists, Zenon
    <2> HIDE DEF key
    <2>6. PICK n \in E : k = key(n)
      BY <2>5, Zenon
    <2>7. n \in F
      BY <2>5, <2>6, Zenon
    <2>8. F \in SUBSET E /\ F # {}
      BY <2>7, Zenon
    <2> HIDE DEF F
    <2>9. IsFiniteSet(F) /\ F \in SUBSET (Nat \X Nat)
      BY <1>3, <1>4, <2>8, FS_Subset, Zenon
    <2>10. NextOrphan \in F
      BY <2>1, <2>8, <2>9, FirstNameIn, Zenon
    <2> QED  BY <1>1, <1>2, <2>8, <2>10, Zenon
  <1> QED  BY <1>5, <1>6, Zenon

(* A slice that is put and goes off the plan. *)
LEMMA PutStep ==
    ASSUME WriterType, DOMAIN plan.write # {}, Put(NextName, plan.write[NextName]),
           Written(NextName), UNCHANGED <<queued, pc, existing, outdated>>
    PROVE  WriterType' /\ ~Calm'
  <1>1. history' \in Seq(Version) /\ Len(history') # 1 /\ Len(history') > 0
    <2>1. history' \in Seq(Version) /\ Len(history') > 1
      BY NextNameIn, PutType, Zenon
    <2>2. Len(history') \in Nat
      BY <2>1
    <2>3. \A k \in Nat : k > 1 => k # 1 /\ k > 0
      OBVIOUS
    <2> QED  BY <2>1, <2>2, <2>3, Zenon
  <1>2. /\ plan' \in PlanType
        /\ DOMAIN plan'.write = DOMAIN plan.write \ {NextName}
        /\ plan'.foreign = plan.foreign /\ plan'.emptied = plan.emptied
    BY WrittenType, Zenon
  <1>3. queued' \in BOOLEAN /\ pc' \in {"idle", "writing"} /\ existing' = existing /\ existing \in SliceMap
    BY Zenon DEF WriterType
  <1>4. /\ plan.foreign \cup plan.emptied \subseteq DOMAIN existing
        /\ DOMAIN plan.write \cap (plan.foreign \cup plan.emptied) = {}
    BY Zenon DEF WriterType
  <1>5. /\ plan'.foreign \cup plan'.emptied \subseteq DOMAIN existing'
        /\ DOMAIN plan'.write \cap (plan'.foreign \cup plan'.emptied) = {}
    BY <1>2, <1>3, <1>4, Zenon
  <1> QED  BY <1>1, <1>2, <1>3, <1>5, Zenon DEF WriterType, Calm

(* sliceEqual goes through a slice without a write: the rest of a plan is  *)
(* still the rest of it.                                                   *)
LEMMA KeepStep ==
    ASSUME WriterType, Keep
    PROVE  /\ WriterType'
           /\ \A r : Rest(existing, Listed(Server), plan, r) => Rest(existing', Listed(Server'), plan', r)
  <1> DEFINE n == NextName
  <1>1. /\ DOMAIN plan.write # {} /\ n \in DOMAIN existing /\ plan.write[n] = existing[n] /\ Written(n)
        /\ history' = history /\ queued' = queued /\ pc' = pc /\ existing' = existing
    BY Zenon DEF Keep
  <1>2. n \in DOMAIN plan.write
    BY <1>1, NextNameIn, Zenon
  <1>3. /\ plan' \in PlanType
        /\ DOMAIN plan'.write = DOMAIN plan.write \ {n}
        /\ \A m \in DOMAIN plan'.write : plan'.write[m] = plan.write[m]
        /\ plan'.foreign = plan.foreign /\ plan'.emptied = plan.emptied
    BY <1>1, WrittenType, Zenon
  <1>4. Listed(Server') = Listed(Server)
    <2>1. Server' = Server
      BY <1>1, Zenon DEF Server
    <2> QED  BY <2>1, Zenon
  <1> HIDE DEF n
  <1>5. /\ plan'.foreign \cup plan'.emptied \subseteq DOMAIN existing'
        /\ DOMAIN plan'.write \cap (plan'.foreign \cup plan'.emptied) = {}
    BY <1>1, <1>3, Zenon DEF WriterType
  <1>6. WriterType'
    BY <1>1, <1>3, <1>5, Zenon DEF WriterType
  <1>7. ASSUME NEW r, Rest(existing, Listed(Server), plan, r)
        PROVE  Rest(existing', Listed(Server'), plan', r)
    <2> DEFINE p == planSlices(existing, r)
    <2>1. /\ existing = Listed(Server)
          /\ DOMAIN plan.write \subseteq DOMAIN p.write
          /\ \A m \in DOMAIN plan.write : plan.write[m] = p.write[m]
          /\ \A m \in DOMAIN p.write \ DOMAIN plan.write : m \in DOMAIN existing /\ existing[m] = p.write[m]
          /\ plan.foreign = p.foreign /\ plan.emptied = p.emptied
      BY <1>7, Zenon DEF Rest
    <2> HIDE DEF p
    <2>2. /\ DOMAIN plan'.write \subseteq DOMAIN p.write
          /\ \A m \in DOMAIN plan'.write : plan'.write[m] = p.write[m]
          /\ \A m \in DOMAIN p.write \ DOMAIN plan'.write : m \in DOMAIN existing /\ existing[m] = p.write[m]
          /\ plan'.foreign = p.foreign /\ plan'.emptied = p.emptied
      BY <1>1, <1>2, <1>3, <2>1, Zenon
    <2>3. existing' = existing /\ existing = Listed(Server')
      BY <1>1, <1>4, <2>1, Zenon
    <2> QED  BY <2>2, <2>3, Zenon DEF Rest, p
  <1> QED  BY <1>6, <1>7, Zenon

(* An orphan that is there is dropped; Calm, all of them are there.        *)
LEMMA DeleteStep ==
    ASSUME WriterType, Delete
    PROVE  /\ WriterType' /\ pc' = "writing"
           /\ Calm' => Calm /\ existing # Listed(Server)
  <1> DEFINE o == NextOrphan
  <1>1. /\ plan.foreign \cup plan.emptied # {}
        /\ IF o \in DOMAIN Server THEN Drop(o) ELSE history' = history
        /\ plan' = [plan EXCEPT !.foreign = @ \ {o}, !.emptied = @ \ {o}]
        /\ queued' = queued /\ pc' = pc /\ existing' = existing /\ pc = "writing"
    BY Zenon DEF Delete
  <1>2. o \in plan.foreign \cup plan.emptied /\ o \in Name
    BY <1>1, NextOrphanIn, Zenon
  <1> HIDE DEF o
  <1>3. history' \in Seq(Version) /\ Len(history') > 0 /\ Len(history') \in Nat
        /\ (o \in DOMAIN Server => Len(history') > 1)
    <2>1. CASE o \in DOMAIN Server
      <3>1. Drop(o)
        BY <1>1, <2>1, Zenon
      <3>2. history' \in Seq(Version) /\ Len(history') > 1
        BY <1>2, <3>1, DropType, Zenon
      <3>3. Len(history') \in Nat
        BY <3>2
      <3> QED  BY <3>2, <3>3
    <2>2. CASE o \notin DOMAIN Server
      BY <1>1, <2>2 DEF WriterType
    <2> QED  BY <2>1, <2>2, Zenon
  <1>4. /\ plan' \in PlanType /\ plan'.write = plan.write
        /\ plan'.foreign = plan.foreign \ {o} /\ plan'.emptied = plan.emptied \ {o}
    <2>1. plan \in PlanType
      BY Zenon DEF WriterType
    <2> QED  BY <1>1, <2>1, Zenon DEF PlanType
  <1>5. WriterType'
    <2>1. /\ plan.foreign \cup plan.emptied \subseteq DOMAIN existing
          /\ DOMAIN plan.write \cap (plan.foreign \cup plan.emptied) = {}
          /\ queued \in BOOLEAN /\ pc \in {"idle", "writing"} /\ existing \in SliceMap
      BY Zenon DEF WriterType
    <2>2. /\ plan'.foreign \cup plan'.emptied \subseteq DOMAIN existing'
          /\ DOMAIN plan'.write \cap (plan'.foreign \cup plan'.emptied) = {}
      BY <1>1, <1>4, <2>1, Zenon
    <2> QED  BY <1>1, <1>3, <1>4, <2>1, <2>2, Zenon DEF WriterType
  <1>6. ASSUME Calm' PROVE Calm /\ existing # Listed(Server)
    <2>1. Len(history') = 1 /\ ~queued'
      BY <1>6, Zenon DEF Calm
    <2>2. o \notin DOMAIN Server
      BY <1>3, <2>1
    <2>3. history' = history
      BY <1>1, <2>2, Zenon
    <2>4. o \in DOMAIN existing
      BY <1>2, Zenon DEF WriterType
    <2>5. DOMAIN Listed(Server) \subseteq DOMAIN Server
      BY ServerType, ListedMap, Zenon
    <2> QED  BY <1>1, <2>1, <2>2, <2>3, <2>4, <2>5, Zenon DEF Calm
  <1> QED  BY <1>1, <1>5, <1>6, Zenon

(* A plan of which nothing is left, and nothing was written: the slices    *)
(* that are listed are the plan's.                                         *)
LEMMA NothingLeft ==
    ASSUME NEW listed \in SliceMap, NEW r \in Resolved, Rest(listed, listed, NoPlan, r)
    PROVE  Presents(listed, r)
  <1> DEFINE p == planSlices(listed, r)
  <1>1. IsLayout(listed)
    BY SliceMapIs, Zenon
  <1>2. Presents(p.write, r) /\ DOMAIN listed \subseteq DOMAIN p.write \cup p.foreign \cup p.emptied
    BY <1>1, PlanIsRight, Zenon
  <1>3. /\ \A n \in DOMAIN p.write : n \in DOMAIN listed /\ listed[n] = p.write[n]
        /\ p.foreign = {} /\ p.emptied = {}
    BY NoPlanType, Zenon DEF Rest
  <1> HIDE DEF p
  <1>4. DOMAIN listed = DOMAIN p.write
    BY <1>2, <1>3, Zenon
  <1> QED  BY <1>2, <1>3, <1>4, PresentsSame, Zenon

(* A step of a reconcile that is writing the endpoints r: as long as       *)
(* nothing else happens, what it leaves is the rest of its plan, and it    *)
(* ends with the endpoints presented.                                      *)
LEMMA WriteStep ==
    ASSUME WriterType, NEW r \in Resolved, Calm => Rest(existing, Listed(Server), plan, r),
           Create \/ Keep \/ Update \/ Delete \/ Done
    PROVE  /\ WriterType'
           /\ Calm' /\ pc' = "writing" => Rest(existing', Listed(Server'), plan', r)
           /\ Calm' /\ pc' = "idle" => Presents(Listed(Server'), r)
  <1>1. CASE Create
    <2>1. CASE NextName \in DOMAIN Server
      <3>1. Refused
        BY <1>1, <2>1, Zenon DEF Create
      <3> QED  BY <3>1, RefusedStep, Zenon DEF Calm
    <2>2. CASE NextName \notin DOMAIN Server
      <3>1. WriterType' /\ ~Calm'
        BY <1>1, <2>2, PutStep, Zenon DEF Create
      <3> QED  BY <3>1, Zenon
    <2> QED  BY <2>1, <2>2, Zenon
  <1>2. CASE Keep
    <2>1. /\ WriterType'
          /\ Rest(existing, Listed(Server), plan, r) => Rest(existing', Listed(Server'), plan', r)
      BY <1>2, KeepStep, Zenon
    <2>2. Calm' => Calm
      BY <1>2, Zenon DEF Keep, Calm
    <2>3. pc' = "writing"
      BY <1>2, Zenon DEF Keep
    <2> QED  BY <2>1, <2>2, <2>3, Zenon
  <1>3. CASE Update
    <2>1. CASE NextName \in outdated
      <3>1. Refused
        BY <1>3, <2>1, Zenon DEF Update
      <3> QED  BY <3>1, RefusedStep, Zenon DEF Calm
    <2>2. CASE NextName \notin outdated
      <3>1. WriterType' /\ ~Calm'
        BY <1>3, <2>2, PutStep, Zenon DEF Update
      <3> QED  BY <3>1, Zenon
    <2> QED  BY <2>1, <2>2, Zenon
  <1>4. CASE Delete
    <2>1. WriterType' /\ pc' = "writing" /\ (Calm' => Calm /\ existing # Listed(Server))
      BY <1>4, DeleteStep, Zenon
    <2>2. Calm => existing = Listed(Server)
      BY Zenon DEF Rest
    <2> QED  BY <2>1, <2>2, Zenon
  <1>5. CASE Done
    <2>1. plan = NoPlan /\ Finish /\ history' = history /\ queued' = queued
      BY <1>5, Zenon DEF Done
    <2>2. WriterType'
      <3>1. history' \in Seq(Version) /\ Len(history') > 0 /\ queued' \in BOOLEAN
        BY <2>1, Zenon DEF WriterType
      <3> QED  BY <2>1, <3>1, FinishType, Zenon
    <2>3. pc' = "idle"
      BY <2>1, Zenon DEF Finish
    <2>4. ASSUME Calm' PROVE Presents(Listed(Server'), r)
      <3>1. Calm /\ Listed(Server') = Listed(Server)
        <4>1. Calm
          BY <2>1, <2>4, Zenon DEF Calm
        <4>2. Server' = Server
          BY <2>1, Zenon DEF Server
        <4> QED  BY <4>1, <4>2, Zenon
      <3>2. Rest(existing, Listed(Server), NoPlan, r)
        BY <2>1, <3>1, Zenon
      <3>3. existing = Listed(Server)
        BY <3>2, Zenon DEF Rest
      <3>4. Rest(Listed(Server), Listed(Server), NoPlan, r)
        BY <3>2, <3>3, Zenon
      <3>5. Presents(Listed(Server), r)
        BY <3>4, ServerType, NothingLeft, Zenon
      <3> QED  BY <3>1, <3>5, Zenon
    <2> QED  BY <2>2, <2>3, <2>4, Zenon
  <1> QED  BY <1>1, <1>2, <1>3, <1>4, <1>5, Zenon

-----------------------------------------------------------------------------
(* Steps around the writer *)

(* The informer delivers a version, and the owner is enqueued. *)
LEMMA DeliverStep ==
    ASSUME WriterType, Deliver
    PROVE  WriterType' /\ queued'
  <1>1. /\ Len(history) > 1 /\ history' = Tail(history) /\ queued' = TRUE
        /\ pc' = pc /\ existing' = existing /\ plan' = plan
    BY Zenon DEF Deliver
  <1>2. history' \in Seq(Version) /\ Len(history') > 0
    <2>1. history \in Seq(Version) /\ Len(history) \in Nat
      BY DEF WriterType
    <2>2. Tail(history) \in Seq(Version) /\ Len(Tail(history)) = Len(history) - 1
      BY <1>1, <2>1
    <2> QED  BY <1>1, <2>1, <2>2
  <1> QED  BY <1>1, <1>2, Zenon DEF WriterType

(* A restart relists what the server has. *)
LEMMA RestartStep ==
    ASSUME WriterType, Restart
    PROVE  WriterType' /\ queued' /\ pc' = "idle"
  <1>1. history' = <<history[Len(history)]>> /\ queued' = TRUE /\ Finish
    BY Zenon DEF Restart
  <1>2. history[Len(history)] \in Version
    BY DEF WriterType
  <1>3. history' \in Seq(Version) /\ Len(history') > 0
    BY <1>1, <1>2
  <1>4. WriterType'
    BY <1>1, <1>3, FinishType, Zenon
  <1> QED  BY <1>1, <1>4, Zenon DEF Finish

(* A write by hand is on its way. *)
LEMMA HandStep ==
    ASSUME WriterType, HandDelete \/ HandRelabel
    PROVE  WriterType' /\ ~Calm' /\ Len(history') # 1
  <1>1. UNCHANGED <<queued, pc, existing, plan>>
    BY Zenon DEF HandDelete, HandRelabel
  <1>2. \A n \in DOMAIN Server : n \in Name /\ Server[n] \in Slice
    BY ServerType, SliceMapIs, Zenon DEF IsLayout
  <1>3. history' \in Seq(Version) /\ Len(history') > 1
    <2>1. CASE HandDelete
      <3>1. PICK n \in DOMAIN Server : Drop(n)
        BY <2>1, Zenon DEF HandDelete
      <3> QED  BY <1>2, <3>1, DropType, Zenon
    <2>2. CASE HandRelabel
      <3>1. PICK n \in DOMAIN Server : Put(n, [Server[n] EXCEPT !.listed = FALSE])
        BY <2>2, Zenon DEF HandRelabel
      <3> DEFINE no == FALSE
                 v == [Server[n] EXCEPT !.listed = no]
      <3>2. Put(n, v)
        BY <3>1, Zenon
      <3>3. no \in BOOLEAN
        BY Zenon
      <3> HIDE DEF no
      <3>4. v \in Slice
        BY <1>2, <3>3, Zenon DEF Slice
      <3> HIDE DEF v
      <3> QED  BY <1>2, <3>2, <3>4, PutType, Zenon
    <2> QED  BY <2>1, <2>2, Zenon
  <1>4. Len(history') # 1 /\ Len(history') > 0
    <2>1. Len(history') \in Nat
      BY <1>3
    <2>2. \A k \in Nat : k > 1 => k # 1 /\ k > 0
      OBVIOUS
    <2> QED  BY <1>3, <2>1, <2>2, Zenon
  <1> QED  BY <1>1, <1>3, <1>4, Zenon DEF WriterType, Calm

(* Nothing that the writer looks at changes. *)
LEMMA WriterStutters ==
    ASSUME WriterType, UNCHANGED <<history, pc, existing, plan>>, queued' \in BOOLEAN
    PROVE  WriterType' /\ Listed(Server') = Listed(Server)
  <1>1. Server' = Server
    BY Zenon DEF Server
  <1>2. WriterType'
    BY Zenon DEF WriterType
  <1> QED  BY <1>1, <1>2, Zenon

-----------------------------------------------------------------------------
(* SliceWriter *)

(* The inductive invariant.  QuietMeansWritten says nothing of a reconcile *)
(* that is running; what it leaves when it ends is only right because what *)
(* is left of its plan always is the rest of a plan made from the listed   *)
(* slices, as long as nobody else wrote and nothing is queued.             *)
WriterInv ==
    /\ resolved \in Results
    /\ WriterType
    /\ Calm /\ pc = "writing" => Rest(existing, Listed(Server), plan, resolved)
    /\ Calm /\ pc = "idle" => Presents(Listed(Server), resolved)

(* Before the first reconcile a run is due, so nothing is claimed of the   *)
(* slices.                                                                 *)
LEMMA WriterInit == Init => WriterInv
  <1> SUFFICES ASSUME Init PROVE WriterInv
    BY Zenon
  <1>1. [slices |-> NoSlices, name |-> NoName] \in Version
    BY NoSlicesMap, Zenon DEF Version
  <1> DEFINE v == [slices |-> NoSlices, name |-> NoName]
  <1>2. history = <<v>> /\ queued = TRUE /\ pc = "idle" /\ existing = NoSlices /\ plan = NoPlan
        /\ resolved \in Results
    BY Zenon DEF Init, NoName
  <1> HIDE DEF v
  <1>3. history \in Seq(Version) /\ Len(history) > 0
    BY <1>1, <1>2 DEF v
  <1>4. WriterType
    BY <1>2, <1>3, NoSlicesMap, NoPlanType, Zenon DEF WriterType
  <1> QED  BY <1>2, <1>4, Zenon DEF WriterInv, Calm

(* One case per action of SliceWriter. *)
LEMMA WriterStep ==
    WriterInv /\ [Next]_vars => WriterInv'
  <1> SUFFICES ASSUME WriterInv, [Next]_vars PROVE WriterInv'
    BY Zenon
  <1>0. WriterType /\ resolved \in Resolved /\ resolved \in Results /\ queued \in BOOLEAN
    BY ResultsAssumption, Zenon DEF WriterInv, WriterType
  <1>1. CASE List
    <2>1. /\ Plan(resolved) /\ history' = history /\ queued' = FALSE /\ resolved' = resolved
      BY <1>1, Zenon DEF List
    <2>2. /\ WriterType' /\ pc' = "writing"
          /\ Len(history) = 1 => Rest(existing', Listed(Server'), plan', resolved)
      BY <1>0, <2>1, PlanStep, Zenon
    <2>3. Calm' => Len(history) = 1
      BY <2>1, Zenon DEF Calm
    <2> QED  BY <1>0, <2>1, <2>2, <2>3, Zenon DEF WriterInv
  <1>2. CASE Create \/ Keep \/ Update \/ Delete \/ Done
    <2>1. pc = "writing" /\ resolved' = resolved
      BY <1>2, Zenon DEF Create, Keep, Update, Delete, Done
    <2>2. Calm => Rest(existing, Listed(Server), plan, resolved)
      BY <2>1, Zenon DEF WriterInv
    <2>3. /\ WriterType'
          /\ Calm' /\ pc' = "writing" => Rest(existing', Listed(Server'), plan', resolved)
          /\ Calm' /\ pc' = "idle" => Presents(Listed(Server'), resolved)
      BY <1>0, <1>2, <2>2, WriteStep, Zenon
    <2> QED  BY <1>0, <2>1, <2>3, Zenon DEF WriterInv
  <1>3. CASE Deliver
    <2>1. resolved' = resolved
      BY <1>3, Zenon DEF Deliver
    <2> QED  BY <1>0, <1>3, <2>1, DeliverStep, Zenon DEF WriterInv, Calm
  <1>4. CASE Swing
    <2>1. queued' = TRUE /\ resolved' \in Results /\ UNCHANGED <<history, pc, existing, plan>>
      BY <1>4, Zenon DEF Swing
    <2> QED  BY <1>0, <2>1, WriterStutters, Zenon DEF WriterInv, Calm
  <1>5. CASE Fail
    <2>1. Refused /\ resolved' = resolved
      BY <1>5, Zenon DEF Fail
    <2> QED  BY <1>0, <2>1, RefusedStep, Zenon DEF WriterInv, Calm
  <1>6. CASE Restart
    <2>1. resolved' = resolved
      BY <1>6, Zenon DEF Restart
    <2> QED  BY <1>0, <1>6, <2>1, RestartStep, Zenon DEF WriterInv, Calm
  <1>7. CASE HandDelete \/ HandRelabel
    <2>1. resolved' = resolved
      BY <1>7, Zenon DEF HandDelete, HandRelabel
    <2> QED  BY <1>0, <1>7, <2>1, HandStep, Zenon DEF WriterInv
  <1>8. CASE UNCHANGED vars
    <2>1. UNCHANGED <<history, pc, existing, plan>> /\ queued' = queued /\ resolved' = resolved
      BY <1>8, Zenon DEF vars
    <2>2. WriterType' /\ Listed(Server') = Listed(Server)
      BY <1>0, <2>1, WriterStutters, Zenon
    <2>3. Calm' <=> Calm
      BY <2>1, Zenon DEF Calm
    <2> QED  BY <2>1, <2>2, <2>3, Zenon DEF WriterInv
  <1> QED  BY <1>1, <1>2, <1>3, <1>4, <1>5, <1>6, <1>7, <1>8, Zenon DEF Next, Write

(* The types the proofs use give the one the run checks. *)
LEMMA WriterTyped ==
    ASSUME WriterType, resolved \in Results
    PROVE  TypeOK
  <1>1. history # <<>>
    BY DEF WriterType
  <1>2. \A i \in DOMAIN history : \A n \in DOMAIN history[i].slices :
           n \in Name /\ history[i].slices[n] \in Slice
    <2> TAKE i \in DOMAIN history
    <2>1. history[i] \in Version
      BY DEF WriterType
    <2>2. history[i].slices \in SliceMap
      BY <2>1, Zenon DEF Version
    <2> QED  BY <2>2, SliceMapIs, Zenon DEF IsLayout
  <1>3. \A n \in DOMAIN existing : existing[n] \in Slice
    BY SliceMapIs, Zenon DEF WriterType
  <1> QED  BY <1>1, <1>2, <1>3, Zenon DEF WriterType, TypeOK

(* Every version of the slices is one, and no plan both writes and deletes *)
(* a slice.                                                                *)
THEOREM WriterTypeCorrect == Spec => []TypeOK
  <1>1. WriterInv => TypeOK
    BY WriterTyped, Zenon DEF WriterInv
  <1> QED  BY <1>1, WriterInit, WriterStep, PTL DEF Spec

(* Whatever stale lists, conflicts, failed calls, restarts and people did, *)
(* when nothing is queued, running or on its way, the labelled slices      *)
(* present the endpoints.                                                  *)
THEOREM WriterMakesGood == Spec => []QuietMeansWritten
  <1>1. WriterInv => QuietMeansWritten
    BY Zenon DEF WriterInv, QuietMeansWritten, Quiet, Calm
  <1> QED  BY <1>1, WriterInit, WriterStep, PTL DEF Spec

-----------------------------------------------------------------------------
(* Endpoints stay in place *)

(* A slice within the limit that holds an endpoint which never leaves the  *)
(* source under the group of that endpoint.                                *)
Orderly(slice) ==
    /\ Cardinality(DOMAIN slice.eps) <= maxPer
    /\ \A a \in Stable \cap DOMAIN slice.eps : \A r \in Results : slice.group = GroupKey(r, a)

AllOrderly(slices) == \A n \in DOMAIN slices : Orderly(slices[n])

(* left is what is left of the plan for r, made from the slices found: what*)
(* has been gone through is there as it was planned, and what has not is   *)
(* there as it was found.                                                  *)
Synced(found, there, left, r) ==
    LET p == planSlices(found, r)
        orphans == left.foreign \cup left.emptied
    IN  /\ DOMAIN left.write \subseteq DOMAIN p.write
        /\ \A n \in DOMAIN left.write : left.write[n] = p.write[n]
        /\ orphans \subseteq p.foreign \cup p.emptied
        /\ \A n \in DOMAIN p.write \ DOMAIN left.write : n \in DOMAIN there /\ there[n] = p.write[n]
        /\ \A n \in DOMAIN found \cap (DOMAIN left.write \cup orphans) :
              n \in DOMAIN there /\ there[n] = found[n]

(* The inductive invariant of SyncedKeepsInPlace.  Every version that was  *)
(* ever written is orderly, so that a plan made from any of them retains;  *)
(* and a reconcile whose list was up to date knows what is there.          *)
KeepInv ==
    /\ hands \in Nat
    /\ \A i \in 1 .. Len(history) : AllOrderly(history[i].slices)
    /\ AllOrderly(existing)
    /\ AllOrderly(plan.write)
    /\ pc = "writing" /\ outdated = {} => \E r \in Results : Synced(existing, Server, plan, r)

(* An endpoint that never leaves the source has one group. *)
LEMMA StableGroup ==
    ASSUME NEW r1 \in Results, NEW r2 \in Results, NEW a \in Stable
    PROVE  a \in Reachable(r1) /\ GroupKey(r1, a) = GroupKey(r2, a)
  BY ResultsAssumption, Zenon DEF GroupKey

(* What a plan writes is orderly. *)
LEMMA PlanOrderly ==
    ASSUME NEW found \in SliceMap, NEW r \in Results
    PROVE  AllOrderly(planSlices(found, r).write)
  <1> DEFINE w == planSlices(found, r).write
  <1>1. Presents(w, r)
    BY SliceMapIs, PlanIsRight, ResultsAssumption, Zenon
  <1> HIDE DEF w
  <1> SUFFICES ASSUME NEW n \in DOMAIN w PROVE Orderly(w[n])
    BY Zenon DEF AllOrderly, w
  <1>2. Cardinality(DOMAIN w[n].eps) <= maxPer
    BY <1>1, Zenon DEF Presents
  <1>3. ASSUME NEW a \in Stable \cap DOMAIN w[n].eps, NEW s \in Results
        PROVE  w[n].group = GroupKey(s, a)
    <2>1. a \in Reachable(r) /\ GroupKey(r, a) = GroupKey(s, a)
      BY <1>3, StableGroup, Zenon
    <2>2. PICK m \in DOMAIN w : /\ w[m].group = GroupKey(r, a)
                                /\ \A k \in DOMAIN w : a \in DOMAIN w[k].eps => k = m
      BY <1>1, <2>1, Zenon DEF Presents
    <2> QED  BY <1>3, <2>1, <2>2, Zenon
  <1> QED  BY <1>2, <1>3, Zenon DEF Orderly

(* A write is one more version behind the others. *)
LEMMA CommitServer ==
    ASSUME WriterType, NEW s \in SliceMap, NEW n \in Name, Commit(s, n)
    PROVE  /\ Server' = s
           /\ KeepInv /\ AllOrderly(s) => \A i \in 1 .. Len(history') : AllOrderly(history'[i].slices)
  <1> DEFINE v == [slices |-> s, name |-> n]
  <1>1. v \in Version /\ v.slices = s
    BY Zenon DEF Version
  <1>2. Len(history) \in Nat /\ history \in Seq(Version)
    BY DEF WriterType
  <1>3. history' = Append(history, v)
    BY Zenon DEF Commit
  <1> HIDE DEF v
  <1>4. /\ Len(history') = Len(history) + 1 /\ history'[Len(history')] = v
        /\ \A i \in 1 .. Len(history) : history'[i] = history[i]
    BY <1>1, <1>2, <1>3
  <1>5. Server' = s
    BY <1>1, <1>4, Zenon DEF Server
  <1>6. ASSUME KeepInv, AllOrderly(s), NEW i \in 1 .. Len(history')
        PROVE  AllOrderly(history'[i].slices)
    <2>1. i \in 1 .. Len(history) \/ i = Len(history')
      BY <1>2, <1>4
    <2>2. CASE i \in 1 .. Len(history)
      BY <1>4, <1>6, <2>2, Zenon DEF KeepInv
    <2>3. CASE i = Len(history')
      BY <1>1, <1>4, <1>6, <2>3, Zenon
    <2> QED  BY <2>1, <2>2, <2>3, Zenon
  <1> QED  BY <1>5, <1>6, Zenon

(* A slice that is put is there, and the others are as they were. *)
LEMMA PutServer ==
    ASSUME WriterType, NEW n \in Name, NEW v \in Slice, Put(n, v)
    PROVE  /\ DOMAIN Server' = DOMAIN Server \cup {n} /\ Server'[n] = v
           /\ \A m \in DOMAIN Server : m # n => Server'[m] = Server[m]
           /\ KeepInv /\ Orderly(v) => \A i \in 1 .. Len(history') : AllOrderly(history'[i].slices)
  <1> DEFINE s == [m \in DOMAIN Server \cup {n} |-> IF m = n THEN v ELSE Server[m]]
  <1>1. s \in SliceMap
    BY ServerType, SliceMapPut, Zenon
  <1>2. Commit(s, n)
    BY Zenon DEF Put
  <1>3. /\ DOMAIN s = DOMAIN Server \cup {n} /\ s[n] = v
        /\ \A m \in DOMAIN Server : m # n => s[m] = Server[m]
    BY Zenon
  <1> HIDE DEF s
  <1>4. KeepInv => AllOrderly(Server)
    BY DEF KeepInv, Server, WriterType
  <1>5. KeepInv /\ Orderly(v) => AllOrderly(s)
    BY <1>3, <1>4, Zenon DEF AllOrderly
  <1>6. /\ Server' = s
        /\ KeepInv /\ AllOrderly(s) => \A i \in 1 .. Len(history') : AllOrderly(history'[i].slices)
    BY <1>1, <1>2, CommitServer, Zenon
  <1> QED  BY <1>3, <1>5, <1>6, Zenon

(* A slice that is dropped is not, and the others are as they were. *)
LEMMA DropServer ==
    ASSUME WriterType, NEW n \in Name, Drop(n)
    PROVE  /\ DOMAIN Server' = DOMAIN Server \ {n}
           /\ \A m \in DOMAIN Server \ {n} : Server'[m] = Server[m]
           /\ KeepInv => \A i \in 1 .. Len(history') : AllOrderly(history'[i].slices)
  <1> DEFINE N == DOMAIN Server \ {n}
             s == [m \in N |-> Server[m]]
  <1>1. N \in SUBSET DOMAIN Server
    BY Zenon
  <1>2. Commit(s, n)
    BY Zenon DEF Drop
  <1>3. DOMAIN s = N /\ \A m \in N : s[m] = Server[m]
    BY Zenon
  <1> HIDE DEF N
  <1>4. s \in SliceMap
    BY <1>1, ServerType, SliceMapPart, Zenon
  <1> HIDE DEF s
  <1>5. KeepInv => AllOrderly(Server)
    BY DEF KeepInv, Server, WriterType
  <1>6. KeepInv => AllOrderly(s)
    BY <1>1, <1>3, <1>5, Zenon DEF AllOrderly
  <1>7. /\ Server' = s
        /\ KeepInv /\ AllOrderly(s) => \A i \in 1 .. Len(history') : AllOrderly(history'[i].slices)
    BY <1>2, <1>4, CommitServer, Zenon
  <1> QED  BY <1>3, <1>6, <1>7, Zenon DEF N

(* A slice that is gone through, put or there as planned, stays in step.   *)
LEMMA SyncedPut ==
    ASSUME NEW found, NEW there, NEW after, NEW left, NEW rest, NEW r,
           Synced(found, there, left, r), NEW n \in DOMAIN left.write,
           DOMAIN left.write \cap (left.foreign \cup left.emptied) = {},
           DOMAIN rest.write = DOMAIN left.write \ {n},
           \A m \in DOMAIN rest.write : rest.write[m] = left.write[m],
           rest.foreign = left.foreign, rest.emptied = left.emptied,
           n \in DOMAIN after, after[n] = left.write[n],
           \A m \in DOMAIN there : m # n => m \in DOMAIN after /\ after[m] = there[m]
    PROVE  Synced(found, after, rest, r)
  <1> DEFINE p == planSlices(found, r)
             orphans == left.foreign \cup left.emptied
  <1>1. /\ DOMAIN left.write \subseteq DOMAIN p.write
        /\ \A m \in DOMAIN left.write : left.write[m] = p.write[m]
        /\ orphans \subseteq p.foreign \cup p.emptied
        /\ \A m \in DOMAIN p.write \ DOMAIN left.write : m \in DOMAIN there /\ there[m] = p.write[m]
        /\ \A m \in DOMAIN found \cap (DOMAIN left.write \cup orphans) :
              m \in DOMAIN there /\ there[m] = found[m]
    BY Zenon DEF Synced
  <1> HIDE DEF p
  <1>2. \A m \in DOMAIN p.write \ DOMAIN rest.write : m \in DOMAIN after /\ after[m] = p.write[m]
    BY <1>1, Zenon
  <1>3. \A m \in DOMAIN found \cap (DOMAIN rest.write \cup orphans) :
              m \in DOMAIN after /\ after[m] = found[m]
    BY <1>1, Zenon
  <1>4. DOMAIN rest.write \subseteq DOMAIN p.write /\ \A m \in DOMAIN rest.write : rest.write[m] = p.write[m]
    BY <1>1, Zenon
  <1> QED  BY <1>1, <1>2, <1>3, <1>4, Zenon DEF Synced, p

(* So does an orphan that is deleted. *)
LEMMA SyncedDrop ==
    ASSUME NEW found \in SliceMap, NEW there, NEW after, NEW left, NEW rest, NEW r \in Results,
           Synced(found, there, left, r), NEW o \in left.foreign \cup left.emptied,
           DOMAIN left.write = {}, DOMAIN rest.write = {},
           rest.foreign \cup rest.emptied = (left.foreign \cup left.emptied) \ {o},
           \A m \in DOMAIN there : m # o => m \in DOMAIN after /\ after[m] = there[m]
    PROVE  Synced(found, after, rest, r)
  <1> DEFINE p == planSlices(found, r)
             orphans == left.foreign \cup left.emptied
  <1>1. /\ orphans \subseteq p.foreign \cup p.emptied
        /\ \A m \in DOMAIN p.write \ DOMAIN left.write : m \in DOMAIN there /\ there[m] = p.write[m]
        /\ \A m \in DOMAIN found \cap (DOMAIN left.write \cup orphans) :
              m \in DOMAIN there /\ there[m] = found[m]
    BY Zenon DEF Synced
  <1>2. DOMAIN p.write \cap (p.foreign \cup p.emptied) = {}
    BY SliceMapIs, PlanIsRight, ResultsAssumption, Zenon
  <1> HIDE DEF p
  <1>3. \A m \in DOMAIN p.write \ DOMAIN rest.write : m \in DOMAIN after /\ after[m] = p.write[m]
    BY <1>1, <1>2, Zenon
  <1>4. \A m \in DOMAIN found \cap (DOMAIN rest.write \cup (rest.foreign \cup rest.emptied)) :
              m \in DOMAIN after /\ after[m] = found[m]
    BY <1>1, Zenon
  <1>5. rest.foreign \cup rest.emptied \subseteq p.foreign \cup p.emptied
    BY <1>1, Zenon
  <1> QED  BY <1>3, <1>4, <1>5, Zenon DEF Synced, p

(* A slice whose turn it is to be updated: an endpoint that the plan takes *)
(* off it is on an earlier slice, which the update leaves alone.           *)
LEMMA UpdateInPlace ==
    ASSUME NEW found \in SliceMap, AllOrderly(found), NEW there, NEW left, NEW r \in Results,
           Synced(found, there, left, r),
           NEW n \in DOMAIN left.write, n \in DOMAIN found,
           NEW a \in Stable, a \in DOMAIN there[n].eps
    PROVE  \/ a \in DOMAIN left.write[n].eps
           \/ \E m \in DOMAIN there \ {n} : a \in DOMAIN there[m].eps
  <1> DEFINE p == planSlices(found, r)
             w == p.write
             C == {m \in DOMAIN found : a \in DOMAIN found[m].eps}
  <1>1. /\ \A m \in DOMAIN left.write : m \in DOMAIN w /\ left.write[m] = w[m]
        /\ \A m \in DOMAIN w \ DOMAIN left.write : m \in DOMAIN there /\ there[m] = w[m]
        /\ \A m \in DOMAIN found \cap DOMAIN left.write : m \in DOMAIN there /\ there[m] = found[m]
    BY Zenon DEF Synced
  <1>2. /\ IsLayout(found) /\ IsFiniteSet(DOMAIN found) /\ DOMAIN found \subseteq Nat \X Nat
        /\ \A m \in DOMAIN found : found[m] \in Slice
    BY SliceMapIs DEF IsLayout, Name
  <1>3. C \in SUBSET (Nat \X Nat) /\ IsFiniteSet(C) /\ n \in C
    BY <1>1, <1>2, FS_Subset, Zenon
  <1>4. PICK f \in C : \A m \in C : m = f \/ Before(f, m)
    <2> HIDE DEF C
    <2> QED  BY <1>3, FirstExists, Zenon
  <1>5. f \in DOMAIN w /\ a \in DOMAIN w[f].eps
    <2>1. a \in Reachable(r) /\ r \in Resolved
      BY StableGroup, ResultsAssumption, Zenon
    <2>2. Cardinality(DOMAIN found[f].eps) <= maxPer /\ GroupKey(r, a) = found[f].group
      BY <1>4, Zenon DEF AllOrderly, Orderly
    <2>3. \A m \in DOMAIN found : Before(m, f) => a \notin DOMAIN found[m].eps
      <3> SUFFICES ASSUME NEW m \in C, Before(m, f) PROVE FALSE
        BY Zenon
      <3>1. m \in Nat \X Nat /\ f \in Nat \X Nat
        BY <1>3, <1>4, Zenon
      <3>2. m = f \/ Before(f, m)
        BY <1>4, Zenon
      <3> QED  BY <3>1, <3>2, BeforeOrders, Zenon
    <2> QED  BY <1>2, <1>4, <2>1, <2>2, <2>3, PlanKeeps, ZenonT(30)
  <1> HIDE DEF p
  <1>6. CASE f = n
    BY <1>1, <1>5, <1>6, Zenon
  <1>7. CASE f # n
    BY <1>1, <1>4, <1>5, <1>7, Zenon
  <1> QED  BY <1>6, <1>7, Zenon

(* An orphan is deleted when all is written: what it held and is still     *)
(* wanted is on a slice of the plan.                                       *)
LEMMA DeleteInPlace ==
    ASSUME NEW found \in SliceMap, NEW there, NEW left, NEW r \in Results,
           Synced(found, there, left, r), DOMAIN left.write = {},
           NEW o \in left.foreign \cup left.emptied, NEW a \in Stable
    PROVE  \E m \in DOMAIN there \ {o} : a \in DOMAIN there[m].eps
  <1> DEFINE p == planSlices(found, r)
  <1>1. /\ left.foreign \cup left.emptied \subseteq p.foreign \cup p.emptied
        /\ \A m \in DOMAIN p.write : m \in DOMAIN there /\ there[m] = p.write[m]
    BY Zenon DEF Synced
  <1>2. Presents(p.write, r) /\ DOMAIN p.write \cap (p.foreign \cup p.emptied) = {}
    BY SliceMapIs, PlanIsRight, ResultsAssumption, Zenon
  <1>3. a \in Reachable(r)
    BY StableGroup, Zenon
  <1> HIDE DEF p
  <1>4. PICK m \in DOMAIN p.write : a \in DOMAIN p.write[m].eps
    BY <1>2, <1>3, Zenon DEF Presents
  <1> QED  BY <1>1, <1>2, <1>4, Zenon

(* A reconcile that ends claims nothing. *)
LEMMA FinishOrderly ==
    ASSUME Finish, hands' \in Nat, \A i \in 1 .. Len(history') : AllOrderly(history'[i].slices)
    PROVE  KeepInv'
  <1>1. DOMAIN existing' = {} /\ DOMAIN plan'.write = {} /\ pc' = "idle"
    BY NoSlicesMap, NoPlanType, Zenon DEF Finish
  <1> QED  BY <1>1, Zenon DEF KeepInv, AllOrderly

(* A list that no write has overtaken is what is there. *)
LEMMA ListOrderly ==
    ASSUME WriterInv, KeepInv, List
    PROVE  KeepInv'
  <1> DEFINE found == Listed(Head(history).slices)
             p == planSlices(found, resolved)
  <1>1. /\ existing' = found /\ plan' = p /\ history' = history /\ hands' = hands
        /\ outdated' = {history[i].name : i \in 2 .. Len(history)}
    BY Zenon DEF List, Plan
  <1>2. WriterType /\ resolved \in Results /\ Len(history) \in Nat /\ Len(history) > 0
    BY DEF WriterInv, WriterType
  <1>3. /\ found \in SliceMap /\ DOMAIN found \subseteq DOMAIN Head(history).slices
        /\ \A n \in DOMAIN found : found[n] = Head(history).slices[n]
    BY <1>2, ServerType, ListedMap, Zenon
  <1>4. AllOrderly(Head(history).slices)
    <2>1. Head(history) = history[1] /\ 1 \in 1 .. Len(history)
      BY <1>2
    <2> QED  BY <2>1, Zenon DEF KeepInv
  <1>5. outdated' = {} => Server = Head(history).slices
    <2>1. outdated' = {} => Len(history) = 1
      <3> SUFFICES ASSUME Len(history) # 1 PROVE outdated' # {}
        BY Zenon
      <3>1. 2 \in 2 .. Len(history)
        BY <1>2
      <3> QED  BY <1>1, <3>1, Zenon
    <2> QED  BY <1>2, <2>1, ServerType, Zenon
  <1>6. Server' = Server
    BY <1>1, Zenon DEF Server
  <1> HIDE DEF found
  <1>7. AllOrderly(p.write)
    BY <1>2, <1>3, PlanOrderly, Zenon
  <1>8. AllOrderly(found)
    BY <1>3, <1>4, Zenon DEF AllOrderly
  <1>9. outdated' = {} => Synced(found, Server, p, resolved)
    BY <1>3, <1>5, Zenon DEF Synced
  <1> HIDE DEF p
  <1> QED  BY <1>1, <1>2, <1>6, <1>7, <1>8, <1>9, Zenon DEF KeepInv

(* A slice of the plan that is put was listed or is new: the reconcile     *)
(* still knows what is there.                                              *)
LEMMA PutOrderly ==
    ASSUME WriterType, KeepInv, pc = "writing", DOMAIN plan.write # {},
           Put(NextName, plan.write[NextName]), Written(NextName),
           UNCHANGED <<pc, existing, outdated, hands>>
    PROVE  KeepInv'
  <1> DEFINE n == NextName
             v == plan.write[n]
  <1>1. n \in DOMAIN plan.write /\ n \in Name /\ v \in Slice
    BY NextNameIn, Zenon
  <1>2. Orderly(v)
    BY <1>1, Zenon DEF KeepInv, AllOrderly
  <1>3. Put(n, v) /\ Written(n)
    BY Zenon
  <1> HIDE DEF n
  <1>4. /\ DOMAIN plan'.write = DOMAIN plan.write \ {n}
        /\ \A m \in DOMAIN plan'.write : plan'.write[m] = plan.write[m]
        /\ plan'.foreign = plan.foreign /\ plan'.emptied = plan.emptied
    BY <1>3, WrittenType, Zenon
  <1> HIDE DEF v
  <1>5. /\ DOMAIN Server' = DOMAIN Server \cup {n} /\ Server'[n] = v
        /\ \A m \in DOMAIN Server : m # n => Server'[m] = Server[m]
        /\ \A i \in 1 .. Len(history') : AllOrderly(history'[i].slices)
    BY <1>1, <1>2, <1>3, PutServer, Zenon
  <1>6. ASSUME outdated = {} PROVE \E r \in Results : Synced(existing, Server', plan', r)
    <2>1. PICK r \in Results : Synced(existing, Server, plan, r)
      BY <1>6, Zenon DEF KeepInv
    <2>2. DOMAIN plan.write \cap (plan.foreign \cup plan.emptied) = {}
      BY Zenon DEF WriterType
    <2>4. /\ n \in DOMAIN Server' /\ Server'[n] = plan.write[n]
          /\ \A m \in DOMAIN Server : m # n => m \in DOMAIN Server' /\ Server'[m] = Server[m]
      BY <1>5, Zenon DEF v
    <2>3. Synced(existing, Server', plan', r)
      BY <1>1, <1>4, <2>1, <2>2, <2>4, SyncedPut
    <2> QED  BY <2>3, Zenon
  <1>7. AllOrderly(plan'.write)
    BY <1>4, Zenon DEF KeepInv, AllOrderly
  <1>8. existing' = existing /\ outdated' = outdated /\ hands' = hands
    BY Zenon
  <1>9. AllOrderly(existing') /\ hands' \in Nat
    BY <1>8, Zenon DEF KeepInv
  <1>10. outdated' = {} => \E r \in Results : Synced(existing', Server', plan', r)
    BY <1>6, <1>8, Zenon
  <1> QED  BY <1>5, <1>7, <1>9, <1>10, Zenon DEF KeepInv

(* Keep finds the slice there as it is planned. *)
LEMMA KeepOrderly ==
    ASSUME WriterType, KeepInv, Keep
    PROVE  KeepInv'
  <1> DEFINE n == NextName
  <1>1. /\ DOMAIN plan.write # {} /\ n \in DOMAIN existing /\ plan.write[n] = existing[n] /\ Written(n)
        /\ history' = history /\ existing' = existing /\ outdated' = outdated /\ hands' = hands
        /\ pc = "writing"
    BY Zenon DEF Keep
  <1>2. n \in DOMAIN plan.write
    BY <1>1, NextNameIn, Zenon
  <1>3. /\ DOMAIN plan'.write = DOMAIN plan.write \ {n}
        /\ \A m \in DOMAIN plan'.write : plan'.write[m] = plan.write[m]
        /\ plan'.foreign = plan.foreign /\ plan'.emptied = plan.emptied
    BY <1>1, WrittenType, Zenon
  <1> HIDE DEF n
  <1>4. Server' = Server
    BY <1>1, Zenon DEF Server
  <1>5. ASSUME outdated = {} PROVE \E r \in Results : Synced(existing, Server, plan', r)
    <2>1. PICK r \in Results : Synced(existing, Server, plan, r)
      BY <1>1, <1>5, Zenon DEF KeepInv
    <2>2. DOMAIN plan.write \cap (plan.foreign \cup plan.emptied) = {}
      BY Zenon DEF WriterType
    <2>3. n \in DOMAIN Server /\ Server[n] = plan.write[n]
      BY <1>1, <1>2, <2>1, Zenon DEF Synced
    <2>4. Synced(existing, Server, plan', r)
      BY <1>2, <1>3, <2>1, <2>2, <2>3, SyncedPut, Zenon
    <2> QED  BY <2>4, Zenon
  <1>6. AllOrderly(plan'.write)
    BY <1>3, Zenon DEF KeepInv, AllOrderly
  <1> QED  BY <1>1, <1>4, <1>5, <1>6, Zenon DEF KeepInv

(* Delete drops an orphan, or finds it gone. *)
LEMMA DeleteOrderly ==
    ASSUME WriterType, KeepInv, Delete
    PROVE  KeepInv'
  <1> DEFINE o == NextOrphan
  <1>1. /\ plan.foreign \cup plan.emptied # {} /\ DOMAIN plan.write = {}
        /\ IF o \in DOMAIN Server THEN Drop(o) ELSE history' = history
        /\ plan' = [plan EXCEPT !.foreign = @ \ {o}, !.emptied = @ \ {o}]
        /\ existing' = existing /\ outdated' = outdated /\ hands' = hands /\ pc = "writing"
    BY Zenon DEF Delete
  <1>2. o \in plan.foreign \cup plan.emptied /\ o \in Name
    BY <1>1, NextOrphanIn, Zenon
  <1> HIDE DEF o
  <1>3. /\ plan'.write = plan.write
        /\ plan'.foreign = plan.foreign \ {o} /\ plan'.emptied = plan.emptied \ {o}
    <2>1. plan \in PlanType
      BY Zenon DEF WriterType
    <2> QED  BY <1>1, <2>1, Zenon DEF PlanType
  <1>4. /\ \A m \in DOMAIN Server : m # o => m \in DOMAIN Server' /\ Server'[m] = Server[m]
        /\ \A i \in 1 .. Len(history') : AllOrderly(history'[i].slices)
    <2>1. CASE o \in DOMAIN Server
      <3>1. Drop(o)
        BY <1>1, <2>1, Zenon
      <3>2. /\ DOMAIN Server' = DOMAIN Server \ {o}
            /\ \A m \in DOMAIN Server \ {o} : Server'[m] = Server[m]
            /\ \A i \in 1 .. Len(history') : AllOrderly(history'[i].slices)
        BY <1>2, <3>1, DropServer, Zenon
      <3> QED  BY <3>2, Zenon
    <2>2. CASE o \notin DOMAIN Server
      <3>1. history' = history
        BY <1>1, <2>2, Zenon
      <3>2. Server' = Server
        BY <3>1, Zenon DEF Server
      <3> QED  BY <3>1, <3>2, Zenon DEF KeepInv
    <2> QED  BY <2>1, <2>2, Zenon
  <1>5. ASSUME outdated = {} PROVE \E r \in Results : Synced(existing, Server', plan', r)
    <2>1. PICK r \in Results : Synced(existing, Server, plan, r)
      BY <1>1, <1>5, Zenon DEF KeepInv
    <2>2. existing \in SliceMap
      BY Zenon DEF WriterType
    <2>3. plan'.foreign \cup plan'.emptied = (plan.foreign \cup plan.emptied) \ {o}
      BY <1>3, Zenon
    <2>4. DOMAIN plan'.write = {} /\ DOMAIN plan.write = {}
      BY <1>1, <1>3, Zenon
    <2>5. Synced(existing, Server', plan', r)
      BY <1>2, <1>4, <2>1, <2>2, <2>3, <2>4, SyncedDrop, SMTT(30)
    <2> QED  BY <2>5, Zenon
  <1> QED  BY <1>1, <1>3, <1>4, <1>5, Zenon DEF KeepInv

(* What people write leaves the slices orderly, and the list outdated. *)
LEMMA HandOrderly ==
    ASSUME WriterType, KeepInv, HandDelete \/ HandRelabel
    PROVE  KeepInv' /\ hands' # hands
  <1>1. UNCHANGED <<pc, existing, plan>> /\ hands' = hands + 1
    BY Zenon DEF HandDelete, HandRelabel
  <1>2. \A n \in DOMAIN Server : n \in Name /\ Server[n] \in Slice /\ Orderly(Server[n])
    <2>1. AllOrderly(Server)
      BY DEF KeepInv, Server, WriterType
    <2> QED  BY <2>1, ServerType, SliceMapIs, Zenon DEF IsLayout, AllOrderly
  <1>3. outdated' # {} /\ \A i \in 1 .. Len(history') : AllOrderly(history'[i].slices)
    <2>1. CASE HandDelete
      <3>1. PICK n \in DOMAIN Server : Drop(n) /\ outdated' = outdated \cup {n}
        BY <2>1, Zenon DEF HandDelete
      <3> QED  BY <1>2, <3>1, DropServer, Zenon
    <2>2. CASE HandRelabel
      <3>1. PICK n \in DOMAIN Server : /\ Put(n, [Server[n] EXCEPT !.listed = FALSE])
                                       /\ outdated' = outdated \cup {n}
        BY <2>2, Zenon DEF HandRelabel
      <3> DEFINE no == FALSE
                 v == [Server[n] EXCEPT !.listed = no]
      <3>2. Put(n, v)
        BY <3>1, Zenon
      <3>3. no \in BOOLEAN
        BY Zenon
      <3> HIDE DEF no
      <3>4. v \in Slice /\ v.eps = Server[n].eps /\ v.group = Server[n].group
        BY <1>2, <3>3, Zenon DEF Slice
      <3> HIDE DEF v
      <3>5. Orderly(v)
        BY <1>2, <3>4, Zenon DEF Orderly
      <3> QED  BY <1>2, <3>1, <3>2, <3>4, <3>5, PutServer, Zenon
    <2> QED  BY <2>1, <2>2, Zenon
  <1>4. hands \in Nat
    BY Zenon DEF KeepInv
  <1>5. hands' \in Nat /\ hands' # hands
    BY <1>1, <1>4
  <1> QED  BY <1>1, <1>3, <1>5, Zenon DEF KeepInv

(* One case per action of SliceWriter. *)
LEMMA KeepInvStep ==
    WriterInv /\ KeepInv /\ [Next]_vars => KeepInv'
  <1> SUFFICES ASSUME WriterInv, KeepInv, [Next]_vars PROVE KeepInv'
    BY Zenon
  <1>0. /\ WriterType /\ hands \in Nat /\ \A i \in 1 .. Len(history) : AllOrderly(history[i].slices)
        /\ history \in Seq(Version) /\ Len(history) \in Nat /\ Len(history) > 0
    <2>1. WriterType
      BY Zenon DEF WriterInv
    <2>2. hands \in Nat /\ \A i \in 1 .. Len(history) : AllOrderly(history[i].slices)
      BY Zenon DEF KeepInv
    <2>3. history \in Seq(Version) /\ Len(history) > 0
      BY <2>1, Zenon DEF WriterType
    <2>4. Len(history) \in Nat
      BY <2>3
    <2> QED  BY <2>1, <2>2, <2>3, <2>4, Zenon
  <1>1. CASE List
    BY <1>1, ListOrderly, Zenon
  <1>2. CASE Refused /\ hands' = hands
    BY <1>0, <1>2, FinishOrderly, Zenon DEF Refused
  <1>3. CASE Create
    <2>1. CASE NextName \in DOMAIN Server
      BY <1>2, <1>3, <2>1, Zenon DEF Create
    <2>2. CASE NextName \notin DOMAIN Server
      BY <1>0, <1>3, <2>2, PutOrderly, Zenon DEF Create
    <2> QED  BY <2>1, <2>2, Zenon
  <1>4. CASE Keep
    BY <1>0, <1>4, KeepOrderly, Zenon
  <1>5. CASE Update
    <2>1. CASE NextName \in outdated
      BY <1>2, <1>5, <2>1, Zenon DEF Update
    <2>2. CASE NextName \notin outdated
      BY <1>0, <1>5, <2>2, PutOrderly, Zenon DEF Update
    <2> QED  BY <2>1, <2>2, Zenon
  <1>6. CASE Delete
    BY <1>0, <1>6, DeleteOrderly, Zenon
  <1>7. CASE Done
    <2>1. Finish /\ history' = history /\ hands' = hands
      BY <1>7, Zenon DEF Done
    <2> QED  BY <1>0, <2>1, FinishOrderly, Zenon
  <1>8. CASE Deliver
    <2>1. /\ Len(history) > 1 /\ history' = Tail(history) /\ hands' = hands
          /\ UNCHANGED <<pc, existing, plan, outdated>>
      BY <1>8, Zenon DEF Deliver
    <2>2. Len(history') = Len(history) - 1 /\ \A i \in 1 .. Len(history') : history'[i] = history[i + 1]
      BY <1>0, <2>1
    <2>3. Server' = Server
      BY <1>0, <2>1, <2>2 DEF Server
    <2>4. \A i \in 1 .. Len(history') : AllOrderly(history'[i].slices)
      BY <1>0, <2>2, SMTT(30)
    <2> QED  BY <2>1, <2>3, <2>4, Zenon DEF KeepInv
  <1>9. CASE Swing
    <2>1. UNCHANGED <<history, pc, existing, plan, outdated, hands>>
      BY <1>9, Zenon DEF Swing
    <2> QED  BY <2>1, Zenon DEF KeepInv, Server
  <1>10. CASE Fail
    BY <1>2, <1>10, Zenon DEF Fail
  <1>11. CASE Restart
    <2>1. history' = <<history[Len(history)]>> /\ Finish /\ hands' = hands
      BY <1>11, Zenon DEF Restart
    <2>2. \A i \in 1 .. Len(history') : AllOrderly(history'[i].slices)
      BY <1>0, <2>1
    <2> QED  BY <1>0, <2>1, <2>2, FinishOrderly, Zenon
  <1>12. CASE HandDelete \/ HandRelabel
    BY <1>0, <1>12, HandOrderly, Zenon
  <1>13. CASE UNCHANGED vars
    BY <1>13, Zenon DEF vars, KeepInv, Server
  <1> QED  BY <1>1, <1>3, <1>4, <1>5, <1>6, <1>7, <1>8, <1>9, <1>10, <1>11, <1>12, <1>13, Zenon DEF Next, Write

(* A step that leaves the server's slices alone moves nothing. *)
LEMMA NothingMoves ==
    ASSUME WriterType,
           \/ history' = history
           \/ Deliver
           \/ history' = <<history[Len(history)]>>
    PROVE  Server' = Server
  <1>1. history \in Seq(Version) /\ Len(history) \in Nat /\ Len(history) > 0
    BY DEF WriterType
  <1>2. CASE Deliver
    <2>1. Len(history) > 1 /\ history' = Tail(history)
      BY <1>2, Zenon DEF Deliver
    <2> QED  BY <1>1, <2>1 DEF Server
  <1>3. CASE history' = <<history[Len(history)]>>
    BY <1>1, <1>3, Zenon DEF Server
  <1> QED  BY <1>2, <1>3, Zenon DEF Server

(* A reconcile whose list was up to date takes no endpoint that never      *)
(* leaves the source off the slice it is on, unless another slice holds it *)
(* already: an update only takes off what an earlier slice has, and an     *)
(* orphan is deleted after all that is wanted of it was written elsewhere. *)
THEOREM WriterKeepsInPlace == Spec => SyncedKeepsInPlace
  <1> DEFINE Stays == hands' = hands /\ outdated = {} =>
                        \A a \in Stable : \A n \in DOMAIN Server : InPlace(a, n)
  <1>1. Init => KeepInv
    <2> SUFFICES ASSUME Init PROVE KeepInv
      BY Zenon
    <2> DEFINE v == [slices |-> NoSlices, name |-> <<>>]
    <2>1. history = <<v>> /\ existing = NoSlices /\ plan = NoPlan /\ pc = "idle" /\ hands = 0
      BY Zenon DEF Init
    <2>2. v.slices = NoSlices
      BY Zenon
    <2> HIDE DEF v
    <2>3. \A i \in 1 .. Len(history) : history[i].slices = NoSlices
      BY <2>1, <2>2
    <2> QED  BY <2>1, <2>3, NoSlicesMap, NoPlanType, Zenon DEF KeepInv, AllOrderly
  <1>2. WriterInv /\ KeepInv /\ [Next]_vars => [Stays]_vars
    <2> SUFFICES ASSUME WriterInv, KeepInv, Next, hands' = hands, outdated = {},
                        NEW a \in Stable, NEW n \in DOMAIN Server, a \in DOMAIN Server[n].eps
                 PROVE  \/ n \in DOMAIN Server' /\ a \in DOMAIN Server'[n].eps
                        \/ \E m \in DOMAIN Server \ {n} : a \in DOMAIN Server[m].eps
      BY Zenon DEF InPlace, vars
    <2>0. WriterType
      BY Zenon DEF WriterInv
    <2>1. CASE \/ history' = history
               \/ Deliver
               \/ history' = <<history[Len(history)]>>
      <3>1. Server' = Server
        BY <2>0, <2>1, NothingMoves, Zenon
      <3> QED  BY <3>1, Zenon
    <2>2. ASSUME pc = "writing"
          PROVE  /\ existing \in SliceMap /\ AllOrderly(existing)
                 /\ \E r \in Results : Synced(existing, Server, plan, r)
      BY <2>0, <2>2, Zenon DEF KeepInv, WriterType
    <2>3. CASE Create /\ history' # history
      <3>1. /\ NextName \notin DOMAIN Server /\ DOMAIN plan.write # {}
            /\ Put(NextName, plan.write[NextName])
        BY <2>3, Zenon DEF Create, Refused
      <3>2. /\ DOMAIN Server' = DOMAIN Server \cup {NextName}
            /\ \A m \in DOMAIN Server : m # NextName => Server'[m] = Server[m]
        BY <2>0, <3>1, NextNameIn, PutServer, Zenon
      <3> QED  BY <3>1, <3>2, Zenon
    <2>4. CASE Update /\ history' # history
      <3> DEFINE u == NextName
      <3>1. /\ u \in DOMAIN existing /\ DOMAIN plan.write # {} /\ pc = "writing"
            /\ Put(u, plan.write[u])
        BY <2>4, Zenon DEF Update, Refused
      <3>2. u \in DOMAIN plan.write /\ u \in Name /\ plan.write[u] \in Slice
        BY <2>0, <3>1, NextNameIn, Zenon
      <3> HIDE DEF u
      <3>3. /\ DOMAIN Server' = DOMAIN Server \cup {u} /\ Server'[u] = plan.write[u]
            /\ \A m \in DOMAIN Server : m # u => Server'[m] = Server[m]
        BY <2>0, <3>1, <3>2, PutServer, Zenon
      <3>4. CASE n # u
        BY <3>3, <3>4, Zenon
      <3>5. CASE n = u
        <4>1. PICK r \in Results : Synced(existing, Server, plan, r)
          BY <2>2, <3>1, Zenon
        <4>2. \/ a \in DOMAIN plan.write[u].eps
              \/ \E m \in DOMAIN Server \ {u} : a \in DOMAIN Server[m].eps
          BY <2>2, <3>1, <3>2, <3>5, <4>1, UpdateInPlace, SMTT(30)
        <4> QED  BY <3>3, <3>5, <4>2, Zenon
      <3> QED  BY <3>4, <3>5, Zenon
    <2>5. CASE Delete /\ history' # history
      <3> DEFINE o == NextOrphan
      <3>1. /\ plan.foreign \cup plan.emptied # {} /\ DOMAIN plan.write = {} /\ pc = "writing"
            /\ Drop(o)
        BY <2>5, Zenon DEF Delete
      <3>2. o \in plan.foreign \cup plan.emptied /\ o \in Name
        BY <2>0, <3>1, NextOrphanIn, Zenon
      <3> HIDE DEF o
      <3>3. /\ DOMAIN Server' = DOMAIN Server \ {o}
            /\ \A m \in DOMAIN Server \ {o} : Server'[m] = Server[m]
        BY <2>0, <3>1, <3>2, DropServer, Zenon
      <3>4. CASE n # o
        BY <3>3, <3>4, Zenon
      <3>5. CASE n = o
        <4>1. PICK r \in Results : Synced(existing, Server, plan, r)
          BY <2>2, <3>1, Zenon
        <4>2. \E m \in DOMAIN Server \ {o} : a \in DOMAIN Server[m].eps
          BY <2>2, <3>1, <3>2, <4>1, DeleteInPlace, Zenon
        <4> QED  BY <3>5, <4>2, Zenon
      <3> QED  BY <3>4, <3>5, Zenon
    <2>6. CASE List \/ Keep \/ Done \/ Swing \/ Fail
      <3>1. history' = history
        BY <2>6, Zenon DEF List, Keep, Done, Swing, Fail, Refused
      <3> QED  BY <2>1, <3>1, Zenon
    <2>7. CASE Restart
      BY <2>1, <2>7, Zenon DEF Restart
    <2>8. CASE HandDelete \/ HandRelabel
      BY <2>0, <2>8, HandOrderly, Zenon
    <2> QED  BY <2>1, <2>3, <2>4, <2>5, <2>6, <2>7, <2>8, Zenon DEF Next, Write
  <1>3. WriterInv /\ KeepInv /\ [Next]_vars =>
          [hands' = hands /\ outdated = {} =>
             \A a \in Stable : \A n \in DOMAIN Server : InPlace(a, n)]_vars
    BY <1>2, Zenon
  <1> HIDE DEF Stays
  <1> QED  BY <1>1, <1>3, KeepInvStep, WriterInit, WriterStep, PTL DEF Spec, SyncedKeepsInPlace

-----------------------------------------------------------------------------
(* The board *)

(* What is on slices is on one of them. *)
LEMMA OnSlicesIs ==
    ASSUME NEW s, NEW e
    PROVE  e \in OnSlices(s) <=> \E n \in DOMAIN s : e \in ShownBy(s[n])
  BY Zenon DEF OnSlices

(* Slices that present a list show it. *)
LEMMA PresentsShows ==
    ASSUME NEW s, NEW r, Presents(s, r)
    PROVE  OnSlices(s) = ToShow(r)
  <1>1. ASSUME NEW e \in OnSlices(s) PROVE e \in ToShow(r)
    <2>1. PICK n \in DOMAIN s : e \in ShownBy(s[n])
      BY <1>1, OnSlicesIs, Zenon
    <2>2. PICK a \in DOMAIN s[n].eps : e = [addr |-> a, cond |-> s[n].eps[a], group |-> s[n].group]
      BY <2>1, Zenon DEF ShownBy
    <2>3. a \in Reachable(r)
      BY <2>2, Zenon DEF Presents
    <2>4. PICK m \in DOMAIN s :
             /\ s[m].eps[a] = r[a].cond /\ s[m].group = GroupKey(r, a)
             /\ \A k \in DOMAIN s : a \in DOMAIN s[k].eps => k = m
      BY <2>3, Zenon DEF Presents
    <2>5. n = m
      BY <2>2, <2>4, Zenon
    <2>6. e = [addr |-> a, cond |-> r[a].cond, group |-> GroupKey(r, a)]
      BY <2>2, <2>4, <2>5, Zenon
    <2> QED  BY <2>3, <2>6, Zenon DEF ToShow
  <1>2. ASSUME NEW e \in ToShow(r) PROVE e \in OnSlices(s)
    <2>1. PICK a \in Reachable(r) : e = [addr |-> a, cond |-> r[a].cond, group |-> GroupKey(r, a)]
      BY <1>2, Zenon DEF ToShow
    <2>2. PICK n \in DOMAIN s :
             a \in DOMAIN s[n].eps /\ s[n].eps[a] = r[a].cond /\ s[n].group = GroupKey(r, a)
      BY <2>1, Zenon DEF Presents
    <2>3. e = [addr |-> a, cond |-> s[n].eps[a], group |-> s[n].group]
      BY <2>1, <2>2, Zenon
    <2>4. e \in ShownBy(s[n])
      BY <2>2, <2>3, Zenon DEF ShownBy
    <2> QED  BY <2>2, <2>4, OnSlicesIs, Zenon
  <1> QED  BY <1>1, <1>2, Zenon

(* A resolved list asks for endpoints. *)
LEMMA ToShowType ==
    ASSUME NEW r \in Resolved
    PROVE  ToShow(r) \subseteq Endpoint
  <1> SUFFICES ASSUME NEW a \in Reachable(r)
               PROVE  [addr |-> a, cond |-> r[a].cond, group |-> GroupKey(r, a)] \in Endpoint
    BY Zenon DEF ToShow
  <1>1. a \in Addresses /\ r[a].cond \in Conditions /\ GroupKey(r, a) \in Group
    BY GroupsPartition, Zenon
  <1> QED  BY <1>1, Zenon DEF Endpoint

(* Fewer slices show less. *)
LEMMA FewerShowLess ==
    ASSUME NEW s, NEW t, DOMAIN t \subseteq DOMAIN s, \A n \in DOMAIN t : t[n] = s[n]
    PROVE  OnSlices(t) \subseteq OnSlices(s)
  <1> SUFFICES ASSUME NEW e \in OnSlices(t) PROVE e \in OnSlices(s)
    BY Zenon
  <1>1. PICK n \in DOMAIN t : e \in ShownBy(t[n])
    BY OnSlicesIs, Zenon
  <1>2. n \in DOMAIN s /\ e \in ShownBy(s[n])
    BY <1>1, Zenon
  <1> QED  BY <1>2, OnSlicesIs, Zenon

(* No slices show nothing. *)
LEMMA NoneShown == OnSlices(NoSlices) = {}
  BY NoSlicesMap, OnSlicesIs, Zenon

(* The labelled ones of a map of slices. *)
LEMMA ListedIs ==
    ASSUME NEW s
    PROVE  /\ DOMAIN Listed(s) = {m \in DOMAIN s : s[m].listed}
           /\ \A n \in DOMAIN Listed(s) : Listed(s)[n] = s[n]
  BY Zenon DEF Listed

(* A slice that is put shows what it holds, if it is listed. *)
LEMMA PutShows ==
    ASSUME WriterType, NEW n \in Name, NEW v \in Slice, Put(n, v)
    PROVE  \A e \in OnSlices(Listed(Server')) :
              e \in OnSlices(Listed(Server)) \/ (v.listed /\ e \in ShownBy(v))
  <1> TAKE e \in OnSlices(Listed(Server'))
  <1>1. PICK m \in DOMAIN Listed(Server') : e \in ShownBy(Listed(Server')[m])
    BY OnSlicesIs, Zenon
  <1>2. m \in DOMAIN Server' /\ Server'[m].listed /\ Listed(Server')[m] = Server'[m]
    BY <1>1, ListedIs, Zenon
  <1>3. /\ DOMAIN Server' = DOMAIN Server \cup {n} /\ Server'[n] = v
        /\ \A k \in DOMAIN Server : k # n => Server'[k] = Server[k]
    BY PutServer, Zenon
  <1>4. CASE m = n
    BY <1>1, <1>2, <1>3, <1>4, Zenon
  <1>5. CASE m # n
    <2>1. m \in DOMAIN Server /\ Server'[m] = Server[m]
      BY <1>2, <1>3, <1>5, Zenon
    <2>2. m \in DOMAIN Listed(Server) /\ Listed(Server)[m] = Server[m]
      BY <1>2, <2>1, ListedIs, Zenon
    <2>3. e \in ShownBy(Listed(Server)[m])
      BY <1>1, <1>2, <2>1, <2>2, Zenon
    <2> QED  BY <2>2, <2>3, OnSlicesIs, Zenon
  <1> QED  BY <1>4, <1>5, Zenon

(* A slice that is dropped only takes off. *)
LEMMA DropShows ==
    ASSUME WriterType, NEW n \in Name, Drop(n)
    PROVE  OnSlices(Listed(Server')) \subseteq OnSlices(Listed(Server))
  <1>1. /\ DOMAIN Server' = DOMAIN Server \ {n}
        /\ \A m \in DOMAIN Server \ {n} : Server'[m] = Server[m]
    BY DropServer, Zenon
  <1>2. ASSUME NEW m \in DOMAIN Listed(Server')
        PROVE  m \in DOMAIN Listed(Server) /\ Listed(Server')[m] = Listed(Server)[m]
    <2>1. m \in DOMAIN Server' /\ Server'[m].listed /\ Listed(Server')[m] = Server'[m]
      BY <1>2, ListedIs, Zenon
    <2>2. m \in DOMAIN Server /\ Server'[m] = Server[m]
      BY <1>1, <2>1, Zenon
    <2> QED  BY <2>1, <2>2, ListedIs, Zenon
  <1> QED  BY <1>2, FewerShowLess, Zenon

(* Writing the next slice of the plan shows nothing but what is planned. *)
LEMMA NextSliceShows ==
    ASSUME WriterType, DOMAIN plan.write # {}, Put(NextName, plan.write[NextName])
    PROVE  OnSlices(Listed(Server')) \subseteq OnSlices(Listed(Server)) \cup OnSlices(plan.write)
  <1>1. /\ NextName \in DOMAIN plan.write /\ NextName \in Name
        /\ plan.write[NextName] \in Slice
    BY NextNameIn, Zenon
  <1>2. \A e \in OnSlices(Listed(Server')) :
           e \in OnSlices(Listed(Server)) \/ e \in ShownBy(plan.write[NextName])
    BY <1>1, PutShows, Zenon
  <1>3. \A e \in ShownBy(plan.write[NextName]) : e \in OnSlices(plan.write)
    BY <1>1, OnSlicesIs, Zenon
  <1> QED  BY <1>2, <1>3, Zenon

(* A plan shows what it is made for. *)
LEMMA PlanShows ==
    ASSUME WriterType, NEW r \in Resolved, Plan(r)
    PROVE  OnSlices(plan'.write) = ToShow(r)
  <1> DEFINE found == Listed(Head(history).slices)
  <1>1. IsLayout(found)
    BY ServerType, ListedMap, SliceMapIs, Zenon
  <1>2. plan' = planSlices(found, r)
    BY Zenon DEF Plan
  <1> HIDE DEF found
  <1>3. Presents(plan'.write, r)
    BY <1>1, <1>2, PlanIsRight, Zenon
  <1> QED  BY <1>3, PresentsShows, Zenon

(* What a step of a writing reconcile does to what is shown: it writes     *)
(* what is planned, or gives up for another reconcile, or is done.         *)
LEMMA WriteShows ==
    ASSUME WriterType, Create \/ Keep \/ Update \/ Delete \/ Done
    PROVE  \/ /\ pc' = "writing" /\ queued' = queued
              /\ OnSlices(Listed(Server')) \subseteq OnSlices(Listed(Server)) \cup OnSlices(plan.write)
              /\ OnSlices(plan'.write) \subseteq OnSlices(plan.write)
           \/ /\ pc' = "idle" /\ queued' = TRUE /\ history' = history /\ plan' = NoPlan
           \/ /\ pc' = "idle" /\ queued' = queued /\ history' = history
              /\ plan = NoPlan /\ plan' = NoPlan
  <1>1. ASSUME NEW n, Written(n) PROVE OnSlices(plan'.write) \subseteq OnSlices(plan.write)
    <2>1. /\ DOMAIN plan'.write \subseteq DOMAIN plan.write
          /\ \A m \in DOMAIN plan'.write : plan'.write[m] = plan.write[m]
      BY <1>1, WrittenType, Zenon
    <2> QED  BY <2>1, FewerShowLess, Zenon
  <1>2. ASSUME Refused
        PROVE  pc' = "idle" /\ queued' = TRUE /\ history' = history /\ plan' = NoPlan
    BY <1>2, Zenon DEF Refused, Finish
  <1>3. ASSUME history' = history PROVE OnSlices(Listed(Server')) = OnSlices(Listed(Server))
    <2>1. Server' = Server
      BY <1>3, Zenon DEF Server
    <2> QED  BY <2>1, Zenon
  <1>4. CASE Create
    <2>1. CASE NextName \in DOMAIN Server
      <3>1. Refused
        BY <1>4, <2>1, Zenon DEF Create
      <3> QED  BY <1>2, <3>1, Zenon
    <2>2. CASE NextName \notin DOMAIN Server
      <3>1. /\ DOMAIN plan.write # {} /\ Put(NextName, plan.write[NextName]) /\ Written(NextName)
            /\ pc' = "writing" /\ queued' = queued
        BY <1>4, <2>2, Zenon DEF Create
      <3> QED  BY <1>1, <3>1, NextSliceShows, Zenon
    <2> QED  BY <2>1, <2>2, Zenon
  <1>5. CASE Keep
    <2>1. Written(NextName) /\ history' = history /\ pc' = "writing" /\ queued' = queued
      BY <1>5, Zenon DEF Keep
    <2> QED  BY <1>1, <1>3, <2>1, Zenon
  <1>6. CASE Update
    <2>1. CASE NextName \in outdated
      <3>1. Refused
        BY <1>6, <2>1, Zenon DEF Update
      <3> QED  BY <1>2, <3>1, Zenon
    <2>2. CASE NextName \notin outdated
      <3>1. /\ DOMAIN plan.write # {} /\ Put(NextName, plan.write[NextName]) /\ Written(NextName)
            /\ pc' = "writing" /\ queued' = queued
        BY <1>6, <2>2, Zenon DEF Update
      <3> QED  BY <1>1, <3>1, NextSliceShows, Zenon
    <2> QED  BY <2>1, <2>2, Zenon
  <1>7. CASE Delete
    <2> DEFINE o == NextOrphan
    <2>1. /\ plan.foreign \cup plan.emptied # {}
          /\ IF o \in DOMAIN Server THEN Drop(o) ELSE history' = history
          /\ plan' = [plan EXCEPT !.foreign = @ \ {o}, !.emptied = @ \ {o}]
          /\ queued' = queued /\ pc' = "writing"
      BY <1>7, Zenon DEF Delete
    <2>2. o \in Name
      BY <2>1, NextOrphanIn, Zenon
    <2> HIDE DEF o
    <2>3. OnSlices(Listed(Server')) \subseteq OnSlices(Listed(Server))
      BY <1>3, <2>1, <2>2, DropShows, Zenon
    <2>4. plan'.write = plan.write
      <3>1. plan \in PlanType
        BY Zenon DEF WriterType
      <3> QED  BY <2>1, <3>1, Zenon DEF PlanType
    <2> QED  BY <2>1, <2>3, <2>4, Zenon
  <1>8. CASE Done
    BY <1>8, Zenon DEF Done, Finish
  <1> QED  BY <1>4, <1>5, <1>6, <1>7, <1>8, Zenon

(* Somebody's hand only takes off. *)
LEMMA HandShows ==
    ASSUME WriterType, HandDelete \/ HandRelabel
    PROVE  OnSlices(Listed(Server')) \subseteq OnSlices(Listed(Server))
  <1>1. \A n \in DOMAIN Server : n \in Name /\ Server[n] \in Slice
    BY ServerType, SliceMapIs, Zenon DEF IsLayout
  <1>2. CASE HandDelete
    <2>1. PICK n \in DOMAIN Server : Drop(n)
      BY <1>2, Zenon DEF HandDelete
    <2> QED  BY <1>1, <2>1, DropShows, Zenon
  <1>3. CASE HandRelabel
    <2>1. PICK n \in DOMAIN Server : Put(n, [Server[n] EXCEPT !.listed = FALSE])
      BY <1>3, Zenon DEF HandRelabel
    <2> DEFINE no == FALSE
               v == [Server[n] EXCEPT !.listed = no]
    <2>2. Put(n, v)
      BY <2>1, Zenon
    <2>3. no \in BOOLEAN /\ ~no
      BY Zenon
    <2> HIDE DEF no
    <2>4. v \in Slice /\ v.listed = no
      BY <1>1, <2>3, Zenon DEF Slice
    <2> HIDE DEF v
    <2>5. \A e \in OnSlices(Listed(Server')) :
             e \in OnSlices(Listed(Server)) \/ (v.listed /\ e \in ShownBy(v))
      BY <1>1, <2>2, <2>4, PutShows, Zenon
    <2> QED  BY <2>3, <2>4, <2>5, Zenon
  <1> QED  BY <1>2, <1>3, Zenon

(* Without slices and before the first reconcile. *)
LEMMA BoardInit == Init => Board!Init
  <1> SUFFICES ASSUME Init PROVE Board!Init
    BY Zenon
  <1>1. Listed(Server) = NoSlices
    <2> DEFINE v == [slices |-> NoSlices, name |-> <<>>]
    <2>1. history = <<v>>
      BY Zenon DEF Init
    <2>2. v.slices = NoSlices
      BY Zenon
    <2> HIDE DEF v
    <2>3. history[Len(history)] = v
      BY <2>1, LastOfOne, Zenon
    <2>4. Server = NoSlices
      BY <2>2, <2>3, Zenon DEF Server
    <2>5. DOMAIN Listed(NoSlices) = {} /\ DOMAIN NoSlices = {}
      BY NoSlicesMap, ListedIs, Zenon
    <2> QED  BY <2>4, <2>5, Zenon DEF Listed, NoSlices
  <1>2. OnSlices(Listed(Server)) = {} /\ OnSlices(plan.write) = {}
    BY <1>1, NoneShown, NoPlanType, Zenon DEF Init, NoPlan
  <1>3. ToShow(resolved) \subseteq Endpoint
    BY ToShowType, ResultsAssumption, Zenon DEF Init
  <1>4. (~Quiet) = TRUE
    BY Zenon DEF Init, Quiet
  <1> QED  BY <1>2, <1>3, <1>4, Zenon DEF Board!Init

(* Every step of the writer is a step of the board, or one it does not see. *)
LEMMA BoardStep == WriterInv /\ [Next]_vars => [Board!Next]_(Board!vars)
  <1> SUFFICES ASSUME WriterInv, [Next]_vars PROVE [Board!Next]_(Board!vars)
    BY Zenon
  <1>0. WriterType /\ resolved \in Resolved /\ WriterInv'
    BY WriterStep, ResultsAssumption, Zenon DEF WriterInv
  <1>1. ASSUME history' = history PROVE OnSlices(Listed(Server')) = OnSlices(Listed(Server))
    <2>1. Server' = Server
      BY <1>1, Zenon DEF Server
    <2> QED  BY <2>1, Zenon
  <1>2. CASE List
    <2>1. Plan(resolved) /\ queued /\ history' = history /\ resolved' = resolved /\ pc' = "writing"
      BY <1>2, Zenon DEF List, Plan
    <2>2. OnSlices(plan'.write) = ToShow(resolved)
      BY <1>0, <2>1, PlanShows, Zenon
    <2>3. ~Quiet /\ ~Quiet'
      BY <2>1, Zenon DEF Quiet
    <2>4. Board!Take
      BY <1>1, <2>1, <2>2, <2>3, Zenon DEF Board!Take
    <2> QED  BY <2>4, Zenon DEF Board!Next
  <1>3. CASE Create \/ Keep \/ Update \/ Delete \/ Done
    <2>1. pc = "writing" /\ resolved' = resolved
      BY <1>3, Zenon DEF Create, Keep, Update, Delete, Done
    <2>2. ~Quiet
      BY <2>1, Zenon DEF Quiet
    <2>3. CASE /\ pc' = "writing" /\ queued' = queued
               /\ OnSlices(Listed(Server')) \subseteq OnSlices(Listed(Server)) \cup OnSlices(plan.write)
               /\ OnSlices(plan'.write) \subseteq OnSlices(plan.write)
      <3>1. ~Quiet'
        BY <2>3, Zenon DEF Quiet
      <3>2. Board!Write
        BY <2>1, <2>2, <2>3, <3>1, Zenon DEF Board!Write
      <3> QED  BY <3>2, Zenon DEF Board!Next
    <2>4. CASE pc' = "idle" /\ queued' = TRUE /\ history' = history /\ plan' = NoPlan
      <3>1. ~Quiet'
        BY <2>4, Zenon DEF Quiet
      <3>2. OnSlices(plan'.write) = {}
        BY <2>4, NoneShown, Zenon DEF NoPlan
      <3>3. Board!Abandon
        BY <1>1, <2>1, <2>4, <3>1, <3>2, Zenon DEF Board!Abandon
      <3> QED  BY <3>3, Zenon DEF Board!Next
    <2>5. CASE /\ pc' = "idle" /\ queued' = queued /\ history' = history
               /\ plan = NoPlan /\ plan' = NoPlan
      <3>1. OnSlices(plan'.write) = {} /\ OnSlices(plan.write) = {}
        BY <2>5, NoneShown, Zenon DEF NoPlan
      <3>2. CASE Quiet'
        <4>1. Presents(Listed(Server'), resolved')
          BY <1>0, <3>2, Zenon DEF WriterInv, Quiet, Calm
        <4>2. OnSlices(Listed(Server)) = ToShow(resolved)
          BY <1>1, <2>1, <2>5, <4>1, PresentsShows, Zenon
        <4>3. Board!Rest
          BY <1>1, <2>1, <2>5, <3>1, <3>2, <4>2, Zenon DEF Board!Rest
        <4> QED  BY <4>3, Zenon DEF Board!Next
      <3>3. CASE ~Quiet'
        BY <1>1, <2>1, <2>2, <2>5, <3>1, <3>3, Zenon DEF Board!vars
      <3> QED  BY <3>2, <3>3, Zenon
    <2> QED  BY <1>0, <1>3, <2>3, <2>4, <2>5, WriteShows, Zenon
  <1>4. CASE Deliver
    <2>1. /\ resolved' = resolved /\ plan' = plan /\ queued' = TRUE
          /\ Len(history) > 1 /\ history' = Tail(history)
      BY <1>4, Zenon DEF Deliver
    <2>2. Server' = Server /\ Len(history) # 1
      BY <1>0, <2>1, TailServer, Zenon
    <2>3. ~Quiet /\ ~Quiet'
      BY <2>1, <2>2, Zenon DEF Quiet
    <2> QED  BY <2>1, <2>2, <2>3, Zenon DEF Board!vars
  <1>5. CASE Swing
    <2>1. queued' = TRUE /\ resolved' \in Results /\ history' = history /\ plan' = plan
      BY <1>5, Zenon DEF Swing
    <2>2. ToShow(resolved') \subseteq Endpoint
      BY <2>1, ToShowType, ResultsAssumption, Zenon
    <2>3. ~Quiet'
      BY <2>1, Zenon DEF Quiet
    <2>4. Board!Change
      BY <1>1, <2>1, <2>2, <2>3, Zenon DEF Board!Change
    <2> QED  BY <2>4, Zenon DEF Board!Next
  <1>6. CASE Fail \/ Restart
    <2>1. /\ queued' = TRUE /\ resolved' = resolved /\ plan' = NoPlan
          /\ history' = history \/ history' = <<history[Len(history)]>>
      BY <1>6, Zenon DEF Fail, Refused, Restart, Finish
    <2>2. Server' = Server
      BY <1>0, <2>1, LastServer, Zenon
    <2>3. ~Quiet'
      BY <2>1, Zenon DEF Quiet
    <2>4. OnSlices(plan'.write) = {}
      BY <2>1, NoneShown, Zenon DEF NoPlan
    <2>5. Board!Abandon
      BY <2>1, <2>2, <2>3, <2>4, Zenon DEF Board!Abandon
    <2> QED  BY <2>5, Zenon DEF Board!Next
  <1>7. CASE HandDelete \/ HandRelabel
    <2>1. resolved' = resolved /\ plan' = plan
      BY <1>7, Zenon DEF HandDelete, HandRelabel
    <2>2. ~Quiet'
      BY <1>0, <1>7, HandStep, Zenon DEF Quiet
    <2>3. OnSlices(Listed(Server')) \subseteq OnSlices(Listed(Server))
      BY <1>0, <1>7, HandShows, Zenon
    <2>4. Board!Tamper
      BY <2>1, <2>2, <2>3, Zenon DEF Board!Tamper
    <2> QED  BY <2>4, Zenon DEF Board!Next
  <1>8. CASE UNCHANGED vars
    BY <1>1, <1>8, Zenon DEF vars, Board!vars, Quiet
  <1> QED  BY <1>2, <1>3, <1>4, <1>5, <1>6, <1>7, <1>8, Zenon DEF Next, Write

(* The writer implements the board: whatever list it plans from, it puts   *)
(* nothing on a slice but what the reconcile in flight has resolved, and   *)
(* it rests only where the slices show what the source resolves to.        *)
THEOREM WriterIsBoard == Spec => ImplementsBoard
BY BoardInit, BoardStep, WriterInit, WriterStep, PTL DEF Spec, ImplementsBoard, Board!Spec
=============================================================================
