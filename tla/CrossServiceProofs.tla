-------------------------- MODULE CrossServiceProofs --------------------------
(***************************************************************************)
(* Proofs about CrossService for every set of addresses, policy, answer    *)
(* and bound: type correctness, ObservedIsHonest, QuietMeansConverged and  *)
(* ExpiredOutageStaysDown.                                                 *)
(***************************************************************************)
EXTENDS CrossService, FiniteSetTheorems, TLAPS

(* copy is current exactly as long as nobody else wrote: the cache was     *)
(* synced when the worker read it and still is.                            *)
CurrentInv == current => pc # "idle" /\ Len(versions) = 1 /\ copy = versions[1]

(* A worker whose copy is out of date will be followed by another one.     *)
OutdatedInv == pc # "idle" /\ ~current => queued \/ Len(versions) > 1

(* A worker past Resolve has a valid spec, and the state it holds is what  *)
(* the policy makes of its copy and its resolution; unless a run is due,   *)
(* the slices it wrote hold it.                                            *)
WorkerInv ==
    /\ pc \in {"resolved", "serviced", "written"} => copy.spec.valid
    /\ pc \in {"serviced", "written"} =>
          IF resolution.ok
          THEN /\ state.endpoints = resolution.endpoints
               /\ ~state.stale /\ ~state.degraded /\ state.errors = 0
          ELSE /\ state.errors = NextErrors(copy.status.source.errors)
               /\ state.stale = (state.errors >= Threshold)
    /\ pc = "written" /\ ~queued => served = state.endpoints

(* While nothing is queued, what the worker read of its surroundings holds. *)
UndisturbedInv ==
    ~queued /\ pc \in {"resolved", "serviced", "written"} =>
        /\ granted
        /\ Watched => resolution = source

(* b is a, or b follows a by a success, or by one more failure. *)
Follows(a, b) ==
    \/ a = b
    \/ ~b.stale
    \/ b.lastSuccess = a.lastSuccess /\ b.errors = NextErrors(a.errors)

(* Status writes need a synced cache, so at most one status change is on   *)
(* its way to the informer: everything behind the head carries the stored  *)
(* status, and the head and the worker's copy are at most one step behind. *)
LagInv ==
    /\ \A i \in 2 .. Len(versions) : versions[i].status = Stored.status
    /\ Follows(versions[1].status.source, Stored.status.source)
    /\ pc # "idle" => Follows(copy.status.source, Stored.status.source)

(* A status that says stale has counted up to the threshold. *)
StaleInv ==
    /\ \A i \in 1 .. Len(versions) :
          versions[i].status.source.stale => versions[i].status.source.errors >= Threshold
    /\ copy.status.source.stale => copy.status.source.errors >= Threshold

IInv == /\ TypeOK
        /\ CurrentInv
        /\ OutdatedInv
        /\ WorkerInv
        /\ UndisturbedInv
        /\ LagInv
        /\ StaleInv
        /\ ObservedIsHonest
        /\ QuietMeansConverged

-----------------------------------------------------------------------------
(* Facts about the operators. *)

(* A function from addresses to conditions is an endpoint list. *)
LEMMA EndpointIntro ==
    ASSUME NEW S \in SUBSET Addrs, NEW f \in [S -> Cond]
    PROVE  f \in EndpointSet
BY Zenon DEF EndpointSet

(* What an endpoint list is made of. *)
LEMMA EndpointElim ==
    ASSUME NEW f \in EndpointSet
    PROVE  /\ DOMAIN f \in SUBSET Addrs
           /\ f \in [DOMAIN f -> Cond]
BY Zenon DEF EndpointSet

(* The empty list is one. *)
LEMMA NoEndpointsType == NoEndpoints \in EndpointSet /\ NoEndpoints \in PersistedSet
<1>1. NoEndpoints \in [{} -> Cond] /\ NoEndpoints \in [{} -> {"ready", "notReady"}]
  BY Zenon DEF NoEndpoints
<1> QED
  BY <1>1, Zenon DEF EndpointSet, PersistedSet

(* A persisted list is an endpoint list. *)
LEMMA PersistedIsEndpoints == PersistedSet \subseteq EndpointSet
BY DEF PersistedSet, EndpointSet, Cond

(* Whatever the cut keeps is a persisted list. *)
LEMMA ToPersistedType ==
    ASSUME NEW f \in EndpointSet, NEW p \in ToPersisted(f)
    PROVE  p \in PersistedSet
<1>1. PICK S \in SUBSET DOMAIN f :
        p = [a \in S |-> IF f[a] = "ready" THEN "ready" ELSE "notReady"]
  BY Zenon DEF ToPersisted
<1>2. S \in SUBSET Addrs
  BY <1>1, EndpointElim, Zenon
<1>3. p \in [S -> {"ready", "notReady"}]
  BY <1>1, Zenon
<1> QED
  BY <1>2, <1>3, Zenon DEF PersistedSet

(* The two counts of the status are natural numbers. *)
LEMMA CountTypes ==
    ASSUME NEW f \in EndpointSet
    PROVE  /\ Cardinality(DOMAIN f) \in Nat
           /\ Cardinality(ReadyAddrs(f)) \in Nat
           /\ Cardinality(DOMAIN f) = 0 <=> f = NoEndpoints
<1>1. IsFiniteSet(DOMAIN f) /\ IsFiniteSet(ReadyAddrs(f))
  BY EndpointElim, BoundsAssumption, FS_Subset, Zenon DEF ReadyAddrs
<1>2. Cardinality(DOMAIN f) = 0 <=> DOMAIN f = {}
  BY <1>1, FS_EmptySet, Zenon
<1>3. DOMAIN f = {} <=> f = NoEndpoints
  BY EndpointElim, Zenon DEF NoEndpoints
<1> QED
  BY <1>1, <1>2, <1>3, FS_CardinalityType, Zenon

(* Counting an error stays within the cap and never goes down. *)
LEMMA NextErrorsType ==
    ASSUME NEW n \in 0 .. ErrorCap
    PROVE  NextErrors(n) \in 0 .. ErrorCap /\ NextErrors(n) >= n
BY BoundsAssumption DEF NextErrors

(* The threshold is a number, and the cap reaches it. *)
LEMMA ThresholdType == Threshold \in Nat \ {0} /\ ErrorCap \in Nat /\ ErrorCap >= Threshold
<1>1. Policy.failureThreshold \in Nat
  BY PolicyAssumption, Zenon DEF PolicySpec
<1>2. Threshold \in Nat \ {0}
  BY <1>1 DEF Threshold, FailurePolicyDefaults
<1> QED
  BY <1>2, BoundsAssumption, Zenon

(* The policy decides a FailureState. *)
LEMMA PolicyType ==
    ASSUME NEW prev \in SourceStatus, NEW res \in Resolution, NEW t \in Nat
    PROVE  ApplyFailurePolicy(prev, res, t) \in FailureState
<1> DEFINE good == prev.lkg
<1>1. good \in EndpointSet
  BY PersistedIsEndpoints, Zenon DEF SourceStatus
<1>2. [a \in DOMAIN good |-> "notReady"] \in EndpointSet
  <2>1. [a \in DOMAIN good |-> "notReady"] \in [DOMAIN good -> Cond]
    BY Zenon DEF Cond
  <2> QED
    BY <1>1, <2>1, EndpointElim, EndpointIntro, Zenon
<1>3. NextErrors(prev.errors) \in 0 .. ErrorCap
  BY NextErrorsType, Zenon DEF SourceStatus
<1>4. 0 \in 0 .. ErrorCap
  BY BoundsAssumption
<1>5. res.endpoints \in EndpointSet
  BY Zenon DEF Resolution
<1> HIDE DEF good
<1> QED
  BY <1>1, <1>2, <1>3, <1>4, <1>5, NoEndpointsType
  DEF ApplyFailurePolicy, FailureState, endpointsFromStatus, good

-----------------------------------------------------------------------------
(* Type correctness. *)

(* The versions in flight are objects, the stored one included. *)
LEMMA StoredType ==
    ASSUME versions \in Seq(Object), versions # <<>>
    PROVE  /\ Len(versions) \in Nat \ {0}
           /\ Stored \in Object
           /\ versions[1] \in Object
           /\ Cached = versions[1]
BY DEF Stored, Cached

(* The object a CrossService starts as is one. *)
LEMMA NewObjectType == NewObject \in Object /\ NoSource \in SourceStatus
BY NoEndpointsType, BoundsAssumption
DEF NewObject, Object, ObjectSpec, ObjectStatus, ConditionStatus, NoSource, SourceStatus

(* Every answer of the source is a resolution. *)
LEMMA OutcomesType == Outcomes \subseteq Resolution /\ Down \in Resolution
<1>1. Down \in Resolution
  BY NoEndpointsType, Zenon DEF Down, Resolution
<1>2. ASSUME NEW eps \in Answers PROVE Up(eps) \in Resolution
  <2>1. eps \in EndpointSet
    BY SetupAssumption, Zenon
  <2> QED
    BY <2>1, Zenon DEF Up, Resolution
<1> QED
  BY <1>1, <1>2, Zenon DEF Outcomes

(* What Finish leaves behind is typed. *)
LEMMA FinishType ==
    ASSUME Finish
    PROVE  /\ pc' = "idle"
           /\ copy' \in Object
           /\ current' = FALSE
           /\ resolution' \in Resolution
           /\ state' \in FailureState
BY NewObjectType, OutcomesType, NoEndpointsType, BoundsAssumption DEF Finish, FailureState

(* The status of the two early returns is a status. *)
LEMMA EarlyStatusType ==
    ASSUME copy \in Object
    PROVE  /\ [copy.status EXCEPT !.observedGeneration = copy.spec.generation,
                                  !.ready = "False"] \in ObjectStatus
           /\ [copy.status EXCEPT !.observedGeneration = copy.spec.generation,
                                  !.ready = "False", !.resolved = "False"] \in ObjectStatus
BY Zenon DEF Object, ObjectSpec, ObjectStatus, ConditionStatus

(* The status of a finished reconcile is a status. *)
LEMMA ApplyStatusType ==
    ASSUME TypeOK, NEW p \in PersistedSet
    PROVE  applyStatus(p) \in ObjectStatus
<1>1. /\ copy.spec.generation \in Nat
      /\ copy.status.source \in SourceStatus
      /\ state.endpoints \in EndpointSet
      /\ state.errors \in 0 .. ErrorCap
      /\ state.stale \in BOOLEAN
      /\ now \in Nat
  BY Zenon DEF TypeOK, Object, ObjectSpec, ObjectStatus, FailureState
<1>2. /\ Cardinality(DOMAIN state.endpoints) \in Nat
      /\ Cardinality(ReadyAddrs(state.endpoints)) \in Nat
  BY <1>1, CountTypes, Zenon
<1>3. [copy.status.source EXCEPT !.errors = state.errors, !.stale = state.stale] \in SourceStatus
  BY <1>1, Zenon DEF SourceStatus
<1>4. [lastSuccess |-> now, lkg |-> p, errors |-> 0, stale |-> FALSE] \in SourceStatus
  BY <1>1, BoundsAssumption DEF SourceStatus
<1> QED
  BY <1>1, <1>2, <1>3, <1>4, Zenon DEF applyStatus, sourceStatus, ObjectStatus, ConditionStatus

(* A status write leaves a non-empty sequence of objects. *)
LEMMA WriteStatusType ==
    ASSUME TypeOK, NEW s \in ObjectStatus, writeStatus(s)
    PROVE  versions' \in Seq(Object) /\ versions' # <<>>
<1>1. [copy EXCEPT !.status = s] \in Object
  BY Zenon DEF TypeOK, Object
<1>2. CASE UNCHANGED versions
  BY <1>2, Zenon DEF TypeOK
<1>3. CASE versions' = Append(versions, [copy EXCEPT !.status = s])
  BY <1>1, <1>3 DEF TypeOK
<1> QED
  BY <1>2, <1>3, Zenon DEF writeStatus, Store

(* Init establishes TypeOK. *)
LEMMA TypeInit == Init => TypeOK
<1> SUFFICES ASSUME Init PROVE TypeOK
  BY Zenon
<1>1. source \in Resolution /\ resolution \in Resolution
  BY OutcomesType, Zenon DEF Init
<1>2. versions \in Seq(Object) /\ versions # <<>> /\ copy \in Object
  BY NewObjectType DEF Init
<1>3. served \in EndpointSet /\ state \in FailureState
  BY NoEndpointsType, BoundsAssumption DEF Init, FailureState
<1> QED
  BY <1>1, <1>2, <1>3, Zenon DEF Init, TypeOK

(* Every step preserves TypeOK. *)
LEMMA TypeStep == TypeOK /\ [Next]_vars => TypeOK'
<1> SUFFICES ASSUME TypeOK, [Next]_vars PROVE TypeOK'
  BY Zenon
<1> USE DEF worker, budget
<1>1. CASE Get
  BY <1>1, StoredType, Zenon DEF Get, TypeOK
<1>2. CASE RejectSpec
  BY <1>2, WriteStatusType, EarlyStatusType, FinishType, Zenon DEF RejectSpec, TypeOK
<1>3. CASE RefuseCluster
  BY <1>3, WriteStatusType, EarlyStatusType, FinishType, Zenon DEF RefuseCluster, TypeOK
<1>4. CASE Resolve
  BY <1>4, Zenon DEF Resolve, TypeOK
<1>5. CASE ApplyPolicy
  <2>1. copy.status.source \in SourceStatus
    BY Zenon DEF TypeOK, Object, ObjectStatus
  <2>2. state' \in FailureState
    BY <1>5, <2>1, PolicyType, Zenon DEF ApplyPolicy, TypeOK
  <2> QED
    BY <1>5, <2>2, Zenon DEF ApplyPolicy, TypeOK
<1>6. CASE WriteSlices
  <2>1. served' \in EndpointSet /\ queued' \in BOOLEAN
    BY <1>6, Zenon DEF WriteSlices, Mixtures, TypeOK, FailureState
  <2>2. faults' = faults \/ faults' = faults + 1
    BY <1>6, Zenon DEF WriteSlices
  <2>3. faults' \in Nat
    BY <2>2 DEF TypeOK
  <2> QED
    BY <1>6, <2>1, <2>3, Zenon DEF WriteSlices, TypeOK
<1>7. CASE WriteStatus
  <2>1. PICK p \in ToPersisted(resolution.endpoints) : writeStatus(applyStatus(p))
    BY <1>7, Zenon DEF WriteStatus
  <2>2. p \in PersistedSet
    BY <2>1, ToPersistedType, Zenon DEF TypeOK, Resolution
  <2>3. versions' \in Seq(Object) /\ versions' # <<>>
    BY <2>1, <2>2, ApplyStatusType, WriteStatusType, Zenon
  <2>4. timer' \in BOOLEAN
    BY <1>7, SetupAssumption, Zenon DEF WriteStatus, TypeOK
  <2> QED
    BY <1>7, <2>3, <2>4, FinishType, Zenon DEF WriteStatus, TypeOK
<1>8. CASE Fail
  <2>1. served' \in EndpointSet
    BY <1>8, Zenon DEF Fail, Mixtures, TypeOK
  <2> QED
    BY <1>8, <2>1, FinishType DEF Fail, TypeOK
<1>9. CASE Deliver
  BY <1>9 DEF Deliver, TypeOK
<1>10. CASE Edit
  <2>1. ASSUME NEW valid \in BOOLEAN
        PROVE  [Stored EXCEPT !.spec = [generation |-> Stored.spec.generation + 1,
                                        valid |-> valid]] \in Object
    <3>1. Stored \in Object
      BY StoredType, Zenon DEF TypeOK
    <3>2. [generation |-> Stored.spec.generation + 1, valid |-> valid] \in ObjectSpec
      BY <3>1 DEF Object, ObjectSpec
    <3> QED
      BY <3>1, <3>2, Zenon DEF Object
  <2>2. versions' \in Seq(Object) /\ versions' # <<>>
    <3>1. PICK o \in Object : versions' = Append(versions, o)
      BY <1>10, <2>1, Zenon DEF Edit, Store
    <3>2. versions \in Seq(Object)
      BY Zenon DEF TypeOK
    <3> QED
      BY <3>1, <3>2
  <2>3. edits' = edits + 1 /\ current' = FALSE
    BY <1>10, Zenon DEF Edit
  <2>4. edits' \in Nat
    BY <2>3 DEF TypeOK
  <2>5. UNCHANGED <<now, source, granted, served, queued, timer,
                    pc, copy, resolution, state, swings, faults>>
    BY <1>10, Zenon DEF Edit
  <2> QED
    BY <2>2, <2>3, <2>4, <2>5, Zenon DEF TypeOK
<1>11. CASE SourceSwing
  BY <1>11, OutcomesType, SetupAssumption DEF SourceSwing, TypeOK
<1>12. CASE GrantSwing
  BY <1>12 DEF GrantSwing, TypeOK
<1>13. CASE TimerFires
  BY <1>13, Zenon DEF TimerFires, TypeOK
<1>14. CASE Tick
  BY <1>14 DEF Tick, TypeOK
<1>15. CASE Restart
  <2>1. versions' \in Seq(Object) /\ versions' # <<>>
    <3>1. Stored \in Object
      BY StoredType, Zenon DEF TypeOK
    <3>2. versions' = <<Stored>>
      BY <1>15, Zenon DEF Restart
    <3> HIDE DEF Stored
    <3> QED
      BY <3>1, <3>2
  <2>2. faults' = faults + 1 /\ queued' = TRUE /\ timer' = FALSE /\ Finish
        /\ UNCHANGED <<now, source, granted, served, edits, swings>>
    BY <1>15, Zenon DEF Restart
  <2>3. faults' \in Nat
    BY <2>2 DEF TypeOK
  <2> QED
    BY <2>1, <2>2, <2>3, FinishType, Zenon DEF TypeOK
<1>16. CASE UNCHANGED vars
  BY <1>16, Zenon DEF vars, TypeOK
<1> QED
  BY Zenon, <1>1, <1>2, <1>3, <1>4, <1>5, <1>6, <1>7, <1>8, <1>9, <1>10, <1>11, <1>12,
     <1>13, <1>14, <1>15, <1>16 DEF Next, Reconcile

(* Type correctness of the reconcile loop, for every choice of constants. *)
THEOREM TypeCorrect == Spec => []TypeOK
BY TypeInit, TypeStep, PTL DEF Spec

-----------------------------------------------------------------------------
(* What the steps do to the sequence of versions. *)

(* A new version is stored behind the others. *)
LEMMA AppendVersion ==
    ASSUME TypeOK, NEW o \in Object, versions' = Append(versions, o)
    PROVE  /\ Len(versions') = Len(versions) + 1
           /\ Stored' = o
           /\ \A i \in 1 .. Len(versions) : versions'[i] = versions[i]
BY StoredType DEF TypeOK, Stored

(* A delivery moves the head and leaves the stored version alone. *)
LEMMA DeliverVersion ==
    ASSUME TypeOK, Len(versions) > 1, versions' = Tail(versions)
    PROVE  /\ Len(versions') = Len(versions) - 1
           /\ Stored' = Stored
           /\ \A i \in 1 .. Len(versions') : versions'[i] = versions[i + 1]
BY StoredType DEF TypeOK, Stored

(* A relist leaves only the stored version. *)
LEMMA RelistVersion ==
    ASSUME TypeOK, versions' = <<Stored>>
    PROVE  Len(versions') = 1 /\ versions'[1] = Stored /\ Stored' = Stored
<1>1. PICK o : o = Stored
  BY Zenon
<1>2. versions' = <<o>>
  BY <1>1, Zenon
<1>3. Len(versions') = 1 /\ versions'[1] = o
  BY <1>2
<1> QED
  BY <1>1, <1>3, Zenon DEF Stored

(* An edit stores a version with a new generation and the old status. *)
LEMMA EditVersion ==
    ASSUME TypeOK, Edit
    PROVE  \E o \in Object :
              /\ o.status = Stored.status
              /\ o.spec.generation = Stored.spec.generation + 1
              /\ Len(versions') = Len(versions) + 1
              /\ Stored' = o
              /\ \A i \in 1 .. Len(versions) : versions'[i] = versions[i]
<1>1. PICK valid \in BOOLEAN :
        versions' = Append(versions,
           [Stored EXCEPT !.spec = [generation |-> Stored.spec.generation + 1, valid |-> valid]])
  BY Zenon DEF Edit, Store
<1>2. Stored \in Object
  BY StoredType, Zenon DEF TypeOK
<1>3. PICK o \in Object :
        /\ versions' = Append(versions, o)
        /\ o.status = Stored.status
        /\ o.spec.generation = Stored.spec.generation + 1
  <2>1. [generation |-> Stored.spec.generation + 1, valid |-> valid] \in ObjectSpec
    BY <1>2 DEF Object, ObjectSpec
  <2> QED
    BY <1>1, <1>2, <2>1 DEF Object
<1> QED
  BY <1>3, AppendVersion, Zenon

(* A status write happens on a synced cache, or changes nothing, and then  *)
(* the copy was out of date or already said what was to be written.        *)
LEMMA StatusWrite ==
    ASSUME TypeOK, CurrentInv, NEW s \in ObjectStatus, writeStatus(s)
    PROVE  \/ /\ current
              /\ copy = Stored /\ versions[1] = Stored /\ Len(versions) = 1
              /\ Len(versions') = 2
              /\ versions'[1] = copy
              /\ versions'[2] = [copy EXCEPT !.status = s]
              /\ Stored' = [copy EXCEPT !.status = s]
           \/ /\ versions' = versions
              /\ ~current \/ (s = copy.status /\ ~(pc = "written" /\ ~resolution.ok))
<1>1. CASE current /\ versions' = Append(versions, [copy EXCEPT !.status = s])
  <2>1. Len(versions) = 1 /\ copy = versions[1] /\ copy = Stored
    BY <1>1, Zenon DEF CurrentInv, Stored
  <2>2. PICK o \in Object : o = [copy EXCEPT !.status = s]
    BY Zenon DEF TypeOK, Object
  <2>3. Len(versions') = 2 /\ Stored' = o /\ versions'[1] = versions[1]
    <3>1. versions' = Append(versions, o)
      BY <1>1, <2>2, Zenon
    <3>2. /\ Len(versions') = Len(versions) + 1
          /\ Stored' = o
          /\ \A i \in 1 .. Len(versions) : versions'[i] = versions[i]
      BY <3>1, AppendVersion, Zenon
    <3>3. Len(versions') = 2
      BY <2>1, <3>2
    <3>4. 1 \in 1 .. Len(versions)
      BY <2>1
    <3> QED
      BY <3>2, <3>3, <3>4, Zenon
  <2>4. versions'[2] = Stored'
    BY <2>3, Zenon DEF Stored
  <2> QED
    BY <1>1, <2>1, <2>2, <2>3, <2>4, Zenon
<1> QED
  BY <1>1, Zenon DEF writeStatus, Store

(* The three actions that end a reconcile. *)
Ending == RejectSpec \/ RefuseCluster \/ WriteStatus

(* Each of them writes a status of some kind and finishes. *)
LEMMA EndingWrites ==
    ASSUME TypeOK, Ending
    PROVE  /\ Finish
           /\ pc \in {"got", "written"}
           /\ \E s \in ObjectStatus : writeStatus(s)
           /\ UNCHANGED <<now, source, granted, served, queued>>
<1>1. CASE RejectSpec
  BY <1>1, EarlyStatusType, Zenon DEF RejectSpec, TypeOK
<1>2. CASE RefuseCluster
  BY <1>2, EarlyStatusType, Zenon DEF RefuseCluster, TypeOK
<1>3. CASE WriteStatus
  <2>1. PICK p \in ToPersisted(resolution.endpoints) : writeStatus(applyStatus(p))
    BY <1>3, Zenon DEF WriteStatus
  <2>2. applyStatus(p) \in ObjectStatus
    BY <2>1, ToPersistedType, ApplyStatusType, Zenon DEF TypeOK, Resolution
  <2> QED
    BY <1>3, <2>1, <2>2, Zenon DEF WriteStatus
<1> QED
  BY <1>1, <1>2, <1>3, Zenon DEF Ending

-----------------------------------------------------------------------------
(* The inductive invariant, conjunct by conjunct. *)

(* CurrentInv: every write but the worker's own makes the copy outdated. *)
LEMMA CurrentStep == TypeOK /\ CurrentInv /\ [Next]_vars => CurrentInv'
<1> SUFFICES ASSUME TypeOK, CurrentInv, [Next]_vars, current' PROVE CurrentInv'
  BY Zenon DEF CurrentInv
<1> USE DEF worker, budget
<1>1. CASE Get
  BY <1>1, StoredType, Zenon DEF Get, CurrentInv, TypeOK
<1>2. CASE Ending
  BY <1>2, EndingWrites, Zenon DEF Finish
<1>3. CASE Resolve \/ ApplyPolicy \/ WriteSlices
  BY <1>3, Zenon DEF Resolve, ApplyPolicy, WriteSlices, CurrentInv
<1>4. CASE Fail \/ Restart
  BY <1>4, Zenon DEF Fail, Restart, Finish
<1>5. CASE Deliver
  <2>1. current /\ Len(versions) > 1
    BY <1>5, Zenon DEF Deliver
  <2>2. Len(versions) = 1
    BY <2>1, Zenon DEF CurrentInv
  <2> QED
    BY <2>1, <2>2
<1>6. CASE Edit
  BY <1>6, Zenon DEF Edit
<1>7. CASE SourceSwing \/ GrantSwing \/ TimerFires \/ Tick \/ UNCHANGED vars
  BY <1>7, Zenon DEF SourceSwing, GrantSwing, TimerFires, Tick, vars, CurrentInv
<1> QED
  BY <1>1, <1>2, <1>3, <1>4, <1>5, <1>6, <1>7, Zenon DEF Next, Reconcile, Ending

(* OutdatedInv: a copy is outdated by a version the informer has yet to    *)
(* deliver, and its delivery enqueues.                                     *)
LEMMA OutdatedStep == TypeOK /\ CurrentInv /\ OutdatedInv /\ [Next]_vars => OutdatedInv'
<1> SUFFICES ASSUME TypeOK, CurrentInv, OutdatedInv, [Next]_vars,
                    pc' # "idle", ~current', ~queued'
             PROVE  Len(versions)' > 1
  BY Zenon DEF OutdatedInv
<1> USE DEF worker, budget
<1>0. Len(versions) \in Nat \ {0}
  BY StoredType, Zenon DEF TypeOK
<1>1. CASE Get
  <2>1. Len(versions) # 1 /\ versions' = versions
    BY <1>1, Zenon DEF Get
  <2>2. \A n \in Nat \ {0} : n # 1 => n > 1
    OBVIOUS
  <2>3. Len(versions) > 1
    BY <1>0, <2>1, <2>2, Zenon
  <2> QED
    BY <2>1, <2>3, Zenon
<1>2. CASE Ending
  BY <1>2, EndingWrites, Zenon DEF Finish
<1>3. CASE Resolve \/ ApplyPolicy \/ WriteSlices
  BY <1>3, Zenon DEF Resolve, ApplyPolicy, WriteSlices, OutdatedInv, TypeOK
<1>4. CASE Fail \/ Restart \/ Deliver \/ TimerFires \/ GrantSwing
  BY <1>4, Zenon DEF Fail, Restart, Deliver, TimerFires, GrantSwing
<1>5. CASE Edit
  <2>1. PICK o : versions' = Append(versions, o)
    BY <1>5, Zenon DEF Edit, Store
  <2>2. Len(versions)' = Len(versions) + 1
    BY <2>1 DEF TypeOK
  <2> QED
    BY <1>0, <2>2
<1>6. CASE SourceSwing \/ Tick \/ UNCHANGED vars
  BY <1>6, SetupAssumption, Zenon DEF SourceSwing, Tick, vars, OutdatedInv, TypeOK
<1> QED
  BY <1>1, <1>2, <1>3, <1>4, <1>5, <1>6, Zenon DEF Next, Reconcile, Ending

(* WorkerInv: only the worker changes what it holds. *)
LEMMA WorkerStep == TypeOK /\ WorkerInv /\ [Next]_vars => WorkerInv'
<1> SUFFICES ASSUME TypeOK, WorkerInv, [Next]_vars PROVE WorkerInv'
  BY Zenon
<1> USE DEF worker, budget
<1>1. CASE Get
  BY <1>1, Zenon DEF Get, WorkerInv
<1>2. CASE Ending
  BY <1>2, EndingWrites, Zenon DEF Finish, WorkerInv
<1>3. CASE Resolve
  BY <1>3, Zenon DEF Resolve, WorkerInv
<1>4. CASE ApplyPolicy
  <2>1. /\ resolution.ok => state'.endpoints = resolution.endpoints
                             /\ ~state'.stale /\ ~state'.degraded /\ state'.errors = 0
        /\ ~resolution.ok => state'.errors = NextErrors(copy.status.source.errors)
                              /\ state'.stale = (state'.errors >= Threshold)
    BY <1>4, Zenon DEF ApplyPolicy, ApplyFailurePolicy
  <2> QED
    BY <1>4, <2>1, Zenon DEF ApplyPolicy, WorkerInv
<1>5. CASE WriteSlices
  BY <1>5, Zenon DEF WriteSlices, WorkerInv
<1>6. CASE Fail \/ Restart
  BY <1>6, Zenon DEF Fail, Restart, Finish, WorkerInv
<1>7. CASE Deliver \/ SourceSwing \/ GrantSwing \/ TimerFires \/ Tick \/ UNCHANGED vars
  BY <1>7, Zenon DEF Deliver, SourceSwing, GrantSwing, TimerFires, Tick, vars, WorkerInv
<1>8. CASE Edit
  <2>1. UNCHANGED <<pc, copy, resolution, state, served, queued>>
    BY <1>8, Zenon DEF Edit
  <2> QED
    BY <2>1, Zenon DEF WorkerInv
<1> QED
  BY <1>1, <1>2, <1>3, <1>4, <1>5, <1>6, <1>7, <1>8, Zenon DEF Next, Reconcile, Ending

(* UndisturbedInv: what changes the grant or a watched source enqueues. *)
LEMMA UndisturbedStep == TypeOK /\ UndisturbedInv /\ [Next]_vars => UndisturbedInv'
<1> SUFFICES ASSUME TypeOK, UndisturbedInv, [Next]_vars,
                    ~queued', pc' \in {"resolved", "serviced", "written"}
             PROVE  granted' /\ (Watched => resolution' = source')
  BY Zenon DEF UndisturbedInv
<1> USE DEF worker, budget
<1>1. CASE Get
  BY <1>1, Zenon DEF Get
<1>2. CASE Ending
  BY <1>2, EndingWrites, Zenon DEF Finish
<1>3. CASE Resolve
  BY <1>3, Zenon DEF Resolve
<1>4. CASE ApplyPolicy \/ WriteSlices
  BY <1>4, Zenon DEF ApplyPolicy, WriteSlices, UndisturbedInv, TypeOK
<1>5. CASE Fail \/ Restart \/ Deliver \/ GrantSwing \/ TimerFires
  BY <1>5, Zenon DEF Fail, Restart, Deliver, GrantSwing, TimerFires
<1>6. CASE SourceSwing \/ Tick \/ UNCHANGED vars
  BY <1>6, SetupAssumption, Zenon DEF SourceSwing, Tick, vars, UndisturbedInv, TypeOK
<1>7. CASE Edit
  <2>1. UNCHANGED <<pc, resolution, source, granted, queued>>
    BY <1>7, Zenon DEF Edit
  <2> QED
    BY <2>1, Zenon DEF UndisturbedInv
<1> QED
  BY <1>1, <1>2, <1>3, <1>4, <1>5, <1>6, <1>7, Zenon DEF Next, Reconcile, Ending

(* s is about the spec the worker read, and its source part follows the    *)
(* one the worker read.                                                    *)
Succeeds(s) ==
    /\ s.observedGeneration = copy.spec.generation
    /\ ~copy.spec.valid => s.ready = "False"
    /\ Follows(copy.status.source, s.source)
    /\ s.source.stale => s.source.errors >= Threshold

(* Every status a reconcile writes succeeds the one it read. *)
LEMMA EndingStatus ==
    ASSUME TypeOK, WorkerInv, StaleInv, Ending
    PROVE  \E s \in ObjectStatus : writeStatus(s) /\ Succeeds(s)
<1>0. copy.status \in ObjectStatus
  BY Zenon DEF TypeOK, Object
<1>1. ASSUME NEW s \in ObjectStatus, writeStatus(s), s.ready = "False",
             s.observedGeneration = copy.spec.generation, s.source = copy.status.source
      PROVE  Succeeds(s)
  BY <1>1, Zenon DEF Succeeds, Follows, StaleInv
<1>2. CASE RejectSpec
  <2>1. PICK s \in ObjectStatus :
          s = [copy.status EXCEPT !.observedGeneration = copy.spec.generation, !.ready = "False"]
    BY EarlyStatusType, Zenon DEF TypeOK
  <2> QED
    BY <1>0, <1>1, <1>2, <2>1, Zenon DEF RejectSpec, ObjectStatus
<1>3. CASE RefuseCluster
  <2>1. PICK s \in ObjectStatus :
          s = [copy.status EXCEPT !.observedGeneration = copy.spec.generation,
                                  !.ready = "False", !.resolved = "False"]
    BY EarlyStatusType, Zenon DEF TypeOK
  <2> QED
    BY <1>0, <1>1, <1>3, <2>1, Zenon DEF RefuseCluster, ObjectStatus
<1>4. CASE WriteStatus
  <2>1. PICK p \in ToPersisted(resolution.endpoints) : writeStatus(applyStatus(p))
    BY <1>4, Zenon DEF WriteStatus
  <2>2. applyStatus(p) \in ObjectStatus
    BY <2>1, ToPersistedType, ApplyStatusType, Zenon DEF TypeOK, Resolution
  <2>3. pc = "written"
    BY <1>4, Zenon DEF WriteStatus
  <2>4. applyStatus(p).observedGeneration = copy.spec.generation
    BY Zenon DEF applyStatus, sourceStatus
  <2>5. copy.spec.valid
    BY <2>3, Zenon DEF WorkerInv
  <2>6. CASE resolution.ok
    <3>1. ~applyStatus(p).source.stale
      BY <2>6, Zenon DEF applyStatus, sourceStatus
    <3> QED
      BY <2>1, <2>2, <2>4, <2>5, <3>1, Zenon DEF Succeeds, Follows
  <2>7. CASE ~resolution.ok
    <3>1. copy.status.source \in SourceStatus
      BY <1>0, Zenon DEF ObjectStatus
    <3>2. /\ applyStatus(p).source.lastSuccess = copy.status.source.lastSuccess
          /\ applyStatus(p).source.errors = state.errors
          /\ applyStatus(p).source.stale = state.stale
      BY <2>7, <3>1, Zenon DEF applyStatus, sourceStatus, SourceStatus
    <3>3. /\ state.errors = NextErrors(copy.status.source.errors)
          /\ state.stale = (state.errors >= Threshold)
      BY <2>3, <2>7, Zenon DEF WorkerInv
    <3> QED
      BY <2>1, <2>2, <2>4, <2>5, <3>2, <3>3, Zenon DEF Succeeds, Follows
  <2> QED
    BY <2>6, <2>7, Zenon
<1> QED
  BY <1>2, <1>3, <1>4, Zenon DEF Ending

(* LagInv: one status change is in flight at a time, because a status is   *)
(* only accepted from a worker that read the stored one.                   *)
LEMMA LagStep ==
    TypeOK /\ CurrentInv /\ WorkerInv /\ StaleInv /\ LagInv /\ [Next]_vars => LagInv'
<1> SUFFICES ASSUME TypeOK, CurrentInv, WorkerInv, StaleInv, LagInv, [Next]_vars PROVE LagInv'
  BY Zenon
<1> USE DEF worker, budget
<1>0. Len(versions) \in Nat \ {0} /\ Cached = versions[1]
  BY StoredType, Zenon DEF TypeOK
<1>1. ASSUME versions' = versions, pc' = "idle" \/ (pc # "idle" /\ copy' = copy)
      PROVE  LagInv'
  BY <1>1, Zenon DEF LagInv, Stored
<1>2. CASE Get
  <2>1. versions' = versions /\ copy' = versions[1]
    BY <1>0, <1>2, Zenon DEF Get
  <2> QED
    BY <2>1, Zenon DEF LagInv, Stored
<1>3. CASE Ending
  <2>1. PICK s \in ObjectStatus : writeStatus(s) /\ Succeeds(s)
    BY <1>3, EndingStatus, Zenon
  <2>2. pc' = "idle"
    BY <1>3, EndingWrites, Zenon DEF Finish
  <2>3. CASE versions' = versions
    BY <1>1, <2>2, <2>3, Zenon
  <2>4. CASE versions' # versions
    <3>1. PICK o : o = [copy EXCEPT !.status = s]
      BY Zenon
    <3>2. Len(versions') = 2 /\ versions'[1] = copy /\ versions'[2] = o /\ Stored' = o
      BY <2>1, <2>4, <3>1, StatusWrite, Zenon
    <3>3. o.status = s
      BY <3>1, Zenon DEF TypeOK, Object
    <3>4. \A i \in 2 .. Len(versions') : i = 2
      BY <3>2
    <3>5. Follows(copy.status.source, s.source)
      BY <2>1, Zenon DEF Succeeds
    <3> QED
      BY <2>2, <3>2, <3>3, <3>4, <3>5, Zenon DEF LagInv
  <2> QED
    BY <2>3, <2>4, Zenon
<1>4. CASE Resolve \/ ApplyPolicy \/ WriteSlices
  BY <1>1, <1>4, Zenon DEF Resolve, ApplyPolicy, WriteSlices
<1>5. CASE Fail
  BY <1>1, <1>5, Zenon DEF Fail, Finish
<1>6. CASE Deliver
  <2>1. /\ Len(versions') = Len(versions) - 1
        /\ Len(versions) > 1
        /\ Stored' = Stored
        /\ \A i \in 1 .. Len(versions') : versions'[i] = versions[i + 1]
    BY <1>6, DeliverVersion, Zenon DEF Deliver
  <2>2. \A i \in 1 .. Len(versions') : i + 1 \in 2 .. Len(versions)
    BY <1>0, <2>1
  <2>3. \A i \in 1 .. Len(versions') : versions'[i].status = Stored'.status
    BY <2>1, <2>2, Zenon DEF LagInv
  <2>4. 1 \in 1 .. Len(versions') /\ 2 .. Len(versions') \subseteq 1 .. Len(versions')
    BY <1>0, <2>1
  <2>5. pc' = pc /\ copy' = copy
    BY <1>6, Zenon DEF Deliver
  <2> QED
    BY <2>1, <2>3, <2>4, <2>5, Zenon DEF LagInv, Follows
<1>7. CASE Edit
  <2>1. PICK o \in Object :
           /\ o.status = Stored.status
           /\ Len(versions') = Len(versions) + 1
           /\ Stored' = o
           /\ \A i \in 1 .. Len(versions) : versions'[i] = versions[i]
    BY <1>7, EditVersion, Zenon
  <2>2. \A i \in 2 .. Len(versions') : i \in 2 .. Len(versions) \/ i = Len(versions')
    BY <1>0, <2>1
  <2>3. \A i \in 2 .. Len(versions) : i \in 1 .. Len(versions)
    BY <1>0
  <2>4. versions'[Len(versions')] = o
    BY <2>1, Zenon DEF Stored
  <2>5. 1 \in 1 .. Len(versions)
    BY <1>0
  <2>6. pc' = pc /\ copy' = copy
    BY <1>7, Zenon DEF Edit
  <2>7. \A i \in 2 .. Len(versions') : versions'[i].status = Stored'.status
    BY <2>1, <2>2, <2>3, <2>4, Zenon DEF LagInv
  <2> QED
    BY <2>1, <2>5, <2>6, <2>7, Zenon DEF LagInv
<1>8. CASE Restart
  <2>1. Len(versions') = 1 /\ versions'[1] = Stored' /\ pc' = "idle"
    BY <1>8, RelistVersion, Zenon DEF Restart, Finish
  <2>2. 2 .. Len(versions') = {}
    BY <2>1
  <2> QED
    BY <2>1, <2>2, Zenon DEF LagInv, Follows
<1>9. CASE SourceSwing \/ GrantSwing \/ TimerFires \/ Tick \/ UNCHANGED vars
  BY <1>1, <1>9, Zenon DEF SourceSwing, GrantSwing, TimerFires, Tick, vars
<1> QED
  BY <1>2, <1>3, <1>4, <1>5, <1>6, <1>7, <1>8, <1>9, Zenon DEF Next, Reconcile, Ending

(* StaleInv: staleness is only reported at the threshold. *)
LEMMA StaleStep ==
    TypeOK /\ CurrentInv /\ WorkerInv /\ StaleInv /\ [Next]_vars => StaleInv'
<1> SUFFICES ASSUME TypeOK, CurrentInv, WorkerInv, StaleInv, [Next]_vars PROVE StaleInv'
  BY Zenon
<1> USE DEF worker, budget
<1> DEFINE Counted(o) == o.status.source.stale => o.status.source.errors >= Threshold
<1>0. /\ Len(versions) \in Nat \ {0} /\ Cached = versions[1]
      /\ 1 \in 1 .. Len(versions) /\ Len(versions) \in 1 .. Len(versions)
  BY StoredType DEF TypeOK
<1>1. Counted(NewObject)
  BY Zenon DEF NewObject, NoSource
<1>2. ASSUME versions' = versions, copy' \in {copy, versions[1], NewObject} PROVE StaleInv'
  BY <1>0, <1>1, <1>2, Zenon DEF StaleInv
<1>3. CASE Get
  BY <1>0, <1>2, <1>3, Zenon DEF Get
<1>4. CASE Ending
  <2>1. PICK s \in ObjectStatus : writeStatus(s) /\ Succeeds(s)
    BY <1>4, EndingStatus, Zenon
  <2>2. copy' = NewObject
    BY <1>4, EndingWrites, Zenon DEF Finish
  <2>3. CASE versions' = versions
    BY <1>2, <2>2, <2>3, Zenon
  <2>4. CASE versions' # versions
    <3>1. PICK o : o = [copy EXCEPT !.status = s]
      BY Zenon
    <3>2. Len(versions') = 2 /\ versions'[1] = copy /\ versions'[2] = o
      BY <2>1, <2>4, <3>1, StatusWrite, Zenon
    <3>3. o.status = s
      BY <3>1, Zenon DEF TypeOK, Object
    <3>4. \A i \in 1 .. Len(versions') : i = 1 \/ i = 2
      BY <3>2
    <3>5. Counted(o) /\ Counted(copy)
      BY <2>1, <3>3, Zenon DEF Succeeds, StaleInv
    <3> QED
      BY <1>1, <2>2, <3>2, <3>4, <3>5, Zenon DEF StaleInv
  <2> QED
    BY <2>3, <2>4, Zenon
<1>5. CASE Resolve \/ ApplyPolicy \/ WriteSlices
  BY <1>2, <1>5, Zenon DEF Resolve, ApplyPolicy, WriteSlices
<1>6. CASE Fail
  BY <1>2, <1>6, Zenon DEF Fail, Finish
<1>7. CASE Deliver
  <2>1. /\ Len(versions') = Len(versions) - 1
        /\ \A i \in 1 .. Len(versions') : versions'[i] = versions[i + 1]
    BY <1>7, DeliverVersion, Zenon DEF Deliver
  <2>2. \A i \in 1 .. Len(versions') : i + 1 \in 1 .. Len(versions)
    BY <1>0, <2>1
  <2>3. copy' = copy
    BY <1>7, Zenon DEF Deliver
  <2> QED
    BY <2>1, <2>2, <2>3, Zenon DEF StaleInv
<1>8. CASE Edit
  <2>1. PICK o \in Object :
           /\ o.status = Stored.status
           /\ Len(versions') = Len(versions) + 1
           /\ Stored' = o
           /\ \A i \in 1 .. Len(versions) : versions'[i] = versions[i]
    BY <1>8, EditVersion, Zenon
  <2>2. \A i \in 1 .. Len(versions') : i \in 1 .. Len(versions) \/ i = Len(versions')
    BY <1>0, <2>1
  <2>3. versions'[Len(versions')] = o
    BY <2>1, Zenon DEF Stored
  <2>4. Counted(o)
    BY <1>0, <2>1, Zenon DEF StaleInv, Stored
  <2>5. copy' = copy
    BY <1>8, Zenon DEF Edit
  <2> QED
    BY <2>1, <2>2, <2>3, <2>4, <2>5, Zenon DEF StaleInv
<1>9. CASE Restart
  <2>1. Len(versions') = 1 /\ versions'[1] = Stored /\ copy' = NewObject
    BY <1>9, RelistVersion, Zenon DEF Restart, Finish
  <2>2. \A i \in 1 .. Len(versions') : i = 1
    BY <2>1
  <2> QED
    BY <1>0, <1>1, <2>1, <2>2, Zenon DEF StaleInv, Stored
<1>10. CASE SourceSwing \/ GrantSwing \/ TimerFires \/ Tick \/ UNCHANGED vars
  BY <1>2, <1>10, Zenon DEF SourceSwing, GrantSwing, TimerFires, Tick, vars
<1> QED
  BY <1>3, <1>4, <1>5, <1>6, <1>7, <1>8, <1>9, <1>10, Zenon DEF Next, Reconcile, Ending

(* ObservedIsHonest is inductive next to the worker's invariants. *)
LEMMA HonestStep ==
    TypeOK /\ CurrentInv /\ WorkerInv /\ StaleInv /\ ObservedIsHonest /\ [Next]_vars
        => ObservedIsHonest'
<1> SUFFICES ASSUME TypeOK, CurrentInv, WorkerInv, StaleInv, ObservedIsHonest, [Next]_vars
             PROVE  ObservedIsHonest'
  BY Zenon
<1> USE DEF worker, budget
<1>1. ASSUME Stored' = Stored PROVE ObservedIsHonest'
  BY <1>1, Zenon DEF ObservedIsHonest
<1>2. ASSUME versions' = versions PROVE ObservedIsHonest'
  BY <1>1, <1>2, Zenon DEF Stored
<1>3. CASE Ending
  <2>1. PICK s \in ObjectStatus : writeStatus(s) /\ Succeeds(s)
    BY <1>3, EndingStatus, Zenon
  <2>2. CASE versions' # versions
    <3>1. PICK o : o = [copy EXCEPT !.status = s]
      BY Zenon
    <3>2. Stored' = o
      BY <2>1, <2>2, <3>1, StatusWrite, Zenon
    <3>3. o.status = s /\ o.spec = copy.spec /\ copy.spec.generation \in Nat
      BY <3>1, Zenon DEF TypeOK, Object, ObjectSpec
    <3>4. s.observedGeneration = copy.spec.generation /\ (~copy.spec.valid => s.ready = "False")
      BY <2>1, Zenon DEF Succeeds
    <3>5. s.observedGeneration <= copy.spec.generation
      BY <3>3, <3>4
    <3> QED
      BY <3>2, <3>3, <3>4, <3>5, Zenon DEF ObservedIsHonest
  <2> QED
    BY <1>2, <2>2, Zenon
<1>4. CASE Deliver
  BY <1>1, <1>4, DeliverVersion, Zenon DEF Deliver
<1>5. CASE Restart
  BY <1>1, <1>5, RelistVersion, Zenon DEF Restart
<1>6. CASE Edit
  <2>1. PICK o \in Object :
           /\ o.status = Stored.status
           /\ o.spec.generation = Stored.spec.generation + 1
           /\ Stored' = o
    BY <1>6, EditVersion, Zenon
  <2>2. Stored.status.observedGeneration \in Nat /\ Stored.spec.generation \in Nat
    BY StoredType, Zenon DEF TypeOK, Object, ObjectStatus, ObjectSpec
  <2>3. Stored.status.observedGeneration <= Stored.spec.generation
    BY Zenon DEF ObservedIsHonest
  <2>4. o.status.observedGeneration < o.spec.generation
    <3> HIDE DEF Stored
    <3> QED
      BY <2>1, <2>2, <2>3
  <2>5. o.status.observedGeneration <= o.spec.generation
        /\ o.status.observedGeneration # o.spec.generation
    BY <2>1, <2>2, <2>4 DEF Object, ObjectSpec, ObjectStatus
  <2> QED
    BY <2>1, <2>5, Zenon DEF ObservedIsHonest
<1>7. CASE Get \/ Resolve \/ ApplyPolicy \/ WriteSlices \/ Fail
  BY <1>2, <1>7, Zenon DEF Get, Resolve, ApplyPolicy, WriteSlices, Fail
<1>8. CASE SourceSwing \/ GrantSwing \/ TimerFires \/ Tick \/ UNCHANGED vars
  BY <1>2, <1>8, Zenon DEF SourceSwing, GrantSwing, TimerFires, Tick, vars
<1> QED
  BY <1>3, <1>4, <1>5, <1>6, <1>7, <1>8, Zenon DEF Next, Reconcile, Ending

(* QuietMeansConverged: whatever leaves the loop quiet has just found that *)
(* the status it would write is the stored one, with nothing disturbed.    *)
LEMMA QuietStep == IInv /\ [Next]_vars => QuietMeansConverged'
<1> SUFFICES ASSUME IInv, [Next]_vars, Quiet' PROVE QuietMeansConverged'
  BY Zenon DEF QuietMeansConverged
<1> USE DEF worker, budget
<1>0. TypeOK /\ CurrentInv /\ OutdatedInv /\ WorkerInv /\ UndisturbedInv /\ QuietMeansConverged
  BY Zenon DEF IInv
<1>1. pc' = "idle" /\ ~queued' /\ Len(versions') = 1
  BY Zenon DEF Quiet
<1>2. ASSUME Ending, NEW s \in ObjectStatus, writeStatus(s)
      PROVE  /\ copy = Stored /\ s = copy.status /\ Stored' = Stored
             /\ ~(pc = "written" /\ ~resolution.ok)
  <2>1. Len(versions') # 2
    BY <1>1
  <2>2. versions' = versions /\ queued' = queued /\ pc # "idle"
    BY <1>0, <1>2, <2>1, StatusWrite, EndingWrites, Zenon
  <2>3. current
    <3>1. ~queued /\ Len(versions) = 1
      BY <1>1, <2>2, Zenon
    <3>2. ~(Len(versions) > 1)
      BY <3>1
    <3> QED
      BY <1>0, <2>2, <3>1, <3>2, Zenon DEF OutdatedInv
  <2>4. Len(versions) = 1 /\ copy = versions[1]
    BY <1>0, <2>3, Zenon DEF CurrentInv
  <2> QED
    BY <1>0, <1>2, <2>1, <2>2, <2>3, <2>4, StatusWrite, Zenon DEF Stored
<1>3. CASE RejectSpec
  <2>1. PICK s \in ObjectStatus :
          /\ s = [copy.status EXCEPT !.observedGeneration = copy.spec.generation, !.ready = "False"]
          /\ writeStatus(s)
    BY <1>0, <1>3, EarlyStatusType, Zenon DEF RejectSpec, TypeOK
  <2>2. copy = Stored /\ s = Stored.status /\ Stored' = Stored
    BY <1>2, <1>3, <2>1, Zenon DEF Ending
  <2>3. s.observedGeneration = copy.spec.generation /\ s.ready = "False"
    BY <1>0, <2>1, Zenon DEF TypeOK, Object, ObjectStatus
  <2>4. ~copy.spec.valid
    BY <1>3, Zenon DEF RejectSpec
  <2> QED
    BY <2>2, <2>3, <2>4, Zenon DEF QuietMeansConverged, Eligible
<1>4. CASE RefuseCluster
  <2>1. PICK s \in ObjectStatus :
          /\ s = [copy.status EXCEPT !.observedGeneration = copy.spec.generation,
                                     !.ready = "False", !.resolved = "False"]
          /\ writeStatus(s)
    BY <1>0, <1>4, EarlyStatusType, Zenon DEF RefuseCluster, TypeOK
  <2>2. copy = Stored /\ s = Stored.status /\ Stored' = Stored
    BY <1>2, <1>4, <2>1, Zenon DEF Ending
  <2>3. s.observedGeneration = copy.spec.generation /\ s.ready = "False"
    BY <1>0, <2>1, Zenon DEF TypeOK, Object, ObjectStatus
  <2>4. ~granted'
    BY <1>4, Zenon DEF RefuseCluster
  <2> QED
    BY <2>2, <2>3, <2>4, Zenon DEF QuietMeansConverged, Eligible
<1>5. CASE WriteStatus
  <2>1. PICK p \in ToPersisted(resolution.endpoints) : writeStatus(applyStatus(p))
    BY <1>5, Zenon DEF WriteStatus
  <2>2. applyStatus(p) \in ObjectStatus
    BY <1>0, <2>1, ToPersistedType, ApplyStatusType, Zenon DEF TypeOK, Resolution
  <2>3. /\ pc = "written"
        /\ UNCHANGED <<source, granted, served, queued>>
        /\ Polled => timer'
    BY <1>0, <1>5, SetupAssumption, Zenon DEF WriteStatus, TypeOK
  <2>4. /\ copy = Stored /\ applyStatus(p) = Stored.status /\ Stored' = Stored
        /\ resolution.ok
    BY <1>2, <1>5, <2>1, <2>2, <2>3, Zenon DEF Ending
  <2>5. /\ copy.spec.valid
        /\ granted
        /\ Watched => resolution = source
        /\ served = state.endpoints /\ state.endpoints = resolution.endpoints
        /\ ~state.degraded
    BY <1>0, <1>1, <2>3, <2>4, Zenon DEF WorkerInv, UndisturbedInv
  <2>6. Eligible'
    BY <2>3, <2>4, <2>5, Zenon DEF Eligible
  <2>7. /\ applyStatus(p).observedGeneration = copy.spec.generation
        /\ applyStatus(p).totalEndpoints = Cardinality(DOMAIN served)
        /\ applyStatus(p).readyEndpoints = Cardinality(ReadyAddrs(served))
        /\ applyStatus(p).source.lkg = p
        /\ applyStatus(p).source.errors = 0
        /\ applyStatus(p).ready = IF Cardinality(DOMAIN served) = 0 THEN "False" ELSE "True"
    BY <2>4, <2>5, Zenon DEF applyStatus, sourceStatus
  <2>8. applyStatus(p).ready = IF served = NoEndpoints THEN "False" ELSE "True"
    BY <1>0, <2>7, CountTypes, Zenon DEF TypeOK
  <2>9. p \in ToPersisted(served)
    BY <2>1, <2>5, Zenon
  <2> QED
    BY <2>3, <2>4, <2>5, <2>6, <2>7, <2>8, <2>9, Zenon DEF QuietMeansConverged
<1>6. CASE Get \/ Resolve \/ ApplyPolicy \/ WriteSlices
  BY <1>1, <1>6, Zenon DEF Get, Resolve, ApplyPolicy, WriteSlices
<1>7. CASE Fail \/ Deliver \/ GrantSwing \/ TimerFires \/ Restart
  BY <1>1, <1>7, Zenon DEF Fail, Deliver, GrantSwing, TimerFires, Restart
<1>8. CASE Edit
  <2>1. Len(versions') = Len(versions) + 1
    BY <1>0, <1>8, EditVersion, Zenon
  <2>2. Len(versions) \in Nat \ {0}
    BY <1>0, StoredType, Zenon DEF TypeOK
  <2>3. \A n \in Nat \ {0} : n + 1 # 1
    OBVIOUS
  <2> QED
    BY <1>1, <2>1, <2>2, <2>3, Zenon
<1>9. CASE SourceSwing
  <2>1. /\ UNCHANGED <<granted, versions, served, timer, pc>>
        /\ queued' = (queued \/ Watched)
    BY <1>9, Zenon DEF SourceSwing
  <2>2. ~Watched /\ ~queued
    BY <1>1, <2>1, Zenon
  <2> QED
    BY <1>0, <1>1, <2>1, <2>2, Zenon DEF QuietMeansConverged, Quiet, Eligible, Stored
<1>10. CASE Tick \/ UNCHANGED vars
  <2>1. UNCHANGED <<source, granted, versions, served, timer, queued, pc>>
    BY <1>10, Zenon DEF Tick, vars
  <2> QED
    BY <1>0, <1>1, <2>1, Zenon DEF QuietMeansConverged, Quiet, Eligible, Stored
<1> QED
  BY <1>3, <1>4, <1>5, <1>6, <1>7, <1>8, <1>9, <1>10, Zenon DEF Next, Reconcile

-----------------------------------------------------------------------------
(* The theorems. *)

(* The initial state satisfies the inductive invariant. *)
LEMMA InvInit == Init => IInv
<1> SUFFICES ASSUME Init PROVE IInv
  BY Zenon
<1>1. TypeOK
  BY TypeInit, Zenon
<1>2. /\ versions = <<NewObject>> /\ copy = NewObject /\ pc = "idle"
      /\ queued /\ ~current
  BY Zenon DEF Init
<1>3. Len(versions) = 1 /\ versions[1] = NewObject
  BY <1>2, Zenon
<1>4. Stored = NewObject
  BY <1>3, Zenon DEF Stored
<1>5. /\ NewObject.spec.generation = 1 /\ NewObject.spec.valid
      /\ NewObject.status.observedGeneration = 0 /\ ~NewObject.status.source.stale
  BY Zenon DEF NewObject, NoSource
<1>6. CurrentInv /\ OutdatedInv /\ WorkerInv /\ UndisturbedInv /\ QuietMeansConverged
  BY <1>2, Zenon DEF CurrentInv, OutdatedInv, WorkerInv, UndisturbedInv, QuietMeansConverged, Quiet
<1>7. (\A i \in 2 .. Len(versions) : i = 1) /\ (\A i \in 1 .. Len(versions) : i = 1)
  BY <1>3
<1>8. LagInv /\ StaleInv
  BY <1>2, <1>3, <1>4, <1>5, <1>7, Zenon DEF LagInv, StaleInv, Follows
<1>9. ObservedIsHonest
  BY <1>4, <1>5 DEF ObservedIsHonest
<1> QED
  BY <1>1, <1>6, <1>8, <1>9, Zenon DEF IInv

(* Every step preserves it. *)
LEMMA InvStep == IInv /\ [Next]_vars => IInv'
BY Zenon, TypeStep, CurrentStep, OutdatedStep, WorkerStep, UndisturbedStep, LagStep, StaleStep,
   HonestStep, QuietStep DEF IInv

(* The inductive invariant holds of every behaviour. *)
LEMMA InvHolds == Spec => []IInv
BY InvInit, InvStep, PTL DEF Spec

(* A status that observed the current generation of an invalid spec is     *)
(* never Ready, whatever lag, conflicts, faults and restarts did.          *)
THEOREM StatusHonest == Spec => []ObservedIsHonest
<1>1. IInv => ObservedIsHonest
  BY Zenon DEF IInv
<1> QED
  BY <1>1, InvHolds, PTL

(* The reconcile loop never loses a wakeup: quiet means converged. *)
THEOREM NoLostWakeup == Spec => []QuietMeansConverged
<1>1. IInv => QuietMeansConverged
  BY Zenon DEF IInv
<1> QED
  BY <1>1, InvHolds, PTL

(* One failing reconcile, decided from a copy that lags. *)
LEMMA ExpiredStep ==
    ASSUME IInv, [Next]_vars,
           pc = "resolved", pc' = "serviced", ~resolution.ok,
           Stored.status.source.stale, ~withinStaleWindow(Stored.status.source, now)
    PROVE  ReadyAddrs(state'.endpoints) = {}
<1> DEFINE prev == copy.status.source
           last == Stored.status.source
<1>1. /\ TypeOK /\ LagInv /\ StaleInv
  BY Zenon DEF IInv
<1>2. state' = ApplyFailurePolicy(prev, resolution, now)
  <2>1. CASE ApplyPolicy
    BY <2>1, Zenon DEF ApplyPolicy
  <2>2. CASE ~ApplyPolicy
    BY Zenon, <2>2, EndingWrites, <1>1
    DEF Next, Reconcile, Ending, Get, Resolve, WriteSlices, Fail, Restart, Deliver, Edit,
        SourceSwing, GrantSwing, TimerFires, Tick, vars, worker, Finish
  <2> QED
    BY <2>1, <2>2, Zenon
<1>3. prev \in SourceStatus /\ last \in SourceStatus
  BY <1>1, StoredType, Zenon DEF TypeOK, Object, ObjectStatus
<1>4. Follows(prev, last)
  BY <1>1, Zenon DEF LagInv
<1>5. last.errors >= Threshold
  BY <1>1, StoredType DEF StaleInv, Stored, TypeOK
<1> HIDE DEF prev, last
<1>6. NextErrors(prev.errors) >= Threshold
  <2>1. prev.errors \in 0 .. ErrorCap /\ last.errors \in 0 .. ErrorCap
    BY <1>3, Zenon DEF SourceStatus
  <2>2. CASE prev = last
    BY <1>5, <2>1, <2>2, NextErrorsType, ThresholdType
  <2>3. CASE last.errors = NextErrors(prev.errors)
    BY <1>5, <2>3, Zenon
  <2> QED
    BY <1>4, <2>2, <2>3, Zenon DEF Follows, last
<1>7. ~withinStaleWindow(prev, now)
  BY <1>4, Zenon DEF Follows, withinStaleWindow, last
<1>8. state'.endpoints \in {NoEndpoints, [a \in DOMAIN prev.lkg |-> "notReady"]}
  BY <1>2, <1>6, <1>7, Zenon DEF ApplyFailurePolicy, endpointsFromStatus
<1> QED
  BY <1>8, Zenon DEF ReadyAddrs, NoEndpoints

(* Once an outage is on record and its stale window closed, no failing     *)
(* reconcile decides to serve a ready endpoint, although it decides from a *)
(* cached copy.                                                            *)
THEOREM OutageStaysDown == Spec => ExpiredOutageStaysDown
<1>1. IInv /\ [Next]_vars =>
        [pc = "resolved" /\ pc' = "serviced" /\ ~resolution.ok
           /\ Stored.status.source.stale /\ ~withinStaleWindow(Stored.status.source, now)
           => ReadyAddrs(state'.endpoints) = {}]_vars
  BY ExpiredStep, Zenon
<1> QED
  BY <1>1, InvHolds, PTL DEF Spec, ExpiredOutageStaysDown
=============================================================================
