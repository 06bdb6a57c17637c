-------------------------- MODULE ClientCacheProofs --------------------------
(***************************************************************************)
(* Proofs about ClientCache for any clusters, CrossServices and            *)
(* disturbances: type correctness with the lock discipline of Get, and     *)
(* that the cache implements ClientPool.                                   *)
(***************************************************************************)
EXTENDS ClientCache, FiniteSetTheorems, TLAPS

(* What the workers know of the objects they have taken: a CrossService    *)
(* worker past resolveCluster works on a RemoteCluster, what it has built  *)
(* is no newer than what the cluster has now, and only a deleted           *)
(* CrossService, which does not come back, is released.                    *)
WorkerInv ==
    /\ x.pc \notin {"idle", "release"} => x.cluster \in Clusters
    /\ x.pc \in {"built", "attach", "sync"} => x.built <= cred[x.cluster]
    /\ x.pc = "release" => ref[x.key] = NoCluster
    /\ ~Idle(r) => r.key \in Clusters

IInv == TypeOK /\ WorkerInv

-----------------------------------------------------------------------------
(* Facts about the operators. *)

(* The workers come to rest in well-typed states. *)
LEMMA IdleType ==
    /\ XIdle \in XWorker /\ XIdle.pc = "idle"
    /\ RIdle \in RWorker /\ RIdle.pc = "idle"
<1>1. 0 \in 0 .. Cardinality(Services)
  BY SetupAssumption, FS_CardinalityType
<1> QED
  BY <1>1, SetupAssumption, Zenon DEF XIdle, RIdle, XWorker, RWorker

(* No more CrossServices are counted than there are. *)
LEMMA CountType ==
    ASSUME NEW S \in SUBSET Services
    PROVE  Cardinality(S) \in 0 .. Cardinality(Services)
BY SetupAssumption, FS_Subset, FS_CardinalityType

(* The number of consumers of any cluster is within that bound. *)
LEMMA ConsumersType ==
    ASSUME TypeOK, NEW cl
    PROVE  Consumers(cl) \in 0 .. Cardinality(Services)
<1>1. CASE cl \in DOMAIN entries
  BY <1>1, CountType, Zenon DEF TypeOK, Entry, Consumers
<1>2. CASE cl \notin DOMAIN entries
  BY <1>2, SetupAssumption, FS_CardinalityType DEF Consumers
<1> QED
  BY <1>1, <1>2, Zenon

(* Taking an entry out leaves the others as they are. *)
LEMMA WithoutType ==
    ASSUME TypeOK, NEW cl
    PROVE  /\ DOMAIN Without(entries, cl) = DOMAIN entries \ {cl}
           /\ Without(entries, cl) \in [DOMAIN entries \ {cl} -> Entry]
BY Zenon DEF TypeOK, Without, Restrict

-----------------------------------------------------------------------------
(* Type correctness. *)

(* Init establishes the invariant. *)
LEMMA InvInit == Init => IInv
<1> SUFFICES ASSUME Init PROVE IInv
  BY Zenon
<1>1. DOMAIN entries = {} /\ entries \in [DOMAIN entries -> Entry]
  BY DEF Init
<1>2. status \in [Clusters -> Status]
  BY SetupAssumption, FS_CardinalityType DEF Init, Status
<1>3. x \in XWorker /\ r \in RWorker /\ Unlocked
  BY IdleType, Zenon DEF Init, Unlocked
<1>4. TypeOK
  BY <1>1, <1>2, <1>3, SetupAssumption, Zenon DEF Init, TypeOK
<1>5. WorkerInv
  BY IdleType, Zenon DEF Init, WorkerInv, Idle
<1> QED
  BY <1>4, <1>5, Zenon DEF IInv

(* Every step preserves TypeOK. *)
LEMMA TypeStep == IInv /\ [Next]_vars => TypeOK'
<1> SUFFICES ASSUME IInv, [Next]_vars PROVE TypeOK'
  BY Zenon
<1> USE DEF objects, Unlocked
<1>a. TypeOK /\ WorkerInv
  BY Zenon DEF IInv
<1>1. ASSUME NEW c \in Services, XTake(c) PROVE TypeOK'
  <2>1. x' \in XWorker /\ x'.pc \in {"idle", "release", "fetch"}
    BY <1>a, <1>1, IdleType, SetupAssumption, Zenon DEF XTake, TypeOK, XWorker
  <2> QED
    BY <1>a, <1>1, <2>1, Zenon DEF XTake, TypeOK
<1>2. CASE XBuild
  <2>1. x' \in XWorker /\ x'.pc \in {"acquire", "built"}
    BY <1>a, <1>2, Zenon DEF XBuild, TypeOK, XWorker, WorkerInv
  <2> QED
    BY <1>a, <1>2, <2>1, Zenon DEF XBuild, TypeOK
<1>3. CASE XEnter
  <2>1. x' \in XWorker /\ x'.cluster = x.cluster /\ x'.pc \in {"acquire", "attach"}
    BY <1>a, <1>3, Zenon DEF XEnter, TypeOK, XWorker
  <2>2. CASE UNCHANGED entries /\ x'.pc = "acquire"
    BY <1>a, <1>3, <2>1, <2>2, Zenon DEF XEnter, TypeOK
  <2>3. CASE entries' = Without(entries, x.cluster)
    BY <1>a, <1>3, <2>1, <2>3, WithoutType, Zenon DEF XEnter, TypeOK
  <2> QED
    BY <1>a, <1>3, <2>2, <2>3, Zenon DEF XEnter, TypeOK, XWorker
<1>4. CASE XAttach
  <2>1. x' \in XWorker /\ x'.cluster = x.cluster /\ x'.pc \in {"acquire", "sync"}
    BY <1>a, <1>4, Zenon DEF XAttach, TypeOK, XWorker
  <2> QED
    BY <1>a, <1>4, <2>1, Zenon DEF XAttach, TypeOK
<1>5. CASE XSync
  <2>1. x' \in XWorker /\ x'.pc = "acquire"
    BY <1>a, <1>5, Zenon DEF XSync, TypeOK, XWorker
  <2>2. [fingerprint |-> x.built, consumers |-> {}] \in Entry
    BY <1>a, Zenon DEF TypeOK, XWorker, Entry
  <2>3. DOMAIN entries' \subseteq Clusters /\ entries' \in [DOMAIN entries' -> Entry]
    BY <1>a, <1>5, <2>2, Zenon DEF XSync, TypeOK, WorkerInv
  <2> QED
    BY <1>a, <1>5, <2>1, <2>3, Zenon DEF XSync, TypeOK
<1>6. CASE XAcquire
  <2>1. \A cl \in DOMAIN entries : [entries[cl] EXCEPT !.consumers = @ \cup {x.key}] \in Entry
    BY <1>a, Zenon DEF TypeOK, Entry, XWorker
  <2>2. DOMAIN entries' = DOMAIN entries /\ entries' \in [DOMAIN entries -> Entry]
    BY <1>a, <1>6, <2>1, Zenon DEF XAcquire, TypeOK
  <2>3. queueX' \subseteq Services
    BY <1>a, <1>6, Zenon DEF XAcquire, TypeOK, XWorker
  <2> QED
    BY <1>a, <1>6, <2>2, <2>3, IdleType, Zenon DEF XAcquire, TypeOK
<1>7. CASE XRelease
  <2>1. \A cl \in DOMAIN entries :
          [entries[cl] EXCEPT !.consumers = entries[cl].consumers \ {x.key}] \in Entry
    BY <1>a, Zenon DEF TypeOK, Entry, XWorker
  <2>2. DOMAIN entries' \subseteq DOMAIN entries /\ entries' \in [DOMAIN entries' -> Entry]
    BY <1>a, <1>7, <2>1, Zenon DEF XRelease, TypeOK
  <2> QED
    BY <1>a, <1>7, <2>2, IdleType, Zenon DEF XRelease, TypeOK
<1>8. ASSUME NEW cl \in Clusters, RTake(cl) PROVE TypeOK'
  <2>1. r' \in RWorker
    BY <1>a, <1>8, IdleType, Zenon DEF RTake, TypeOK, RWorker
  <2>2. phase' \in [Clusters -> {"new", "present", "deleting", "gone"}]
    BY <1>a, <1>8, Zenon DEF RTake, TypeOK
  <2>3. queueX' \subseteq Services /\ queueR' \subseteq Clusters
    BY <1>a, <1>8, Zenon DEF RTake, TypeOK, Notify, Referencing
  <2> QED
    BY <1>a, <1>8, <2>1, <2>2, <2>3, Zenon DEF RTake, TypeOK
<1>9. CASE RCount
  <2>1. r' \in RWorker
    BY <1>a, <1>9, ConsumersType, Zenon DEF RCount, TypeOK, RWorker
  <2> QED
    BY <1>a, <1>9, <2>1, Zenon DEF RCount, TypeOK
<1>10. CASE RProbe
  <2>1. /\ status' \in [Clusters -> Status]
        /\ stamped' \subseteq Clusters
    <3> DEFINE up == r.key \notin down
               new == [count |-> r.count, ready |-> up]
    <3>1. new \in Status
      <4>1. r.count \in 0 .. Cardinality(Services)
        BY <1>a, Zenon DEF TypeOK, RWorker
      <4>2. up \in BOOLEAN
        BY Zenon
      <4> HIDE DEF up
      <4> QED
        BY <4>1, <4>2, Zenon DEF Status
    <3> HIDE DEF new
    <3>2. r.key \in Clusters
      BY <1>a, <1>10, Zenon DEF RProbe, WorkerInv, Idle
    <3>3. \/ status' = [status EXCEPT ![r.key] = new]
          \/ UNCHANGED status
      BY <1>10, Zenon DEF RProbe, new
    <3>4. stamped' \in {stamped, stamped \cup {r.key}}
      BY <1>10, Zenon DEF RProbe
    <3> QED
      BY <1>a, <3>1, <3>2, <3>3, <3>4 DEF TypeOK
  <2>2. queueX' \subseteq Services /\ queueR' \subseteq Clusters
    BY <1>a, <1>10 DEF RProbe, TypeOK, WorkerInv, Idle, RWorker, Notify, Referencing
  <2> QED
    BY <1>a, <1>10, <2>1, <2>2, IdleType, Zenon DEF RProbe, TypeOK
<1>11. CASE RInvalidate
  <2>1. r' \in RWorker
    BY <1>a, <1>11, Zenon DEF RInvalidate, TypeOK, RWorker
  <2> QED
    BY <1>a, <1>11, <2>1, WithoutType, Zenon DEF RInvalidate, TypeOK
<1>12. CASE RUnfinalize
  BY Zenon, <1>a, <1>12, IdleType
  DEF RUnfinalize, TypeOK, WorkerInv, Idle, Notify, Referencing
<1>13. CASE RFail
  BY <1>a, <1>13, IdleType, Zenon DEF RFail, TypeOK, WorkerInv, Idle
<1>14. ASSUME NEW cl \in Clusters, RTimer(cl) PROVE TypeOK'
  BY <1>a, <1>14, Zenon DEF RTimer, TypeOK
<1>15. ASSUME NEW cl \in Clusters, HandleSecret(cl) PROVE TypeOK'
  BY <1>a, <1>15, WithoutType, Zenon DEF HandleSecret, TypeOK
<1>16. ASSUME NEW cl \in Clusters, Recover(cl) PROVE TypeOK'
  BY <1>a, <1>16, Zenon DEF Recover, TypeOK
<1>17. CASE RotateSecret
  BY <1>a, <1>17 DEF RotateSecret, TypeOK
<1>18. CASE EditCluster
  BY <1>a, <1>18 DEF EditCluster, TypeOK, Notify, Referencing
<1>19. CASE RemoveCluster
  BY <1>a, <1>19, Zenon DEF RemoveCluster, TypeOK, Notify, Referencing
<1>20. CASE EditRef
  BY <1>a, <1>20, Zenon DEF EditRef, TypeOK
<1>21. CASE DeleteService
  BY <1>a, <1>21, Zenon DEF DeleteService, TypeOK
<1>22. CASE Outage
  BY <1>a, <1>22, Zenon DEF Outage, TypeOK
<1>23. CASE Tick
  BY <1>a, <1>23, Zenon DEF Tick, TypeOK
<1>24. CASE Restart
  <2>1. DOMAIN entries' = {} /\ entries' \in [DOMAIN entries' -> Entry]
    BY <1>24 DEF Restart
  <2> QED
    BY <1>a, <1>24, <2>1, IdleType, Zenon DEF Restart, TypeOK
<1>25. CASE UNCHANGED vars
  BY <1>a, <1>25, Zenon DEF vars, TypeOK
<1> QED
  BY Zenon, <1>1, <1>2, <1>3, <1>4, <1>5, <1>6, <1>7, <1>8, <1>9, <1>10, <1>11, <1>12, <1>13, <1>14,
     <1>15, <1>16, <1>17, <1>18, <1>19, <1>20, <1>21, <1>22, <1>23, <1>24, <1>25
  DEF Next, XRun, RRun

(* Every step preserves what the workers know. *)
LEMMA WorkerStep == IInv /\ [Next]_vars => WorkerInv'
<1> SUFFICES ASSUME IInv, [Next]_vars PROVE WorkerInv'
  BY Zenon
<1> USE DEF objects, Unlocked, Idle
<1>a. TypeOK /\ WorkerInv
  BY Zenon DEF IInv
<1>1. ASSUME NEW c \in Services, XTake(c) PROVE WorkerInv'
  BY <1>a, <1>1, SetupAssumption, Zenon DEF XTake, XIdle, TypeOK, WorkerInv
<1>2. CASE XBuild
  BY <1>a, <1>2 DEF XBuild, TypeOK, XWorker, WorkerInv
<1>3. CASE XEnter
  BY <1>a, <1>3, Zenon DEF XEnter, TypeOK, XWorker, WorkerInv
<1>4. CASE XAttach
  BY <1>a, <1>4, Zenon DEF XAttach, TypeOK, XWorker, WorkerInv
<1>5. CASE XSync
  BY <1>a, <1>5, Zenon DEF XSync, TypeOK, XWorker, WorkerInv
<1>6. CASE XAcquire
  BY <1>a, <1>6, IdleType, Zenon DEF XAcquire, WorkerInv
<1>7. CASE XRelease
  BY <1>a, <1>7, IdleType, Zenon DEF XRelease, WorkerInv
<1>8. ASSUME NEW cl \in Clusters, RTake(cl) PROVE WorkerInv'
  BY <1>a, <1>8, Zenon DEF RTake, RIdle, WorkerInv
<1>9. CASE RCount
  BY <1>a, <1>9, Zenon DEF RCount, TypeOK, RWorker, WorkerInv
<1>10. CASE RProbe \/ RUnfinalize \/ RFail
  BY <1>a, <1>10, IdleType, Zenon DEF RProbe, RUnfinalize, RFail, WorkerInv
<1>11. CASE RInvalidate
  BY <1>a, <1>11, Zenon DEF RInvalidate, TypeOK, RWorker, WorkerInv
<1>12. ASSUME NEW cl \in Clusters, RTimer(cl) \/ HandleSecret(cl) \/ Recover(cl) PROVE WorkerInv'
  BY <1>a, <1>12, Zenon DEF RTimer, HandleSecret, Recover, WorkerInv
<1>13. CASE RotateSecret \/ EditCluster
  <2>1. PICK cl \in Clusters : cred' = [cred EXCEPT ![cl] = @ + 1]
    BY <1>13, Zenon DEF RotateSecret, EditCluster
  <2>2. \A d \in Clusters : cred[d] <= cred'[d] /\ cred[d] \in Nat /\ cred'[d] \in Nat
    BY <1>a, <2>1 DEF TypeOK
  <2>3. x.built \in Nat
    BY <1>a, Zenon DEF TypeOK, XWorker
  <2> QED
    BY <1>a, <1>13, <2>2, <2>3 DEF RotateSecret, EditCluster, WorkerInv
<1>14. CASE EditRef \/ DeleteService
  BY <1>a, <1>14 DEF EditRef, DeleteService, TypeOK, XWorker, WorkerInv
<1>15. CASE RemoveCluster \/ Outage \/ Tick
  BY <1>a, <1>15, Zenon DEF RemoveCluster, Outage, Tick, WorkerInv
<1>16. CASE Restart
  BY <1>a, <1>16, IdleType, Zenon DEF Restart, WorkerInv
<1>17. CASE UNCHANGED vars
  BY <1>a, <1>17, Zenon DEF vars, WorkerInv
<1> QED
  BY Zenon, <1>1, <1>2, <1>3, <1>4, <1>5, <1>6, <1>7, <1>8, <1>9, <1>10, <1>11, <1>12, <1>13, <1>14,
     <1>15, <1>16, <1>17
  DEF Next, XRun, RRun

(* The invariant is inductive. *)
LEMMA Invariance == Spec => []IInv
<1>1. IInv /\ [Next]_vars => IInv'
  BY TypeStep, WorkerStep, Zenon DEF IInv
<1> QED
  BY InvInit, <1>1, PTL DEF Spec

(* Every reachable state is well typed; and as long as Get holds the mutex *)
(* across start, the map has no entry for the cluster it is starting:      *)
(* neither the RemoteCluster worker nor the Secret handler can touch a     *)
(* client that is half up, whatever they do meanwhile.                     *)
THEOREM TypeCorrect == Spec => []TypeOK
BY Invariance, PTL DEF IInv

-----------------------------------------------------------------------------
(* The refinement. *)

(* The initial cache is an empty pool. *)
LEMMA PoolInit == Init => Pool!Init
<1> SUFFICES ASSUME Init PROVE Pool!Init
  BY Zenon
<1>1. Unlocked
  BY IdleType, Zenon DEF Init, Unlocked
<1>2. {c \in Services : ref[c] # NoCluster} = Services
  BY SetupAssumption, Zenon DEF Init
<1> QED
  BY <1>1, <1>2, Zenon DEF Init, Pool!Init

(* Every step of the system is a step of the pool, or one it does not see. *)
LEMMA PoolStep == IInv /\ [Next]_vars => [Pool!Next]_(Pool!vars)
<1> SUFFICES ASSUME IInv, [Next]_vars PROVE [Pool!Next]_(Pool!vars)
  BY Zenon
<1> DEFINE live == {c \in Services : ref[c] # NoCluster}
<1>a. TypeOK /\ WorkerInv
  BY Zenon DEF IInv
<1>c. ASSUME UNCHANGED <<entries, cred, ref, x>> PROVE UNCHANGED Pool!vars
  BY <1>c, Zenon DEF Pool!vars, Unlocked
<1>1. ASSUME NEW c \in Services, XTake(c) PROVE UNCHANGED Pool!vars
  <2>1. Unlocked /\ Unlocked'
    BY <1>a, <1>1, IdleType, Zenon DEF XTake, Idle, Unlocked, XIdle
  <2> QED
    BY <1>1, <2>1, Zenon DEF XTake, objects, Pool!vars
<1>2. CASE XBuild
  <2>1. Unlocked /\ Unlocked'
    BY <1>a, <1>2, Zenon DEF XBuild, TypeOK, XWorker, Unlocked
  <2> QED
    BY <1>2, <2>1, Zenon DEF XBuild, objects, Pool!vars
<1>3. CASE XEnter
  <2>1. Unlocked /\ x'.cluster = x.cluster /\ x.cluster \in Clusters
    BY <1>a, <1>3, Zenon DEF XEnter, TypeOK, XWorker, WorkerInv, Unlocked
  <2>2. CASE UNCHANGED entries /\ x' = [x EXCEPT !.pc = "acquire"]
    <3>1. Unlocked'
      BY <1>a, <2>2, Zenon DEF TypeOK, XWorker, Unlocked
    <3> QED
      BY <1>3, <2>1, <2>2, <3>1, Zenon DEF XEnter, objects, Pool!vars
  <2>3. CASE entries' = Without(entries, x.cluster) /\ x' = [x EXCEPT !.pc = "attach"]
    <3>1. ~Unlocked'
      BY <1>a, <2>3, Zenon DEF TypeOK, XWorker, Unlocked
    <3>2. Pool!Begin(x.cluster)
      BY <1>3, <2>1, <2>3, <3>1, Zenon DEF XEnter, objects, Without, Restrict, Pool!Begin, Pool!Restrict
    <3> QED
      BY <2>1, <3>2, Zenon DEF Pool!Next
  <2> QED
    BY <1>3, <2>2, <2>3, Zenon DEF XEnter
<1>4. CASE XAttach
  <2>1. ~Unlocked /\ x'.cluster = x.cluster
    BY <1>a, <1>4, Zenon DEF XAttach, TypeOK, XWorker, Unlocked
  <2>2. CASE x.cluster \in down
    <3>1. Unlocked'
      BY <1>a, <1>4, <2>2, Zenon DEF XAttach, TypeOK, XWorker, Unlocked
    <3>2. Pool!Abort
      BY <1>4, <2>1, <3>1, Zenon DEF XAttach, objects, Pool!Abort
    <3> QED
      BY <3>2, Zenon DEF Pool!Next
  <2>3. CASE x.cluster \notin down
    <3>1. ~Unlocked'
      BY <1>a, <1>4, <2>3, Zenon DEF XAttach, TypeOK, XWorker, Unlocked
    <3> QED
      BY <1>4, <2>1, <3>1, Zenon DEF XAttach, objects, Pool!vars
  <2> QED
    BY <2>2, <2>3, Zenon
<1>5. CASE XSync
  <2>1. ~Unlocked /\ Unlocked' /\ x.cluster \in Clusters /\ x.cluster \notin DOMAIN entries
    BY <1>a, <1>5, Zenon DEF XSync, TypeOK, XWorker, WorkerInv, Unlocked
  <2>2. x.built \in 0 .. cred[x.cluster]
    BY <1>a, <1>5 DEF XSync, TypeOK, XWorker, WorkerInv
  <2>3. Pool!Open(x.cluster)
    BY <1>5, <2>1, <2>2, Zenon DEF XSync, objects, Pool!Open
  <2> QED
    BY <2>1, <2>3, Zenon DEF Pool!Next
<1>6. CASE XAcquire
  <2>1. Unlocked /\ Unlocked' /\ x.cluster \in Clusters /\ x.key \in Services
    BY <1>a, <1>6, IdleType, Zenon DEF XAcquire, TypeOK, XWorker, WorkerInv, Unlocked
  <2>2. CASE x.cluster \in DOMAIN entries
    <3>1. entries' = [entries EXCEPT ![x.cluster].consumers = @ \cup {x.key}]
      BY <1>a, <1>6, <2>2, Zenon DEF XAcquire, TypeOK
    <3>2. Pool!Join(x.cluster, x.key)
      BY <1>6, <2>1, <2>2, <3>1, Zenon DEF XAcquire, objects, Pool!Join
    <3> QED
      BY <2>1, <3>2, Zenon DEF Pool!Next
  <2>3. CASE x.cluster \notin DOMAIN entries
    <3>1. UNCHANGED entries
      BY <1>a, <1>6, <2>3, Zenon DEF XAcquire, TypeOK
    <3> QED
      BY <1>6, <2>1, <3>1, Zenon DEF XAcquire, objects, Pool!vars
  <2> QED
    BY <2>2, <2>3, Zenon
<1>7. CASE XRelease
  <2>1. Unlocked /\ Unlocked' /\ x.key \in Services /\ x.key \notin live
    BY <1>a, <1>7, IdleType, Zenon DEF XRelease, TypeOK, XWorker, WorkerInv, Unlocked
  <2>2. Pool!Leave(x.key)
    BY <1>7, <2>1, Zenon DEF XRelease, objects, Pool!Leave
  <2> QED
    BY <2>1, <2>2, Zenon DEF Pool!Next
<1>8. ASSUME NEW cl \in Clusters, RTake(cl) \/ RTimer(cl) \/ Recover(cl)
      PROVE  UNCHANGED Pool!vars
  BY <1>8, <1>c, Zenon DEF RTake, RTimer, Recover, objects
<1>9. CASE RCount \/ RProbe \/ RUnfinalize \/ RFail
  BY <1>9, <1>c, Zenon DEF RCount, RProbe, RUnfinalize, RFail, objects
<1>10. CASE RInvalidate
  <2>1. r.key \in Clusters
    BY <1>a, <1>10, Zenon DEF RInvalidate, WorkerInv, Idle
  <2>2. Pool!Close(r.key)
    BY <1>10, Zenon DEF RInvalidate, Unlocked, Without, Restrict, objects, Pool!Close, Pool!Restrict
  <2> QED
    BY <2>1, <2>2, Zenon DEF Pool!Next
<1>11. ASSUME NEW cl \in Clusters, HandleSecret(cl) PROVE Pool!Next
  <2>1. Pool!Close(cl)
    BY <1>11, Zenon DEF HandleSecret, Unlocked, Without, Restrict, objects, Pool!Close, Pool!Restrict
  <2> QED
    BY <2>1, Zenon DEF Pool!Next
<1>12. CASE RotateSecret \/ EditCluster
  <2>1. PICK cl \in Clusters : Pool!Issue(cl)
    BY <1>12, Zenon DEF RotateSecret, EditCluster, Unlocked, Pool!Issue
  <2> QED
    BY <2>1, Zenon DEF Pool!Next
<1>13. CASE RemoveCluster \/ Outage \/ Tick
  BY <1>13, <1>c, Zenon DEF RemoveCluster, Outage, Tick, objects
<1>14. CASE EditRef
  <2>1. live' = live
    BY <1>a, <1>14, SetupAssumption, Zenon DEF EditRef, TypeOK
  <2> QED
    BY <1>14, <2>1, Zenon DEF EditRef, Unlocked, Pool!vars
<1>15. CASE DeleteService
  <2>1. PICK c \in Services : ref' = [ref EXCEPT ![c] = NoCluster]
    BY <1>15, Zenon DEF DeleteService
  <2>2. live' = live \ {c}
    BY <1>a, <2>1, Zenon DEF TypeOK
  <2>3. Pool!Depart(c)
    BY <1>15, <2>2, Zenon DEF DeleteService, Unlocked, Pool!Depart
  <2> QED
    BY <2>3, Zenon DEF Pool!Next
<1>16. CASE Restart
  <2>1. Unlocked'
    BY <1>16, IdleType, Zenon DEF Restart, Unlocked
  <2>2. Pool!Crash
    BY <1>16, <2>1, Zenon DEF Restart, objects, Pool!Crash
  <2> QED
    BY <2>2, Zenon DEF Pool!Next
<1>17. CASE UNCHANGED vars
  BY <1>17, <1>c, Zenon DEF vars, objects
<1> QED
  BY Zenon, <1>1, <1>2, <1>3, <1>4, <1>5, <1>6, <1>7, <1>8, <1>9, <1>10, <1>11, <1>12, <1>13, <1>14,
     <1>15, <1>16, <1>17
  DEF Next, XRun, RRun

(* The cache implements the abstract pool: at most one client per cluster, *)
(* opened with everything else shut out, no consumer lost, no change of    *)
(* credentials under a running client.                                     *)
THEOREM CacheIsPool == Spec => ImplementsPool
BY PoolInit, PoolStep, Invariance, PTL DEF Spec, ImplementsPool, Pool!Spec
=============================================================================
