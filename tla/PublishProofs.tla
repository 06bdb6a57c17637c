--------------------------- MODULE PublishProofs ----------------------------
(***************************************************************************)
(* The Service and the slices below it: for any spec, any endpoints, any   *)
(* lag of the informers and any number of faults, what the controller rests*)
(* on is what the spec asks for, and what others put on the Service stays. *)
(***************************************************************************)
EXTENDS Publish, SliceWriterProofs

-----------------------------------------------------------------------------
(* Services *)

(* Partial maps are functions on a part of the keys. *)
LEMMA MapIs ==
    \A K, V, f : f \in Map(K, V) <=> /\ DOMAIN f \subseteq K /\ \A k \in DOMAIN f : f[k] \in V
                                     /\ f = [k \in DOMAIN f |-> f[k]]
  BY DEF Map

(* mergeMap: all keys, and the overlay's values where it has one. *)
LEMMA MergeMapIs ==
    ASSUME NEW base \in Map(Labels, Values), NEW overlay \in Map(Labels, Values)
    PROVE  LET m == mergeMap(base, overlay)
           IN  /\ m \in Map(Labels, Values)
               /\ DOMAIN m = DOMAIN base \cup DOMAIN overlay
               /\ \A k \in DOMAIN base \ DOMAIN overlay : m[k] = base[k]
  <1> DEFINE m == mergeMap(base, overlay)
             D == DOMAIN base \cup DOMAIN overlay
             v(k) == IF k \in DOMAIN overlay THEN overlay[k] ELSE base[k]
  <1>1. m = [k \in D |-> v(k)]
    BY Zenon DEF mergeMap
  <1>2. D \subseteq Labels /\ \A k \in D : v(k) \in Values
    BY MapIs, Zenon
  <1>3. \A k \in DOMAIN base \ DOMAIN overlay : v(k) = base[k] /\ k \in D
    BY Zenon
  <1> HIDE DEF m, v
  <1>4. m \in Map(Labels, Values)
    BY <1>1, <1>2, MapIs
  <1>5. DOMAIN m = DOMAIN base \cup DOMAIN overlay
    BY <1>1, Zenon
  <1> QED  BY <1>1, <1>3, <1>4, <1>5, Zenon DEF m

(* The desired Service is one, but for what the API server fills in. *)
LEMMA BuildIs ==
    ASSUME NEW s \in SpecType
    PROVE  LET d == Build(s)
           IN  /\ d \in ServiceType
               /\ d.owner = Self
               /\ DOMAIN d.ports = DOMAIN s.ports /\ \A n \in DOMAIN s.ports : d.ports[n].port = s.ports[n]
               /\ d.publishNotReady = s.publishNotReady
               /\ d.policy = s.policy
  <1> DEFINE no == FALSE
             meta == mergeMap(OwnMeta, s.meta)
             port(n) == [port |-> s.ports[n], targetPort |-> 0, nodePort |-> 0]
             ports == [n \in DOMAIN s.ports |-> port(n)]
             d == [meta |-> meta, owner |-> Self, selector |-> no, ports |-> ports, exposed |-> no,
                   publishNotReady |-> s.publishNotReady, policy |-> s.policy]
  <1>1. Build(s) = d
    BY Zenon DEF Build
  <1>2. /\ s.ports \in Map(PortNames, PortNumbers) /\ s.meta \in Map(Labels, Values)
        /\ s.policy \in Policies /\ s.publishNotReady \in BOOLEAN
    BY Zenon DEF SpecType
  <1>3. meta \in Map(Labels, Values)
    <2>1. OwnMeta \in Map(Labels, Values)
      <3> DEFINE l == "cross-service-name"
      <3>1. OwnMeta = [k \in {l} |-> Self]
        BY Zenon DEF OwnMeta
      <3>2. l \in Labels /\ Self \in Values
        BY ServiceAssumption, Zenon
      <3> HIDE DEF l
      <3> QED  BY <3>1, <3>2, MapIs
    <2> QED  BY <1>2, <2>1, MergeMapIs, Zenon
  <1>4. \A n \in DOMAIN s.ports : port(n) \in PortType /\ port(n).port = s.ports[n]
    BY <1>2, MapIs, Zenon DEF PortType
  <1>5. ports \in Map(PortNames, PortType)
    <2> HIDE DEF port
    <2> QED  BY <1>2, <1>4, MapIs
  <1>6. DOMAIN ports = DOMAIN s.ports /\ \A n \in DOMAIN s.ports : ports[n].port = s.ports[n]
    BY <1>4, Zenon
  <1>7. no \in BOOLEAN
    BY Zenon
  <1> HIDE DEF no, meta, ports
  <1>8. d \in ServiceType
    BY <1>2, <1>3, <1>5, <1>7, Zenon DEF ServiceType
  <1>9. /\ d.owner = Self /\ d.ports = ports /\ d.publishNotReady = s.publishNotReady
        /\ d.policy = s.policy
    BY Zenon
  <1> HIDE DEF d
  <1> QED  BY <1>1, <1>6, <1>8, <1>9, Zenon

(* A merge leaves alone what is not the controller's to say. *)
LEMMA MergeIs ==
    ASSUME NEW c \in ServiceType, NEW d \in ServiceType
    PROVE  LET m == Merge(c, d)
           IN  /\ m \in ServiceType
               /\ m.meta = mergeMap(c.meta, d.meta) /\ m.owner = d.owner /\ ~m.selector
               /\ m.ports = mergePorts(c.ports, d.ports) /\ m.exposed = c.exposed
               /\ m.publishNotReady = d.publishNotReady
               /\ m.policy = IF d.policy # "" THEN d.policy ELSE c.policy
  <1> DEFINE no == FALSE
             meta == mergeMap(c.meta, d.meta)
             ports == mergePorts(c.ports, d.ports)
             policy == IF d.policy # "" THEN d.policy ELSE c.policy
             m == [c EXCEPT !.meta = meta, !.owner = d.owner, !.selector = no, !.ports = ports,
                            !.publishNotReady = d.publishNotReady, !.policy = policy]
  <1>1. Merge(c, d) = m
    BY Zenon DEF Merge
  <1>2. /\ c.meta \in Map(Labels, Values) /\ d.meta \in Map(Labels, Values)
        /\ c.ports \in Map(PortNames, PortType) /\ d.ports \in Map(PortNames, PortType)
        /\ c.policy \in Policies /\ d.policy \in Policies
        /\ d.owner \in {Self, "nobody"} /\ d.publishNotReady \in BOOLEAN
    BY Zenon DEF ServiceType
  <1>3. meta \in Map(Labels, Values) /\ policy \in Policies
    BY <1>2, MergeMapIs, Zenon
  <1>4. ports \in Map(PortNames, PortType)
    <2> DEFINE carried(n) == [d.ports[n] EXCEPT !.targetPort = c.ports[n].targetPort,
                                                !.nodePort = c.ports[n].nodePort]
               v(n) == IF n \in DOMAIN c.ports THEN carried(n) ELSE d.ports[n]
    <2>1. ports = [n \in DOMAIN d.ports |-> v(n)]
      BY Zenon DEF mergePorts
    <2>2. \A n \in DOMAIN d.ports : d.ports[n] \in PortType
      BY <1>2, MapIs, Zenon
    <2>3. \A n \in DOMAIN c.ports : c.ports[n] \in PortType
      BY <1>2, MapIs, Zenon
    <2>4. \A n \in DOMAIN d.ports : n \in DOMAIN c.ports => carried(n) \in PortType
      BY <2>2, <2>3, Zenon DEF PortType
    <2>5. \A n \in DOMAIN d.ports : v(n) \in PortType
      <3> HIDE DEF carried
      <3> QED  BY <2>2, <2>4, Zenon
    <2> HIDE DEF v, ports
    <2> QED  BY <1>2, <2>1, <2>5, MapIs
  <1>5. no \in BOOLEAN /\ ~no
    BY Zenon
  <1> HIDE DEF no, meta, ports, policy
  <1>6. m \in ServiceType
    BY <1>2, <1>3, <1>4, <1>5, Zenon DEF ServiceType
  <1>7. /\ m.meta = meta /\ m.owner = d.owner /\ m.selector = no /\ m.ports = ports
        /\ m.exposed = c.exposed /\ m.publishNotReady = d.publishNotReady /\ m.policy = policy
    BY Zenon DEF ServiceType
  <1> HIDE DEF m
  <1>8. ~m.selector
    BY <1>5, <1>7, Zenon
  <1> QED  BY <1>1, <1>6, <1>7, <1>8, Zenon DEF meta, ports, policy

(* mergePorts: the desired ports, with what the API server filled in. *)
LEMMA MergePortsIs ==
    ASSUME NEW c \in Map(PortNames, PortType), NEW d \in Map(PortNames, PortType)
    PROVE  LET m == mergePorts(c, d)
           IN  /\ DOMAIN m = DOMAIN d
               /\ \A n \in DOMAIN d : m[n].port = d[n].port
               /\ \A n \in DOMAIN d \cap DOMAIN c : /\ m[n].targetPort = c[n].targetPort
                                                    /\ m[n].nodePort = c[n].nodePort
  <1> DEFINE carried(n) == [d[n] EXCEPT !.targetPort = c[n].targetPort, !.nodePort = c[n].nodePort]
             v(n) == IF n \in DOMAIN c THEN carried(n) ELSE d[n]
             m == mergePorts(c, d)
  <1>1. m = [n \in DOMAIN d |-> v(n)]
    BY Zenon DEF mergePorts
  <1>2. \A n \in DOMAIN d : d[n] \in PortType
    BY MapIs, Zenon
  <1>3. \A n \in DOMAIN d : /\ carried(n).port = d[n].port
                            /\ carried(n).targetPort = c[n].targetPort
                            /\ carried(n).nodePort = c[n].nodePort
    BY <1>2, Zenon DEF PortType
  <1> HIDE DEF carried, m
  <1>4. \A n \in DOMAIN d : v(n).port = d[n].port
    BY <1>3, Zenon
  <1>5. \A n \in DOMAIN d \cap DOMAIN c : v(n) = carried(n)
    BY Zenon
  <1> HIDE DEF v
  <1> QED  BY <1>1, <1>3, <1>4, <1>5, Zenon DEF m

(* The API server fills in what is not set, and nothing else. *)
LEMMA DefaultedIs ==
    ASSUME NEW s \in ServiceType
    PROVE  LET d == Defaulted(s)
           IN  /\ d \in ServiceType /\ Complete(d)
               /\ d.meta = s.meta /\ d.owner = s.owner /\ d.exposed = s.exposed
               /\ DOMAIN d.ports = DOMAIN s.ports
               /\ \A n \in DOMAIN s.ports :
                     /\ s.ports[n].targetPort # 0 => d.ports[n].targetPort = s.ports[n].targetPort
                     /\ s.ports[n].nodePort # 0 \/ ~s.exposed => d.ports[n].nodePort = s.ports[n].nodePort
               /\ s.policy # "" => d.policy = s.policy
  <1> DEFINE tp(n) == IF s.ports[n].targetPort = 0 THEN s.ports[n].port ELSE s.ports[n].targetPort
             np(n) == IF s.exposed /\ s.ports[n].nodePort = 0 THEN FreshNodePort ELSE s.ports[n].nodePort
             port(n) == [s.ports[n] EXCEPT !.targetPort = tp(n), !.nodePort = np(n)]
             ports == [n \in DOMAIN s.ports |-> port(n)]
             policy == IF s.policy = "" THEN "Cluster" ELSE s.policy
             d == [s EXCEPT !.ports = ports, !.policy = policy]
  <1>1. Defaulted(s) = d
    BY Zenon DEF Defaulted
  <1>2. s.ports \in Map(PortNames, PortType) /\ s.policy \in Policies /\ s.exposed \in BOOLEAN
    BY Zenon DEF ServiceType
  <1>3. \A n \in DOMAIN s.ports :
           /\ s.ports[n] \in PortType /\ s.ports[n].port \in PortNumbers
           /\ s.ports[n].targetPort \in PortNumbers \cup {0} /\ s.ports[n].nodePort \in PortNumbers \cup {0}
    <2>1. \A n \in DOMAIN s.ports : s.ports[n] \in PortType
      BY <1>2, MapIs, Zenon
    <2> QED  BY <2>1, Zenon DEF PortType
  <1>4. \A k \in PortNumbers : k # 0
    BY ServiceAssumption, Zenon
  <1>5. \A n \in DOMAIN s.ports :
           /\ tp(n) \in PortNumbers /\ np(n) \in PortNumbers \cup {0}
           /\ s.exposed => np(n) # 0
           /\ s.ports[n].targetPort # 0 => tp(n) = s.ports[n].targetPort
           /\ s.ports[n].nodePort # 0 \/ ~s.exposed => np(n) = s.ports[n].nodePort
    BY <1>3, <1>4, ServiceAssumption, Zenon
  <1> HIDE DEF tp, np
  <1>6. \A n \in DOMAIN s.ports : port(n) \in PortType /\ port(n).targetPort = tp(n) /\ port(n).nodePort = np(n)
    BY <1>3, <1>5, Zenon DEF PortType
  <1> HIDE DEF port
  <1>7. ports \in Map(PortNames, PortType)
    BY <1>2, <1>6, MapIs
  <1>8. DOMAIN ports = DOMAIN s.ports /\ \A n \in DOMAIN s.ports : ports[n] = port(n)
    BY Zenon
  <1>9. policy \in Policies /\ policy # "" /\ (s.policy # "" => policy = s.policy)
    BY <1>2, ServiceAssumption, Zenon
  <1> HIDE DEF ports, policy
  <1>10. d \in ServiceType /\ d.ports = ports /\ d.policy = policy
         /\ d.meta = s.meta /\ d.owner = s.owner /\ d.exposed = s.exposed
    BY <1>7, <1>9, Zenon DEF ServiceType
  <1> HIDE DEF d
  <1>11. \A n \in DOMAIN d.ports : /\ d.ports[n].targetPort = tp(n) /\ d.ports[n].nodePort = np(n)
                                   /\ n \in DOMAIN s.ports
    BY <1>6, <1>8, <1>10, Zenon
  <1>12. Complete(d)
    <2>1. \A n \in DOMAIN d.ports : d.ports[n].targetPort # 0 /\ (d.exposed => d.ports[n].nodePort # 0)
      BY <1>4, <1>5, <1>10, <1>11, Zenon
    <2> QED  BY <1>9, <1>10, <2>1, Zenon DEF Complete
  <1>13. \A n \in DOMAIN s.ports :
           /\ s.ports[n].targetPort # 0 => d.ports[n].targetPort = s.ports[n].targetPort
           /\ s.ports[n].nodePort # 0 \/ ~s.exposed => d.ports[n].nodePort = s.ports[n].nodePort
    BY <1>5, <1>8, <1>10, <1>11, Zenon
  <1> QED  BY <1>1, <1>8, <1>9, <1>10, <1>12, <1>13, Zenon

(* A live Service that the merge would not change. *)
Settled(service, sp) == service # NoService /\ Merge(service, Build(sp)) = service

(* Such a Service is the one that is asked for. *)
LEMMA SettledIs ==
    ASSUME NEW c \in ServiceType, NEW sp \in SpecType, Settled(c, sp)
    PROVE  /\ IsOwned(c) /\ ~c.selector
           /\ [n \in DOMAIN c.ports |-> c.ports[n].port] = sp.ports
           /\ c.publishNotReady = sp.publishNotReady
           /\ sp.policy \in {"", c.policy}
           /\ mergeMap(c.meta, Build(sp).meta) = c.meta
  <1> DEFINE d == Build(sp)
  <1>1. /\ d \in ServiceType /\ d.owner = Self
        /\ DOMAIN d.ports = DOMAIN sp.ports /\ \A n \in DOMAIN sp.ports : d.ports[n].port = sp.ports[n]
        /\ d.publishNotReady = sp.publishNotReady /\ d.policy = sp.policy
    BY BuildIs, Zenon
  <1>2. Merge(c, d) = c /\ c # NoService
    BY Zenon DEF Settled
  <1> HIDE DEF d
  <1>3. /\ c.meta = mergeMap(c.meta, d.meta) /\ c.owner = d.owner /\ ~c.selector
        /\ c.ports = mergePorts(c.ports, d.ports)
        /\ c.publishNotReady = d.publishNotReady
        /\ c.policy = IF d.policy # "" THEN d.policy ELSE c.policy
    <2> DEFINE m == Merge(c, d)
    <2>1. /\ m.meta = mergeMap(c.meta, d.meta) /\ m.owner = d.owner /\ ~m.selector
          /\ m.ports = mergePorts(c.ports, d.ports)
          /\ m.publishNotReady = d.publishNotReady
          /\ m.policy = IF d.policy # "" THEN d.policy ELSE c.policy
      BY <1>1, MergeIs, Zenon
    <2>2. m = c
      BY <1>2, Zenon
    <2> HIDE DEF m
    <2> QED  BY <2>1, <2>2, Zenon
  <1>4. c.ports \in Map(PortNames, PortType) /\ d.ports \in Map(PortNames, PortType)
    BY <1>1, Zenon DEF ServiceType
  <1>5. DOMAIN c.ports = DOMAIN d.ports /\ \A n \in DOMAIN d.ports : c.ports[n].port = d.ports[n].port
    BY <1>3, <1>4, MergePortsIs, ZenonT(30)
  <1>6. sp.ports = [n \in DOMAIN sp.ports |-> sp.ports[n]]
    <2>1. sp.ports \in Map(PortNames, PortNumbers)
      BY Zenon DEF SpecType
    <2> QED  BY <2>1, MapIs
  <1>7. [n \in DOMAIN c.ports |-> c.ports[n].port] = sp.ports
    BY <1>1, <1>5, <1>6, Zenon
  <1>8. IsOwned(c)
    BY <1>1, <1>2, <1>3, Zenon DEF IsOwned
  <1>9. sp.policy \in {"", c.policy}
    BY <1>1, <1>3, Zenon
  <1> QED  BY <1>1, <1>3, <1>7, <1>8, <1>9, Zenon DEF d

-----------------------------------------------------------------------------
(* Publish: the slices *)

(* The inductive invariant's first half: the writer's, for the endpoints   *)
(* the reconcile goes on with, which are the resolved ones unless another  *)
(* reconcile is due.                                                       *)
SlicesInv ==
    /\ resolved \in Results
    /\ WriterType
    /\ step \in {"idle", "slices"}
    /\ pc = "writing" => step = "slices"
    /\ job \in Results \cup {NoSlices}
    /\ step = "slices" => job \in Results
    /\ ~queued /\ step = "slices" => job = resolved
    /\ Calm /\ pc = "writing" => Rest(existing, Listed(Server), plan, job)
    /\ Calm /\ step = "idle" => Presents(Listed(Server), resolved)

(* A step of the writer that leaves nothing queued found nothing queued. *)
LEMMA WriteKeepsQueued ==
    ASSUME Create \/ Keep \/ Update \/ Delete \/ Done
    PROVE  /\ pc = "writing" /\ resolved' = resolved
           /\ ~queued' => ~queued
  BY DEF Create, Keep, Update, Delete, Done, Refused

(* A reconcile is due at first. *)
LEMMA SlicesInit == PublishInit => SlicesInv
  <1> SUFFICES ASSUME PublishInit PROVE SlicesInv
    BY Zenon
  <1>1. WriterInv /\ queued = TRUE /\ pc = "idle"
    BY WriterInit, Zenon DEF PublishInit, Init
  <1> QED  BY <1>1, Zenon DEF PublishInit, SlicesInv, WriterInv, Calm

(* One case per action of Publish; the writer's own steps are taken from   *)
(* the lemmas about SliceWriter, with job in the place of resolved.        *)
LEMMA SlicesStep ==
    ASSUME SlicesInv, [PublishNext]_allVars
    PROVE  SlicesInv'
  <1>0. WriterType /\ resolved \in Results /\ queued \in BOOLEAN /\ Results \subseteq Resolved
    BY ResultsAssumption, Zenon DEF SlicesInv, WriterType
  <1>1. CASE ReconcileService
    <2>1. /\ UNCHANGED <<resolved, history, pc, existing, plan>> /\ step = "idle"
          /\ ToSlices \/ UNCHANGED <<queued, step, job>>
      BY <1>1, Zenon DEF ReconcileService
    <2>2. pc = "idle"
      BY <2>1, Zenon DEF SlicesInv, WriterType
    <2>3. CASE ToSlices
      <3>1. queued' = FALSE /\ step' = "slices" /\ job' = resolved
        BY <2>3, Zenon DEF ToSlices
      <3>2. WriterType'
        BY <1>0, <2>1, <3>1, WriterStutters, Zenon
      <3> QED  BY <1>0, <2>1, <2>2, <3>1, <3>2, Zenon DEF SlicesInv
    <2>4. CASE UNCHANGED <<queued, step, job>>
      <3>1. WriterType' /\ Listed(Server') = Listed(Server)
        BY <1>0, <2>1, <2>4, WriterStutters, Zenon
      <3>2. Calm' <=> Calm
        BY <2>1, <2>4, Zenon DEF Calm
      <3> QED  BY <2>1, <2>4, <3>1, <3>2, Zenon DEF SlicesInv
    <2> QED  BY <2>1, <2>3, <2>4, Zenon
  <1>2. CASE ListSlices
    <2>1. /\ step = "slices" /\ Plan(job) /\ history' = history /\ queued' = queued
          /\ resolved' = resolved /\ UNCHANGED <<step, job>>
      BY <1>2, Zenon DEF ListSlices, published
    <2>2. job \in Results /\ job \in Resolved
      BY <1>0, <2>1, Zenon DEF SlicesInv
    <2>3. /\ WriterType' /\ pc' = "writing"
          /\ Len(history) = 1 => Rest(existing', Listed(Server'), plan', job)
      BY <1>0, <2>1, <2>2, PlanStep, Zenon
    <2>4. Calm' => Len(history) = 1
      BY <2>1, Zenon DEF Calm
    <2> QED  BY <2>1, <2>2, <2>3, <2>4, Zenon DEF SlicesInv
  <1>3. CASE WriteSlices
    <2>1. /\ Create \/ Keep \/ Update \/ Delete \/ Done
          /\ step' = (IF pc' = "idle" THEN "idle" ELSE step)
          /\ job' = (IF pc' = "idle" THEN NoSlices ELSE job)
      BY <1>3, Zenon DEF WriteSlices, Resume
    <2>2. pc = "writing" /\ resolved' = resolved /\ (~queued' => ~queued)
      BY <2>1, WriteKeepsQueued, Zenon
    <2>3. step = "slices" /\ job \in Results /\ job \in Resolved
      BY <1>0, <2>2, Zenon DEF SlicesInv
    <2>4. Calm => Rest(existing, Listed(Server), plan, job)
      BY <2>2, Zenon DEF SlicesInv
    <2>5. /\ WriterType'
          /\ Calm' /\ pc' = "writing" => Rest(existing', Listed(Server'), plan', job)
          /\ Calm' /\ pc' = "idle" => Presents(Listed(Server'), job)
      BY <1>0, <2>1, <2>3, <2>4, WriteStep, Zenon
    <2>6. ~queued' => job = resolved
      BY <2>2, <2>3, Zenon DEF SlicesInv
    <2>7. Calm' => ~queued'
      BY Zenon DEF Calm
    <2>8. pc' \in {"idle", "writing"}
      BY <2>5, Zenon DEF WriterType
    <2>9. CASE pc' = "idle"
      <3>1. step' = "idle" /\ job' = NoSlices
        BY <2>1, <2>9, Zenon
      <3>2. Calm' => Presents(Listed(Server'), resolved)
        BY <2>5, <2>6, <2>7, <2>9, Zenon
      <3> QED  BY <1>0, <2>2, <2>5, <2>9, <3>1, <3>2, Zenon DEF SlicesInv
    <2>10. CASE pc' = "writing"
      <3>1. step' = "slices" /\ job' = job
        BY <2>1, <2>3, <2>10, Zenon
      <3> QED  BY <1>0, <2>2, <2>3, <2>5, <2>6, <2>10, <3>1, Zenon DEF SlicesInv
    <2> QED  BY <2>8, <2>9, <2>10, Zenon
  <1>4. CASE DeliverSlices
    <2>1. Deliver /\ UNCHANGED <<step, job>>
      BY <1>4, Zenon DEF DeliverSlices, published
    <2>2. WriterType' /\ queued'
      BY <1>0, <2>1, DeliverStep, Zenon
    <2>3. resolved' = resolved /\ pc' = pc
      BY <2>1, Zenon DEF Deliver
    <2> QED  BY <2>1, <2>2, <2>3, Zenon DEF SlicesInv, Calm
  <1>5. CASE DeliverService
    <2>1. /\ UNCHANGED <<resolved, history, pc, existing, plan, step, job>>
          /\ queued' = (queued \/ IsOwned(services[1]) \/ IsOwned(services[2]))
      BY <1>5, Zenon DEF DeliverService
    <2>2. queued' \in BOOLEAN /\ (~queued' => ~queued)
      BY <2>1, Zenon
    <2>3. WriterType' /\ Listed(Server') = Listed(Server)
      BY <1>0, <2>1, <2>2, WriterStutters, Zenon
    <2>4. Calm' => Calm
      BY <2>1, <2>2, Zenon DEF Calm
    <2> QED  BY <2>1, <2>2, <2>3, <2>4, Zenon DEF SlicesInv
  <1>6. CASE EditSpec
    <2>1. queued' = TRUE /\ UNCHANGED <<history, pc, existing, plan, step, job>>
      BY <1>6, Zenon DEF EditSpec
    <2>2. resolved' \in Results
      BY <1>6, PublishAssumption, Zenon DEF EditSpec
    <2>3. WriterType'
      BY <1>0, <2>1, WriterStutters, Zenon
    <2> QED  BY <2>1, <2>2, <2>3, Zenon DEF SlicesInv, Calm
  <1>7. CASE FailSlices
    <2>1. /\ Refused /\ resolved' = resolved
          /\ step' = (IF pc' = "idle" THEN "idle" ELSE step)
          /\ job' = (IF pc' = "idle" THEN NoSlices ELSE job)
      BY <1>7, Zenon DEF FailSlices, Fail, Resume
    <2>2. WriterType' /\ queued' /\ pc' = "idle"
      BY <1>0, <2>1, RefusedStep, Zenon
    <2> QED  BY <1>0, <2>1, <2>2, Zenon DEF SlicesInv, Calm
  <1>8. CASE RestartAll
    <2>1. Restart /\ step' = "idle" /\ job' = NoSlices /\ resolved' = resolved
      BY <1>8, Zenon DEF RestartAll, Restart
    <2>2. WriterType' /\ queued' /\ pc' = "idle"
      BY <1>0, <2>1, RestartStep, Zenon
    <2> QED  BY <1>0, <2>1, <2>2, Zenon DEF SlicesInv, Calm
  <1>9. CASE HandService
    <2>1. UNCHANGED <<resolved, history, queued, pc, existing, plan, step, job>>
      BY <1>9, Zenon DEF HandService
    <2>2. WriterType' /\ Listed(Server') = Listed(Server)
      BY <1>0, <2>1, WriterStutters, Zenon
    <2>3. Calm' <=> Calm
      BY <2>1, Zenon DEF Calm
    <2> QED  BY <2>1, <2>2, <2>3, Zenon DEF SlicesInv
  <1>10. CASE HandSlices
    <2>1. HandDelete /\ UNCHANGED <<step, job>>
      BY <1>10, Zenon DEF HandSlices, published
    <2>2. WriterType' /\ ~Calm'
      BY <1>0, <2>1, HandStep, Zenon
    <2>3. UNCHANGED <<resolved, queued, pc>>
      BY <2>1, Zenon DEF HandDelete
    <2> QED  BY <2>1, <2>2, <2>3, Zenon DEF SlicesInv
  <1>11. CASE UNCHANGED allVars
    <2>1. UNCHANGED <<resolved, history, queued, pc, existing, plan, step, job>>
      BY <1>11, Zenon DEF allVars, vars, published
    <2>2. WriterType' /\ Listed(Server') = Listed(Server)
      BY <1>0, <2>1, WriterStutters, Zenon
    <2>3. Calm' <=> Calm
      BY <2>1, Zenon DEF Calm
    <2> QED  BY <2>1, <2>2, <2>3, Zenon DEF SlicesInv
  <1> QED  BY <1>1, <1>2, <1>3, <1>4, <1>5, <1>6, <1>7, <1>8, <1>9, <1>10, <1>11 DEF PublishNext, Reconcile

-----------------------------------------------------------------------------
(* Publish: the Service *)

(* What the API server may hold under the Service's name. *)
Stored == {s \in ServiceType : Complete(s)} \cup {NoService}

ServicesType ==
    spec \in Specs /\ services \in Seq(Stored) /\ Len(services) > 0

(* The next event of the Service informer enqueues the CrossService. *)
Wakes == Len(services) > 1 /\ (IsOwned(services[1]) \/ IsOwned(services[2]))

(* The second half: unless a reconcile is due, the cached Service is the   *)
(* one asked for or the next event brings one.  A Service that is not owned*)
(* wakes nobody, so this rests on who writes: only the controller creates, *)
(* and it only goes on past a Service it has just written or found right.  *)
ServiceInv ==
    /\ ServicesType
    /\ ~queued => Settled(services[1], spec) \/ Wakes
    /\ \A i \in 1 .. Len(services) - 1 : services[i] = NoService => IsOwned(services[i + 1])

(* What a reconcile writes to the API server. *)
LEMMA WrittenService ==
    ASSUME NEW sp \in Specs
    PROVE  /\ LET d == Defaulted(Build(sp)) IN d \in Stored /\ IsOwned(d)
           /\ \A c \in Stored \ {NoService} :
                 LET d == Defaulted(Merge(c, Build(sp))) IN d \in Stored /\ IsOwned(d)
  <1>1. Build(sp) \in ServiceType /\ Build(sp).owner = Self
    BY PublishAssumption, BuildIs, Zenon
  <1>2. \A s \in ServiceType : s.owner = Self => Defaulted(s) \in Stored /\ IsOwned(Defaulted(s))
    <2> SUFFICES ASSUME NEW s \in ServiceType, s.owner = Self
                 PROVE  Defaulted(s) \in Stored /\ IsOwned(Defaulted(s))
      BY Zenon
    <2>1. Defaulted(s) \in ServiceType /\ Complete(Defaulted(s)) /\ Defaulted(s).owner = Self
      BY DefaultedIs, Zenon
    <2> QED  BY <2>1, ServiceAssumption, Zenon DEF Stored, IsOwned
  <1>3. ASSUME NEW c \in Stored \ {NoService}
        PROVE  Merge(c, Build(sp)) \in ServiceType /\ Merge(c, Build(sp)).owner = Self
    <2>1. c \in ServiceType
      BY Zenon DEF Stored
    <2> QED  BY <1>1, <2>1, MergeIs, Zenon
  <1> QED  BY <1>1, <1>2, <1>3, Zenon

(* One more version: the old ones stay where they are. *)
LEMMA CommitServiceIs ==
    ASSUME ServicesType, NEW s \in Stored, CommitService(s)
    PROVE  /\ services' \in Seq(Stored) /\ Len(services') = Len(services) + 1
           /\ \A i \in 1 .. Len(services) : services'[i] = services[i]
           /\ services'[Len(services) + 1] = s
  <1>1. services \in Seq(Stored) /\ Len(services) \in Nat
    BY DEF ServicesType
  <1>2. services' = Append(services, s)
    BY Zenon DEF CommitService
  <1> QED  BY <1>1, <1>2

(* A version of an owner, or of a Service that is there, keeps the         *)
(* invariant if it wakes the controller when nothing else does.            *)
LEMMA CommitServiceStep ==
    ASSUME ServiceInv, NEW s \in Stored, CommitService(s), spec' = spec,
           LiveService = NoService => IsOwned(s),
           ~queued' => \/ ~queued
                       \/ Settled(services[1], spec)
                       \/ IsOwned(s) /\ (Len(services) = 1 \/ services[1] = NoService)
                       \/ IsOwned(services[1])
    PROVE  ServiceInv'
  <1> DEFINE L == Len(services)
  <1>1. ServicesType /\ L \in Nat /\ L > 0
    BY DEF ServiceInv, ServicesType
  <1>2. /\ services' \in Seq(Stored) /\ Len(services') = L + 1
        /\ \A i \in 1 .. L : services'[i] = services[i]
        /\ services'[L + 1] = s
    BY <1>1, CommitServiceIs, Zenon
  <1>3. LiveService = services[L]
    BY Zenon DEF LiveService
  <1>4. \A i \in 1 .. L - 1 : services[i] = NoService => IsOwned(services[i + 1])
    BY Zenon DEF ServiceInv
  <1> HIDE DEF L
  <1>5. ServicesType'
    BY <1>1, <1>2 DEF ServicesType
  <1>6. ASSUME NEW i \in 1 .. Len(services') - 1, services'[i] = NoService
        PROVE  IsOwned(services'[i + 1])
    <2>0. i \in 1 .. L
      BY <1>1, <1>2
    <2>1. CASE i = L
      BY <1>1, <1>2, <1>3, <1>6, <2>1
    <2>2. CASE i # L
      <3>1. i \in 1 .. L - 1 /\ i + 1 \in 1 .. L
        BY <1>1, <2>0, <2>2
      <3> QED  BY <1>2, <1>4, <1>6, <2>0, <3>1, Zenon
    <2> QED  BY <2>1, <2>2, Zenon
  <1>7. services'[1] = services[1] /\ (L > 1 => services'[2] = services[2]) /\ (L = 1 => services'[2] = s)
    BY <1>1, <1>2
  <1>8. services[1] = NoService /\ L > 1 => IsOwned(services[2])
    BY <1>1, <1>4
  <1>9. Len(services') > 1
    BY <1>1, <1>2
  <1>10. ASSUME ~queued' PROVE Settled(services'[1], spec') \/ Wakes'
    <2>1. CASE Settled(services[1], spec)
      BY <1>7, <2>1, Zenon
    <2>2. CASE Wakes
      <3>1. L > 1 /\ (IsOwned(services[1]) \/ IsOwned(services[2]))
        BY <2>2, Zenon DEF Wakes, L
      <3> QED  BY <1>7, <1>9, <3>1, Zenon DEF Wakes
    <2>3. CASE IsOwned(services[1])
      BY <1>7, <1>9, <2>3, Zenon DEF Wakes
    <2>4. CASE IsOwned(s) /\ (L = 1 \/ services[1] = NoService)
      <3>1. L = 1 \/ L > 1
        BY <1>1
      <3> QED  BY <1>7, <1>8, <1>9, <2>4, <3>1, Zenon DEF Wakes
    <2>5. ~queued => Settled(services[1], spec) \/ Wakes
      BY Zenon DEF ServiceInv
    <2> QED  BY <1>10, <2>1, <2>2, <2>3, <2>4, <2>5, Zenon DEF L
  <1> QED  BY <1>5, <1>6, <1>10, Zenon DEF ServiceInv

(* Nothing about the Service changes, and nothing that was due is done. *)
LEMMA ServiceStutters ==
    ASSUME ServiceInv, services' = services, spec' = spec, ~queued' => ~queued
    PROVE  ServiceInv'
  BY Zenon DEF ServiceInv, ServicesType, Wakes

(* Whatever people do to a Service by hand, the API server has a complete  *)
(* one or none.                                                            *)
LEMMA HandIsStored ==
    ASSUME NEW c \in Stored, c # NoService,
           NEW s \in {NoService,
                      [c EXCEPT !.owner = "nobody", !.meta = [k \in {"theirs"} |-> "kept"]],
                      [c EXCEPT !.selector = TRUE, !.policy = "Local"],
                      Defaulted([c EXCEPT !.exposed = TRUE])}
    PROVE  s \in Stored
  <1> DEFINE yes == TRUE
             nobody == "nobody"
             theirs == "theirs"
             kept == "kept"
             local == "Local"
             meta == [k \in {theirs} |-> kept]
             s1 == [c EXCEPT !.owner = nobody, !.meta = meta]
             s2 == [c EXCEPT !.selector = yes, !.policy = local]
             s3 == [c EXCEPT !.exposed = yes]
  <1>1. c \in ServiceType /\ Complete(c)
    BY Zenon DEF Stored
  <1>2. s = NoService \/ s = s1 \/ s = s2 \/ s = Defaulted(s3)
    BY Zenon
  <1>3. /\ yes \in BOOLEAN /\ nobody \in {Self, "nobody"} /\ theirs \in Labels /\ kept \in Values
        /\ local \in Policies /\ local # ""
    BY ServiceAssumption, Zenon
  <1> HIDE DEF yes, nobody, theirs, kept, local
  <1>4. meta \in Map(Labels, Values)
    <2>1. theirs \in Labels /\ kept \in Values
      BY <1>3, Zenon
    <2>2. /\ DOMAIN meta \subseteq Labels /\ \A k \in DOMAIN meta : meta[k] \in Values
          /\ meta = [k \in DOMAIN meta |-> meta[k]]
      BY <2>1, Zenon
    <2> QED  BY <2>2, MapIs, Zenon
  <1> HIDE DEF meta
  <1>5. s1 \in ServiceType /\ s1.ports = c.ports /\ s1.exposed = c.exposed /\ s1.policy = c.policy
    BY <1>1, <1>3, <1>4, Zenon DEF ServiceType
  <1>6. s2 \in ServiceType /\ s2.ports = c.ports /\ s2.exposed = c.exposed /\ s2.policy = local
    BY <1>1, <1>3, Zenon DEF ServiceType
  <1>7. s3 \in ServiceType
    BY <1>1, <1>3, Zenon DEF ServiceType
  <1> HIDE DEF s1, s2, s3
  <1>8. Complete(s1) /\ Complete(s2)
    BY <1>1, <1>3, <1>5, <1>6, Zenon DEF Complete
  <1>9. Defaulted(s3) \in ServiceType /\ Complete(Defaulted(s3))
    BY <1>7, DefaultedIs, Zenon
  <1> QED  BY <1>2, <1>5, <1>6, <1>8, <1>9, Zenon DEF Stored

(* A reconcile is due, and what is there is a complete Service or none. *)
LEMMA ServiceInit == PublishInit => ServiceInv
  <1> SUFFICES ASSUME PublishInit PROVE ServiceInv
    BY Zenon
  <1>1. PICK f \in Found : services = <<f>>
    BY Zenon DEF PublishInit
  <1>2. f \in Stored
    BY PublishAssumption, Zenon DEF Stored
  <1>3. services \in Seq(Stored) /\ Len(services) = 1
    BY <1>1, <1>2
  <1>4. queued = TRUE /\ spec \in Specs
    BY Zenon DEF PublishInit, Init
  <1> QED  BY <1>3, <1>4 DEF ServiceInv, ServicesType

(* One case per action.  An event that does not enqueue leaves behind a    *)
(* Service that is not owned and, by the invariant, cannot be the last     *)
(* word when nothing is queued.                                            *)
LEMMA ServiceStep ==
    ASSUME ServiceInv, [PublishNext]_allVars
    PROVE  ServiceInv'
  <1> DEFINE L == Len(services)
  <1>0. /\ ServicesType /\ L \in Nat /\ L > 0 /\ spec \in Specs /\ spec \in SpecType
        /\ \A i \in 1 .. L : services[i] \in Stored
        /\ Head(services) = services[1] /\ LiveService = services[L]
        /\ services[1] \in Stored /\ LiveService \in Stored
    BY PublishAssumption DEF ServiceInv, ServicesType, LiveService
  <1>1. CASE ReconcileService
    <2> DEFINE current == services[1]
               merged == Merge(current, Build(spec))
    <2>1. /\ spec' = spec
          /\ \/ /\ current = NoService /\ LiveService = NoService
                /\ CommitService(Defaulted(Build(spec)))
             \/ UNCHANGED <<services, queued>>
             \/ current # NoService /\ merged = current /\ UNCHANGED services
             \/ current # NoService /\ L = 1 /\ CommitService(Defaulted(merged))
      BY <1>0, <1>1, Zenon DEF ReconcileService
    <2>2. CASE /\ current = NoService /\ LiveService = NoService
               /\ CommitService(Defaulted(Build(spec)))
      <3> DEFINE d == Defaulted(Build(spec))
      <3>1. d \in Stored /\ IsOwned(d)
        BY <1>0, WrittenService, Zenon
      <3> HIDE DEF d
      <3>2. CommitService(d)
        BY <2>2, Zenon DEF d
      <3> QED  BY <2>1, <2>2, <3>1, <3>2, CommitServiceStep, Zenon
    <2>3. CASE UNCHANGED <<services, queued>>
      BY <2>1, <2>3, ServiceStutters, Zenon
    <2>4. CASE current # NoService /\ merged = current /\ UNCHANGED services
      <3>1. Settled(services[1], spec)
        BY <2>4, Zenon DEF Settled
      <3> QED  BY <2>1, <2>4, <3>1, Zenon DEF ServiceInv, ServicesType
    <2>5. CASE current # NoService /\ L = 1 /\ CommitService(Defaulted(merged))
      <3> DEFINE d == Defaulted(merged)
      <3>1. d \in Stored /\ IsOwned(d)
        BY <1>0, <2>5, WrittenService, Zenon
      <3> HIDE DEF d
      <3>2. CommitService(d)
        BY <2>5, Zenon DEF d
      <3> QED  BY <2>1, <2>5, <3>1, <3>2, CommitServiceStep, Zenon
    <2> QED  BY <2>1, <2>2, <2>3, <2>4, <2>5, Zenon
  <1>2. CASE ListSlices
    <2>1. services' = services /\ spec' = spec /\ queued' = queued
      BY <1>2, Zenon DEF ListSlices, published
    <2> QED  BY <2>1, ServiceStutters, Zenon
  <1>3. CASE WriteSlices
    <2>1. services' = services /\ spec' = spec /\ (~queued' => ~queued)
      BY <1>3, WriteKeepsQueued, Zenon DEF WriteSlices, Resume
    <2> QED  BY <2>1, ServiceStutters, Zenon
  <1>4. CASE DeliverSlices
    <2>1. services' = services /\ spec' = spec /\ queued' = TRUE
      BY <1>4, Zenon DEF DeliverSlices, Deliver, published
    <2> QED  BY <2>1, ServiceStutters, Zenon
  <1>5. CASE DeliverService
    <2>1. /\ L > 1 /\ services' = Tail(services) /\ spec' = spec
          /\ queued' = (queued \/ IsOwned(services[1]) \/ IsOwned(services[2]))
      BY <1>5, Zenon DEF DeliverService
    <2>2. /\ services' \in Seq(Stored) /\ Len(services') = L - 1
          /\ \A i \in 1 .. L - 1 : services'[i] = services[i + 1]
      BY <1>0, <2>1 DEF ServicesType
    <2>3. ServicesType'
      BY <1>0, <2>1, <2>2 DEF ServicesType
    <2>4. queued'
      <3>1. CASE Settled(services[1], spec)
        <4>1. services[1] \in ServiceType
          BY <1>0, <3>1, Zenon DEF Stored, Settled
        <4>2. IsOwned(services[1])
          BY <1>0, <3>1, <4>1, SettledIs, Zenon
        <4> QED  BY <2>1, <4>2, Zenon
      <3>2. CASE Wakes
        BY <2>1, <3>2, Zenon DEF Wakes
      <3>3. CASE queued
        BY <2>1, <3>3, Zenon
      <3> QED  BY <3>1, <3>2, <3>3, Zenon DEF ServiceInv
    <2>5. ASSUME NEW i \in 1 .. Len(services') - 1, services'[i] = NoService
          PROVE  IsOwned(services'[i + 1])
      <3>1. /\ i \in 1 .. L - 1 /\ i + 1 \in 1 .. L - 1
            /\ services'[i] = services[i + 1] /\ services'[i + 1] = services[(i + 1) + 1]
        BY <1>0, <2>1, <2>2
      <3> QED  BY <2>5, <3>1, Zenon DEF ServiceInv
    <2> QED  BY <2>3, <2>4, <2>5, Zenon DEF ServiceInv
  <1>6. CASE EditSpec
    <2>1. queued' = TRUE /\ services' = services /\ spec' \in Specs
      BY <1>6, Zenon DEF EditSpec
    <2> QED  BY <2>1, Zenon DEF ServiceInv, ServicesType
  <1>7. CASE FailSlices
    <2>1. services' = services /\ spec' = spec /\ queued' = TRUE
      BY <1>7, Zenon DEF FailSlices, Fail, Refused, Resume
    <2> QED  BY <2>1, ServiceStutters, Zenon
  <1>8. CASE RestartAll
    <2>1. queued' = TRUE /\ services' = <<LiveService>> /\ spec' = spec
      BY <1>8, Zenon DEF RestartAll, Restart
    <2>2. services' \in Seq(Stored) /\ Len(services') = 1
      BY <1>0, <2>1
    <2> QED  BY <1>0, <2>1, <2>2 DEF ServiceInv, ServicesType
  <1>9. CASE HandService
    <2>1. /\ spec' = spec /\ queued' = queued /\ LiveService # NoService
          /\ \E s \in {NoService,
                 [LiveService EXCEPT !.owner = "nobody", !.meta = [k \in {"theirs"} |-> "kept"]],
                 [LiveService EXCEPT !.selector = TRUE, !.policy = "Local"],
                 Defaulted([LiveService EXCEPT !.exposed = TRUE])} : CommitService(s)
      BY <1>9, Zenon DEF HandService
    <2>2. \E s \in Stored : CommitService(s)
      <3> DEFINE c == LiveService
      <3>1. c \in Stored /\ c # NoService
        BY <1>0, <2>1, Zenon
      <3>2. \E s \in {NoService,
                 [c EXCEPT !.owner = "nobody", !.meta = [k \in {"theirs"} |-> "kept"]],
                 [c EXCEPT !.selector = TRUE, !.policy = "Local"],
                 Defaulted([c EXCEPT !.exposed = TRUE])} : CommitService(s)
        BY <2>1, Zenon
      <3> HIDE DEF c
      <3> QED  BY <3>1, <3>2, HandIsStored, Zenon
    <2>3. PICK s \in Stored : CommitService(s)
      BY <2>2, Zenon
    <2> QED  BY <2>1, <2>3, CommitServiceStep, Zenon
  <1>10. CASE HandSlices
    <2>1. services' = services /\ spec' = spec /\ queued' = queued
      BY <1>10, Zenon DEF HandSlices, HandDelete, published
    <2> QED  BY <2>1, ServiceStutters, Zenon
  <1>11. CASE UNCHANGED allVars
    <2>1. services' = services /\ spec' = spec /\ queued' = queued
      BY <1>11, Zenon DEF allVars, vars, published
    <2> QED  BY <2>1, ServiceStutters, Zenon
  <1> QED  BY <1>1, <1>2, <1>3, <1>4, <1>5, <1>6, <1>7, <1>8, <1>9, <1>10, <1>11 DEF PublishNext, Reconcile

-----------------------------------------------------------------------------
(* Publish: the theorems *)

(* Every Service the API server holds is a complete one, and slices are    *)
(* written only within a reconcile that is past its Service.               *)
THEOREM PublishTypeCorrect == PublishSpec => []PublishTypeOK
  <1>1. SlicesInv /\ ServiceInv => PublishTypeOK
    <2> SUFFICES ASSUME SlicesInv, ServiceInv PROVE PublishTypeOK
      BY Zenon
    <2>1. TypeOK
      BY WriterTyped, Zenon DEF SlicesInv
    <2>2. services \in Seq(Stored) /\ Len(services) > 0 /\ spec \in Specs
      BY Zenon DEF ServiceInv, ServicesType
    <2>3. \A i \in DOMAIN services : services[i] \in Stored
      BY <2>2
    <2>4. \A i \in DOMAIN services :
             services[i] # NoService => services[i] \in ServiceType /\ Complete(services[i])
      BY <2>3, Zenon DEF Stored
    <2>5. services # <<>>
      BY <2>2, SMTT(30)
    <2> QED  BY <2>1, <2>2, <2>4, <2>5, Zenon DEF SlicesInv, PublishTypeOK
  <1> QED  BY <1>1, SlicesInit, SlicesStep, ServiceInit, ServiceStep, PTL DEF PublishSpec

(* Whatever was edited, refused, interrupted or seen late: at rest the     *)
(* Service is the one the spec asks for and the slices carry the backend   *)
(* ports that go with it.                                                  *)
THEOREM RestIsPublished == PublishSpec => []RestMeansPublished
  <1>1. SlicesInv /\ ServiceInv => RestMeansPublished
    <2> SUFFICES ASSUME SlicesInv, ServiceInv, AtRest PROVE Published
      BY Zenon DEF RestMeansPublished
    <2>1. step = "idle" /\ ~queued /\ Len(history) = 1 /\ Len(services) = 1
      BY Zenon DEF AtRest
    <2>2. Presents(Listed(Server), resolved)
      BY <2>1, Zenon DEF SlicesInv, Calm
    <2>3. LiveService = services[1]
      BY <2>1, Zenon DEF LiveService
    <2>4. Settled(LiveService, spec)
      BY <2>1, <2>3 DEF ServiceInv, Wakes
    <2>5. LiveService \in Stored /\ spec \in SpecType
      <3>1. services \in Seq(Stored) /\ spec \in Specs
        BY Zenon DEF ServiceInv, ServicesType
      <3>2. services[1] \in Stored
        BY <2>1, <3>1
      <3> QED  BY <2>3, <3>1, <3>2, PublishAssumption, Zenon
    <2>6. LiveService \in ServiceType
      BY <2>4, <2>5, Zenon DEF Stored, Settled
    <2> DEFINE live == LiveService
    <2>7. live \in ServiceType /\ Settled(live, spec)
      BY <2>4, <2>6, Zenon
    <2> HIDE DEF live
    <2>8. /\ IsOwned(live) /\ ~live.selector
          /\ [n \in DOMAIN live.ports |-> live.ports[n].port] = spec.ports
          /\ live.publishNotReady = spec.publishNotReady
          /\ spec.policy \in {"", live.policy}
          /\ mergeMap(live.meta, Build(spec).meta) = live.meta
      BY <2>5, <2>7, SettledIs, Zenon
    <2> QED  BY <2>2, <2>8, Zenon DEF Published, live
  <1> QED  BY <1>1, SlicesInit, SlicesStep, ServiceInit, ServiceStep, PTL DEF PublishSpec

(* hands counts. *)
LEMMA HandsCount ==
    ASSUME hands \in Nat, [PublishNext]_allVars
    PROVE  hands' \in Nat /\ (HandService => hands' # hands)
  <1>1. hands' = hands \/ hands' = hands + 1
    BY Zenon DEF PublishNext, Reconcile, ReconcileService, ListSlices, WriteSlices, Create, Keep, Update,
           Delete, Done, DeliverSlices, Deliver, DeliverService, EditSpec, FailSlices, Fail,
           RestartAll, Restart, HandService, HandSlices, HandDelete, allVars, vars
  <1> QED  BY <1>1, SMTT(30) DEF HandService

(* What a write of the controller keeps of the Service it read. *)
Kept(service, next, sp) ==
    /\ next.exposed = service.exposed
    /\ \A n \in DOMAIN service.ports \cap DOMAIN next.ports :
          /\ next.ports[n].nodePort = service.ports[n].nodePort
          /\ next.ports[n].targetPort = service.ports[n].targetPort
    /\ \A k \in DOMAIN service.meta \ DOMAIN Build(sp).meta :
          k \in DOMAIN next.meta /\ next.meta[k] = service.meta[k]
    /\ next.policy \in {service.policy, sp.policy}

(* The merge carries it over, and finds it filled in.                      *)
LEMMA UpdateKeeps ==
    ASSUME NEW c \in ServiceType, Complete(c), NEW sp \in SpecType
    PROVE  Kept(c, Defaulted(Merge(c, Build(sp))), sp)
  <1> DEFINE b == Build(sp)
             m == Merge(c, b)
             d == Defaulted(m)
  <1>1. b \in ServiceType /\ b.policy = sp.policy
    BY BuildIs, Zenon
  <1>2. b.meta \in Map(Labels, Values) /\ b.ports \in Map(PortNames, PortType)
        /\ c.meta \in Map(Labels, Values) /\ c.ports \in Map(PortNames, PortType)
    BY <1>1, Zenon DEF ServiceType
  <1> HIDE DEF b
  <1>3. /\ m \in ServiceType /\ m.meta = mergeMap(c.meta, b.meta)
        /\ m.ports = mergePorts(c.ports, b.ports) /\ m.exposed = c.exposed
        /\ m.policy = IF b.policy # "" THEN b.policy ELSE c.policy
    BY <1>1, MergeIs, Zenon
  <1> HIDE DEF m
  <1>4. /\ d.meta = m.meta /\ d.exposed = m.exposed /\ DOMAIN d.ports = DOMAIN m.ports
        /\ \A n \in DOMAIN m.ports :
              /\ m.ports[n].targetPort # 0 => d.ports[n].targetPort = m.ports[n].targetPort
              /\ m.ports[n].nodePort # 0 \/ ~m.exposed => d.ports[n].nodePort = m.ports[n].nodePort
        /\ m.policy # "" => d.policy = m.policy
    BY <1>3, DefaultedIs, ZenonT(30)
  <1> HIDE DEF d
  <1>5. /\ DOMAIN m.ports = DOMAIN b.ports
        /\ \A n \in DOMAIN b.ports \cap DOMAIN c.ports : /\ m.ports[n].targetPort = c.ports[n].targetPort
                                                         /\ m.ports[n].nodePort = c.ports[n].nodePort
    <2> DEFINE q == mergePorts(c.ports, b.ports)
    <2>1. /\ DOMAIN q = DOMAIN b.ports
          /\ \A n \in DOMAIN b.ports \cap DOMAIN c.ports : /\ q[n].targetPort = c.ports[n].targetPort
                                                           /\ q[n].nodePort = c.ports[n].nodePort
      BY <1>2, MergePortsIs, Zenon
    <2>2. m.ports = q
      BY <1>3, ZenonT(30)
    <2> HIDE DEF q
    <2> QED  BY <2>1, <2>2, Zenon
  <1>6. /\ DOMAIN m.meta = DOMAIN c.meta \cup DOMAIN b.meta
        /\ \A k \in DOMAIN c.meta \ DOMAIN b.meta : m.meta[k] = c.meta[k]
    <2> DEFINE cm == c.meta
               bm == b.meta
               q == mergeMap(cm, bm)
    <2>1. cm \in Map(Labels, Values) /\ bm \in Map(Labels, Values) /\ m.meta = q
      BY <1>2, <1>3, Zenon
    <2> HIDE DEF cm, bm
    <2>2. DOMAIN q = DOMAIN cm \cup DOMAIN bm /\ \A k \in DOMAIN cm \ DOMAIN bm : q[k] = cm[k]
      BY <2>1, MergeMapIs, Zenon
    <2> HIDE DEF q
    <2> QED  BY <2>1, <2>2, Zenon DEF cm, bm
  <1>7. /\ \A n \in DOMAIN c.ports : c.ports[n].targetPort # 0 /\ (c.exposed => c.ports[n].nodePort # 0)
        /\ c.policy # ""
    BY Zenon DEF Complete
  <1>8. ASSUME NEW n \in DOMAIN c.ports \cap DOMAIN d.ports
        PROVE  d.ports[n].nodePort = c.ports[n].nodePort /\ d.ports[n].targetPort = c.ports[n].targetPort
    BY <1>3, <1>4, <1>5, <1>7, Zenon
  <1>9. d.policy \in {c.policy, sp.policy}
    BY <1>1, <1>3, <1>4, <1>7, Zenon
  <1>10. \A k \in DOMAIN c.meta \ DOMAIN b.meta : k \in DOMAIN d.meta /\ d.meta[k] = c.meta[k]
    BY <1>4, <1>6, Zenon
  <1>11. d.exposed = c.exposed
    BY <1>3, <1>4, Zenon
  <1> QED  BY <1>8, <1>9, <1>10, <1>11, Zenon DEF Kept, b, m, d

(* A write of the controller keeps node ports, target ports, the type,     *)
(* foreign labels and a policy the template does not set.  Only an Update  *)
(* replaces a Service, and it is accepted only if the copy it was merged   *)
(* into is the API server's.                                               *)
THEOREM ForeignIsKept == PublishSpec => ForeignSurvives
  <1>1. ServiceInv /\ hands \in Nat /\ [PublishNext]_allVars =>
          [hands' = hands /\ LiveService # NoService /\ LiveService' # NoService =>
             /\ LiveService'.exposed = LiveService.exposed
             /\ \A n \in DOMAIN LiveService.ports \cap DOMAIN LiveService'.ports :
                   /\ LiveService'.ports[n].nodePort = LiveService.ports[n].nodePort
                   /\ LiveService'.ports[n].targetPort = LiveService.ports[n].targetPort
             /\ \A k \in DOMAIN LiveService.meta \ DOMAIN Build(spec).meta :
                   k \in DOMAIN LiveService'.meta /\ LiveService'.meta[k] = LiveService.meta[k]
             /\ LiveService'.policy \in {LiveService.policy, spec.policy}]_allVars
    <2> SUFFICES ASSUME ServiceInv, hands \in Nat, PublishNext, hands' = hands,
                        LiveService # NoService, LiveService' # NoService
                 PROVE  Kept(LiveService, LiveService', spec)
      BY Zenon DEF Kept
    <2>1. /\ services \in Seq(Stored) /\ Len(services) \in Nat /\ Len(services) > 0
          /\ spec \in SpecType /\ LiveService = services[Len(services)] /\ LiveService \in Stored
          /\ Head(services) = services[1] /\ LiveService' = services'[Len(services')]
      BY PublishAssumption DEF ServiceInv, ServicesType, LiveService
    <2>2. LiveService' = LiveService => Kept(LiveService, LiveService', spec)
      BY Zenon DEF Kept
    <2>3. services' = services => LiveService' = LiveService
      BY <2>1, Zenon
    <2>4. CASE ReconcileService
      <3>1. \/ services' = services
            \/ /\ services[1] # NoService /\ Len(services) = 1
               /\ services' = Append(services, Defaulted(Merge(services[1], Build(spec))))
        BY <2>1, <2>4, Zenon DEF ReconcileService, CommitService
      <3>2. CASE /\ services[1] # NoService /\ Len(services) = 1
                 /\ services' = Append(services, Defaulted(Merge(services[1], Build(spec))))
        <4> DEFINE c == services[1]
                   d == Defaulted(Merge(c, Build(spec)))
        <4>1. c \in ServiceType /\ Complete(c) /\ LiveService = c
          BY <2>1, <3>2, Zenon DEF Stored
        <4>2. Kept(c, d, spec)
          BY <2>1, <4>1, UpdateKeeps, Zenon
        <4> HIDE DEF d
        <4>3. services' = Append(services, d)
          BY <3>2, Zenon DEF d
        <4>4. LiveService' = d
          BY <2>1, <4>3
        <4> QED  BY <4>1, <4>2, <4>4, Zenon
      <3> QED  BY <2>2, <2>3, <3>1, <3>2, Zenon
    <2>5. CASE ListSlices \/ DeliverSlices \/ HandSlices
      BY <2>2, <2>3, <2>5, Zenon DEF ListSlices, DeliverSlices, HandSlices, published
    <2>6. CASE WriteSlices \/ FailSlices
      BY <2>2, <2>3, <2>6, Zenon DEF WriteSlices, FailSlices, Resume
    <2>7. CASE DeliverService
      <3>1. Len(services) > 1 /\ services' = Tail(services)
        BY <2>7, Zenon DEF DeliverService
      <3>2. LiveService' = LiveService
        BY <2>1, <3>1
      <3> QED  BY <2>2, <3>2, Zenon
    <2>8. CASE EditSpec
      BY <2>2, <2>3, <2>8, Zenon DEF EditSpec
    <2>9. CASE RestartAll
      <3>1. services' = <<LiveService>>
        BY <2>9, Zenon DEF RestartAll
      <3>2. LiveService' = LiveService
        BY <2>1, <3>1, Zenon
      <3> QED  BY <2>2, <3>2, Zenon
    <2>10. CASE HandService
      BY <2>10, HandsCount, Zenon
    <2> QED  BY <2>4, <2>5, <2>6, <2>7, <2>8, <2>9, <2>10, Zenon DEF PublishNext, Reconcile
  <1>2. PublishInit => hands \in Nat
    BY DEF PublishInit, Init
  <1>3. hands \in Nat /\ [PublishNext]_allVars => (hands \in Nat)'
    BY HandsCount, Zenon
  <1> QED
    BY <1>1, <1>2, <1>3, ServiceInit, ServiceStep, PTL DEF PublishSpec, ForeignSurvives

-----------------------------------------------------------------------------
(* The board *)

(* No slices, and a reconcile is due. *)
LEMMA PublishBoardInit == PublishInit => PublishBoard!Init
  <1> SUFFICES ASSUME PublishInit PROVE PublishBoard!Init
    BY Zenon
  <1>1. Board!Init /\ queued = TRUE /\ pc = "idle" /\ step = "idle"
    BY BoardInit, Zenon DEF PublishInit, Init
  <1>2. InFlight = {}
    BY <1>1, Zenon DEF InFlight
  <1>3. (~AtRest) = TRUE
    BY <1>1, Zenon DEF AtRest
  <1> QED  BY <1>1, <1>2, <1>3, Zenon DEF Board!Init, PublishBoard!Init

(* One case per action of Publish. *)
LEMMA PublishBoardStep ==
    SlicesInv /\ [PublishNext]_allVars => [PublishBoard!Next]_(PublishBoard!vars)
  <1> SUFFICES ASSUME SlicesInv, [PublishNext]_allVars
               PROVE  [PublishBoard!Next]_(PublishBoard!vars)
    BY Zenon
  <1> DEFINE shown == OnSlices(Listed(Server))
  <1>0. WriterType /\ SlicesInv' /\ Results \subseteq Resolved
    BY SlicesStep, ResultsAssumption, Zenon DEF SlicesInv
  <1>1. ASSUME history' = history PROVE shown' = shown
    <2>1. Server' = Server
      BY <1>1, Zenon DEF Server
    <2> QED  BY <2>1, Zenon
  <1>2. ASSUME UNCHANGED <<history, resolved, pc, plan, step, job>>, AtRest' <=> AtRest
        PROVE  UNCHANGED PublishBoard!vars
    BY <1>1, <1>2, Zenon DEF PublishBoard!vars, InFlight
  <1>3. ASSUME AtRest', history' = history, resolved' = resolved
        PROVE  shown = ToShow(resolved) /\ InFlight' = {}
    <2>1. step' = "idle" /\ Calm'
      BY <1>3, Zenon DEF AtRest, Calm
    <2>2. pc' # "writing" /\ Presents(Listed(Server'), resolved')
      BY <1>0, <2>1, Zenon DEF SlicesInv
    <2>3. shown' = ToShow(resolved)
      BY <1>3, <2>2, PresentsShows, Zenon
    <2> QED  BY <1>1, <1>3, <2>1, <2>2, <2>3, Zenon DEF InFlight
  <1>4. CASE ReconcileService
    <2>1. /\ UNCHANGED <<resolved, history, pc, existing, plan>> /\ step = "idle" /\ queued
          /\ ToSlices \/ UNCHANGED <<services, queued, step, job>>
      BY <1>4, Zenon DEF ReconcileService
    <2>2. CASE ToSlices
      <3>1. step' = "slices" /\ job' = resolved /\ pc' # "writing"
        BY <2>1, <2>2, Zenon DEF ToSlices, SlicesInv
      <3>2. ~AtRest /\ ~AtRest'
        BY <2>1, <3>1, Zenon DEF AtRest
      <3>3. InFlight' = ToShow(resolved)
        BY <3>1, Zenon DEF InFlight
      <3>4. PublishBoard!Take
        BY <1>1, <2>1, <3>2, <3>3, Zenon DEF PublishBoard!Take
      <3> QED  BY <3>4, Zenon DEF PublishBoard!Next
    <2>3. CASE UNCHANGED <<services, queued, step, job>>
      BY <1>2, <2>1, <2>3, Zenon DEF AtRest
    <2> QED  BY <2>1, <2>2, <2>3, Zenon
  <1>5. CASE ListSlices
    <2>1. /\ step = "slices" /\ pc = "idle" /\ Plan(job) /\ history' = history /\ resolved' = resolved
          /\ step' = "slices" /\ pc' = "writing"
      BY <1>5, Zenon DEF ListSlices, published, Plan
    <2>2. job \in Resolved
      BY <1>0, <2>1, Zenon DEF SlicesInv
    <2>3. OnSlices(plan'.write) = ToShow(job)
      BY <1>0, <2>1, <2>2, PlanShows, Zenon
    <2>4. InFlight' = InFlight
      BY <2>1, <2>3, Zenon DEF InFlight
    <2>5. ~AtRest /\ ~AtRest'
      BY <2>1, Zenon DEF AtRest
    <2> QED  BY <1>1, <2>1, <2>4, <2>5, Zenon DEF PublishBoard!vars
  <1>6. CASE WriteSlices
    <2>1. /\ Create \/ Keep \/ Update \/ Delete \/ Done
          /\ step' = (IF pc' = "idle" THEN "idle" ELSE step)
      BY <1>6, Zenon DEF WriteSlices, Resume
    <2>2. pc = "writing" /\ resolved' = resolved /\ step = "slices"
      BY <2>1, WriteKeepsQueued, Zenon DEF SlicesInv
    <2>3. ~AtRest /\ InFlight = OnSlices(plan.write)
      BY <2>2, Zenon DEF AtRest, InFlight
    <2>4. CASE /\ pc' = "writing" /\ queued' = queued
               /\ OnSlices(Listed(Server')) \subseteq OnSlices(Listed(Server)) \cup OnSlices(plan.write)
               /\ OnSlices(plan'.write) \subseteq OnSlices(plan.write)
      <3>1. ~AtRest' /\ InFlight' = OnSlices(plan'.write)
        BY <2>1, <2>2, <2>4, Zenon DEF AtRest, InFlight
      <3>2. PublishBoard!Write
        BY <2>2, <2>3, <2>4, <3>1, Zenon DEF PublishBoard!Write
      <3> QED  BY <3>2, Zenon DEF PublishBoard!Next
    <2>5. CASE pc' = "idle" /\ history' = history /\ queued' = TRUE
      <3>1. step' = "idle" /\ InFlight' = {} /\ ~AtRest'
        BY <2>1, <2>5, Zenon DEF AtRest, InFlight
      <3>2. PublishBoard!Abandon
        BY <1>1, <2>2, <2>5, <3>1, Zenon DEF PublishBoard!Abandon
      <3> QED  BY <3>2, Zenon DEF PublishBoard!Next
    <2>6. CASE pc' = "idle" /\ history' = history /\ plan = NoPlan
      <3>1. step' = "idle" /\ InFlight' = {} /\ InFlight = {}
        BY <2>1, <2>3, <2>6, NoneShown, Zenon DEF InFlight, NoPlan
      <3>2. CASE AtRest'
        <4>1. shown = ToShow(resolved)
          BY <1>3, <2>2, <2>6, <3>2, Zenon
        <4>2. PublishBoard!Rest
          BY <1>1, <2>2, <2>6, <3>1, <3>2, <4>1, Zenon DEF PublishBoard!Rest
        <4> QED  BY <4>2, Zenon DEF PublishBoard!Next
      <3>3. CASE ~AtRest'
        BY <1>1, <2>2, <2>3, <2>6, <3>1, <3>3, Zenon DEF PublishBoard!vars
      <3> QED  BY <3>2, <3>3, Zenon
    <2> QED  BY <1>0, <2>1, <2>4, <2>5, <2>6, WriteShows, Zenon
  <1>7. CASE DeliverSlices
    <2>1. /\ UNCHANGED <<resolved, plan, pc, step, job>> /\ queued' = TRUE
          /\ Len(history) > 1 /\ history' = Tail(history)
      BY <1>7, Zenon DEF DeliverSlices, Deliver, published
    <2>2. Server' = Server /\ Len(history) # 1
      BY <1>0, <2>1, TailServer, Zenon
    <2>3. ~AtRest /\ ~AtRest'
      BY <2>1, <2>2, Zenon DEF AtRest
    <2> QED  BY <2>1, <2>2, <2>3, Zenon DEF PublishBoard!vars, InFlight
  <1>8. CASE DeliverService
    <2>1. UNCHANGED <<history, resolved, pc, plan, step, job>> /\ Len(services) > 1
      BY <1>8, Zenon DEF DeliverService
    <2>2. ~AtRest
      <3>1. ~(1 > 1)
        OBVIOUS
      <3> QED  BY <2>1, <3>1, Zenon DEF AtRest
    <2>3. CASE AtRest'
      <3>1. shown = ToShow(resolved) /\ InFlight' = {}
        BY <1>3, <2>1, <2>3, Zenon
      <3>2. PublishBoard!Rest
        BY <1>1, <2>1, <2>3, <3>1, Zenon DEF PublishBoard!Rest
      <3> QED  BY <3>2, Zenon DEF PublishBoard!Next
    <2>4. CASE ~AtRest'
      BY <1>2, <2>1, <2>2, <2>4, Zenon
    <2> QED  BY <2>3, <2>4, Zenon
  <1>9. CASE EditSpec
    <2>1. queued' = TRUE /\ UNCHANGED <<history, pc, plan, step, job>>
      BY <1>9, Zenon DEF EditSpec
    <2>2. ToShow(resolved') \subseteq Endpoint
      BY <1>0, ToShowType, Zenon DEF SlicesInv
    <2>3. ~AtRest' /\ InFlight' = InFlight
      BY <2>1, Zenon DEF AtRest, InFlight
    <2>4. PublishBoard!Change
      BY <1>1, <2>1, <2>2, <2>3, Zenon DEF PublishBoard!Change
    <2> QED  BY <2>4, Zenon DEF PublishBoard!Next
  <1>10. CASE FailSlices \/ RestartAll
    <2>1. /\ queued' = TRUE /\ resolved' = resolved /\ pc' = "idle" /\ step' = "idle"
          /\ history' = history \/ history' = <<history[Len(history)]>>
      BY <1>10, Zenon DEF FailSlices, Fail, Refused, Resume, RestartAll, Restart, Finish
    <2>2. Server' = Server
      BY <2>1, LastServer, Zenon
    <2>3. ~AtRest' /\ InFlight' = {}
      BY <2>1, Zenon DEF AtRest, InFlight
    <2>4. PublishBoard!Abandon
      BY <2>1, <2>2, <2>3, Zenon DEF PublishBoard!Abandon
    <2> QED  BY <2>4, Zenon DEF PublishBoard!Next
  <1>11. CASE HandService
    <2>1. UNCHANGED <<history, resolved, pc, plan, step, job>>
      BY <1>11, Zenon DEF HandService
    <2>2. CASE AtRest' <=> AtRest
      BY <1>2, <2>1, <2>2, Zenon
    <2>3. CASE ~AtRest'
      <3>1. InFlight' = InFlight
        BY <2>1, Zenon DEF InFlight
      <3>2. PublishBoard!Tamper
        BY <1>1, <2>1, <2>3, <3>1, Zenon DEF PublishBoard!Tamper
      <3> QED  BY <3>2, Zenon DEF PublishBoard!Next
    <2>4. CASE AtRest' /\ ~AtRest
      <3>1. shown = ToShow(resolved) /\ InFlight' = {}
        BY <1>3, <2>1, <2>4, Zenon
      <3>2. PublishBoard!Rest
        BY <1>1, <2>1, <2>4, <3>1, Zenon DEF PublishBoard!Rest
      <3> QED  BY <3>2, Zenon DEF PublishBoard!Next
    <2> QED  BY <2>2, <2>3, <2>4, Zenon
  <1>12. CASE HandSlices
    <2>1. HandDelete /\ UNCHANGED <<resolved, plan, pc, step, job>>
      BY <1>12, Zenon DEF HandSlices, HandDelete, published
    <2>2. shown' \subseteq shown /\ Len(history') # 1
      BY <1>0, <2>1, HandShows, HandStep, Zenon
    <2>3. ~AtRest' /\ InFlight' = InFlight
      BY <2>1, <2>2, Zenon DEF AtRest, InFlight
    <2>4. PublishBoard!Tamper
      BY <2>1, <2>2, <2>3, Zenon DEF PublishBoard!Tamper
    <2> QED  BY <2>4, Zenon DEF PublishBoard!Next
  <1>13. CASE UNCHANGED allVars
    BY <1>2, <1>13, Zenon DEF allVars, vars, published, AtRest
  <1> QED  BY <1>4, <1>5, <1>6, <1>7, <1>8, <1>9, <1>10, <1>11, <1>12, <1>13, Zenon DEF PublishNext, Reconcile

(* The Service and the slices together implement the board: what reaches a *)
(* slice is what the reconcile had resolved when it passed the Service,    *)
(* conflicts on either object lead to another reconcile, and the pair      *)
(* rests only where the slices show what the spec now resolves to.         *)
THEOREM PublishIsBoard == PublishSpec => PublishImplementsBoard
BY PublishBoardInit, PublishBoardStep, SlicesInit, SlicesStep, PTL
DEF PublishSpec, PublishImplementsBoard, PublishBoard!Spec
=============================================================================
