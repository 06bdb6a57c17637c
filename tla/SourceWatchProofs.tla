-------------------------- MODULE SourceWatchProofs --------------------------
(***************************************************************************)
(* No change in the source cluster is missed: for every set of sources and *)
(* of objects, and any number of changes, what is served is what the source*)
(* gives whenever nothing is on its way, or a poll is armed.               *)
(***************************************************************************)
EXTENDS SourceWatch, TLAPS

(* No slice of the source Services is one this controller manages: a local *)
(* event of such a slice is not mapped to index keys (DrivenByWatches).    *)
Unchained ==
    /\ \A v \in Values["slices"] : ~v.managed
    /\ \A n \in DOMAIN InitialCluster["slices"] : ~InitialCluster["slices"][n].managed

-----------------------------------------------------------------------------
(* The inductive invariant *)

(* A cluster whose objects are valid, and in which DNS is asked for the    *)
(* same names.                                                             *)
Valid(c) ==
    /\ DOMAIN c = DOMAIN Objects
    /\ \A kind \in {"dns", "srv"} : DOMAIN c[kind] = DOMAIN InitialCluster[kind]
    /\ \A kind \in DOMAIN Objects : \A n \in DOMAIN c[kind] : ValidObject(kind, c[kind][n])

ClusterOK == Valid(cluster)

(* So are those a running reconcile has read. *)
ReadsValid ==
    pc = "reading" =>
        /\ \A n \in DOMAIN got.pods : ValidObject("pods", got.pods[n])
        /\ \A n \in DOMAIN got.service : ValidObject("service", got.service[n])

TInv == TypeOK /\ ClusterOK /\ ReadsValid

NoneManaged == \A n \in DOMAIN cluster["slices"] : ~cluster["slices"][n].managed

(* Nothing that would start the reconcile of a remote CrossService after   *)
(* an edit of its RemoteCluster is on its way.                             *)
RemoteCalm == source.remote /\ ~queued /\ "cluster" \notin events

(* A remote CrossService that is resynced has its poll armed, or will have.*)
ResyncArmed ==
    RemoteCalm /\ rc.resync => timer \/ (pc = "reading" /\ got.rc.resync)

(* Nothing that would start the reconcile of a local CrossService. *)
LocalCalm ==
    /\ ~source.remote /\ ~queued
    /\ "self" \notin events /\ events \cap localSourceRefKeys(source) = {}

(* What a running reconcile read first is still what there is. *)
ReadsHold ==
    LocalCalm /\ pc = "reading" =>
        /\ got.source = source /\ got.rc = rc
        /\ "pods" \in localSourceRefKeys(source) => got.pods = cluster.pods
        /\ "service" \in localSourceRefKeys(source) => got.service = cluster.service

Bare(e) == [e EXCEPT !.zone = ""]

Strip(eps) == {Bare(e) : e \in eps}

WatchedBy(s, out) == IF s.type = "Pods" THEN [out EXCEPT !.eps = Strip(@)] ELSE out

(* out came from a Resolve of s that gives the same, up to zones, when the *)
(* cluster is c, and that no DNS answer had a part in.                     *)
ServedAt(s, q, c, out) ==
    /\ s.type # "DNS"
    /\ Resolve(s, c).ok /\ ~Resolve(s, c).ttl
    /\ \E S \in Dedupe(Resolve(s, c).eps) :
          WatchedBy(s, out) = WatchedBy(s, Result(filterAddresses(s, q, S), Resolve(s, c).ttl))

LocalFresh == LocalCalm /\ pc = "idle" => timer \/ ServedAt(source, rc, cluster, served)

IInv == TInv /\ NoneManaged /\ ResyncArmed /\ ReadsHold /\ LocalFresh

-----------------------------------------------------------------------------
(* What the resolvers read *)

(* The slices of the source Service are the same. *)
SameSlices(c, d) ==
    \A n : /\ (n \in DOMAIN c.slices /\ c.slices[n].service = "svc")
                <=> (n \in DOMAIN d.slices /\ d.slices[n].service = "svc")
           /\ (n \in DOMAIN c.slices /\ c.slices[n].service = "svc") => c.slices[n] = d.slices[n]

(* Clusters c and d are the same in what the resolver of s reads. *)
Agree(s, c, d) ==
    /\ s.type = "Pods" => c.pods = d.pods /\ c.nodes = d.nodes
    /\ s.type = "Nodes" => c.nodes = d.nodes
    /\ s.type = "Service" => /\ c.service = d.service
                             /\ s.via = "NodePort" => c.nodes = d.nodes
                             /\ s.via = "LoadBalancer" => c.dns = d.dns
                             /\ s.via = "PodIP" => SameSlices(c, d)
    /\ s.type = "DNS" => c.dns = d.dns /\ c.srv = d.srv

(* viaPodIP looks at no slice of another Service. *)
LEMMA PodIPReads ==
    ASSUME NEW s, NEW c, NEW d, NEW bindings, SameSlices(c, d)
    PROVE  viaPodIP(s, c, bindings) = viaPodIP(s, d, bindings)
  <1> DEFINE Usable(e) == {n \in DOMAIN e.slices :
                      /\ e.slices[n].service = "svc"
                      /\ \A m \in DOMAIN bindings : bindings[m] \in DOMAIN e.slices[n].ports}
             PortMap(slice) == [m \in DOMAIN bindings |-> slice.ports[bindings[m]]]
             Eps(slice) ==
               {Endpoint(e.addr, e.ready # "false" /\ e.terminating # "true", e.serving # "false",
                         e.terminating = "true", IF s.propagateZone THEN e.zone ELSE "",
                         PortMap(slice)) :
                  e \in {f \in slice.endpoints : f.terminating = "true" => s.includeTerminating}}
  <1>1. Usable(c) = Usable(d)
    BY Zenon DEF SameSlices
  <1>2. \A n \in Usable(c) : c.slices[n] = d.slices[n]
    BY Zenon DEF SameSlices
  <1>3. viaPodIP(s, c, bindings) = Result(UNION {Eps(c.slices[n]) : n \in Usable(c)}, FALSE)
    BY Zenon DEF viaPodIP
  <1>4. viaPodIP(s, d, bindings) = Result(UNION {Eps(d.slices[n]) : n \in Usable(d)}, FALSE)
    BY Zenon DEF viaPodIP
  <1> HIDE DEF Usable, Eps
  <1>5. {Eps(c.slices[n]) : n \in Usable(c)} = {Eps(d.slices[n]) : n \in Usable(d)}
    BY <1>1, <1>2
  <1> QED  BY <1>3, <1>4, <1>5, Zenon

(* A resolver reads nothing of the cluster but what Agree lists for its    *)
(* source type: no other object can change what Resolve returns.           *)
THEOREM ResolveReads ==
    ASSUME NEW s \in Sources, NEW c, NEW d, Agree(s, c, d)
    PROVE  Resolve(s, c) = Resolve(s, d)
  <1>1. CASE s.type = "Pods"
    <2>1. c.pods = d.pods /\ c.nodes = d.nodes
      BY <1>1, Zenon DEF Agree
    <2> QED  BY <1>1, <2>1 DEF Resolve, resolvePods
  <1>2. CASE s.type = "Nodes"
    <2>1. c.nodes = d.nodes
      BY <1>2, Zenon DEF Agree
    <2> QED  BY <1>2, <2>1, Zenon DEF Resolve, resolveNodes
  <1>3. CASE s.type = "Service"
    <2>1. c.service = d.service
      BY <1>3, Zenon DEF Agree
    <2>2. \A svc, bindings : s.via = "NodePort" => viaNodePort(s, c, svc, bindings) = viaNodePort(s, d, svc, bindings)
      BY <1>3, Zenon DEF Agree, viaNodePort
    <2>3. \A svc, bindings : s.via = "LoadBalancer" => viaLoadBalancer(c, svc, bindings) = viaLoadBalancer(d, svc, bindings)
      BY <1>3, ZenonT(30) DEF Agree, viaLoadBalancer
    <2>4. \A bindings : s.via = "PodIP" => viaPodIP(s, c, bindings) = viaPodIP(s, d, bindings)
      BY <1>3, PodIPReads, Zenon DEF Agree
    <2>5. s.via \in {"NodePort", "LoadBalancer", "PodIP"}
      BY <1>3, SourcesAssumption, Zenon
    <2>6. Resolve(s, c) = resolveService(s, c) /\ Resolve(s, d) = resolveService(s, d)
      BY <1>3, Zenon DEF Resolve
    <2>7. resolveService(s, c) = resolveService(s, d)
      BY <2>1, <2>2, <2>3, <2>4, <2>5, Zenon DEF resolveService
    <2> QED  BY <2>6, <2>7, Zenon
  <1>4. CASE s.type = "DNS"
    <2>1. c.dns = d.dns /\ c.srv = d.srv
      BY <1>4, Zenon DEF Agree
    <2> QED  BY <1>4, <2>1 DEF Resolve, resolveAddr, resolveSRV
  <1>5. CASE s.type = "Static"
    BY <1>5, Zenon DEF Resolve
  <1> QED  BY <1>1, <1>2, <1>3, <1>4, <1>5, SourcesAssumption, Zenon

(* A source that needed no host name looked up does not depend on DNS. *)
LEMMA UnpolledReads ==
    ASSUME NEW s \in Sources, NEW c, NEW d, s.type # "DNS",
           Resolve(s, c).ok, ~Resolve(s, c).ttl,
           c.pods = d.pods, c.nodes = d.nodes, c.service = d.service, c.slices = d.slices,
           DOMAIN c.dns = DOMAIN d.dns
    PROVE  Resolve(s, c) = Resolve(s, d)
  <1>1. CASE ~(s.type = "Service" /\ s.via = "LoadBalancer")
    <2>1. Agree(s, c, d)
      BY <1>1, Zenon DEF Agree, SameSlices
    <2> QED  BY <2>1, ResolveReads, Zenon
  <1>2. CASE s.type = "Service" /\ s.via = "LoadBalancer"
    <2> DEFINE svc == c.service["svc"]
               b == bindPorts(s.ports, svc)
    <2>1. ~Failed.ok
      BY Zenon DEF Failed
    <2>2. Resolve(s, c) = resolveService(s, c) /\ Resolve(s, d) = resolveService(s, d)
      BY <1>2, Zenon DEF Resolve
    <2>3. "svc" \in DOMAIN c.service /\ DOMAIN b = DOMAIN s.ports
      BY <2>1, <2>2, Zenon DEF resolveService
    <2>4. resolveService(s, c) = viaLoadBalancer(c, svc, b)
      BY <1>2, <2>3, Zenon DEF resolveService
    <2>5. resolveService(s, d) = viaLoadBalancer(d, svc, b)
      BY <1>2, <2>3, Zenon DEF resolveService
    <2> HIDE DEF svc, b
    <2> DEFINE hosts == svc.ingress \cap DOMAIN c.dns
               addrs(e) == (svc.ingress \ hosts) \cup UNION {e.dns[h] : h \in hosts}
               portMap == [n \in DOMAIN b |-> svc.ports[b[n]].port]
               eps(e) == {Endpoint(a, TRUE, TRUE, FALSE, "", portMap) : a \in addrs(e)}
               bad(e) == svc.ingress = {} \/ \E h \in hosts : e.dns[h] = None
    <2>6. viaLoadBalancer(c, svc, b) = IF bad(c) THEN Failed
                                       ELSE IF addrs(c) = {} THEN Failed ELSE Result(eps(c), hosts # {})
      BY Zenon DEF viaLoadBalancer
    <2>7. viaLoadBalancer(d, svc, b) = IF bad(d) THEN Failed
                                       ELSE IF addrs(d) = {} THEN Failed ELSE Result(eps(d), hosts # {})
      BY Zenon DEF viaLoadBalancer
    <2>8. ~bad(c) /\ addrs(c) # {} /\ Resolve(s, c) = Result(eps(c), hosts # {})
      <3> HIDE DEF bad, addrs, eps, hosts
      <3> QED  BY <2>1, <2>2, <2>4, <2>6, Zenon
    <2>9. hosts = {}
      <3> DEFINE t == (hosts # {})
      <3>1. Result(eps(c), t).ttl = t
        BY Zenon DEF Result
      <3>2. ~t
        <4> HIDE DEF t, hosts, eps
        <4>1. Resolve(s, c).ttl = t
          BY <2>8, <3>1, Zenon DEF t
        <4> QED  BY <4>1, Zenon
      <3> QED  BY <3>2, Zenon
    <2>10. addrs(c) = addrs(d) /\ (bad(c) <=> bad(d))
      BY <2>9, Zenon
    <2> HIDE DEF bad, addrs
    <2> QED  BY <2>2, <2>5, <2>7, <2>8, <2>10, Zenon
  <1> QED  BY <1>1, <1>2, Zenon

-----------------------------------------------------------------------------
(* What the resolvers give *)

(* A failure, or a Result. *)
IsResult(r) == r = Failed \/ \E eps : \E ttl \in BOOLEAN : r = Result(eps, ttl)

(* Every resolver fails or returns a list of endpoints. *)
LEMMA ResolveShape ==
    ASSUME NEW s \in Sources, NEW c
    PROVE  IsResult(Resolve(s, c))
  <1>0. /\ IsResult(Failed)
        /\ \A eps : \A ttl \in BOOLEAN : IsResult(Result(eps, ttl))
    BY Zenon DEF IsResult
  <1>1. CASE s.type = "Pods"
    <2>1. \E eps : resolvePods(s, c) = Result(eps, FALSE)
      BY Zenon DEF resolvePods
    <2> QED  BY <1>0, <1>1, <2>1, Zenon DEF Resolve
  <1>2. CASE s.type = "Nodes"
    <2>1. \E eps : resolveNodes(s, c) = Result(eps, FALSE)
      BY Zenon DEF resolveNodes
    <2> QED  BY <1>0, <1>2, <2>1, Zenon DEF Resolve
  <1>3. CASE s.type = "Service"
    <2>0. Resolve(s, c) = resolveService(s, c)
      BY <1>3, Zenon DEF Resolve
    <2> DEFINE svc == c.service["svc"]
               b == bindPorts(s.ports, svc)
    <2>1. IsResult(viaNodePort(s, c, svc, b))
      <3> HIDE DEF svc, b
      <3>1. viaNodePort(s, c, svc, b) = Failed \/ \E eps : viaNodePort(s, c, svc, b) = Result(eps, FALSE)
        BY Zenon DEF viaNodePort
      <3> QED  BY <1>0, <3>1, Zenon
    <2>2. IsResult(viaPodIP(s, c, b))
      <3> HIDE DEF svc, b
      <3>1. \E eps : viaPodIP(s, c, b) = Result(eps, FALSE)
        BY Zenon DEF viaPodIP
      <3> QED  BY <1>0, <3>1, Zenon
    <2>3. IsResult(viaLoadBalancer(c, svc, b))
      <3> HIDE DEF svc, b
      <3> DEFINE t == ((svc.ingress \cap DOMAIN c.dns) # {})
      <3>1. t \in BOOLEAN
        BY Zenon
      <3>2. viaLoadBalancer(c, svc, b) = Failed \/ \E eps : viaLoadBalancer(c, svc, b) = Result(eps, t)
        BY Zenon DEF viaLoadBalancer
      <3> HIDE DEF t
      <3> QED  BY <1>0, <3>1, <3>2, Zenon
    <2>4. s.via \in {"NodePort", "LoadBalancer", "PodIP"}
      BY <1>3, SourcesAssumption, Zenon
    <2>5. resolveService(s, c) \in {Failed, viaNodePort(s, c, svc, b), viaPodIP(s, c, b), viaLoadBalancer(c, svc, b)}
      BY <2>4, Zenon DEF resolveService
    <2> QED  BY <1>0, <2>0, <2>1, <2>2, <2>3, <2>5, Zenon
  <1>4. CASE s.type = "DNS"
    <2>1. resolveAddr(s, c) = Failed \/ \E eps : resolveAddr(s, c) = Result(eps, FALSE)
      BY Zenon DEF resolveAddr
    <2>2. resolveSRV(s, c) = Failed \/ \E eps : resolveSRV(s, c) = Result(eps, FALSE)
      BY Zenon DEF resolveSRV
    <2>3. Resolve(s, c) \in {resolveAddr(s, c), resolveSRV(s, c)}
      BY <1>4, Zenon DEF Resolve
    <2> QED  BY <1>0, <2>1, <2>2, <2>3, Zenon
  <1>5. CASE s.type = "Static"
    <2>1. \E eps : resolveStatic(s) = Result(eps, FALSE)
      BY Zenon DEF resolveStatic
    <2> QED  BY <1>0, <1>5, <2>1, Zenon DEF Resolve
  <1> QED  BY <1>1, <1>2, <1>3, <1>4, <1>5, SourcesAssumption, Zenon

(* Filtering a result leaves a result. *)
LEMMA ResultExcept ==
    ASSUME NEW eps, NEW ttl, NEW X
    PROVE  [Result(eps, ttl) EXCEPT !.eps = X] = Result(X, ttl)
  <1> DEFINE y == TRUE
  <1>1. \A e : Result(e, ttl) = [ok |-> y, ttl |-> ttl, eps |-> e]
    BY Zenon DEF Result
  <1> HIDE DEF y
  <1>2. [[ok |-> y, ttl |-> ttl, eps |-> eps] EXCEPT !.eps = X] = [ok |-> y, ttl |-> ttl, eps |-> X]
    OBVIOUS
  <1> QED  BY <1>1, <1>2, Zenon

(* What a reconcile hands on: the failure, or the endpoints of a Result    *)
(* without duplicates and filtered.                                        *)
LEMMA OutcomeShape ==
    ASSUME NEW s \in Sources, NEW q, NEW c, NEW out
    PROVE  LET res == Resolve(s, c)
           IN  out \in Outcomes(s, q, c) <=>
                 IF res.ok THEN \E S \in Dedupe(res.eps) : out = Result(filterAddresses(s, q, S), res.ttl)
                 ELSE out = Failed
  <1> DEFINE res == Resolve(s, c)
  <1>1. CASE ~res.ok
    BY <1>1, Zenon DEF Outcomes
  <1>2. CASE res.ok
    <2>1. PICK eps : \E ttl \in BOOLEAN : res = Result(eps, ttl)
      BY <1>2, ResolveShape DEF IsResult, Failed
    <2>2. PICK ttl \in BOOLEAN : res = Result(eps, ttl)
      BY <2>1, Zenon
    <2>3. res.eps = eps /\ res.ttl = ttl
      BY <2>2 DEF Result
    <2>4. \A X : [Result(eps, ttl) EXCEPT !.eps = X] = Result(X, ttl)
      BY ResultExcept, Zenon
    <2>5. Outcomes(s, q, c) = {[res EXCEPT !.eps = filterAddresses(s, q, S)] : S \in Dedupe(res.eps)}
      BY <1>2, Zenon DEF Outcomes
    <2> HIDE DEF res
    <2>6. \A X : [res EXCEPT !.eps = X] = Result(X, res.ttl)
      BY <2>2, <2>3, <2>4, Zenon
    <2>7. out \in Outcomes(s, q, c) <=> \E S \in Dedupe(res.eps) : out = Result(filterAddresses(s, q, S), res.ttl)
      BY <2>5, <2>6, Zenon
    <2> QED  BY <1>2, <2>7, Zenon DEF res
  <1> QED  BY <1>1, <1>2, Zenon

PortsOf(s) == [DOMAIN s.ports -> Nat \ {0}]

(* defaultPortMap gives every declared port its number. *)
LEMMA DefaultPorts ==
    ASSUME NEW s \in Sources  PROVE defaultPortMap(s.ports) \in PortsOf(s)
  <1>1. \A n \in DOMAIN s.ports : resolvedPort(s.ports[n]) \in Nat \ {0}
    BY SourcesAssumption DEF resolvedPort
  <1> QED  BY <1>1, Zenon DEF defaultPortMap, PortsOf

(* bindPorts binds to ports the Service has. *)
LEMMA BindingsBind ==
    ASSUME NEW ports, NEW svc, NEW n \in DOMAIN bindPorts(ports, svc)
    PROVE  bindPorts(ports, svc)[n] \in DOMAIN svc.ports
  <1>1. matchRemotePort(n, ports[n], svc) # {}
    BY Zenon DEF bindPorts
  <1>2. bindPorts(ports, svc)[n] \in matchRemotePort(n, ports[n], svc)
    BY <1>1, Zenon DEF bindPorts
  <1>3. matchRemotePort(n, ports[n], svc) \subseteq DOMAIN svc.ports
    BY Zenon DEF matchRemotePort
  <1> QED  BY <1>2, <1>3, Zenon

(* The endpoints of nodes all have the one port map. *)
LEMMA NodePorts ==
    ASSUME NEW s, NEW nodes, NEW portMap, NEW e \in nodeEndpoints(s, nodes, portMap)
    PROVE  e.portMap = portMap
  <1> DEFINE addr(n) == nodeAddress(nodes[n], s.addressType)
             ready(n) == s.requireReady => nodes[n].ready
             E(n) == Endpoint(addr(n), ready(n), ready(n), FALSE,
                              IF s.propagateZone THEN nodes[n].zone ELSE "", portMap)
  <1>1. \A n : E(n).portMap = portMap
    BY Zenon DEF Endpoint
  <1>2. PICK n : e = E(n)
    <2>1. \E n : e = E(n)
      BY Zenon DEF nodeEndpoints
    <2> HIDE DEF E
    <2> QED  BY <2>1, Zenon
  <1> HIDE DEF E
  <1> QED  BY <1>1, <1>2, Zenon

(* The port map of a Pod on which every declared port resolves. *)
LEMMA PodPorts ==
    ASSUME NEW s \in Sources, NEW pod, podResolves(pod, s.ports), Positive(pod.ports)
    PROVE  podPortMap(pod, s.ports) \in PortsOf(s)
  <1> DEFINE D == {m \in DOMAIN s.ports :
                     s.ports[m].targetName = "" \/ s.ports[m].targetName \in DOMAIN pod.ports}
             num(n) == IF s.ports[n].targetName = "" THEN resolvedPort(s.ports[n])
                                                     ELSE pod.ports[s.ports[n].targetName]
  <1>1. D = DOMAIN s.ports
    BY Zenon DEF podResolves
  <1>2. \A n \in DOMAIN s.ports : resolvedPort(s.ports[n]) \in Nat \ {0}
    BY SourcesAssumption DEF resolvedPort
  <1>3. \A n \in D : num(n) \in Nat \ {0}
    BY <1>2, Zenon DEF Positive
  <1>4. podPortMap(pod, s.ports) = [n \in D |-> num(n)]
    BY Zenon DEF podPortMap
  <1> HIDE DEF D, num
  <1> QED  BY <1>1, <1>3, <1>4, Zenon DEF PortsOf

(* Every endpoint has a number for every declared port. *)
LEMMA ResolvePorts ==
    ASSUME NEW s \in Sources, NEW c, Valid(c), NEW e \in Resolve(s, c).eps
    PROVE  e.portMap \in PortsOf(s)
  <1>0. Failed.eps = {} /\ \A eps, ttl : Result(eps, ttl).eps = eps
    BY Zenon DEF Failed, Result
  <1>k. DOMAIN c = {"pods", "nodes", "service", "slices", "dns", "srv"}
    BY WatchAssumption, Zenon DEF Valid, Kinds
  <1>1. CASE s.type = "Pods"
    <2> DEFINE zones == zoneIndex(s, c.nodes)
               usable == {n \in fetchPods(s, c.pods) :
                            /\ c.pods[n].ip # None
                            /\ ~c.pods[n].finished
                            /\ c.pods[n].deleting => s.includeTerminating
                            /\ podResolves(c.pods[n], s.ports)}
               E(n) == Endpoint(c.pods[n].ip, c.pods[n].ready /\ ~c.pods[n].deleting, c.pods[n].ready,
                                c.pods[n].deleting,
                                IF c.pods[n].node \in DOMAIN zones THEN zones[c.pods[n].node] ELSE "",
                                podPortMap(c.pods[n], s.ports))
    <2>e. \A n : E(n).portMap = podPortMap(c.pods[n], s.ports)
      BY Zenon DEF Endpoint
    <2>f. Resolve(s, c) = Result({E(n) : n \in usable}, FALSE)
      BY <1>1, Zenon DEF Resolve, resolvePods
    <2>g. usable \subseteq DOMAIN c.pods /\ \A n \in usable : podResolves(c.pods[n], s.ports)
      BY Zenon DEF fetchPods
    <2>1. \E n \in DOMAIN c.pods : podResolves(c.pods[n], s.ports) /\ e.portMap = podPortMap(c.pods[n], s.ports)
      <3> HIDE DEF E, usable
      <3>1. e \in {E(n) : n \in usable}
        BY <1>0, <2>f, Zenon
      <3> QED  BY <2>e, <2>g, <3>1, Zenon
    <2>2. \A n \in DOMAIN c.pods : Positive(c.pods[n].ports)
      BY <1>k, Zenon DEF Valid, ValidObject
    <2> QED  BY <2>1, <2>2, PodPorts, Zenon
  <1>2. CASE s.type = "Nodes"
    <2>1. e \in nodeEndpoints(s, c.nodes, defaultPortMap(s.ports))
      BY <1>0, <1>2, Zenon DEF Resolve, resolveNodes
    <2> QED  BY <2>1, NodePorts, DefaultPorts, Zenon
  <1>3. CASE s.type = "Service"
    <2> DEFINE svc == c.service["svc"]
               b == bindPorts(s.ports, svc)
    <2>1. e \in resolveService(s, c).eps
      BY <1>3, Zenon DEF Resolve
    <2>2. "svc" \in DOMAIN c.service /\ DOMAIN b = DOMAIN s.ports
      BY <1>0, <2>1, Zenon DEF resolveService
    <2>3. \A n \in DOMAIN b : b[n] \in DOMAIN svc.ports
      BY BindingsBind, Zenon
    <2>4. \A n \in DOMAIN svc.ports : svc.ports[n].port \in Nat \ {0} /\ svc.ports[n].nodePort \in Nat
      BY <1>k, <2>2, Zenon DEF Valid, ValidObject
    <2>v. s.via \in {"NodePort", "LoadBalancer", "PodIP"}
      BY <1>3, SourcesAssumption, Zenon
    <2>r. resolveService(s, c) = CASE s.via = "NodePort"     -> viaNodePort(s, c, svc, b)
                                   [] s.via = "LoadBalancer" -> viaLoadBalancer(c, svc, b)
                                   [] s.via = "PodIP"        -> viaPodIP(s, c, b)
      BY <2>2, Zenon DEF resolveService
    <2> HIDE DEF svc, b
    <2>5. CASE s.via = "NodePort"
      <3> DEFINE pm == [n \in DOMAIN b |-> svc.ports[b[n]].nodePort]
                 none == \E n \in DOMAIN b : svc.ports[b[n]].nodePort = 0
      <3>1. e \in viaNodePort(s, c, svc, b).eps
        BY <2>1, <2>r, <2>5, Zenon
      <3>2. viaNodePort(s, c, svc, b) = IF none THEN Failed ELSE Result(nodeEndpoints(s, c.nodes, pm), FALSE)
        BY Zenon DEF viaNodePort
      <3>3. ~none /\ e \in nodeEndpoints(s, c.nodes, pm)
        <4> DEFINE ne == nodeEndpoints(s, c.nodes, pm)
        <4>1. Result(ne, FALSE).eps = ne
          BY Zenon DEF Result
        <4> HIDE DEF none, pm, ne
        <4>2. CASE none
          BY <1>0, <3>1, <3>2, <4>2, Zenon
        <4>3. CASE ~none
          <5>1. viaNodePort(s, c, svc, b) = Result(ne, FALSE)
            BY <3>2, <4>3, Zenon DEF ne
          <5>2. e \in ne
            BY <3>1, <4>1, <5>1, Zenon
          <5> QED  BY <4>3, <5>2, Zenon DEF ne
        <4> QED  BY <4>2, <4>3, Zenon
      <3>4. pm \in PortsOf(s)
        BY <2>2, <2>3, <2>4, <3>3, Zenon DEF PortsOf
      <3> HIDE DEF pm
      <3> QED  BY <3>3, <3>4, NodePorts, Zenon
    <2>6. CASE s.via = "LoadBalancer"
      <3> DEFINE pm == [n \in DOMAIN b |-> svc.ports[b[n]].port]
      <3>1. e \in viaLoadBalancer(c, svc, b).eps
        BY <2>1, <2>r, <2>6, Zenon
      <3>2. pm \in PortsOf(s)
        BY <2>2, <2>3, <2>4, Zenon DEF PortsOf
      <3> DEFINE E(a) == Endpoint(a, TRUE, TRUE, FALSE, "", pm)
                 hosts == svc.ingress \cap DOMAIN c.dns
                 addrs == (svc.ingress \ hosts) \cup UNION {c.dns[h] : h \in hosts}
                 t == (hosts # {})
      <3>e. \A a : E(a).portMap = pm
        BY Zenon DEF Endpoint
      <3>f. \/ viaLoadBalancer(c, svc, b) = Failed
            \/ viaLoadBalancer(c, svc, b) = Result({E(a) : a \in addrs}, t)
        BY Zenon DEF viaLoadBalancer
      <3>3. e.portMap = pm
        <4> HIDE DEF E, addrs, t, pm
        <4>1. e \in {E(a) : a \in addrs}
          BY <1>0, <3>1, <3>f, Zenon
        <4> QED  BY <3>e, <4>1, Zenon
      <3> QED  BY <3>2, <3>3, Zenon
    <2>7. CASE s.via = "PodIP"
      <3>1. e \in viaPodIP(s, c, b).eps
        BY <2>1, <2>r, <2>7, Zenon
      <3>2. \E t \in DOMAIN c.slices :
              /\ \A n \in DOMAIN b : b[n] \in DOMAIN c.slices[t].ports
              /\ e.portMap = [n \in DOMAIN b |-> c.slices[t].ports[b[n]]]
        <4> DEFINE usable == {t \in DOMAIN c.slices :
                                /\ c.slices[t].service = "svc"
                                /\ \A n \in DOMAIN b : b[n] \in DOMAIN c.slices[t].ports}
                   pm(t) == [n \in DOMAIN b |-> c.slices[t].ports[b[n]]]
                   of(t) == {x \in c.slices[t].endpoints : x.terminating = "true" => s.includeTerminating}
                   E(t, x) == Endpoint(x.addr, x.ready # "false" /\ x.terminating # "true",
                                       x.serving # "false", x.terminating = "true",
                                       IF s.propagateZone THEN x.zone ELSE "", pm(t))
        <4>1. \A t, x : E(t, x).portMap = pm(t)
          BY Zenon DEF Endpoint
        <4>2. viaPodIP(s, c, b) = Result(UNION {{E(t, x) : x \in of(t)} : t \in usable}, FALSE)
          BY Zenon DEF viaPodIP
        <4>3. usable \subseteq DOMAIN c.slices
              /\ \A t \in usable : \A n \in DOMAIN b : b[n] \in DOMAIN c.slices[t].ports
          BY Zenon
        <4>4. \E t \in usable : e.portMap = pm(t)
          <5> HIDE DEF E, usable, pm, of
          <5> DEFINE U == UNION {{E(t, x) : x \in of(t)} : t \in usable}
          <5>1. e \in U
            <6>1. viaPodIP(s, c, b) = Result(U, FALSE)
              BY <4>2, Zenon
            <6>2. \A X : viaPodIP(s, c, b) = Result(X, FALSE) => e \in X
              <7>1. \A X : Result(X, FALSE).eps = X
                BY Zenon DEF Result
              <7> QED  BY <3>1, <7>1, Zenon
            <6> QED  BY <6>1, <6>2, Zenon
          <5> QED  BY <4>1, <5>1, Zenon
        <4> QED  BY <4>3, <4>4, Zenon
      <3>3. \A t \in DOMAIN c.slices : Positive(c.slices[t].ports)
        BY <1>k, Zenon DEF Valid, ValidObject
      <3>4. PICK t \in DOMAIN c.slices :
              /\ \A n \in DOMAIN b : b[n] \in DOMAIN c.slices[t].ports
              /\ e.portMap = [n \in DOMAIN b |-> c.slices[t].ports[b[n]]]
        BY <3>2, Zenon
      <3> QED  BY <2>2, <3>3, <3>4, Zenon DEF Positive, PortsOf
    <2> QED  BY <2>v, <2>5, <2>6, <2>7, Zenon
  <1>4. CASE s.type = "DNS"
    <2>1. CASE s.recordType # "SRV"
      <3>1. e \in resolveAddr(s, c).eps
        BY <1>4, <2>1, Zenon DEF Resolve
      <3>2. e.portMap = defaultPortMap(s.ports)
        <4> DEFINE E(a) == Endpoint(a, TRUE, TRUE, FALSE, "", defaultPortMap(s.ports))
                   addrs == InScope(s, UNION {c.dns[h] : h \in s.hosts})
        <4>1. \A a : E(a).portMap = defaultPortMap(s.ports)
          BY Zenon DEF Endpoint
        <4>2. resolveAddr(s, c) = Failed \/ resolveAddr(s, c) = Result({E(a) : a \in addrs}, FALSE)
          BY Zenon DEF resolveAddr
        <4> HIDE DEF E, addrs
        <4>3. e \in {E(a) : a \in addrs}
          BY <1>0, <3>1, <4>2, Zenon
        <4> QED  BY <4>1, <4>3, Zenon
      <3> QED  BY <3>2, DefaultPorts, Zenon
    <2>2. CASE s.recordType = "SRV"
      <3> DEFINE base == defaultPortMap(s.ports)
                 name == IF s.srvPortName = "" /\ Cardinality(DOMAIN s.ports) = 1
                         THEN CHOOSE n \in DOMAIN s.ports : TRUE ELSE s.srvPortName
                 targets == UNION {c.srv[h] : h \in s.hosts}
                 pm(t) == [n \in DOMAIN base |-> IF n = name THEN t.port ELSE base[n]]
      <3>1. e \in resolveSRV(s, c).eps
        BY <1>4, <2>2, Zenon DEF Resolve
      <3>2. /\ \A h \in s.hosts : c.srv[h] # None
            /\ \E t \in targets : e.portMap = pm(t)
        <4> DEFINE E(a, t) == Endpoint(a, TRUE, TRUE, FALSE, "", pm(t))
                   of(t) == InScope(s, c.dns[t.target])
                   bad == \E h \in s.hosts : c.srv[h] = None
                   unknown == \E t \in targets : c.dns[t.target] = None
        <4>1. \A a, t : E(a, t).portMap = pm(t)
          BY Zenon DEF Endpoint
        <4>2. resolveSRV(s, c) = IF bad THEN Failed ELSE IF unknown THEN Failed
                                 ELSE Result(UNION {{E(a, t) : a \in of(t)} : t \in targets}, FALSE)
          BY Zenon DEF resolveSRV
        <4>3. ~bad /\ \E t \in targets : e.portMap = pm(t)
          <5> HIDE DEF E, of, bad, unknown, targets, pm
          <5>1. ~bad /\ ~unknown
            BY <1>0, <3>1, <4>2, Zenon
          <5> DEFINE U == UNION {{E(a, t) : a \in of(t)} : t \in targets}
          <5>2. e \in U
            <6>1. resolveSRV(s, c) = Result(U, FALSE)
              BY <4>2, <5>1, Zenon
            <6>2. \A X : resolveSRV(s, c) = Result(X, FALSE) => e \in X
              <7>1. \A X : Result(X, FALSE).eps = X
                BY Zenon DEF Result
              <7> QED  BY <3>1, <7>1, Zenon
            <6> QED  BY <6>1, <6>2, Zenon
          <5> QED  BY <4>1, <5>1, <5>2, Zenon
        <4> QED  BY <4>3, Zenon
      <3>3. PICK t \in targets : e.portMap = pm(t)
        BY <3>2, Zenon
      <3>4. t.port \in Nat \ {0}
        <4>1. PICK h \in s.hosts : t \in c.srv[h]
          BY Zenon
        <4>2. h \in DOMAIN c.srv
          BY <1>4, <2>2, <1>k, SourcesAssumption, Zenon DEF Valid
        <4>3. ValidObject("srv", c.srv[h])
          BY <1>k, <4>2, Zenon DEF Valid
        <4> QED  BY <3>2, <4>1, <4>3, Zenon DEF ValidObject
      <3>5. base \in PortsOf(s)
        BY DefaultPorts, Zenon
      <3> HIDE DEF base, name
      <3> QED  BY <3>3, <3>4, <3>5, Zenon DEF PortsOf
    <2> QED  BY <2>1, <2>2, Zenon
  <1>5. CASE s.type = "Static"
    <2>1. e.portMap = defaultPortMap(s.ports)
      <3> DEFINE E(a) == Endpoint(a, TRUE, TRUE, FALSE, s.zone, defaultPortMap(s.ports))
      <3>1. \A a : E(a).portMap = defaultPortMap(s.ports)
        BY Zenon DEF Endpoint
      <3>2. Resolve(s, c) = Result({E(a) : a \in s.addresses}, FALSE)
        BY <1>5, Zenon DEF Resolve, resolveStatic
      <3> HIDE DEF E
      <3>3. e \in {E(a) : a \in s.addresses}
        BY <1>0, <3>2, Zenon
      <3> QED  BY <3>1, <3>3, Zenon
    <2> QED  BY <2>1, DefaultPorts, Zenon
  <1> QED  BY <1>1, <1>2, <1>3, <1>4, <1>5, SourcesAssumption, Zenon

-----------------------------------------------------------------------------
(* What is served stays what the source gives *)

(* when what its resolver reads is the same; *)
LEMMA ServedReads ==
    ASSUME NEW s \in Sources, NEW q, NEW c, NEW d, NEW out, Agree(s, c, d), ServedAt(s, q, c, out)
    PROVE  ServedAt(s, q, d, out)
  BY ResolveReads, Zenon DEF ServedAt

(* when only answers of DNS change; *)
LEMMA ServedUnpolled ==
    ASSUME NEW s \in Sources, NEW q, NEW c, NEW d, NEW out, ServedAt(s, q, c, out),
           c.pods = d.pods, c.nodes = d.nodes, c.service = d.service, c.slices = d.slices,
           DOMAIN c.dns = DOMAIN d.dns
    PROVE  ServedAt(s, q, d, out)
  <1>1. Resolve(s, c) = Resolve(s, d)
    BY UnpolledReads, Zenon DEF ServedAt
  <1> QED  BY <1>1, Zenon DEF ServedAt

(* Endpoints that differ in their zone are the same but for it. *)
LEMMA EndpointZones ==
    \A a, r, sv, t, y, z, pm :
        LET e == Endpoint(a, r, sv, t, y, pm)
            f == Endpoint(a, r, sv, t, z, pm)
        IN  e.addr = f.addr /\ e.ready = f.ready /\ Bare(e) = Bare(f)
  <1> DEFINE w == ""
  <1>2. \A e : Bare(e) = [e EXCEPT !.zone = w]
    BY Zenon DEF Bare
  <1> HIDE DEF w
  <1>3. \A a, r, sv, t, z, pm : [Endpoint(a, r, sv, t, z, pm) EXCEPT !.zone = w] = Endpoint(a, r, sv, t, w, pm)
    BY DEF Endpoint
  <1>4. \A a, r, sv, t, z, pm : Endpoint(a, r, sv, t, z, pm).addr = a /\ Endpoint(a, r, sv, t, z, pm).ready = r
    BY Zenon DEF Endpoint
  <1> QED  BY <1>2, <1>3, <1>4

(* when Nodes change and the source is one of Pods. *)
LEMMA ServedZones ==
    ASSUME NEW s \in Sources, NEW q, NEW c, NEW d, NEW out, s.type = "Pods", c.pods = d.pods,
           ServedAt(s, q, c, out)
    PROVE  ServedAt(s, q, d, out)
  <1> DEFINE pod(n) == c.pods[n]
             rd(n) == pod(n).ready /\ ~pod(n).deleting
             zone(e, n) == IF pod(n).node \in DOMAIN zoneIndex(s, e.nodes)
                           THEN zoneIndex(s, e.nodes)[pod(n).node] ELSE ""
             E(e, n) == Endpoint(pod(n).ip, rd(n), pod(n).ready, pod(n).deleting, zone(e, n),
                                 podPortMap(pod(n), s.ports))
             U == {n \in fetchPods(s, c.pods) :
                     /\ pod(n).ip # None
                     /\ ~pod(n).finished
                     /\ pod(n).deleting => s.includeTerminating
                     /\ podResolves(pod(n), s.ports)}
             eps(e) == {E(e, n) : n \in U}
             no == FALSE
  <1>1. Resolve(s, c) = Result(eps(c), no)
    BY Zenon DEF Resolve, resolvePods
  <1>2. Resolve(s, d) = Result(eps(d), no)
    BY DEF Resolve, resolvePods
  <1> HIDE DEF rd, zone, U
  <1>3. \A n : /\ E(c, n).addr = E(d, n).addr
               /\ E(c, n).ready = E(d, n).ready
               /\ Bare(E(c, n)) = Bare(E(d, n))
    BY EndpointZones
  <1>o. ~no
    BY Zenon
  <1>4. \A X, t : /\ Result(X, t).ok
                  /\ Result(X, t).ttl = t
                  /\ Result(X, t).eps = X
    BY Zenon DEF Result
  <1> HIDE DEF E, no
  <1> HIDE DEF eps
  <1>4a. /\ Resolve(s, c).ok /\ Resolve(s, c).ttl = no /\ Resolve(s, c).eps = eps(c)
         /\ Resolve(s, d).ok /\ Resolve(s, d).ttl = no /\ Resolve(s, d).eps = eps(d)
    BY <1>1, <1>2, <1>4
  <1>5. PICK S \in Dedupe(eps(c)) :
          WatchedBy(s, out) = WatchedBy(s, Result(filterAddresses(s, q, S), no))
    BY <1>4a, Zenon DEF ServedAt
  <1> DEFINE k(e) == CHOOSE n \in U : e = E(c, n)
             T == {E(d, k(e)) : e \in S}
  <1>6. /\ S \subseteq eps(c)
        /\ \A e \in eps(c) : \E f \in S : f.addr = e.addr /\ (e.ready => f.ready)
        /\ \A e, f \in S : e.addr = f.addr => e = f
    BY <1>5, Zenon DEF Dedupe
  <1>7. \A e \in S : k(e) \in U /\ e = E(c, k(e))
    BY <1>6, Zenon DEF eps
  <1> HIDE DEF k
  <1>8. T \in Dedupe(eps(d))
    <2>1. T \subseteq eps(d)
      BY <1>7, Zenon DEF eps
    <2>2. ASSUME NEW e \in eps(d)
          PROVE  \E f \in T : f.addr = e.addr /\ (e.ready => f.ready)
      <3>1. PICK m \in U : e = E(d, m)
        BY Zenon DEF eps
      <3>2. E(c, m) \in eps(c)
        BY Zenon DEF eps
      <3>3. PICK f \in S : f.addr = E(c, m).addr /\ (E(c, m).ready => f.ready)
        BY <1>6, <3>2, Zenon
      <3>4. f.addr = E(d, k(f)).addr /\ f.ready = E(d, k(f)).ready
        BY <1>3, <1>7, Zenon
      <3>5. E(d, k(f)) \in T
        BY Zenon
      <3>6. E(d, k(f)).addr = e.addr
        BY <1>3, <3>1, <3>3, <3>4, Zenon
      <3>7. e.ready => E(d, k(f)).ready
        BY <1>3, <3>1, <3>3, <3>4, Zenon
      <3> HIDE DEF T
      <3> QED  BY <3>5, <3>6, <3>7, Zenon
    <2>3. ASSUME NEW x \in T, NEW y \in T, x.addr = y.addr
          PROVE  x = y
      <3>1. PICK e \in S : x = E(d, k(e))
        BY Zenon
      <3>2. PICK f \in S : y = E(d, k(f))
        BY Zenon
      <3>3. e.addr = f.addr
        BY <1>3, <1>7, <2>3, <3>1, <3>2, Zenon
      <3>4. e = f
        BY <1>6, <3>3, Zenon
      <3> QED  BY <3>1, <3>2, <3>4, Zenon
    <2> HIDE DEF T
    <2> QED  BY <2>1, <2>2, <2>3, Zenon DEF Dedupe
  <1>9. Strip(filterAddresses(s, q, S)) = Strip(filterAddresses(s, q, T))
    <2> DEFINE ok(a) == /\ s.remote /\ q.policy # None => Allow(q.policy, a)
                        /\ Allow(DefaultPolicy, a)
    <2>1. \A X : filterAddresses(s, q, X) = {e \in X : ok(e.addr)}
      BY Zenon DEF filterAddresses
    <2> HIDE DEF ok
    <2>2. Strip({e \in S : ok(e.addr)}) \subseteq Strip({e \in T : ok(e.addr)})
      BY <1>3, <1>7 DEF Strip
    <2>3. Strip({e \in T : ok(e.addr)}) \subseteq Strip({e \in S : ok(e.addr)})
      BY <1>3, <1>7 DEF Strip
    <2>4. Strip({e \in S : ok(e.addr)}) = Strip({e \in T : ok(e.addr)})
      BY <2>2, <2>3, Zenon
    <2> QED  BY <2>1, <2>4, Zenon
  <1>10. \A X : WatchedBy(s, Result(X, no)) = Result(Strip(X), no)
    <2> TAKE X
    <2>1. WatchedBy(s, Result(X, no)) = [Result(X, no) EXCEPT !.eps = Strip(Result(X, no).eps)]
      BY Zenon DEF WatchedBy
    <2>2. Result(X, no).eps = X
      BY <1>4, Zenon
    <2> QED  BY <2>1, <2>2, ResultExcept
  <1>11. WatchedBy(s, out) = WatchedBy(s, Result(filterAddresses(s, q, T), no))
    BY <1>5, <1>9, <1>10, Zenon
  <1> HIDE DEF T
  <1> QED  BY <1>o, <1>4a, <1>8, <1>11, Zenon DEF ServedAt

-----------------------------------------------------------------------------
(* Types *)

(* Adding, changing or removing an object keeps the cluster valid. *)
LEMMA ValidPut ==
    ASSUME NEW c, Valid(c), NEW kind \in Kinds, NEW objs,
           \A n \in DOMAIN objs : ValidObject(kind, objs[n])
    PROVE  Valid([c EXCEPT ![kind] = objs])
  BY WatchAssumption, Zenon DEF Valid, Kinds

(* A DNS answer may change to any valid one. *)
LEMMA ValidRedirect ==
    ASSUME NEW c, Valid(c), NEW kind \in {"dns", "srv"}, NEW n, NEW v, ValidObject(kind, v)
    PROVE  Valid([c EXCEPT ![kind][n] = v])
  BY WatchAssumption, Zenon DEF Valid, Kinds

(* Of what there is and what was read before. *)
LEMMA ValidReads ==
    ASSUME TInv, pc = "reading"
    PROVE  Valid([cluster EXCEPT !.pods = got.pods, !.service = got.service])
  <1>1. Valid([cluster EXCEPT !["pods"] = got.pods])
    BY ValidPut, Zenon DEF TInv, ClusterOK, ReadsValid, Kinds
  <1>2. Valid([[cluster EXCEPT !["pods"] = got.pods] EXCEPT !["service"] = got.service])
    BY <1>1, ValidPut, Zenon DEF TInv, ReadsValid, Kinds
  <1> QED  BY <1>2, Zenon

(* An outcome's endpoints are the resolver's. *)
LEMMA OutcomePorts ==
    ASSUME NEW s \in Sources, NEW q, NEW c, Valid(c), NEW out \in Outcomes(s, q, c), NEW e \in out.eps
    PROVE  e.portMap \in PortsOf(s)
  <1> DEFINE res == Resolve(s, c)
  <1>1. Failed.eps = {} /\ \A eps, ttl : Result(eps, ttl).eps = eps
    BY Zenon DEF Failed, Result
  <1>2. IF res.ok THEN \E S \in Dedupe(res.eps) : out = Result(filterAddresses(s, q, S), res.ttl)
        ELSE out = Failed
    BY OutcomeShape
  <1>3. \A S \in Dedupe(res.eps) : filterAddresses(s, q, S) \subseteq res.eps
    BY Zenon DEF Dedupe, filterAddresses
  <1>4. e \in res.eps
    <2> HIDE DEF res
    <2> QED  BY <1>1, <1>2, <1>3
  <1> QED  BY <1>4, ResolvePorts, Zenon

(* The initial cluster is valid, and nothing has been resolved. *)
LEMMA TypeInit == Init => TInv
  <1> SUFFICES ASSUME Init PROVE TInv
    BY Zenon
  <1>1. Failed.eps = {}
    BY Zenon DEF Failed
  <1>e. <<>> \in Seq(Kinds) /\ Len(<<>>) <= ChanCap
    BY WatchAssumption
  <1>2. TypeOK
    BY <1>1, <1>e, Zenon DEF Init, TypeOK
  <1>3. ClusterOK
    BY WatchAssumption, ObjectsAssumption, Zenon DEF Init, ClusterOK, Valid, Kinds
  <1>4. ReadsValid
    BY Zenon DEF Init, ReadsValid
  <1> QED  BY <1>2, <1>3, <1>4, Zenon DEF TInv

(* A step that changes neither the specs nor the reconcile. *)
LEMMA TypeElsewhere ==
    ASSUME TInv, UNCHANGED <<source, rc, pc, got, served>>,
           events' \subseteq Events, channel' \in Seq(Kinds) /\ Len(channel') <= ChanCap,
           queued' \in BOOLEAN, timer' \in BOOLEAN, ClusterOK'
    PROVE  TInv'
  BY Zenon DEF TInv, TypeOK, ReadsValid

(* A change of an object keeps the cluster valid and marks only kinds. *)
LEMMA PutType ==
    ASSUME TInv, NEW kind \in Kinds, Put(kind) \/ Remove(kind)
    PROVE  TInv'
  <1>1. kind \in DOMAIN Objects /\ kind \in DOMAIN cluster
    BY WatchAssumption, Zenon DEF TInv, ClusterOK, Valid
  <1>2. \A obj : KeysOf(kind, obj) \subseteq Kinds
    BY Zenon DEF KeysOf, Kinds
  <1>3. CASE Put(kind)
    <2>1. PICK n \in Objects[kind], v \in Values[kind] :
            LET objs == cluster[kind]
            IN  /\ cluster' = [cluster EXCEPT ![kind] =
                                [m \in DOMAIN objs \cup {n} |-> IF m = n THEN v ELSE objs[m]]]
                /\ events' = events \cup KeysOf(kind, v)
                                \cup (IF n \in DOMAIN objs /\ ~source.remote
                                      THEN KeysOf(kind, objs[n]) ELSE {})
      BY <1>3, Zenon DEF Put
    <2> DEFINE objs == cluster[kind]
               new == [m \in DOMAIN objs \cup {n} |-> IF m = n THEN v ELSE objs[m]]
    <2>2. \A m \in DOMAIN new : ValidObject(kind, new[m])
      BY <1>1, ObjectsAssumption, Zenon DEF TInv, ClusterOK, Valid
    <2>3. cluster' = [cluster EXCEPT ![kind] = new]
      BY <2>1, Zenon
    <2> HIDE DEF new
    <2>4. ClusterOK'
      BY <2>2, <2>3, ValidPut, Zenon DEF TInv, ClusterOK
    <2>5. events' \subseteq Events
      BY <1>2, <2>1, Zenon DEF TInv, TypeOK, Events
    <2> QED  BY <1>3, <2>4, <2>5, TypeElsewhere, Zenon DEF Put, TInv, TypeOK
  <1>4. CASE Remove(kind)
    <2>1. PICK n \in DOMAIN cluster[kind] :
            LET objs == cluster[kind]
            IN  /\ cluster' = [cluster EXCEPT ![kind] = [m \in DOMAIN objs \ {n} |-> objs[m]]]
                /\ \/ events' = events \cup KeysOf(kind, objs[n])
                   \/ source.remote /\ UNCHANGED events
      BY <1>4, Zenon DEF Remove
    <2> DEFINE objs == cluster[kind]
               new == [m \in DOMAIN objs \ {n} |-> objs[m]]
    <2>2. \A m \in DOMAIN new : ValidObject(kind, new[m])
      BY <1>1, Zenon DEF TInv, ClusterOK, Valid
    <2>3. cluster' = [cluster EXCEPT ![kind] = new]
      BY <2>1, Zenon
    <2> HIDE DEF new
    <2>4. ClusterOK'
      BY <2>2, <2>3, ValidPut, Zenon DEF TInv, ClusterOK
    <2>5. events' \subseteq Events
      BY <1>2, <2>1, Zenon DEF TInv, TypeOK, Events
    <2> QED  BY <1>4, <2>4, <2>5, TypeElsewhere, Zenon DEF Remove, TInv, TypeOK
  <1> QED  BY <1>3, <1>4, Zenon

(* One case per action of SourceWatch. *)
LEMMA TypeStep == TInv /\ [Next]_vars => TInv'
  <1> SUFFICES ASSUME TInv, [Next]_vars PROVE TInv'
    BY Zenon
  <1>1. ASSUME NEW kind \in Kinds, Put(kind) \/ Remove(kind) PROVE TInv'
    BY <1>1, PutType, Zenon
  <1>2. ASSUME NEW kind \in {"dns", "srv"}, Redirect(kind) PROVE TInv'
    <2>1. PICK n \in Objects[kind], v \in Values[kind] : cluster' = [cluster EXCEPT ![kind][n] = v]
      BY <1>2, Zenon DEF Redirect
    <2>2. ValidObject(kind, v)
      BY WatchAssumption, ObjectsAssumption, Zenon
    <2>3. ClusterOK'
      BY <2>1, <2>2, ValidRedirect, Zenon DEF TInv, ClusterOK
    <2> QED  BY <1>2, <2>3, TypeElsewhere, Zenon DEF Redirect, TInv, TypeOK
  <1>3. ASSUME NEW e \in Events, Deliver(e) PROVE TInv'
    <2>1. ClusterOK'
      BY <1>3, Zenon DEF TInv, ClusterOK, Deliver, DeliverOwn, DeliverLocal, DeliverRemote
    <2>2. CASE DeliverOwn(e)
      BY <2>1, <2>2, TypeElsewhere, Zenon DEF DeliverOwn, TInv, TypeOK
    <2>3. CASE DeliverLocal(e)
      BY <2>1, <2>3, TypeElsewhere, Zenon DEF DeliverLocal, TInv, TypeOK
    <2>4. CASE DeliverRemote(e)
      <3>1. channel' \in Seq(Kinds) /\ Len(channel') <= ChanCap
        BY <2>4, WatchAssumption DEF DeliverRemote, TInv, TypeOK
      <3> QED  BY <2>1, <2>4, <3>1, TypeElsewhere, Zenon DEF DeliverRemote, TInv, TypeOK
    <2> QED  BY <1>3, <2>2, <2>3, <2>4, Zenon DEF Deliver
  <1>4. CASE Receive
    <2>1. ClusterOK'
      BY <1>4, Zenon DEF TInv, ClusterOK, Receive
    <2>2. channel' \in Seq(Kinds) /\ Len(channel') <= ChanCap
      BY <1>4, WatchAssumption DEF Receive, TInv, TypeOK
    <2> QED  BY <1>4, <2>1, <2>2, TypeElsewhere, Zenon DEF Receive, TInv, TypeOK
  <1>5. CASE TimerFires
    <2>1. ClusterOK'
      BY <1>5, Zenon DEF TInv, ClusterOK, TimerFires
    <2> QED  BY <1>5, <2>1, TypeElsewhere, Zenon DEF TimerFires, TInv, TypeOK
  <1>6. CASE Start
    <2>1. TypeOK'
      BY <1>6, Zenon DEF Start, TInv, TypeOK
    <2>2. ClusterOK'
      BY <1>6, Zenon DEF Start, TInv, ClusterOK
    <2>3. ReadsValid'
      BY <1>6, WatchAssumption, Zenon DEF Start, TInv, ReadsValid, ClusterOK, Valid, Kinds
    <2> QED  BY <2>1, <2>2, <2>3, Zenon DEF TInv
  <1>7. CASE Finish
    <2> DEFINE c == [cluster EXCEPT !.pods = got.pods, !.service = got.service]
    <2>1. PICK out \in Outcomes(got.source, got.rc, c) :
            /\ served' = out
            /\ timer' = (timer \/ Polled(got.source, got.rc, out.ttl))
            /\ events' = events \cup {"self"} \/ UNCHANGED events
      BY <1>7, Zenon DEF Finish
    <2>2. Valid(c) /\ got.source \in Sources
      BY <1>7, ValidReads, Zenon DEF Finish, TInv, TypeOK
    <2>3. \A e \in out.eps : e.portMap \in PortsOf(got.source)
      <3> HIDE DEF c
      <3> QED  BY <2>2, OutcomePorts, Zenon
    <2>4. \A e \in served'.eps : \E s \in Sources : e.portMap \in [DOMAIN s.ports -> Nat \ {0}]
      BY <2>1, <2>2, <2>3, Zenon DEF PortsOf
    <2>5. timer' \in BOOLEAN
      BY <2>1, Zenon
    <2>6. TypeOK'
      BY <1>7, <2>1, <2>4, <2>5, Zenon DEF Finish, TInv, TypeOK, Events
    <2>7. ClusterOK' /\ ReadsValid'
      BY <1>7, Zenon DEF Finish, TInv, ClusterOK, ReadsValid
    <2> QED  BY <2>6, <2>7, Zenon DEF TInv
  <1>8. CASE EditSource
    <2>1. TypeOK'
      BY <1>8, Zenon DEF EditSource, TInv, TypeOK, Events
    <2> QED  BY <1>8, <2>1, Zenon DEF EditSource, TInv, ClusterOK, ReadsValid
  <1>9. CASE EditCluster
    <2>1. TypeOK'
      BY <1>9, Zenon DEF EditCluster, TInv, TypeOK, Events
    <2> QED  BY <1>9, <2>1, Zenon DEF EditCluster, TInv, ClusterOK, ReadsValid
  <1>10. CASE Restart
    <2>1. TypeOK'
      <3>1. <<>> \in Seq(Kinds) /\ Len(<<>>) <= ChanCap
        BY WatchAssumption
      <3> QED  BY <1>10, <3>1, Zenon DEF Restart, TInv, TypeOK
    <2> QED  BY <1>10, <2>1, Zenon DEF Restart, TInv, ClusterOK, ReadsValid
  <1>11. CASE UNCHANGED vars
    BY <1>11, Zenon DEF vars, TInv, TypeOK, ClusterOK, ReadsValid
  <1>12. CASE RejectPolicy
    <2>1. TypeOK'
      BY <1>12, Zenon DEF RejectPolicy, TInv, TypeOK
    <2> QED  BY <1>12, <2>1, Zenon DEF RejectPolicy, TInv, ClusterOK, ReadsValid
  <1> QED  BY <1>1, <1>2, <1>3, <1>4, <1>5, <1>6, <1>7, <1>8, <1>9, <1>10, <1>11, <1>12, Zenon
           DEF Next, Change

(* Type correctness: whatever changes, a reconcile reads valid objects and *)
(* what it serves has a number for every port its spec declares.           *)
THEOREM TypeCorrect == Spec => []TypeOK
  <1>1. TInv => TypeOK
    BY Zenon DEF TInv
  <1> QED  BY <1>1, TypeInit, TypeStep, PTL DEF Spec

-----------------------------------------------------------------------------
(* Freshness *)

(* A local event leaves a key behind for every object a resolver reads: an *)
(* object of a kind that is not a key of s, or of another Service, plays no*)
(* part in what s gives, except for the zones of Pods.                     *)
LEMMA UnkeyedPlaysNoPart ==
    ASSUME NEW s \in Sources, NEW q, NEW c, NEW d, NEW out, ServedAt(s, q, c, out),
           NEW kind \in Kinds,
           \A k \in (Kinds \cup {"dns", "srv"}) \ {kind} : c[k] = d[k],
           kind \in localSourceRefKeys(s) => kind = "slices" /\ SameSlices(c, d)
    PROVE  ServedAt(s, q, d, out)
  <1>0. s.type \in {"Pods", "Nodes", "Service", "Static"}
    BY SourcesAssumption, Zenon DEF ServedAt
  <1>1. CASE s.type = "Pods"
    <2>1. c.pods = d.pods
      BY <1>1, Zenon DEF localSourceRefKeys, Kinds
    <2> QED  BY <1>1, <2>1, ServedZones, Zenon
  <1>2. CASE s.type = "Nodes"
    <2>1. c.nodes = d.nodes
      BY <1>2, Zenon DEF localSourceRefKeys, Kinds
    <2>2. Agree(s, c, d)
      BY <1>2, <2>1, Zenon DEF Agree
    <2> QED  BY <2>2, ServedReads, Zenon
  <1>3. CASE s.type = "Service"
    <2>1. c.service = d.service /\ c.dns = d.dns
      BY <1>3, Zenon DEF localSourceRefKeys, Kinds
    <2>2. s.via = "NodePort" => c.nodes = d.nodes
      BY <1>3, Zenon DEF localSourceRefKeys, Kinds
    <2>3. s.via = "PodIP" => SameSlices(c, d)
      <3>1. CASE kind = "slices"
        BY <1>3, <3>1, Zenon DEF localSourceRefKeys
      <3>2. CASE kind # "slices"
        <4>1. c.slices = d.slices
          BY <3>2, Zenon DEF Kinds
        <4> QED  BY <4>1, Zenon DEF SameSlices
      <3> QED  BY <3>1, <3>2, Zenon
    <2>4. Agree(s, c, d)
      BY <1>3, <2>1, <2>2, <2>3, Zenon DEF Agree
    <2> QED  BY <2>4, ServedReads, Zenon
  <1>4. CASE s.type = "Static"
    <2>1. Agree(s, c, d)
      BY <1>4, Zenon DEF Agree
    <2> QED  BY <2>1, ServedReads, Zenon
  <1> QED  BY <1>0, <1>1, <1>2, <1>3, <1>4, Zenon

(* Creating, updating or deleting an object of the source cluster, while   *)
(* the informers go on handing out the event.                              *)
LEMMA ObjectStep ==
    ASSUME IInv, Unchained, NEW kind \in Kinds, Put(kind) \/ Remove(kind)
    PROVE  NoneManaged' /\ ResyncArmed' /\ ReadsHold' /\ LocalFresh'
  <1>0. TInv /\ TypeOK /\ NoneManaged /\ ResyncArmed /\ ReadsHold /\ LocalFresh
    BY Zenon DEF IInv, TInv
  <1>d. DOMAIN cluster = Kinds \cup {"dns", "srv"}
    BY WatchAssumption, Zenon DEF IInv, TInv, ClusterOK, Valid
  <1>u. UNCHANGED <<source, rc, queued, timer, pc, got, served>> /\ events \subseteq events'
    BY Zenon DEF Put, Remove
  <1>1. PICK new : cluster' = [cluster EXCEPT ![kind] = new]
    BY Zenon DEF Put, Remove
  <1>2. \A k \in (Kinds \cup {"dns", "srv"}) \ {kind} : cluster[k] = cluster'[k]
    BY <1>1, <1>d, Zenon
  <1>3. NoneManaged'
    <2>1. CASE kind # "slices"
      BY <1>0, <1>2, <2>1, Zenon DEF NoneManaged, Kinds
    <2>2. CASE kind = "slices" /\ Put(kind)
      <3>1. PICK n \in Objects["slices"], v \in Values["slices"] :
              cluster' = [cluster EXCEPT !["slices"] =
                            [m \in DOMAIN cluster["slices"] \cup {n} |->
                                IF m = n THEN v ELSE cluster["slices"][m]]]
        BY <2>2 DEF Put
      <3>2. ~v.managed
        BY Zenon DEF Unchained
      <3>3. cluster'["slices"] = [m \in DOMAIN cluster["slices"] \cup {n} |->
                                    IF m = n THEN v ELSE cluster["slices"][m]]
        BY <1>d, <3>1, Zenon DEF Kinds
      <3> QED  BY <1>0, <3>2, <3>3, Zenon DEF NoneManaged
    <2>3. CASE kind = "slices" /\ Remove(kind)
      <3>1. PICK n \in DOMAIN cluster["slices"] :
              cluster' = [cluster EXCEPT !["slices"] =
                            [m \in DOMAIN cluster["slices"] \ {n} |-> cluster["slices"][m]]]
        BY <2>3 DEF Remove
      <3>3. cluster'["slices"] = [m \in DOMAIN cluster["slices"] \ {n} |-> cluster["slices"][m]]
        BY <1>d, <3>1, Zenon DEF Kinds
      <3> QED  BY <1>0, <3>3, Zenon DEF NoneManaged
    <2> QED  BY <2>1, <2>2, <2>3, Zenon
  <1>4. ResyncArmed'
    BY <1>0, <1>u, Zenon DEF ResyncArmed, RemoteCalm
  <1>5. ASSUME LocalCalm'
        PROVE  LocalCalm /\ (kind \in localSourceRefKeys(source)
                                => kind = "slices" /\ SameSlices(cluster, cluster'))
    <2>1. LocalCalm
      BY <1>5, <1>u, Zenon DEF LocalCalm
    <2>2. ASSUME kind \in localSourceRefKeys(source), kind # "slices" PROVE FALSE
      <3>1. kind \in events'
        BY <2>1, <2>2, <1>u, Zenon DEF Put, Remove, KeysOf, LocalCalm
      <3> QED  BY <1>5, <1>u, <2>2, <3>1, Zenon DEF LocalCalm
    <2>3. ASSUME kind \in localSourceRefKeys(source), kind = "slices" PROVE SameSlices(cluster, cluster')
      <3>0. ~source.remote /\ "slices" \notin events'
        BY <1>5, <1>u, <2>3, Zenon DEF LocalCalm
      <3> DEFINE objs == cluster["slices"]
      <3>1. CASE Put(kind)
        <4>1. PICK n \in Objects["slices"], v \in Values["slices"] :
                /\ cluster' = [cluster EXCEPT !["slices"] =
                                [m \in DOMAIN objs \cup {n} |-> IF m = n THEN v ELSE objs[m]]]
                /\ events' = events \cup KeysOf("slices", v)
                                \cup (IF n \in DOMAIN objs /\ ~source.remote
                                      THEN KeysOf("slices", objs[n]) ELSE {})
          BY <2>3, <3>1 DEF Put
        <4>2. ~v.managed
          BY Zenon DEF Unchained
        <4>3. v.service # "svc" /\ (n \in DOMAIN objs => objs[n].service # "svc")
          BY <1>0, <3>0, <4>1, <4>2, Zenon DEF KeysOf, NoneManaged
        <4>4. cluster'["slices"] = [m \in DOMAIN objs \cup {n} |-> IF m = n THEN v ELSE objs[m]]
          BY <1>d, <4>1, Zenon DEF Kinds
        <4> QED  BY <4>3, <4>4, Zenon DEF SameSlices
      <3>2. CASE Remove(kind)
        <4>1. PICK n \in DOMAIN objs :
                /\ cluster' = [cluster EXCEPT !["slices"] = [m \in DOMAIN objs \ {n} |-> objs[m]]]
                /\ events' = events \cup KeysOf("slices", objs[n])
          BY <2>3, <3>0, <3>2 DEF Remove
        <4>2. objs[n].service # "svc"
          BY <1>0, <3>0, <4>1, Zenon DEF KeysOf, NoneManaged
        <4>3. cluster'["slices"] = [m \in DOMAIN objs \ {n} |-> objs[m]]
          BY <1>d, <4>1, Zenon DEF Kinds
        <4> QED  BY <4>2, <4>3, Zenon DEF SameSlices
      <3> QED  BY <3>1, <3>2, Zenon
    <2> QED  BY <2>1, <2>2, <2>3, Zenon
  <1>6. ReadsHold'
    <2>1. ASSUME LocalCalm', "pods" \in localSourceRefKeys(source) PROVE cluster.pods = cluster'.pods
      BY <1>2, <1>5, <2>1, Zenon DEF Kinds
    <2>2. ASSUME LocalCalm', "service" \in localSourceRefKeys(source) PROVE cluster.service = cluster'.service
      BY <1>2, <1>5, <2>2, Zenon DEF Kinds
    <2> QED  BY <1>0, <1>5, <1>u, <2>1, <2>2, Zenon DEF ReadsHold
  <1>7. LocalFresh'
    <2> SUFFICES ASSUME LocalCalm', pc = "idle", ~timer PROVE ServedAt(source, rc, cluster', served)
      BY <1>u, Zenon DEF LocalFresh
    <2>1. ServedAt(source, rc, cluster, served)
      BY <1>0, <1>5, Zenon DEF LocalFresh
    <2>2. source \in Sources
      BY <1>0, Zenon DEF TypeOK
    <2> QED  BY <1>2, <1>5, <2>1, <2>2, UnkeyedPlaysNoPart, Zenon
  <1> QED  BY <1>3, <1>4, <1>6, <1>7, Zenon

(* A changed answer of DNS leaves no event behind. *)
LEMMA RedirectStep ==
    ASSUME IInv, NEW kind \in {"dns", "srv"}, Redirect(kind)
    PROVE  NoneManaged' /\ ResyncArmed' /\ ReadsHold' /\ LocalFresh'
  <1>0. TypeOK /\ NoneManaged /\ ResyncArmed /\ ReadsHold /\ LocalFresh
    BY Zenon DEF IInv, TInv
  <1>d. DOMAIN cluster = Kinds \cup {"dns", "srv"}
    BY WatchAssumption, Zenon DEF IInv, TInv, ClusterOK, Valid
  <1>u. UNCHANGED <<source, rc, events, queued, timer, pc, got, served>>
    BY Zenon DEF Redirect
  <1>1. PICK n, v : cluster' = [cluster EXCEPT ![kind][n] = v]
    BY Zenon DEF Redirect
  <1>2. /\ cluster.pods = cluster'.pods /\ cluster.nodes = cluster'.nodes
        /\ cluster.service = cluster'.service /\ cluster.slices = cluster'.slices
        /\ DOMAIN cluster.dns = DOMAIN cluster'.dns
    BY <1>1, <1>d, Zenon DEF Kinds
  <1>3. NoneManaged' /\ ResyncArmed' /\ ReadsHold'
    BY <1>0, <1>2, <1>u, Zenon DEF NoneManaged, ResyncArmed, RemoteCalm, ReadsHold, LocalCalm
  <1>4. LocalFresh'
    <2> SUFFICES ASSUME LocalCalm', pc = "idle", ~timer PROVE ServedAt(source, rc, cluster', served)
      BY <1>u, Zenon DEF LocalFresh
    <2>1. ServedAt(source, rc, cluster, served)
      BY <1>0, <1>u, Zenon DEF LocalFresh, LocalCalm
    <2>2. source \in Sources
      BY <1>0, Zenon DEF TypeOK
    <2> QED  BY <1>2, <2>1, <2>2, ServedUnpolled, Zenon
  <1> QED  BY <1>3, <1>4, Zenon

(* A reconcile ends: its reads, of which some are older than others, are   *)
(* what there is now, or something is on its way.                          *)
LEMMA FinishStep ==
    ASSUME IInv, Finish
    PROVE  NoneManaged' /\ ResyncArmed' /\ ReadsHold' /\ LocalFresh'
  <1> DEFINE c == [cluster EXCEPT !.pods = got.pods, !.service = got.service]
  <1>0. TypeOK /\ NoneManaged /\ ResyncArmed /\ ReadsHold /\ LocalFresh
    BY Zenon DEF IInv, TInv
  <1>d. DOMAIN cluster = Kinds \cup {"dns", "srv"}
    BY WatchAssumption, Zenon DEF IInv, TInv, ClusterOK, Valid
  <1>u. UNCHANGED <<source, rc, cluster, queued>> /\ pc = "reading" /\ pc' = "idle"
    BY Zenon DEF Finish
  <1>1. PICK out \in Outcomes(got.source, got.rc, c) :
          /\ served' = out
          /\ timer' = (timer \/ Polled(got.source, got.rc, out.ttl))
          /\ events' = events \cup {"self"} \/ (out.ok /\ UNCHANGED events)
    BY Zenon DEF Finish
  <1>2. NoneManaged' /\ ReadsHold'
    BY <1>0, <1>u, Zenon DEF NoneManaged, ReadsHold
  <1>3. ResyncArmed'
    <2> SUFFICES ASSUME RemoteCalm', rc.resync PROVE timer'
      BY <1>u, Zenon DEF ResyncArmed
    <2>1. RemoteCalm
      BY <1>1, <1>u, Zenon DEF RemoteCalm
    <2>2. timer \/ got.rc.resync
      BY <1>0, <2>1, Zenon DEF ResyncArmed
    <2>3. got.source.remote
      BY <1>0, <1>u, <2>1, Zenon DEF TypeOK, RemoteCalm
    <2> QED  BY <1>1, <2>2, <2>3, Zenon DEF Polled
  <1>4. LocalFresh'
    <2> SUFFICES ASSUME LocalCalm', ~timer' PROVE ServedAt(source, rc, cluster, out)
      BY <1>1, <1>u, Zenon DEF LocalFresh
    <2>1. LocalCalm /\ out.ok
      BY <1>1, <1>u, Zenon DEF LocalCalm
    <2>2. got.source = source /\ got.rc = rc
      BY <1>0, <1>u, <2>1, Zenon DEF ReadsHold
    <2>3. source.type # "DNS" /\ ~out.ttl
      BY <1>1, <2>2, Zenon DEF Polled
    <2>4. source \in Sources
      BY <1>0, Zenon DEF TypeOK
    <2>5. /\ c.nodes = cluster.nodes /\ c.slices = cluster.slices
          /\ c.dns = cluster.dns /\ c.srv = cluster.srv
          /\ c.pods = got.pods /\ c.service = got.service
      BY <1>d, Zenon DEF Kinds
    <2> HIDE DEF c
    <2>6. Agree(source, c, cluster)
      <3>1. source.type = "Pods" => got.pods = cluster.pods
        BY <1>0, <1>u, <2>1, Zenon DEF ReadsHold, localSourceRefKeys
      <3>2. source.type = "Service" => got.service = cluster.service
        BY <1>0, <1>u, <2>1, Zenon DEF ReadsHold, localSourceRefKeys
      <3> QED  BY <2>5, <3>1, <3>2, Zenon DEF Agree, SameSlices
    <2> DEFINE res == Resolve(source, cluster)
    <2>7. Resolve(source, c) = res
      BY <2>4, <2>6, ResolveReads, Zenon
    <2>8. IF res.ok THEN \E S \in Dedupe(res.eps) : out = Result(filterAddresses(source, rc, S), res.ttl)
          ELSE out = Failed
      BY <1>1, <2>2, <2>4, <2>7, OutcomeShape
    <2>9. ~Failed.ok /\ \A X, t : Result(X, t).ttl = t
      BY Zenon DEF Failed, Result
    <2>10. res.ok
      <3> HIDE DEF res
      <3> QED  BY <2>1, <2>8, <2>9, Zenon
    <2>11. PICK S \in Dedupe(res.eps) : out = Result(filterAddresses(source, rc, S), res.ttl)
      BY <2>8, <2>10, Zenon
    <2>12. ~res.ttl
      <3> HIDE DEF res
      <3> QED  BY <2>3, <2>9, <2>11, Zenon
    <2> QED  BY <2>3, <2>10, <2>11, <2>12, Zenon DEF ServedAt
  <1> QED  BY <1>2, <1>3, <1>4, Zenon

(* The first reconcile is due. *)
LEMMA FreshInit == Init /\ Unchained => IInv
  <1> SUFFICES ASSUME Init, Unchained PROVE IInv
    BY Zenon
  <1>1. TInv
    BY TypeInit, Zenon
  <1> QED  BY <1>1, Zenon DEF Init, IInv, NoneManaged, Unchained, ResyncArmed, RemoteCalm, ReadsHold,
                       LocalFresh, LocalCalm

(* One case per action; Finish is the lemma above, the others move a change *)
(* towards the queue.                                                      *)
LEMMA FreshStep == IInv /\ Unchained /\ [Next]_vars => IInv'
  <1> SUFFICES ASSUME IInv, Unchained, [Next]_vars
               PROVE  NoneManaged' /\ ResyncArmed' /\ ReadsHold' /\ LocalFresh'
    <2>1. IInv /\ [Next]_vars => TInv'
      BY TypeStep, Zenon DEF IInv
    <2> QED  BY <2>1, Zenon DEF IInv
  <1>0. TypeOK /\ NoneManaged /\ ResyncArmed /\ ReadsHold /\ LocalFresh
    BY Zenon DEF IInv, TInv
  <1>k. "self" \notin Kinds /\ "cluster" \notin Kinds
    BY Zenon DEF Kinds
  <1>1. ASSUME NEW kind \in Kinds, Put(kind) \/ Remove(kind)
        PROVE  NoneManaged' /\ ResyncArmed' /\ ReadsHold' /\ LocalFresh'
    BY <1>1, ObjectStep, Zenon
  <1>2. ASSUME NEW kind \in {"dns", "srv"}, Redirect(kind)
        PROVE  NoneManaged' /\ ResyncArmed' /\ ReadsHold' /\ LocalFresh'
    BY <1>2, RedirectStep, Zenon
  <1>3. ASSUME NEW e \in Events, Deliver(e)
        PROVE  NoneManaged' /\ ResyncArmed' /\ ReadsHold' /\ LocalFresh'
    <2>1. CASE DeliverOwn(e)
      BY <1>0, <2>1 DEF DeliverOwn, NoneManaged, ResyncArmed, RemoteCalm, ReadsHold, LocalFresh, LocalCalm
    <2>2. CASE DeliverLocal(e)
      <3>1. NoneManaged' /\ ResyncArmed'
        BY <1>0, <1>k, <2>2, Zenon DEF DeliverLocal, NoneManaged, ResyncArmed, RemoteCalm
      <3>2. LocalCalm' => LocalCalm
        BY <1>k, <2>2, Zenon DEF DeliverLocal, LocalCalm
      <3> QED  BY <1>0, <2>2, <3>1, <3>2, Zenon DEF DeliverLocal, ReadsHold, LocalFresh
    <2>3. CASE DeliverRemote(e)
      BY <1>0, <1>k, <2>3, Zenon DEF DeliverRemote, NoneManaged, ResyncArmed, RemoteCalm, ReadsHold,
                              LocalFresh, LocalCalm
    <2> QED  BY <1>3, <2>1, <2>2, <2>3, Zenon DEF Deliver
  <1>4. CASE Receive
    <2>1. (LocalCalm' => LocalCalm) /\ (RemoteCalm' => RemoteCalm)
      BY <1>4, Zenon DEF Receive, LocalCalm, RemoteCalm
    <2> QED  BY <1>0, <1>4, <2>1, Zenon DEF Receive, NoneManaged, ResyncArmed, ReadsHold, LocalFresh
  <1>5. CASE TimerFires
    BY <1>0, <1>5, Zenon DEF TimerFires, NoneManaged, ResyncArmed, RemoteCalm, ReadsHold, LocalFresh, LocalCalm
  <1>6. CASE Start
    BY <1>0, <1>6, Zenon DEF Start, NoneManaged, ResyncArmed, ReadsHold, LocalFresh
  <1>7. CASE Finish
    BY <1>7, FinishStep, Zenon
  <1>8. CASE EditSource
    <2>1. ~LocalCalm' /\ (RemoteCalm' => RemoteCalm)
      BY <1>8, Zenon DEF EditSource, LocalCalm, RemoteCalm
    <2> QED  BY <1>0, <1>8, <2>1, Zenon DEF EditSource, NoneManaged, ResyncArmed, ReadsHold, LocalFresh
  <1>9. CASE EditCluster
    <2>1. ~LocalCalm' /\ ~RemoteCalm'
      BY <1>9, Zenon DEF EditCluster, LocalCalm, RemoteCalm
    <2> QED  BY <1>0, <1>9, <2>1, Zenon DEF EditCluster, NoneManaged, ResyncArmed, ReadsHold, LocalFresh
  <1>10. CASE Restart
    BY <1>0, <1>10, Zenon
    DEF Restart, NoneManaged, ResyncArmed, RemoteCalm, ReadsHold, LocalFresh, LocalCalm
  <1>11. CASE UNCHANGED vars
    BY <1>0, <1>11, Zenon DEF vars, NoneManaged, ResyncArmed, RemoteCalm, ReadsHold, LocalFresh, LocalCalm
  <1>12. CASE RejectPolicy
    BY <1>0, <1>12, Zenon
    DEF RejectPolicy, NoneManaged, ResyncArmed, RemoteCalm, ReadsHold, LocalFresh, LocalCalm
  <1> QED  BY <1>1, <1>2, <1>3, <1>4, <1>5, <1>6, <1>7, <1>8, <1>9, <1>10, <1>11, <1>12, Zenon
           DEF Next, Change

(* With no event, reconcile or timer left, what is served is what a        *)
(* resolution would give now.                                              *)
LEMMA FreshAtRest == IInv => QuietMeansFresh
  <1> SUFFICES ASSUME IInv, Quiet, source.remote => rc.resync, ~timer PROVE Fresh
    BY Zenon DEF QuietMeansFresh, IInv, TInv, TypeOK
  <1>1. source \in Sources /\ source.remote \in BOOLEAN
    BY SourcesAssumption, Zenon DEF IInv, TInv, TypeOK
  <1>2. CASE source.remote
    BY <1>2, Zenon DEF IInv, ResyncArmed, RemoteCalm, Quiet
  <1>3. CASE ~source.remote
    <2> DEFINE res == Resolve(source, cluster)
    <2>1. ServedAt(source, rc, cluster, served)
      BY <1>3, Zenon DEF IInv, LocalFresh, LocalCalm, Quiet
    <2>2. PICK S \in Dedupe(res.eps) :
            WatchedBy(source, served) = WatchedBy(source, Result(filterAddresses(source, rc, S), res.ttl))
      BY <2>1, Zenon DEF ServedAt
    <2>3. Result(filterAddresses(source, rc, S), res.ttl) \in Outcomes(source, rc, cluster)
      BY <1>1, <2>1, OutcomeShape, Zenon DEF ServedAt
    <2>4. \A out : Watched(out) = WatchedBy(source, out)
      BY Zenon DEF Watched, WatchedBy, Strip, Bare
    <2> QED  BY <2>2, <2>3, <2>4, Zenon DEF Fresh
  <1> QED  BY <1>1, <1>2, <1>3, Zenon

(* No change is missed: whenever nothing is queued, running or on its way, *)
(* what is served is what the source gives now or a poll is armed, for any *)
(* sources and objects, channel capacity and number of changes, as long as *)
(* no source Service is one that this controller feeds.                    *)
THEOREM NothingMissed ==
    ASSUME Unchained  PROVE Spec => []QuietMeansFresh
  <1>1. Init => IInv
    BY FreshInit, Zenon
  <1>2. IInv /\ [Next]_vars => IInv'
    BY FreshStep, Zenon
  <1> QED  BY <1>1, <1>2, FreshAtRest, PTL DEF Spec

-----------------------------------------------------------------------------
(* What a reconcile makes of a resolved list *)

(* The address passes the cluster's policy and the controller's. *)
Permitted(s, q, a) ==
    /\ s.remote /\ q.policy # None => Allow(q.policy, a)
    /\ Allow(DefaultPolicy, a)

(* Which addresses Dedupe and filterAddresses hand on, and which of them   *)
(* are ready, does not depend on the order of the resolved list: exactly   *)
(* the resolved addresses that the policies permit, each once, and ready   *)
(* if and only if some resolved endpoint with that address is.             *)
THEOREM OutcomeIsDetermined ==
    ASSUME NEW s \in Sources, NEW q, NEW c, Resolve(s, c).ok, NEW out \in Outcomes(s, q, c)
    PROVE  LET eps == Resolve(s, c).eps
           IN  /\ \A a : (\E e \in out.eps : e.addr = a)
                             <=> Permitted(s, q, a) /\ \E e \in eps : e.addr = a
               /\ \A e, f \in out.eps : e.addr = f.addr => e = f
               /\ \A e \in out.eps : e.ready <=> \E f \in eps : f.addr = e.addr /\ f.ready
  <1> DEFINE eps == Resolve(s, c).eps
  <1>1. PICK S \in Dedupe(eps) : out = Result(filterAddresses(s, q, S), Resolve(s, c).ttl)
    BY OutcomeShape, Zenon
  <1>2. out.eps = filterAddresses(s, q, S)
    BY <1>1, Zenon DEF Result
  <1> HIDE DEF eps
  <1>3. /\ S \subseteq eps
        /\ \A e \in eps : \E f \in S : f.addr = e.addr /\ (e.ready => f.ready)
        /\ \A e, f \in S : e.addr = f.addr => e = f
    BY <1>1, Zenon DEF Dedupe
  <1>4. \A e : e \in out.eps <=> e \in S /\ Permitted(s, q, e.addr)
    BY <1>2, Zenon DEF filterAddresses, Permitted
  <1>5. \A a : (\E e \in out.eps : e.addr = a) <=> Permitted(s, q, a) /\ \E e \in eps : e.addr = a
    <2> SUFFICES ASSUME NEW a
                 PROVE  (\E e \in out.eps : e.addr = a) <=> Permitted(s, q, a) /\ \E e \in eps : e.addr = a
      BY Zenon
    <2>1. ASSUME NEW e \in out.eps, e.addr = a  PROVE Permitted(s, q, a) /\ \E f \in eps : f.addr = a
      <3>1. e \in S /\ Permitted(s, q, e.addr)
        BY <1>4, <2>1, Zenon
      <3>2. e \in eps
        BY <1>3, <3>1, Zenon
      <3> QED  BY <2>1, <3>1, <3>2, Zenon
    <2>2. ASSUME Permitted(s, q, a), NEW e \in eps, e.addr = a  PROVE \E f \in out.eps : f.addr = a
      <3>1. PICK f \in S : f.addr = e.addr
        BY <1>3, Zenon
      <3>2. f \in out.eps
        BY <1>4, <2>2, <3>1, Zenon
      <3> QED  BY <2>2, <3>1, <3>2, Zenon
    <2> QED  BY <2>1, <2>2, Zenon
  <1>6. \A e, f \in out.eps : e.addr = f.addr => e = f
    BY <1>3, <1>4, Zenon
  <1>7. ASSUME NEW e \in out.eps
        PROVE  e.ready <=> \E f \in eps : f.addr = e.addr /\ f.ready
    <2>1. e \in S /\ e \in eps
      BY <1>3, <1>4, Zenon
    <2>2. ASSUME NEW f \in eps, f.addr = e.addr, f.ready  PROVE e.ready
      <3>1. PICK g \in S : g.addr = f.addr /\ (f.ready => g.ready)
        BY <1>3, Zenon
      <3>2. g = e
        BY <1>3, <2>1, <2>2, <3>1, Zenon
      <3> QED  BY <2>2, <3>1, <3>2, Zenon
    <2> QED  BY <2>1, <2>2, Zenon
  <1> QED  BY <1>5, <1>6, <1>7, Zenon DEF eps
=============================================================================
