------------------------------ MODULE Resolvers ------------------------------
(***************************************************************************)
(* internal/resolver, Dedupe of group.go and policy.go: what a source gives*)
(* when it is resolved against the objects of its cluster.                 *)
(*                                                                         *)
(* A cluster is a record of object maps: pods, nodes, service, slices, and *)
(* the DNS answers dns (host -> addresses or None) and srv (name -> targets*)
(* with ports, or None); None is a failed lookup.  An optional string is ""*)
(* and an optional number 0 when it is not set.  There is one namespace and*)
(* one Service of interest, "svc".  An endpoint list is a set: its order is*)
(* the order of an informer's map or of DNS answers, and not fixed.        *)
(***************************************************************************)
EXTENDS Naturals, FiniteSets

CONSTANTS
    Private,         \* addresses that ScopeOf puts in ScopePrivate
    Special,         \* addresses for which isSpecialPurpose holds
    DefaultPolicy,   \* DefaultAddressPolicy of the controller
    Malformed,       \* CIDRs that do not parse
    None

Failed == [ok |-> FALSE, ttl |-> FALSE, eps |-> {}]

(* A Result; ttl says whether the source asks for a poll. *)
Result(eps, ttl) == [ok |-> TRUE, ttl |-> ttl, eps |-> eps]

Endpoint(addr, ready, serving, terminating, zone, portMap) ==
    [addr |-> addr, ready |-> ready, serving |-> serving, terminating |-> terminating,
     zone |-> zone, portMap |-> portMap]

resolvedPort(p) == IF p.targetNumber > 0 THEN p.targetNumber ELSE p.port

defaultPortMap(ports) == [n \in DOMAIN ports |-> resolvedPort(ports[n])]

-----------------------------------------------------------------------------
(* Pods *)

fetchPods(src, pods) ==
    {n \in DOMAIN pods : IF src.selector THEN pods[n].labelled ELSE n \in src.names}

(* Mutant: a Pod on which a named port does not resolve is kept. *)
podResolvesAnyway(pod, ports) == TRUE

(* podPortMap's ok: every declared name is a container port of the Pod. *)
podResolves(pod, ports) ==
    \A n \in DOMAIN ports : ports[n].targetName # "" => ports[n].targetName \in DOMAIN pod.ports

podPortMap(pod, ports) ==
    [n \in {m \in DOMAIN ports :
               ports[m].targetName = "" \/ ports[m].targetName \in DOMAIN pod.ports} |->
        IF ports[n].targetName = "" THEN resolvedPort(ports[n])
                                    ELSE pod.ports[ports[n].targetName]]

zoneIndex(src, nodes) ==
    [n \in IF src.propagateZone THEN DOMAIN nodes ELSE {} |-> nodes[n].zone]

resolvePods(src, c) ==
    LET zones  == zoneIndex(src, c.nodes)
        usable == {n \in fetchPods(src, c.pods) :
                      /\ c.pods[n].ip # None
                      /\ ~c.pods[n].finished
                      /\ c.pods[n].deleting => src.includeTerminating
                      /\ podResolves(c.pods[n], src.ports)}
        endpoint(pod) ==
            Endpoint(pod.ip, pod.ready /\ ~pod.deleting, pod.ready, pod.deleting,
                     IF pod.node \in DOMAIN zones THEN zones[pod.node] ELSE "",
                     podPortMap(pod, src.ports))
    IN  Result({endpoint(c.pods[n]) : n \in usable}, FALSE)

-----------------------------------------------------------------------------
(* Nodes *)

fetchNodes(src, nodes) ==
    {n \in DOMAIN nodes : IF src.selector THEN nodes[n].labelled
                                          ELSE src.names = {} \/ n \in src.names}

nodeAddress(node, type) ==
    CASE type = "ExternalIP"     -> node.external
      [] type = "PreferExternal" -> IF node.external # None THEN node.external ELSE node.internal
      [] type = "PreferInternal" -> IF node.internal # None THEN node.internal ELSE node.external
      [] OTHER                   -> node.internal

nodeEndpoints(src, nodes, portMap) ==
    LET usable == {n \in fetchNodes(src, nodes) :
                      /\ ~(src.excludeUnschedulable /\ nodes[n].excluded)
                      /\ nodeAddress(nodes[n], src.addressType) # None}
        ready(node) == src.requireReady => node.ready
    IN  {Endpoint(nodeAddress(nodes[n], src.addressType), ready(nodes[n]), ready(nodes[n]), FALSE,
                  IF src.propagateZone THEN nodes[n].zone ELSE "", portMap) : n \in usable}

resolveNodes(src, c) == Result(nodeEndpoints(src, c.nodes, defaultPortMap(src.ports)), FALSE)

-----------------------------------------------------------------------------
(* Service *)

(* The remote ports a declared port matches: at most one, as names and     *)
(* numbers are unique in the Services considered.                          *)
matchRemotePort(n, p, svc) ==
    IF p.remoteName = "" /\ p.remoteNumber = 0 /\ n = "" /\ Cardinality(DOMAIN svc.ports) = 1
    THEN DOMAIN svc.ports
    ELSE IF p.remoteNumber > 0
         THEN {m \in DOMAIN svc.ports : svc.ports[m].port = p.remoteNumber}
         ELSE {IF p.remoteName # "" THEN p.remoteName ELSE n} \cap DOMAIN svc.ports

(* bindPorts: declared name -> remote name. *)
bindPorts(ports, svc) ==
    [n \in {m \in DOMAIN ports : matchRemotePort(m, ports[m], svc) # {}} |->
        CHOOSE m \in matchRemotePort(n, ports[n], svc) : TRUE]

viaNodePort(src, c, svc, bindings) ==
    IF \E n \in DOMAIN bindings : svc.ports[bindings[n]].nodePort = 0
    THEN Failed
    ELSE Result(nodeEndpoints(src, c.nodes, [n \in DOMAIN bindings |->
                                                svc.ports[bindings[n]].nodePort]), FALSE)

(* ingress holds addresses and host names.  A host name is looked up, and  *)
(* makes the source a polled one.                                          *)
viaLoadBalancer(c, svc, bindings) ==
    LET hosts   == svc.ingress \cap DOMAIN c.dns
        addrs   == (svc.ingress \ hosts) \cup UNION {c.dns[h] : h \in hosts}
        portMap == [n \in DOMAIN bindings |-> svc.ports[bindings[n]].port]
    IN  IF svc.ingress = {} \/ \E h \in hosts : c.dns[h] = None
        THEN Failed
        ELSE IF addrs = {} THEN Failed
        ELSE Result({Endpoint(a, TRUE, TRUE, FALSE, "", portMap) : a \in addrs}, hosts # {})

(* Conditions of a remote slice's endpoint are "true", "false" or "". *)
viaPodIP(src, c, bindings) ==
    LET usable  == {s \in DOMAIN c.slices :
                      /\ c.slices[s].service = "svc"
                      /\ \A n \in DOMAIN bindings : bindings[n] \in DOMAIN c.slices[s].ports}
        portMap(slice) == [n \in DOMAIN bindings |-> slice.ports[bindings[n]]]
        endpoints(slice) ==
            {Endpoint(e.addr, e.ready # "false" /\ e.terminating # "true", e.serving # "false",
                      e.terminating = "true", IF src.propagateZone THEN e.zone ELSE "",
                      portMap(slice)) :
                e \in {f \in slice.endpoints : f.terminating = "true" => src.includeTerminating}}
    IN  Result(UNION {endpoints(c.slices[s]) : s \in usable}, FALSE)

resolveService(src, c) ==
    IF "svc" \notin DOMAIN c.service THEN Failed
    ELSE LET svc      == c.service["svc"]
             bindings == bindPorts(src.ports, svc)
         IN  IF DOMAIN bindings # DOMAIN src.ports THEN Failed
             ELSE CASE src.via = "NodePort"     -> viaNodePort(src, c, svc, bindings)
                    [] src.via = "LoadBalancer" -> viaLoadBalancer(c, svc, bindings)
                    [] src.via = "PodIP"        -> viaPodIP(src, c, bindings)

-----------------------------------------------------------------------------
(* DNS and Static *)

(* scopeFilter.apply *)
InScope(src, addrs) ==
    {a \in addrs : ~(src.excludePrivate /\ a \in Private) /\ ~(src.excludePublic /\ a \notin Private)}

resolveAddr(src, c) ==
    IF \E h \in src.hosts : c.dns[h] = None THEN Failed
    ELSE Result({Endpoint(a, TRUE, TRUE, FALSE, "", defaultPortMap(src.ports)) :
                    a \in InScope(src, UNION {c.dns[h] : h \in src.hosts})}, FALSE)

(* An SRV record fills the one declared port that srvPortName names or     *)
(* implies.                                                                *)
resolveSRV(src, c) ==
    LET base    == defaultPortMap(src.ports)
        name    == IF src.srvPortName = "" /\ Cardinality(DOMAIN src.ports) = 1
                   THEN CHOOSE n \in DOMAIN src.ports : TRUE ELSE src.srvPortName
        targets == UNION {c.srv[h] : h \in src.hosts}
        portMap(t) == [n \in DOMAIN base |-> IF n = name THEN t.port ELSE base[n]]
    IN  IF \E h \in src.hosts : c.srv[h] = None THEN Failed
        ELSE IF \E t \in targets : c.dns[t.target] = None THEN Failed
        ELSE Result(UNION {{Endpoint(a, TRUE, TRUE, FALSE, "", portMap(t)) :
                               a \in InScope(src, c.dns[t.target])} : t \in targets}, FALSE)

resolveStatic(src) ==
    Result({Endpoint(a, TRUE, TRUE, FALSE, src.zone, defaultPortMap(src.ports)) :
               a \in src.addresses}, FALSE)

(* Registry.Resolve *)
Resolve(src, c) ==
    CASE src.type = "Pods"    -> resolvePods(src, c)
      [] src.type = "Nodes"   -> resolveNodes(src, c)
      [] src.type = "Service" -> resolveService(src, c)
      [] src.type = "DNS"     -> IF src.recordType = "SRV" THEN resolveSRV(src, c)
                                                           ELSE resolveAddr(src, c)
      [] src.type = "Static"  -> resolveStatic(src)

-----------------------------------------------------------------------------
(* After the resolver *)

(* The lists Dedupe may return: one endpoint per address, a ready one if   *)
(* there is one, the first in the list otherwise.                          *)
Dedupe(eps) ==
    {S \in SUBSET eps :
        /\ \A e \in eps : \E f \in S : f.addr = e.addr /\ (e.ready => f.ready)
        /\ \A e, f \in S : e.addr = f.addr => e = f}

(* Policy.Allow *)
Allow(p, a) ==
    /\ ~(p.denySpecialPurpose /\ a \in Special)
    /\ a \notin p.denied
    /\ p.allowed = {} \/ a \in p.allowed

(* NewPolicy, of the policy of the cluster: a CIDR does not parse.  The    *)
(* API server does not look at them.                                       *)
PolicyError(src, rc) ==
    /\ src.remote /\ rc.policy # None
    /\ (rc.policy.allowed \cup rc.policy.denied) \cap Malformed # {}

(* The cluster's policy, if the source is bound to one that has a policy,  *)
(* and the controller's.                                                   *)
filterAddresses(src, rc, eps) ==
    {e \in eps : /\ src.remote /\ rc.policy # None => Allow(rc.policy, e.addr)
                 /\ Allow(DefaultPolicy, e.addr)}

(* What a reconcile may hand on to the failure policy. *)
Outcomes(src, rc, c) ==
    LET r == Resolve(src, c)
    IN  IF r.ok THEN {[r EXCEPT !.eps = filterAddresses(src, rc, S)] : S \in Dedupe(r.eps)}
                ELSE {Failed}

(* requeueAfter is positive. *)
Polled(src, rc, ttl) == src.type = "DNS" \/ ttl \/ (src.remote /\ rc.resync)
=============================================================================
