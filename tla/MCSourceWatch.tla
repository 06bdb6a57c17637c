---------------------------- MODULE MCSourceWatch ----------------------------
(* Small instances of SourceWatch for TLC. *)
EXTENDS SourceWatch, TLC

CONSTANTS a1, a2, a3, h1

Port(target, remoteName, remoteNumber) ==
    [port |-> 80, targetName |-> target, targetNumber |-> 0,
     remoteName |-> remoteName, remoteNumber |-> remoteNumber]

Plain == [type |-> "Static", remote |-> FALSE, via |-> "", ports |-> ("http" :> Port("", "", 0)),
          selector |-> FALSE, names |-> {}, includeTerminating |-> FALSE, propagateZone |-> TRUE,
          addressType |-> "InternalIP", requireReady |-> TRUE, excludeUnschedulable |-> TRUE,
          recordType |-> "A", hosts |-> {h1}, srvPortName |-> "",
          excludePrivate |-> FALSE, excludePublic |-> FALSE, zone |-> "", addresses |-> {a1}]

Watchable ==
    {[Plain EXCEPT !.type = "Pods", !.selector = TRUE, !.ports = "http" :> Port("web", "", 0)],
     [Plain EXCEPT !.type = "Nodes", !.addressType = "PreferExternal"],
     [Plain EXCEPT !.type = "Service", !.via = "NodePort"],
     [Plain EXCEPT !.type = "Service", !.via = "LoadBalancer", !.ports = "http" :> Port("", "", 80)],
     [Plain EXCEPT !.type = "Service", !.via = "PodIP", !.ports = "" :> Port("", "", 0)]}

MCSources ==
    Watchable
    \cup {[s EXCEPT !.remote = TRUE] : s \in {w \in Watchable : w.via \in {"NodePort", "PodIP"}}}
    \cup {[Plain EXCEPT !.type = "DNS", !.excludePrivate = TRUE],
          [Plain EXCEPT !.type = "DNS", !.recordType = "SRV"], Plain}

MCPodIP == {s \in Watchable : s.via = "PodIP"}

MCOpen == [policy |-> None, resync |-> TRUE]

MCClusters ==
    {MCOpen,
     [resync |-> FALSE,
      policy |-> [denySpecialPurpose |-> FALSE, allowed |-> {a1, a3}, denied |-> {a3}]],
     [resync |-> TRUE,
      policy |-> [denySpecialPurpose |-> FALSE, allowed |-> {"10.0.0.0/33"}, denied |-> {}]]}

MCOneCluster == {MCOpen}

MCDefaultPolicy == [denySpecialPurpose |-> TRUE, allowed |-> {}, denied |-> {}]

Pod == [ip |-> a1, finished |-> FALSE, deleting |-> FALSE, ready |-> TRUE, node |-> "n1",
        labelled |-> TRUE, ports |-> ("web" :> 8080)]

Node == [internal |-> a1, external |-> None, ready |-> TRUE, excluded |-> FALSE, zone |-> "z1",
         labelled |-> TRUE]

Service == [ports |-> ("http" :> [port |-> 80, nodePort |-> 30000]), ingress |-> {h1}]

Slice(service, managed, addr, ready) ==
    [service |-> service, managed |-> managed, ports |-> ("http" :> 8080),
     endpoints |-> {[addr |-> addr, ready |-> ready, serving |-> "", terminating |-> "", zone |-> "z1"]}]

Nothing == [n \in {} |-> None]

MCInitialCluster ==
    [pods |-> ("p1" :> Pod), nodes |-> ("n1" :> Node), service |-> ("svc" :> Service),
     slices |-> ("s1" :> Slice("svc", FALSE, a1, "")),
     dns |-> (h1 :> {a1}), srv |-> (h1 :> {[target |-> h1, port |-> 9000]})]

MCChained == [MCInitialCluster EXCEPT !.slices = "s1" :> Slice("svc", TRUE, a1, "")]

MCObjects ==
    [pods |-> {"p2"}, nodes |-> {"n1"}, service |-> {"svc"}, slices |-> {"s1"},
     dns |-> {h1}, srv |-> {h1}]

MCValues ==
    [pods    |-> {[Pod EXCEPT !.ready = FALSE], [Pod EXCEPT !.ports = Nothing],
                  [Pod EXCEPT !.ports = "web" :> 8081]},
     nodes   |-> {[Node EXCEPT !.external = a2], [Node EXCEPT !.zone = "z2"]},
     service |-> {[Service EXCEPT !.ports = "http" :> [port |-> 80, nodePort |-> 30001]],
                  [Service EXCEPT !.ingress = {a3}]},
     slices  |-> {Slice("svc", FALSE, a2, "false"), Slice("other", FALSE, a1, "")},
     dns     |-> {{a2}, None},
     srv     |-> {{[target |-> h1, port |-> 9000], [target |-> h1, port |-> 9001]}, None}]

MCChainedValues == [MCValues EXCEPT !.slices = {Slice("svc", TRUE, a2, "")}]
=============================================================================
