---------------------------- MODULE ServiceObject ----------------------------
(***************************************************************************)
(* internal/service/service.go: the Service that a CrossService asks for,  *)
(* and how it is merged into the live object.                              *)
(*                                                                         *)
(* A spec is the part of a CrossService the Service is made from: ports    *)
(* (port name -> number), meta (the template's labels and annotations,     *)
(* which are treated alike), publishNotReady, and policy, which stands for *)
(* internalTrafficPolicy and sessionAffinity and is "" when not set.  A    *)
(* number that is not set is 0.  exposed: the type is NodePort.            *)
(***************************************************************************)
EXTENDS Naturals

CONSTANTS
    Self,          \* the CrossService, as label value and as owner
    NoService,     \* there is no Service of that name
    FreshNodePort, \* the node port the API server allocates
    PortNames,     \* names of ports
    PortNumbers,   \* and their numbers
    Labels,        \* label and annotation keys
    Values,        \* their values
    Policies       \* policies, and ""

Map(keys, values) == UNION {[S -> values] : S \in SUBSET keys}

SpecType ==
    [ports : Map(PortNames, PortNumbers), tuple : Nat, meta : Map(Labels, Values),
     policy : Policies, publishNotReady : BOOLEAN]

PortType ==
    [port : PortNumbers, targetPort : PortNumbers \cup {0}, nodePort : PortNumbers \cup {0}]

ServiceType ==
    [meta : Map(Labels, Values), owner : {Self, "nobody"}, selector : BOOLEAN,
     ports : Map(PortNames, PortType), exposed : BOOLEAN, publishNotReady : BOOLEAN,
     policy : Policies]

ASSUME ServiceAssumption ==
    /\ NoService \notin ServiceType
    /\ PortNumbers \subseteq Nat \ {0} /\ FreshNodePort \in PortNumbers
    /\ {"cross-service-name", "theirs"} \subseteq Labels
    /\ {Self, "kept"} \subseteq Values
    /\ {"", "Cluster", "Local"} \subseteq Policies

(* A label that names the CrossService is on every Service it makes. *)
OwnMeta == [k \in {"cross-service-name"} |-> Self]

(* The overlay wins over the base. *)
mergeMap(base, overlay) ==
    [k \in DOMAIN base \cup DOMAIN overlay |->
        IF k \in DOMAIN overlay THEN overlay[k] ELSE base[k]]

(* The desired Service: no selector (I1) and no target ports (I2). *)
Build(spec) ==
    [meta |-> mergeMap(OwnMeta, spec.meta),
     owner |-> Self,
     selector |-> FALSE,
     ports |-> [n \in DOMAIN spec.ports |->
                  [port |-> spec.ports[n], targetPort |-> 0, nodePort |-> 0]],
     exposed |-> FALSE,
     publishNotReady |-> spec.publishNotReady,
     policy |-> spec.policy]

(* Mutant: the desired ports replace the live ones. *)
mergePortsBlind(current, desired) == desired

(* What the API server has filled in on a port of that name is carried over.*)
mergePorts(current, desired) ==
    [n \in DOMAIN desired |->
        IF n \in DOMAIN current
        THEN [desired[n] EXCEPT !.targetPort = current[n].targetPort,
                                !.nodePort = current[n].nodePort]
        ELSE desired[n]]

(* Mutant: a selector on the live object is carried over. *)
MergeSelector(current, desired) ==
    [current EXCEPT
        !.meta = mergeMap(@, desired.meta),
        !.owner = desired.owner,
        !.ports = mergePorts(@, desired.ports),
        !.publishNotReady = desired.publishNotReady,
        !.policy = IF desired.policy # "" THEN desired.policy ELSE @]

(* The live object with everything in it that is the controller's to say. *)
Merge(current, desired) ==
    [current EXCEPT
        !.meta = mergeMap(@, desired.meta),
        !.owner = desired.owner,
        !.selector = FALSE,
        !.ports = mergePorts(@, desired.ports),
        !.publishNotReady = desired.publishNotReady,
        !.policy = IF desired.policy # "" THEN desired.policy ELSE @]

(* The API server fills in what a write leaves unset; the target port has  *)
(* no meaning without a selector but is filled in all the same.            *)
Defaulted(service) ==
    [service EXCEPT
        !.ports = [n \in DOMAIN service.ports |->
                     [service.ports[n] EXCEPT
                        !.targetPort = IF @ = 0 THEN service.ports[n].port ELSE @,
                        !.nodePort = IF service.exposed /\ @ = 0 THEN FreshNodePort ELSE @]],
        !.policy = IF @ = "" THEN "Cluster" ELSE @]

(* Nothing is left for the API server to fill in. *)
Complete(service) ==
    /\ \A n \in DOMAIN service.ports :
          /\ service.ports[n].targetPort # 0
          /\ service.exposed => service.ports[n].nodePort # 0
    /\ service.policy # ""
=============================================================================
