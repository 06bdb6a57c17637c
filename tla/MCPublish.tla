------------------------------ MODULE MCPublish ------------------------------
(* A small instance of Publish for TLC. *)
EXTENDS Publish, TLC

MCFamilyOf == [a \in Addresses |-> 4]

MCSpecs ==
    {[ports |-> ("http" :> 80), tuple |-> 1, meta |-> ("team" :> "a"), policy |-> "",
      publishNotReady |-> FALSE],
     [ports |-> ("http" :> 81) @@ ("admin" :> 90), tuple |-> 2, meta |-> ("team" :> "b"),
      policy |-> "Cluster", publishNotReady |-> TRUE]}

MCResults == {ResultFor(s) : s \in MCSpecs}

(* No Service, or one that somebody else made. *)
MCFound ==
    {NoService,
     [meta |-> ("theirs" :> "kept"), owner |-> "nobody", selector |-> TRUE, exposed |-> FALSE,
      ports |-> ("http" :> [port |-> 80, targetPort |-> 8080, nodePort |-> 0]),
      publishNotReady |-> FALSE, policy |-> "Cluster"]}
=============================================================================
