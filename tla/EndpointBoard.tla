---------------------------- MODULE EndpointBoard ----------------------------
(***************************************************************************)
(* What the EndpointSlices of one CrossService promise whoever reads them, *)
(* with names, packing, caches and versions left out: a reconcile takes    *)
(* the wanted endpoints as they are at one moment, every write adds only   *)
(* what it took, and the controller rests only where the slices show what  *)
(* is wanted.  Implemented by SliceWriter and by Publish.                  *)
(***************************************************************************)
CONSTANT Endpoints   \* an address with its condition, family and ports

VARIABLES
    shown,    \* what the labelled slices hold
    wanted,   \* what the source resolves to
    taken,    \* what the reconcile took and has yet to write
    due       \* a reconcile runs, is queued, or is about to be

vars == <<shown, wanted, taken, due>>

Init ==
    /\ shown = {}
    /\ wanted \subseteq Endpoints
    /\ taken = {}
    /\ due = TRUE

(* The source or the spec changes. *)
Change ==
    /\ wanted' \subseteq Endpoints
    /\ due' = TRUE
    /\ UNCHANGED <<shown, taken>>

(* A reconcile takes what is wanted now. *)
Take ==
    /\ due
    /\ taken' = wanted
    /\ UNCHANGED <<shown, wanted, due>>

(* A write shows nothing new but what was taken. *)
Write ==
    /\ due
    /\ shown' \subseteq shown \cup taken
    /\ taken' \subseteq taken
    /\ UNCHANGED <<wanted, due>>

(* A failed call, a conflict or a restart: there will be another reconcile. *)
Abandon ==
    /\ taken' = {}
    /\ due' = TRUE
    /\ UNCHANGED <<shown, wanted>>

(* Somebody takes endpoints off. *)
Tamper ==
    /\ shown' \subseteq shown
    /\ due' = TRUE
    /\ UNCHANGED <<wanted, taken>>

(* Nothing is left to do. *)
Rest ==
    /\ shown = wanted
    /\ taken' = {}
    /\ due' = FALSE
    /\ UNCHANGED <<shown, wanted>>

Next == Change \/ Take \/ Write \/ Abandon \/ Tamper \/ Rest

Spec == Init /\ [][Next]_vars
=============================================================================
