---------------------------- MODULE SlicePacking ----------------------------
(***************************************************************************)
(* planSlices alone: from any slices a Service may have (left by another   *)
(* limit, by stale reconciles or by hand) and any resolved list, one plan  *)
(* carried out in full, the source changing in between.                    *)
(***************************************************************************)
EXTENDS SlicePlan

CONSTANTS
    Layouts,     \* slice maps to start from
    Lists        \* resolved lists

ASSUME LayoutsAssumption ==
    /\ \A l \in Layouts : /\ IsFiniteSet(DOMAIN l) /\ DOMAIN l \subseteq Name
                          /\ \A n \in DOMAIN l : l[n] \in Slice /\ l[n].listed
    /\ Lists \subseteq Resolved

VARIABLES
    slices,      \* the slices on the server, and all listed
    resolved,    \* the list they are to present
    earlier,     \* the list the last plan was made for
    settled      \* a plan has been carried out since the last change

vars == <<slices, resolved, earlier, settled>>

Init ==
    /\ slices \in Layouts
    /\ resolved \in Lists
    /\ earlier = resolved
    /\ settled = FALSE

(* A plan carried out in full: writes, then deletions of the orphans. *)
CarriedOut(there, plan) ==
    [n \in (DOMAIN there \ (plan.foreign \cup plan.emptied)) \cup DOMAIN plan.write |->
        IF n \in DOMAIN plan.write THEN plan.write[n] ELSE there[n]]

(* Everything Writer.Reconcile does when no call fails. *)
Reconcile ==
    /\ slices' = CarriedOut(slices, planSlices(slices, resolved))
    /\ earlier' = resolved
    /\ settled' = TRUE
    /\ UNCHANGED resolved

(* The endpoints that are not the same in two lists. *)
Differing(r1, r2) ==
    {a \in Addresses : IF a \in DOMAIN r1 \cap DOMAIN r2
                       THEN r1[a] # r2[a]
                       ELSE a \in DOMAIN r1 \cup DOMAIN r2}

(* One endpoint comes, goes or changes its condition. *)
OneChange(r1, r2) ==
    /\ Cardinality(Differing(r1, r2)) = 1
    /\ \A a \in DOMAIN r1 \cap DOMAIN r2 : r1[a].ports = r2[a].ports

Change ==
    /\ settled
    /\ settled' = FALSE
    /\ \E r \in Lists : OneChange(resolved, r) /\ resolved' = r
    /\ UNCHANGED <<slices, earlier>>

Next == Reconcile \/ Change

Spec == Init /\ [][Next]_vars

-----------------------------------------------------------------------------

(* Names that one step of the plan wrote. *)
Touched == {n \in DOMAIN slices \cup DOMAIN slices' :
              ~(n \in DOMAIN slices /\ n \in DOMAIN slices' /\ slices'[n] = slices[n])}

(* From any slices at all, one plan carried out presents the resolved list.*)
PlanPresents == [][resolved' = resolved => Presents(slices', resolved)]_vars

(* Slices that present a list are left alone while the list is the same    *)
(* (I7), and one endpoint coming, going or changing its condition costs at *)
(* most one write (I12).                                                   *)
OneChangeOneWrite ==
    [][resolved' = resolved /\ Presents(slices, earlier) =>
         Cardinality(Touched) <= (IF resolved = earlier THEN 0 ELSE 1)]_vars

(* An endpoint that stays wanted stays on a slice with room for it: it only*)
(* leaves a slice that is over the limit, or one of two that hold it.      *)
PlanRetains ==
    [][resolved' = resolved =>
        \A n \in DOMAIN slices : \A a \in DOMAIN slices[n].eps :
           /\ a \in Reachable(resolved) /\ GroupKey(resolved, a) = slices[n].group
           /\ Cardinality(DOMAIN slices[n].eps) <= maxPer
           /\ \A m \in DOMAIN slices : Before(m, n) => a \notin DOMAIN slices[m].eps
           => n \in DOMAIN slices' /\ a \in DOMAIN slices'[n].eps]_vars
=============================================================================
