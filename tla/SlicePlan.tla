------------------------------ MODULE SlicePlan ------------------------------
(***************************************************************************)
(* internal/endpoints/group.go and planSlices of slice.go: how a resolved  *)
(* endpoint list is partitioned into groups, and the groups into slices.   *)
(*                                                                         *)
(* An address is a number, compared as netip.Addr.Compare does.  A resolved*)
(* list (after Dedupe) is a function from addresses to the port tuple and  *)
(* the condition of the endpoint.  A slice name "<service>-<family>-<n>" is*)
(* the pair <<family, n>>; names compare as pairs, as the strings do for n *)
(* below ten.                                                              *)
(***************************************************************************)
EXTENDS Integers, FiniteSets

CONSTANTS
    Addresses,    \* the addresses, numbers
    FamilyOf,     \* AddressTypeOf: address -> 4 or 6
    PortTuples,   \* port tuples, numbered in the order of their keys
    Unreachable,  \* the empty port tuple: no declared port resolved
    Conditions,   \* endpoint conditions
    IPFamilies,   \* the families spec.ipFamilyPolicy allows
    maxPer        \* Writer.MaxEndpointsPerSlice

ASSUME PlanAssumption == Addresses \subseteq Nat /\ PortTuples \subseteq Nat
                         /\ Unreachable \notin PortTuples /\ maxPer \in Nat \ {0}
                         /\ IsFiniteSet(Addresses) /\ FamilyOf \in [Addresses -> {4, 6}]

Group == [family : {4, 6}, ports : PortTuples]

Name == {4, 6} \X Nat

(* The endpoints of a slice; buildSlice writes them in address order. *)
Entries == UNION {[S -> Conditions] : S \in SUBSET Addresses}

(* A slice as the API server holds it.  listed: the two labels that        *)
(* Writer.list selects on are there.                                       *)
Slice == [group : Group, eps : Entries, listed : BOOLEAN]

Resolved == UNION {[S -> [ports : PortTuples \cup {Unreachable}, cond : Conditions]] :
                     S \in SUBSET Addresses}

Before(m, n) == m[1] < n[1] \/ (m[1] = n[1] /\ m[2] < n[2])

(* The n smallest elements of S. *)
FirstN(S, n) == {a \in S : Cardinality({b \in S : b < a}) < n}

-----------------------------------------------------------------------------

(* FamilyFilter.Allows, AddressTypeOf and portTupleFor: the group of an    *)
(* address, if it is written at all.                                       *)
Reachable(resolved) ==
    {a \in DOMAIN resolved : FamilyOf[a] \in IPFamilies /\ resolved[a].ports # Unreachable}

GroupKey(resolved, a) == [family |-> FamilyOf[a], ports |-> resolved[a].ports]

(* GroupEndpoints: group -> addresses, for the groups that are not empty. *)
GroupEndpoints(resolved) ==
    [g \in {GroupKey(resolved, a) : a \in Reachable(resolved)} |->
        {a \in Reachable(resolved) : GroupKey(resolved, a) = g}]

(* The slices of one group. *)
Owned(existing, g) == {n \in DOMAIN existing : existing[n].group = g}

(* A pass over the slices D in name order: each takes what it may of what  *)
(* is wanted and not taken yet, as far as it has room.                     *)
Pass(D, may, wanted, room) ==
    LET taken[n \in D] ==
            FirstN(may[n] \cap (wanted \ UNION {taken[m] : m \in {k \in D : Before(k, n)}}), room[n])
    IN  taken

(* Mutant: no pass 1, everything is sorted and packed anew. *)
RetainedNowhere(existing, g, wanted) == [n \in Owned(existing, g) |-> {}]

(* Pass 1: an endpoint stays on the first slice that carries it. *)
Retained(existing, g, wanted) ==
    LET D == Owned(existing, g)
    IN  Pass(D, [n \in D |-> DOMAIN existing[n].eps], wanted, [n \in D |-> maxPer])

(* Pass 2: what is left over fills spare capacity. *)
Filled(existing, g, wanted) ==
    LET D     == Owned(existing, g)
        kept  == Retained(existing, g, wanted)
        left  == wanted \ UNION {kept[n] : n \in D}
        extra == Pass(D, [n \in D |-> left], left, [n \in D |-> maxPer - Cardinality(kept[n])])
    IN  [n \in D |-> kept[n] \cup extra[n]]

(* Pass 3: what is still unplaced, in chunks of maxPer. *)
Chunks(existing, g, wanted) ==
    LET full == Filled(existing, g, wanted)
        rest == wanted \ UNION {full[n] : n \in Owned(existing, g)}
        rank(a) == Cardinality({b \in rest : b < a})
    IN  [k \in {rank(a) \div maxPer : a \in rest} |->
            {a \in rest : rank(a) \div maxPer = k}]

(* Mutant: the names in use are not looked at. *)
FreeNumberBlind(existing, family, k) == k

(* nextSliceName: the k-th number that no listed slice of the family uses. *)
FreeNumber(existing, family, k) ==
    LET used == {n[2] : n \in {m \in DOMAIN existing : m[1] = family}}
    IN  CHOOSE n \in 0 .. k + Cardinality(used) :
            n \notin used /\ Cardinality((0 .. n - 1) \ used) = k

(* What the existing slices of wanted groups are to hold. *)
Held(existing, groups) ==
    LET full == [g \in DOMAIN groups |-> Filled(existing, g, groups[g])]
    IN  [n \in {m \in DOMAIN existing : existing[m].group \in DOMAIN groups} |->
            full[existing[n].group][n]]

(* The chunks that need a new slice, <<g, k>> being chunk k of group g, and*)
(* their names: groups are gone through in order, and number their chunks  *)
(* per family.                                                             *)
Fresh(existing, groups) ==
    LET chunks == [g \in DOMAIN groups |-> Chunks(existing, g, groups[g])]
        ids    == UNION {{g} \X DOMAIN chunks[g] : g \in DOMAIN groups}
    IN  [id \in ids |-> chunks[id[1]][id[2]]]

Earlier(id1, id2) ==
    /\ id1[1].family = id2[1].family
    /\ id1[1].ports < id2[1].ports \/ (id1[1] = id2[1] /\ id1[2] < id2[2])

FreshName(existing, ids, id) ==
    <<id[1].family,
      FreeNumber(existing, id[1].family, Cardinality({i \in ids : Earlier(i, id)}))>>

SliceOf(g, addrs, resolved) ==
    [group |-> g, listed |-> TRUE, eps |-> [a \in addrs |-> resolved[a].cond]]

(* The chunk that a fresh name was made for. *)
IdOf(existing, ids, n) == CHOOSE id \in ids : FreshName(existing, ids, id) = n

(* The slices to write: the ones that are to hold something, and the fresh *)
(* ones.                                                                   *)
Contents(existing, held, fresh, resolved) ==
    LET ids  == DOMAIN fresh
        kept == {n \in DOMAIN held : held[n] # {}}
    IN  [n \in kept \cup {FreshName(existing, ids, id) : id \in ids} |->
            IF n \in DOMAIN held
            THEN SliceOf(existing[n].group, held[n], resolved)
            ELSE SliceOf(IdOf(existing, ids, n)[1], fresh[IdOf(existing, ids, n)], resolved)]

(* A plan: the contents per slice name, and the orphans: the slices of no  *)
(* wanted group, and the ones left empty.                                  *)
planSlices(existing, resolved) ==
    LET groups == GroupEndpoints(resolved)
        held   == Held(existing, groups)
    IN  [write   |-> Contents(existing, held, Fresh(existing, groups), resolved),
         foreign |-> DOMAIN existing \ DOMAIN held,
         emptied |-> {n \in DOMAIN held : held[n] = {}}]

-----------------------------------------------------------------------------

(* The slices hold every endpoint of r exactly once, under its own group,  *)
(* nothing else, no empty slice and no slice over the limit.               *)
Presents(slices, r) ==
    /\ \A a \in Reachable(r) : \E n \in DOMAIN slices :
          /\ a \in DOMAIN slices[n].eps
          /\ slices[n].eps[a] = r[a].cond
          /\ slices[n].group = GroupKey(r, a)
          /\ \A m \in DOMAIN slices : a \in DOMAIN slices[m].eps => m = n
    /\ \A n \in DOMAIN slices :
          /\ DOMAIN slices[n].eps # {}
          /\ DOMAIN slices[n].eps \subseteq Reachable(r)
          /\ Cardinality(DOMAIN slices[n].eps) <= maxPer
=============================================================================
