---------------------------- MODULE MCSliceWriter ----------------------------
(* Small instances of SliceWriter for TLC. *)
EXTENDS SliceWriter

MCFamilyOf == [a \in Addresses |-> IF a < 10 THEN 4 ELSE 6]

(* Address 2 may move to another port, flip its condition or go. *)
MCMoving ==
    {[a \in S |-> [ports |-> IF a = 2 THEN p ELSE 1, cond |-> IF a = 2 THEN c ELSE "ready"]] :
        S \in {{1, 3}, {1, 2, 3}, {1, 2, 3, 11}}, p \in {1, 2, Unreachable}, c \in {"ready", "notReady"}}
=============================================================================
