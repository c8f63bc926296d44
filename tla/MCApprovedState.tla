--------------------------- MODULE MCApprovedState ---------------------------
(***************************************************************************)
(* Instances of ApprovedState: one object with two versions, and a second  *)
(* object whose version callers may name for the first one.                *)
(***************************************************************************)
EXTENDS ApprovedState, TLC

CONSTANTS o1, o2, v1, v2, w1

VersionOwner == v1 :> o1 @@ v2 :> o1 @@ w1 :> o2

Ask(o, v, e) == [object |-> o, version |-> v, expected |-> e]

\* A first approval, one over it, one over that, and a version of another object.
Asks == {Ask(o1, v1, Null), Ask(o1, v2, v1), Ask(o1, v1, v2), Ask(o1, w1, Null)}
=============================================================================
