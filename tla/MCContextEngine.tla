--------------------------- MODULE MCContextEngine ---------------------------
(***************************************************************************)
(* Instances of ContextEngine and ProducerContext: a learning object t     *)
(* whose version t1 is approved and whose version t2 is still to come, its *)
(* activity a, its learning outcome l, and an object u that is not         *)
(* registered.                                                             *)
(***************************************************************************)
EXTENDS ProducerContext, TLC

CONSTANTS t, a, l, u, t1, t2, a1, l1

Types == t :> "LEARNING_OBJECT" @@ a :> "ACTIVITY" @@ l :> "LEARNING_OUTCOME"
Owner == t1 :> t @@ t2 :> t @@ a1 :> a @@ l1 :> l
Numbers == t1 :> 1 @@ t2 :> 2 @@ a1 :> 1 @@ l1 :> 1

\* The relations of t, and the activity standing where an outcome should.
Outcome == [from |-> t, type |-> "LEARNING_OUTCOME", to |-> l]
Parent == [from |-> t, type |-> "PARENT_ACTIVITY", to |-> a]
Misplaced == [from |-> t, type |-> "LEARNING_OUTCOME", to |-> a]
Links == {Outcome, Parent, Misplaced}
Sources == {[id |-> i, object |-> t, class |-> "E1"] : i \in 1..2}

\* Everything is there, with t2 and the outcome to be approved; or the outcome is approved but
\* nothing is linked except wrongly, t2 is to come and so may be an earlier source.
Start(second, outcome, links, sources) ==
    [pointer |-> t :> t1 @@ a :> a1 @@ l :> outcome @@ u :> Null,
     status |-> t1 :> "APPROVED_CONTENT" @@ t2 :> second @@ a1 :> "DRAFT" @@ l1 :> "DRAFT",
     relation |-> links,
     evidence |-> sources]
Started == {Start("ELIGIBLE_PENDING", Null, {Outcome, Parent}, Sources),
            Start(Null, l1, {Misplaced}, {s \in Sources : s.id = 2})}

\* With and without a pin: on the approved version, which may be superseded, and on the
\* one that does not exist or is not approved; and the unknown object.
Ask(o, v) == [object |-> o, pinned |-> v]
Asks == {Ask(t, Null), Ask(t, t1), Ask(t, t2), Ask(u, Null)}

Interchangeable == Permutations(Proc)
===============================================================================
