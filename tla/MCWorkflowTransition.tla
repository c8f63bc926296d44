------------------------- MODULE MCWorkflowTransition -------------------------
(***************************************************************************)
(* Instances of WorkflowTransition: one version of each of two objects.    *)
(***************************************************************************)
EXTENDS WorkflowTransition, TLC

CONSTANTS o1, o2, v1, w1

RunTarget == [p \in Producer |-> v1]
VersionOwner == v1 :> o1 @@ w1 :> o2

Ask(o, v, from, to, by) == [object |-> o, version |-> v, from |-> from, to |-> to, by |-> by]
Ana == <<"ana">>
Bea == <<"bea">>

\* The transition, one for a version of another object, one to a state that does not exist,
\* one that is not enabled.
Plain ==
    {Ask(o1, v1, EligiblePending, Draft, Ana), Ask(o1, w1, EligiblePending, Draft, Bea),
     Ask(o1, v1, EligiblePending, <<"REVIEWED">>, Ana), Ask(o1, v1, Draft, <<"APPROVED_CONTENT">>, Ana)}

\* Two requesters, one of whose names contains the separator.
Separators ==
    {Ask(o1, v1, EligiblePending, Draft, <<"ana", "bea">>),
     Ask(o1, v1, EligiblePending, <<"DRAFT", "ana">>, Bea)}
===============================================================================
