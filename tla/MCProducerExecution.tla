-------------------------- MODULE MCProducerExecution --------------------------
(***************************************************************************)
(* Instances of ProducerExecution: requests for two objects, one of them   *)
(* with two configurations.                                                *)
(***************************************************************************)
EXTENDS ProducerExecution, TLC

CONSTANTS o1, o2

ThreeIdentities ==
    {[object |-> o1, configuration |-> "a"], [object |-> o1, configuration |-> "b"],
     [object |-> o2, configuration |-> "a"]}

OneIdentity == {[object |-> o1, configuration |-> "a"]}

Interchangeable == Permutations(Proc) \union Permutations(Key)
================================================================================
