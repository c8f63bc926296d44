----------------------------- MODULE ExactlyOnce -----------------------------
(***************************************************************************)
(* What a row of idempotency_operation promises, whatever operation it     *)
(* protects: the first request decided under a key decides it for good,    *)
(* everyone who repeats that request is told the recorded outcome, and     *)
(* everyone who asks something else under the key is told so.  A refusal   *)
(* is an answer that leaves the key undecided.                             *)
(***************************************************************************)
CONSTANTS
    Client, Key,
    Payload,    \* what is asked under a key
    Outcome,    \* what is recorded under it
    Refusals,   \* outcomes that are answered and not recorded
    Conflict,   \* the answer to another payload under a decided key
    Undecided,  \* no row under the key
    Nothing     \* a client that has no answer

VARIABLES
    record,     \* for each key, the payload and the outcome it was decided with
    told        \* for each client, the key, the payload and the outcome of its answer

onceVars == <<record, told>>

Answer(c, k, payload, outcome) ==
    told' = [told EXCEPT ![c] = [key |-> k, payload |-> payload, outcome |-> outcome]]

OnceInit ==
    /\ record = [k \in Key |-> Undecided]
    /\ told = [c \in Client |-> Nothing]

Decide(c, k, payload) ==
    /\ record[k] = Undecided
    /\ \E outcome \in Outcome :
          /\ record' = [record EXCEPT ![k] = [payload |-> payload, outcome |-> outcome]]
          /\ Answer(c, k, payload, outcome)

Refuse(c, k, payload) ==
    /\ record[k] = Undecided
    /\ \E outcome \in Refusals : Answer(c, k, payload, outcome)
    /\ UNCHANGED record

Repeat(c, k, payload) ==
    /\ record[k] # Undecided
    /\ Answer(c, k, payload,
              IF record[k].payload = payload THEN record[k].outcome ELSE Conflict)
    /\ UNCHANGED record

\* The client goes away, with its answer or without it.
Leave(c) ==
    /\ told' = [told EXCEPT ![c] = Nothing]
    /\ UNCHANGED record

OnceNext ==
    \E c \in Client :
        \/ Leave(c)
        \/ \E k \in Key, payload \in Payload :
              Decide(c, k, payload) \/ Refuse(c, k, payload) \/ Repeat(c, k, payload)

OnceSpec == OnceInit /\ [][OnceNext]_onceVars
=============================================================================
