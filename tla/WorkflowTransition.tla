-------------------------- MODULE WorkflowTransition --------------------------
(***************************************************************************)
(* workflow_transition.py under READ COMMITTED: request_workflow_transition*)
(* called by concurrent clients, and apply_transition_in_transaction, its  *)
(* domain logic, called also by the orchestrator's Phase C in a            *)
(* transaction of its own that reserves no key and that it rolls back when *)
(* the transition is rejected.                                             *)
(*                                                                         *)
(* A rejected client request is committed, with its reason, so that it is  *)
(* replayed like a successful one.  As in ApprovedState, the writes of a   *)
(* transaction are made by its commit.  A text is the sequence of its      *)
(* parts between the separators "|": joining texts concatenates them.      *)
(***************************************************************************)
EXTENDS Integers, Sequences, FiniteSetsExt

CONSTANTS
    Client,         \* concurrent callers of request_workflow_transition
    Producer,       \* concurrent executions of Phase C
    Object, Version,
    ObjectOf,       \* object_version.object_id
    TargetOf,       \* agent_run.target_object_version_id of each producer's run
    Key,            \* idempotency keys
    Payload,        \* what clients ask
    MaxCrashes,     \* bound: callers that die in the middle of a request
    NoOne           \* nobody holds the lock; no row; no request; no key

Text == Seq(STRING)

ASSUME TransitionAssumption ==
    /\ ObjectOf \in [Version -> Object]
    /\ TargetOf \in [Producer -> Version]
    /\ \A q \in Payload :
          /\ q.object \in Object /\ q.version \in Version
          /\ {q.from, q.to, q.by} \subseteq Text
    /\ Client \intersect Producer = {}
    /\ MaxCrashes \in Nat
    /\ NoOne \notin Client \union Producer \union Key

VARIABLES
    \* committed rows
    status,         \* object_version.status
    transitions,    \* workflow_transition in commit order; an index is a transition_id
    operation,      \* idempotency_operation: hash and outcome, or NoOne
    \* PostgreSQL: uncommitted rows
    keyLock,        \* who has inserted the reservation of a key
    versionLock,    \* who has updated a version
    \* one request
    pc, ask,
    result,         \* its outcome and transition_id, 0 for none
    crashes

rows == <<status, transitions, operation>>
locks == <<keyLock, versionLock>>
vars == <<rows, locks, pc, ask, result, crashes>>

Caller == Client \union Producer

KnownStates == {<<s>> : s \in {
    "NOT_ELIGIBLE", "ELIGIBLE_PENDING", "DRAFT", "QA_IN_PROGRESS", "REVISION_REQUIRED",
    "QA_PASS_PROVISIONAL", "DEPENDENCY_RESOLUTION", "DEPENDENCY_BLOCKED",
    "ROUTING_RESOLUTION", "READY_FOR_HUMAN_APPROVAL", "APPROVED_CONTENT", "SUPERSEDED"}}

EligiblePending == <<"ELIGIBLE_PENDING">>
Draft == <<"DRAFT">>
EnabledTransitions == {<<EligiblePending, Draft>>}

Rejections == {<<"INVALID_OBJECT_VERSION", 0>>, <<"UNKNOWN_STATE", 0>>,
               <<"TRANSITION_NOT_ENABLED_THIS_ITERATION", 0>>, <<"STATE_CONFLICT", 0>>}
IdempotencyConflict == <<"IDEMPOTENCY_CONFLICT", 0>>
TaskTypeUnresolved == <<"TASK_TYPE_UNRESOLVED", 0>>
Committed(i) == <<"COMMITTED", i>>
NoResult == <<"", 0>>

\* What Phase C asks for the version its run targets.
ProducerPayload(v) == [object |-> ObjectOf[v], version |-> v, from |-> EligiblePending,
                       to |-> Draft, by |-> <<"agent_run">>]
AnyPayload == Payload \union {ProducerPayload(v) : v \in Version}

\* The digest of the joined fields.  The version is a UUID, so that it delimits an object_id
\* without a separator, which is what Object stands for (an object_id that contains one has
\* the same trouble); the three texts that follow are delimited only by the separator.
PayloadHash(q) == <<q.object, q.version, q.from \o q.to \o q.by>>
Hash == {PayloadHash(q) : q \in Payload}

ASSUME NoRowAssumption ==
    /\ NoOne \notin [hash : Hash, outcome : Rejections \union ({"COMMITTED"} \X Nat)]
    /\ NoOne \notin [payload : Hash, outcome : Rejections \union
                                ({"COMMITTED"} \X [key : Key, payload : Payload])]

TypeOK ==
    /\ status \in [Version -> KnownStates]
    /\ transitions \in Seq([key : Key \union {NoOne}, payload : AnyPayload])
    /\ \A k \in Key : operation[k] # NoOne =>
          /\ operation[k].hash \in Hash
          /\ operation[k].outcome \in Rejections \union ({"COMMITTED"} \X Nat)
    /\ keyLock \in [Key -> Client \union {NoOne}]
    /\ versionLock \in [Version -> Caller \union {NoOne}]
    /\ pc \in [Caller -> {"idle", "reserve", "replay", "apply", "record", "return"}]
    /\ ask \in [Caller -> [key : Key \union {NoOne}, payload : AnyPayload] \union {NoOne}]
    /\ \A p \in Caller :
          result[p] \in Rejections \union {IdempotencyConflict, TaskTypeUnresolved, NoResult}
                          \union ({"COMMITTED"} \X Nat)
    /\ crashes \in 0..MaxCrashes

\* Versions as version_creation.py makes them.
Init ==
    /\ status = [v \in Version |-> EligiblePending]
    /\ transitions = << >>
    /\ operation = [k \in Key |-> NoOne]
    /\ keyLock = [k \in Key |-> NoOne]
    /\ versionLock = [v \in Version |-> NoOne]
    /\ pc = [p \in Caller |-> "idle"]
    /\ ask = [p \in Caller |-> NoOne]
    /\ result = [p \in Caller |-> NoResult]
    /\ crashes = 0

-------------------------------------------------------------------------------
Goto(p, l) == pc' = [pc EXCEPT ![p] = l]
Result(p, outcome) == result' = [result EXCEPT ![p] = outcome]

\* COMMIT or ROLLBACK: whatever p has locked is free again.
Unlock(p) ==
    /\ keyLock' = [k \in Key |-> IF keyLock[k] = p THEN NoOne ELSE keyLock[k]]
    /\ versionLock' = [v \in Version |-> IF versionLock[v] = p THEN NoOne ELSE versionLock[v]]

\* A client asks for a transition under a key.
Request(p) ==
    /\ pc[p] = "idle"
    /\ \E k \in Key, q \in Payload : ask' = [ask EXCEPT ![p] = [key |-> k, payload |-> q]]
    /\ Goto(p, "reserve")
    /\ UNCHANGED <<rows, locks, result, crashes>>

\* Task Intake does not know the task_type: no table is touched, whatever was asked.
RequestUnknownTask(p) ==
    /\ pc[p] = "idle"
    /\ Goto(p, "return")
    /\ Result(p, TaskTypeUnresolved)
    /\ UNCHANGED <<rows, locks, ask, crashes>>

\* Phase C, authorised and with its content inserted, applies its transition.
PhaseC(p) ==
    /\ pc[p] = "idle"
    /\ ask' = [ask EXCEPT ![p] = [key |-> NoOne, payload |-> ProducerPayload(TargetOf[p])]]
    /\ Goto(p, "apply")
    /\ UNCHANGED <<rows, locks, result, crashes>>

\* Mutant: the reservation is looked up and inserted without a wait for the others.
ReserveWithoutWaiting(p) ==
    LET k == ask[p].key IN
    /\ pc[p] = "reserve"
    /\ \/ /\ operation[k] = NoOne
          /\ keyLock' = [keyLock EXCEPT ![k] = p]
          /\ Goto(p, "apply")
       \/ /\ operation[k] # NoOne
          /\ Goto(p, "replay")
          /\ UNCHANGED keyLock
    /\ UNCHANGED <<rows, versionLock, ask, result, crashes>>

Reserve(p) ==
    LET k == ask[p].key IN
    /\ pc[p] = "reserve"
    /\ keyLock[k] = NoOne
    /\ \/ /\ operation[k] = NoOne
          /\ keyLock' = [keyLock EXCEPT ![k] = p]
          /\ Goto(p, "apply")
       \/ /\ operation[k] # NoOne
          /\ Goto(p, "replay")
          /\ UNCHANGED keyLock
    /\ UNCHANGED <<rows, versionLock, ask, result, crashes>>

\* Mutant: another payload under the key is a reason to try again.
ReplayRetries(p) ==
    /\ pc[p] = "replay"
    /\ \/ /\ operation[ask[p].key].hash = PayloadHash(ask[p].payload)
          /\ Result(p, operation[ask[p].key].outcome)
          /\ Goto(p, "return")
       \/ /\ operation[ask[p].key].hash # PayloadHash(ask[p].payload)
          /\ Goto(p, "reserve")
          /\ UNCHANGED result
    /\ UNCHANGED <<rows, locks, ask, crashes>>

Replay(p) ==
    /\ pc[p] = "replay"
    /\ \/ /\ operation[ask[p].key].hash = PayloadHash(ask[p].payload)
          /\ Result(p, operation[ask[p].key].outcome)
       \/ /\ operation[ask[p].key].hash # PayloadHash(ask[p].payload)
          /\ Result(p, IdempotencyConflict)
    /\ Goto(p, "return")
    /\ UNCHANGED <<rows, locks, ask, crashes>>

\* The checks that need no lock, in the order of the code.
Refused(q) ==
    IF ObjectOf[q.version] # q.object THEN <<"INVALID_OBJECT_VERSION", 0>>
    ELSE IF {q.from, q.to} \subseteq KnownStates THEN <<"TRANSITION_NOT_ENABLED_THIS_ITERATION", 0>>
    ELSE <<"UNKNOWN_STATE", 0>>

\* Mutant: the transition does not have to be enabled.
AcceptableInAnyState(q) == ObjectOf[q.version] = q.object
Acceptable(q) ==
    /\ ObjectOf[q.version] = q.object
    /\ <<q.from, q.to>> \in EnabledTransitions

\* Mutant: UPDATE without the condition on the status.
ApplyToAnyStatus(p) ==
    LET q == ask[p].payload IN
    /\ pc[p] = "apply"
    /\ Goto(p, "record")
    /\ \/ /\ Acceptable(q)
          /\ versionLock[q.version] = NoOne
          /\ versionLock' = [versionLock EXCEPT ![q.version] = p]
          /\ Result(p, Committed(0))
       \/ /\ ~Acceptable(q)
          /\ Result(p, Refused(q))
          /\ UNCHANGED versionLock
    /\ UNCHANGED <<rows, keyLock, ask, crashes>>

\* Mutant: a version that another transaction is changing counts as changed.
ApplyOrGiveUp(p) ==
    LET q == ask[p].payload IN
    /\ pc[p] = "apply"
    /\ Goto(p, "record")
    /\ \/ /\ Acceptable(q) /\ status[q.version] = q.from /\ versionLock[q.version] = NoOne
          /\ versionLock' = [versionLock EXCEPT ![q.version] = p]
          /\ Result(p, Committed(0))
       \/ /\ Acceptable(q) /\ (status[q.version] # q.from \/ versionLock[q.version] # NoOne)
          /\ Result(p, <<"STATE_CONFLICT", 0>>)
          /\ UNCHANGED versionLock
       \/ /\ ~Acceptable(q)
          /\ Result(p, Refused(q))
          /\ UNCHANGED versionLock
    /\ UNCHANGED <<rows, keyLock, ask, crashes>>

\* apply_transition_in_transaction: the checks, and the UPDATE ... WHERE status = from,
\* which waits for a row that qualifies and is being updated, and then looks again.
Apply(p) ==
    LET q == ask[p].payload IN
    /\ pc[p] = "apply"
    /\ Goto(p, "record")
    /\ \/ /\ Acceptable(q) /\ status[q.version] = q.from
          /\ versionLock[q.version] = NoOne
          /\ versionLock' = [versionLock EXCEPT ![q.version] = p]
          /\ Result(p, Committed(0))
       \/ /\ Acceptable(q) /\ status[q.version] # q.from
          /\ Result(p, <<"STATE_CONFLICT", 0>>)
          /\ UNCHANGED versionLock
       \/ /\ ~Acceptable(q)
          /\ Result(p, Refused(q))
          /\ UNCHANGED versionLock
    /\ UNCHANGED <<rows, keyLock, ask, crashes>>

Decided(p, outcome) ==
    operation' = IF ask[p].key = NoOne
                 THEN operation
                 ELSE [operation EXCEPT ![ask[p].key] =
                         [hash |-> PayloadHash(ask[p].payload), outcome |-> outcome]]

\* The transition row, the reservation's final state, the COMMIT (Phase C's, for a
\* producer, whose own reservation was committed long before).
RecordTransition(p) ==
    /\ pc[p] = "record" /\ result[p] = Committed(0)
    /\ status' = [status EXCEPT ![ask[p].payload.version] = ask[p].payload.to]
    /\ transitions' = Append(transitions, ask[p])
    /\ Decided(p, Committed(Len(transitions) + 1))
    /\ Result(p, Committed(Len(transitions) + 1))
    /\ Goto(p, "return")
    /\ Unlock(p)
    /\ UNCHANGED <<ask, crashes>>

\* Mutant: a rejection is rolled back, reservation and all.
ForgetRejection(p) ==
    /\ pc[p] = "record" /\ result[p] # Committed(0)
    /\ Goto(p, "return")
    /\ Unlock(p)
    /\ UNCHANGED <<rows, ask, result, crashes>>

\* A client's rejection is committed (CR-27), Phase C is rolled back.
RecordRejection(p) ==
    /\ pc[p] = "record" /\ result[p] # Committed(0)
    /\ Decided(p, result[p])
    /\ Goto(p, "return")
    /\ Unlock(p)
    /\ UNCHANGED <<status, transitions, ask, result, crashes>>

Leave(p) ==
    /\ ask' = [ask EXCEPT ![p] = NoOne]
    /\ Result(p, NoResult)
    /\ Goto(p, "idle")

Receive(p) ==
    /\ pc[p] = "return"
    /\ Leave(p)
    /\ UNCHANGED <<rows, locks, crashes>>

Crash(p) ==
    /\ pc[p] # "idle"
    /\ crashes < MaxCrashes
    /\ crashes' = crashes + 1
    /\ Leave(p)
    /\ Unlock(p)
    /\ UNCHANGED rows

-------------------------------------------------------------------------------
Step(p) ==
    \/ Reserve(p) \/ Replay(p) \/ Apply(p) \/ RecordTransition(p) \/ RecordRejection(p)
    \/ Receive(p)

Next ==
    \/ \E p \in Caller : Step(p) \/ Crash(p)
    \/ \E p \in Client : Request(p) \/ RequestUnknownTask(p)
    \/ \E p \in Producer : PhaseC(p)

Spec == Init /\ [][Next]_vars

\* Statements return.  Nobody is overtaken for ever: a key is reserved until it is decided
\* and a version is updated once, so that whoever waits for either has it or its answer.
FairSpec == Spec /\ \A p \in Caller : WF_vars(Step(p))

-------------------------------------------------------------------------------
\* Safety.

\* The transitions of one version, and the status those before transition i have left it in.
TransitionsOf(v) == {i \in DOMAIN transitions : transitions[i].payload.version = v}

StatusBefore(v, i) ==
    LET earlier == {j \in TransitionsOf(v) : j < i} IN
    IF earlier = {} THEN EligiblePending ELSE transitions[Max(earlier)].payload.to

\* The lifecycle of a version is what its transitions say, whoever asked for them: each
\* starts where the one before it ended, and the status is where the last one ended.
LifecycleFollowsTransitions ==
    \A v \in Version :
        /\ \A i \in TransitionsOf(v) : transitions[i].payload.from = StatusBefore(v, i)
        /\ status[v] = StatusBefore(v, Len(transitions) + 1)

\* A key decides once, for good: the transitions made under a key are the one its
\* reservation names, and a reservation that can be seen is never CLAIMED.
OneDecisionPerKey ==
    /\ \A i \in DOMAIN transitions : transitions[i].key # NoOne =>
          operation[transitions[i].key] =
              [hash |-> PayloadHash(transitions[i].payload), outcome |-> Committed(i)]
    /\ \A k \in Key : operation[k] # NoOne /\ operation[k].outcome \notin Rejections =>
          /\ operation[k].outcome[2] \in DOMAIN transitions
          /\ transitions[operation[k].outcome[2]].key = k

\* compute_transition_payload_hash's docstring (CODE-CR-32): two different requesters are
\* not the same logical operation, so nobody is given another requester's transition.
RequestersAreDistinct ==
    \A p \in Client : pc[p] = "return" /\ result[p][1] = "COMMITTED" =>
        transitions[result[p][2]].payload.by = ask[p].payload.by

\* Remembering a rejection is sound: the version of a STATE_CONFLICT, on record or about
\* to be, has left the state it was expected in and does not come back, so that a replay
\* never denies what would now be granted.
ConflictsStayTrue ==
    /\ \A p \in Caller : result[p] = <<"STATE_CONFLICT", 0>> =>
          status[ask[p].payload.version] # ask[p].payload.from
    /\ \A k \in Key : operation[k] # NoOne =>
          (operation[k].outcome = <<"STATE_CONFLICT", 0>> =>
             status[operation[k].hash[2]] = Draft)

-------------------------------------------------------------------------------
\* Liveness: every request, and every Phase C, is answered.
RequestsAnswered == \A p \in Caller : pc[p] # "idle" ~> pc[p] = "idle"

-------------------------------------------------------------------------------
\* The reservations implement ExactlyOnce; an outcome is seen as the row it names.
Seen(outcome) ==
    IF outcome[1] = "COMMITTED" THEN <<"COMMITTED", transitions[outcome[2]]>> ELSE outcome

Record == [k \in Key |->
    IF operation[k] = NoOne
    THEN NoOne
    ELSE [payload |-> operation[k].hash, outcome |-> Seen(operation[k].outcome)]]

Told == [p \in Client |->
    IF pc[p] = "return" /\ result[p] # TaskTypeUnresolved
    THEN [key |-> ask[p].key, payload |-> PayloadHash(ask[p].payload), outcome |-> Seen(result[p])]
    ELSE NoOne]

Once == INSTANCE ExactlyOnce WITH
    Payload <- Hash,
    Outcome <- Rejections \union ({"COMMITTED"} \X [key : Key, payload : Payload]),
    Refusals <- {}, Conflict <- IdempotencyConflict,
    Undecided <- NoOne, Nothing <- NoOne, record <- Record, told <- Told

ExactlyOnceSpec == Once!OnceSpec
===============================================================================
