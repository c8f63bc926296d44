--------------------------- MODULE ProducerExecution ---------------------------
(***************************************************************************)
(* request_producer_execution (orchestrator.py): how concurrent requests   *)
(* under idempotency keys find or create the one run of their key.  The    *)
(* preflight, the assembly of the context, Phase A (version_creation.py,   *)
(* create_agent_run) with the race for the reservation, and the hand-over  *)
(* to Phase B.                                                             *)
(*                                                                         *)
(* assemble_context is one step that decides its own key for good, and     *)
(* Phases B and C one step that may end the run.  The writes of a          *)
(* transaction are made by its commit; until then it holds locks.          *)
(***************************************************************************)
EXTENDS Integers, Sequences, FiniteSetsExt

CONSTANTS
    Proc,           \* concurrent callers, each with a SQLAlchemy session of its own
    Object,
    Key,            \* idempotency keys
    Identity,       \* pre-context identities: a target object and a configuration
    MaxCrashes,     \* bound: callers that die in the middle of a request
    NoOne           \* nobody holds the lock; no row; no request

ASSUME ExecutionAssumption ==
    /\ \A q \in Identity : q.object \in Object
    /\ MaxCrashes \in Nat
    /\ NoOne \notin Proc
    /\ NoOne \notin [object : Object, assembled : BOOLEAN]
    /\ NoOne \notin [hash : Identity, run : Nat]
    /\ NoOne \notin [payload : Identity, outcome : {"run"} \X Nat]

VARIABLES
    \* committed rows
    versions,       \* object_version with its content; an index is an object_version_id
    runs,           \* agent_run; an index is a logical_run_id
    context,        \* idempotency_operation CONTEXT_ASSEMBLY under "context-for:<key>"
    operation,      \* idempotency_operation PRODUCER_EXECUTION
    \* PostgreSQL
    objectLock,     \* who has locked an instructional_object row
    keyLock,        \* who has inserted the reservation of a key
    \* one request
    pc, ask,
    round,          \* iterations of the ownership loop
    target,         \* the version Phase A has chosen: its id, 0 if it is to be created, and number
    myRun,          \* the run that was resolved
    inTransaction,  \* session.in_transaction()
    result,
    crashes

rows == <<versions, runs, context, operation>>
locks == <<objectLock, keyLock>>
locals == <<pc, ask, round, target, myRun, inTransaction, result>>
vars == <<rows, locks, locals, crashes>>

MaxOwnershipRetries == 5
Rejected == 0       \* operation[k].run of a REJECTED reservation: there is none
NoTarget == [id |-> 0, number |-> 0]

TypeOK ==
    /\ versions \in Seq([object : Object, number : Nat \ {0},
                         status : {"ELIGIBLE_PENDING", "DRAFT"}, content : Nat])
    /\ runs \in Seq([key : Key, object : Object, version : Nat \ {0},
                     status : {"ACTIVE", "SUCCEEDED", "FAILED"}])
    /\ context \in [Key -> [object : Object, assembled : BOOLEAN] \union {NoOne}]
    /\ operation \in [Key -> [hash : Identity, run : Nat] \union {NoOne}]
    /\ objectLock \in [Object -> Proc \union {NoOne}]
    /\ keyLock \in [Key -> Proc \union {NoOne}]
    /\ pc \in [Proc -> {"idle", "preflight", "assemble", "reject", "lockObject", "version",
                        "reserve", "commit", "snapshot", "phaseB", "return"}]
    /\ ask \in [Proc -> [key : Key, identity : Identity] \union {NoOne}]
    /\ round \in [Proc -> 0..MaxOwnershipRetries]
    /\ target \in [Proc -> [id : Nat, number : Nat]]
    /\ myRun \in [Proc -> Nat]
    /\ inTransaction \in [Proc -> BOOLEAN]
    /\ result \in [Proc -> {"none", "SUCCEEDED", "FAILED", "PENDING_POLL_TIMEOUT",
                            "IDEMPOTENCY_CONFLICT", "INVALID_CONTEXT_PACKAGE", "RuntimeError"}]
    /\ crashes \in 0..MaxCrashes

Init ==
    /\ versions = << >> /\ runs = << >>
    /\ context = [k \in Key |-> NoOne] /\ operation = [k \in Key |-> NoOne]
    /\ objectLock = [o \in Object |-> NoOne] /\ keyLock = [k \in Key |-> NoOne]
    /\ pc = [p \in Proc |-> "idle"]
    /\ ask = [p \in Proc |-> NoOne]
    /\ round = [p \in Proc |-> 0]
    /\ target = [p \in Proc |-> NoTarget] /\ myRun = [p \in Proc |-> 0]
    /\ inTransaction = [p \in Proc |-> FALSE]
    /\ result = [p \in Proc |-> "none"]
    /\ crashes = 0

-------------------------------------------------------------------------------
Goto(p, l) == pc' = [pc EXCEPT ![p] = l]

Return(p, outcome) ==
    /\ Goto(p, "return")
    /\ result' = [result EXCEPT ![p] = outcome]

\* The session begins a transaction with its first statement, and ends it.
Begin(p) == inTransaction' = [inTransaction EXCEPT ![p] = TRUE]
End(p) == inTransaction' = [inTransaction EXCEPT ![p] = FALSE]

Unlock(p) ==
    /\ objectLock' = [o \in Object |-> IF objectLock[o] = p THEN NoOne ELSE objectLock[o]]
    /\ keyLock' = [k \in Key |-> IF keyLock[k] = p THEN NoOne ELSE keyLock[k]]

\* continue: the next iteration of the ownership loop, or its else.
TryAgain(p) ==
    \/ /\ round[p] < MaxOwnershipRetries
       /\ round' = [round EXCEPT ![p] = @ + 1]
       /\ Goto(p, "preflight")
       /\ UNCHANGED result
    \/ /\ round[p] = MaxOwnershipRetries
       /\ Return(p, "RuntimeError")
       /\ UNCHANGED round

Request(p) ==
    /\ pc[p] = "idle"
    /\ \E k \in Key, q \in Identity : ask' = [ask EXCEPT ![p] = [key |-> k, identity |-> q]]
    /\ round' = [round EXCEPT ![p] = 1]
    /\ Goto(p, "preflight")
    /\ UNCHANGED <<rows, locks, target, myRun, inTransaction, result, crashes>>

\* Mutant: any row of the key is replayed, whoever asked for it.
PreflightAnyIdentity(p) ==
    LET found == operation[ask[p].key] IN
    /\ pc[p] = "preflight"
    /\ \/ /\ found = NoOne
          /\ Goto(p, "assemble") /\ End(p)
          /\ UNCHANGED <<myRun, result>>
       \/ /\ found # NoOne /\ Begin(p)
          /\ \/ found.run = Rejected /\ Return(p, "INVALID_CONTEXT_PACKAGE") /\ UNCHANGED myRun
             \/ /\ found.run # Rejected
                /\ myRun' = [myRun EXCEPT ![p] = found.run]
                /\ Goto(p, "snapshot")
                /\ UNCHANGED result
    /\ UNCHANGED <<rows, locks, ask, round, target, crashes>>

\* Mutant: a rejected row is not replayed but tried again.
PreflightForgetsRejections(p) ==
    LET found == operation[ask[p].key] IN
    /\ pc[p] = "preflight"
    /\ \/ /\ IF found = NoOne THEN TRUE ELSE found.run = Rejected
          /\ Goto(p, "assemble") /\ End(p)
          /\ UNCHANGED <<myRun, result>>
       \/ /\ found # NoOne /\ found.hash # ask[p].identity /\ found.run # Rejected
          /\ Return(p, "IDEMPOTENCY_CONFLICT") /\ Begin(p)
          /\ UNCHANGED myRun
       \/ /\ found # NoOne /\ found.hash = ask[p].identity /\ found.run # Rejected
          /\ myRun' = [myRun EXCEPT ![p] = found.run]
          /\ Goto(p, "snapshot") /\ Begin(p)
          /\ UNCHANGED result
    /\ UNCHANGED <<rows, locks, ask, round, target, crashes>>

\* The row of the key, read and rolled back.  The rollback expires the object that was
\* read, so the first use of its attributes selects it again, in a new transaction.
Preflight(p) ==
    LET found == operation[ask[p].key] IN
    /\ pc[p] = "preflight"
    /\ \/ /\ found = NoOne
          /\ Goto(p, "assemble") /\ End(p)
          /\ UNCHANGED <<myRun, result>>
       \/ /\ found # NoOne /\ found.hash # ask[p].identity
          /\ Return(p, "IDEMPOTENCY_CONFLICT") /\ Begin(p)
          /\ UNCHANGED myRun
       \/ /\ found # NoOne /\ found.hash = ask[p].identity /\ found.run = Rejected
          /\ Return(p, "INVALID_CONTEXT_PACKAGE") /\ Begin(p)
          /\ UNCHANGED myRun
       \/ /\ found # NoOne /\ found.hash = ask[p].identity /\ found.run # Rejected
          /\ myRun' = [myRun EXCEPT ![p] = found.run]
          /\ Goto(p, "snapshot") /\ Begin(p)
          /\ UNCHANGED result
    /\ UNCHANGED <<rows, locks, ask, round, target, crashes>>

\* Mutant: a package assembled for another object is taken for this one.
AssembleForAnyObject(p) ==
    LET k == ask[p].key IN
    /\ pc[p] = "assemble"
    /\ \/ /\ context[k] = NoOne
          /\ \E assembled \in BOOLEAN :
                /\ context' = [context EXCEPT ![k] =
                                 [object |-> ask[p].identity.object, assembled |-> assembled]]
                /\ Goto(p, IF assembled THEN "lockObject" ELSE "reject")
       \/ /\ context[k] # NoOne
          /\ Goto(p, IF context[k].assembled THEN "lockObject" ELSE "reject")
          /\ UNCHANGED context
    /\ UNCHANGED <<versions, runs, operation, locks, ask, round, target, myRun, inTransaction,
                   result, crashes>>

\* assemble_context under the derived key, whose payload is the target object: decided,
\* replayed, or in conflict with a request for another object.  (Its insertion of a package
\* shares a foreign key with the object that LockObject locks, and waits for that lock; the
\* step does not: it may come earlier than it could, and what it does is the same later.)
Assemble(p) ==
    LET k == ask[p].key IN
    /\ pc[p] = "assemble"
    /\ \/ /\ context[k] = NoOne
          /\ \E assembled \in BOOLEAN :
                /\ context' = [context EXCEPT ![k] =
                                 [object |-> ask[p].identity.object, assembled |-> assembled]]
                /\ Goto(p, IF assembled THEN "lockObject" ELSE "reject")
          /\ UNCHANGED result
       \/ /\ context[k] # NoOne /\ context[k].object = ask[p].identity.object
          /\ Goto(p, IF context[k].assembled THEN "lockObject" ELSE "reject")
          /\ UNCHANGED <<context, result>>
       \/ /\ context[k] # NoOne /\ context[k].object # ask[p].identity.object
          /\ Return(p, "IDEMPOTENCY_CONFLICT")
          /\ UNCHANGED context
    /\ UNCHANGED <<versions, runs, operation, locks, ask, round, target, myRun, inTransaction,
                   crashes>>

\* Mutant: the insertion of the rejection is tried again, without a new preflight.
RejectRetries(p) ==
    LET k == ask[p].key IN
    /\ pc[p] = "reject"
    /\ keyLock[k] = NoOne
    /\ operation[k] = NoOne
    /\ operation' = [operation EXCEPT ![k] = [hash |-> ask[p].identity, run |-> Rejected]]
    /\ Return(p, "INVALID_CONTEXT_PACKAGE")
    /\ UNCHANGED <<versions, runs, context, locks, ask, round, target, myRun, inTransaction, crashes>>

\* The rejection of the context is committed under the key, unless another request has
\* resolved the key meanwhile.
Reject(p) ==
    LET k == ask[p].key IN
    /\ pc[p] = "reject"
    /\ keyLock[k] = NoOne
    /\ \/ /\ operation[k] = NoOne
          /\ operation' = [operation EXCEPT ![k] = [hash |-> ask[p].identity, run |-> Rejected]]
          /\ Return(p, "INVALID_CONTEXT_PACKAGE")
          /\ UNCHANGED round
       \/ /\ operation[k] # NoOne
          /\ TryAgain(p)
          /\ UNCHANGED operation
    /\ UNCHANGED <<versions, runs, context, locks, ask, target, myRun, inTransaction, crashes>>

-------------------------------------------------------------------------------
\* Phase A.

\* Mutant: Phase A without lock_instructional_object.
LockNothing(p) ==
    /\ pc[p] = "lockObject"
    /\ Begin(p)
    /\ Goto(p, "version")
    /\ UNCHANGED <<rows, locks, ask, round, target, myRun, result, crashes>>

LockObject(p) ==
    LET o == ask[p].identity.object IN
    /\ pc[p] = "lockObject"
    /\ objectLock[o] = NoOne
    /\ objectLock' = [objectLock EXCEPT ![o] = p]
    /\ Begin(p)
    /\ Goto(p, "version")
    /\ UNCHANGED <<rows, keyLock, ask, round, target, myRun, result, crashes>>

\* Mutant: a version with an active run may be used again.
ReusableWhileActive(o) ==
    {v \in DOMAIN versions :
        versions[v].object = o /\ versions[v].status = "ELIGIBLE_PENDING" /\ versions[v].content = 0}

\* The versions of an object that Phase A may use again.
Reusable(o) ==
    {v \in DOMAIN versions :
        /\ versions[v].object = o
        /\ versions[v].status = "ELIGIBLE_PENDING"
        /\ versions[v].content = 0
        /\ ~\E r \in DOMAIN runs : runs[r].version = v /\ runs[r].status = "ACTIVE"}

\* Mutant: max(version_number) of the object.
LastVersionNumber(o) ==
    Max({0} \union {versions[v].number : v \in {w \in DOMAIN versions : versions[w].object = o}})

\* max(version_number) + 1 of the object.
NextVersionNumber(o) ==
    Max({0} \union {versions[v].number : v \in {w \in DOMAIN versions : versions[w].object = o}}) + 1

\* resolve_or_create_object_version: the oldest version that may be used again, or a new
\* one with the next number.
ChooseVersion(p) ==
    LET o == ask[p].identity.object IN
    /\ pc[p] = "version"
    /\ \/ /\ Reusable(o) = {}
          /\ target' = [target EXCEPT ![p] = [id |-> 0, number |-> NextVersionNumber(o)]]
       \/ \E v \in Reusable(o) :
             /\ \A w \in Reusable(o) : versions[v].number <= versions[w].number
             /\ target' = [target EXCEPT ![p] = [id |-> v, number |-> versions[v].number]]
    /\ Goto(p, "reserve")
    /\ UNCHANGED <<rows, locks, ask, round, myRun, inTransaction, result, crashes>>

\* Mutant: the reservation is made over one that another request has committed.
ReserveAgain(p) ==
    LET k == ask[p].key IN
    /\ pc[p] = "reserve"
    /\ keyLock[k] = NoOne
    /\ keyLock' = [keyLock EXCEPT ![k] = p]
    /\ Goto(p, "commit")
    /\ UNCHANGED <<rows, objectLock, ask, round, target, myRun, inTransaction, result, crashes>>

\* The race for the key after the run was inserted: the loser rolls its version and its
\* run back.
ReserveRun(p) ==
    LET k == ask[p].key IN
    /\ pc[p] = "reserve"
    /\ keyLock[k] = NoOne
    /\ \/ /\ operation[k] = NoOne
          /\ keyLock' = [keyLock EXCEPT ![k] = p]
          /\ Goto(p, "commit")
          /\ UNCHANGED <<objectLock, round, target, inTransaction, result>>
       \/ /\ operation[k] # NoOne
          /\ Unlock(p)
          /\ target' = [target EXCEPT ![p] = NoTarget]
          /\ TryAgain(p) /\ End(p)
    /\ UNCHANGED <<rows, ask, myRun, crashes>>

\* The version, the run and the reservation are committed together.
CommitRun(p) ==
    LET o == ask[p].identity.object
        v == IF target[p].id = 0 THEN Len(versions) + 1 ELSE target[p].id
        r == Len(runs) + 1
    IN
    /\ pc[p] = "commit"
    /\ versions' = IF target[p].id = 0
                   THEN Append(versions, [object |-> o, number |-> target[p].number,
                                          status |-> "ELIGIBLE_PENDING", content |-> 0])
                   ELSE versions
    /\ runs' = Append(runs, [key |-> ask[p].key, object |-> o, version |-> v, status |-> "ACTIVE"])
    /\ operation' = [operation EXCEPT ![ask[p].key] = [hash |-> ask[p].identity, run |-> r]]
    /\ myRun' = [myRun EXCEPT ![p] = r]
    /\ target' = [target EXCEPT ![p] = NoTarget]
    /\ Unlock(p) /\ End(p)
    /\ Goto(p, "snapshot")
    /\ UNCHANGED <<context, ask, round, result, crashes>>

-------------------------------------------------------------------------------
\* Mutant: the read of the run is not closed.
SnapshotLeftOpen(p) ==
    /\ pc[p] = "snapshot"
    /\ Begin(p)
    /\ Goto(p, "phaseB")
    /\ UNCHANGED <<rows, locks, ask, round, target, myRun, result, crashes>>

\* run_snapshot: what Phase B works with is read from the run, and the read is closed.
Snapshot(p) ==
    /\ pc[p] = "snapshot"
    /\ End(p)
    /\ Goto(p, "phaseB")
    /\ UNCHANGED <<rows, locks, ask, round, target, myRun, result, crashes>>

\* The end of a run that is PENDING or IN_PROGRESS.
Finishes(r, outcome) ==
    /\ runs[r].status = "ACTIVE"
    /\ runs' = [runs EXCEPT ![r].status = outcome]

\* Phases B and C: this request, or one like it, ends the run; or it is still under way
\* when the poll gives up.  Success needs a version that is still ELIGIBLE_PENDING.
PhaseB(p) ==
    LET r == myRun[p] IN
    /\ pc[p] = "phaseB"
    /\ \/ /\ Finishes(r, "SUCCEEDED")
          /\ versions[runs[r].version].status = "ELIGIBLE_PENDING"
          /\ versions' = [versions EXCEPT ![runs[r].version].status = "DRAFT",
                                          ![runs[r].version].content = r]
          /\ Return(p, "SUCCEEDED")
       \/ /\ Finishes(r, "FAILED")
          /\ Return(p, "FAILED")
          /\ UNCHANGED versions
       \/ /\ Return(p, IF runs[r].status = "ACTIVE" THEN "PENDING_POLL_TIMEOUT" ELSE runs[r].status)
          /\ UNCHANGED <<versions, runs>>
    /\ UNCHANGED <<context, operation, locks, ask, round, target, myRun, inTransaction, crashes>>

Leave(p) ==
    /\ ask' = [ask EXCEPT ![p] = NoOne]
    /\ result' = [result EXCEPT ![p] = "none"]
    /\ round' = [round EXCEPT ![p] = 0]
    /\ target' = [target EXCEPT ![p] = NoTarget]
    /\ myRun' = [myRun EXCEPT ![p] = 0]
    /\ Goto(p, "idle")

\* The caller has its answer and keeps its session for the next request, or closes it.
Receive(p) ==
    /\ pc[p] = "return"
    /\ Leave(p)
    /\ inTransaction' \in {inTransaction, [inTransaction EXCEPT ![p] = FALSE]}
    /\ UNCHANGED <<rows, locks, crashes>>

Crash(p) ==
    /\ pc[p] # "idle"
    /\ crashes < MaxCrashes
    /\ crashes' = crashes + 1
    /\ Leave(p) /\ End(p)
    /\ Unlock(p)
    /\ UNCHANGED rows

\* request_workflow_transition takes a version out of Phase A's and Phase C's reach.
ExternalTransition(v) ==
    /\ versions[v].status = "ELIGIBLE_PENDING"
    /\ versions' = [versions EXCEPT ![v].status = "DRAFT"]
    /\ UNCHANGED <<runs, context, operation, locks, locals, crashes>>

-------------------------------------------------------------------------------
Step(p) ==
    \/ Preflight(p) \/ Assemble(p) \/ Reject(p)
    \/ LockObject(p) \/ ChooseVersion(p) \/ ReserveRun(p) \/ CommitRun(p)
    \/ Snapshot(p) \/ PhaseB(p) \/ Receive(p)

Next ==
    \/ \E p \in Proc : Request(p) \/ Step(p) \/ Crash(p)
    \/ \E v \in DOMAIN versions : ExternalTransition(v)

Spec == Init /\ [][Next]_vars

\* A caller that is not killed goes on; PostgreSQL serves the waiters of a row lock in turn.
\* (The key needs no such turn: whoever commits a reservation ends the competition for it.)
FairSpec ==
    /\ Spec
    /\ \A p \in Proc : WF_vars(Step(p)) /\ SF_vars(LockObject(p))

-------------------------------------------------------------------------------
\* AT_MOST_ONE_LOGICAL_AGENT_RUN_PER_IDEMPOTENCY_KEY: whatever requests compete for a key,
\* it has one run, the one its reservation names, or it was rejected and has none.
OneRunPerKey ==
    /\ \A r \in DOMAIN runs :
          operation[runs[r].key] # NoOne /\ operation[runs[r].key].run = r
    /\ \A k \in Key : operation[k] # NoOne /\ operation[k].run # Rejected =>
          operation[k].run \in DOMAIN runs /\ runs[operation[k].run].key = k

\* Phase A never meets uq_agent_run_target_version_active (CR-56): it reuses a version only
\* after its last run has ended, even when requests under several keys compete for it.
OneActiveRunPerVersion ==
    \A r, s \in DOMAIN runs :
        runs[r].version = runs[s].version /\ runs[r].status = "ACTIVE" /\ runs[s].status = "ACTIVE"
            => r = s

\* Phase A never meets OBJECT_VERSION_NUMBER_UNIQUE_PER_OBJECT (CR-57): the versions of an
\* object are numbered 1, 2, 3... in the order they are committed, with no gap for a Phase A
\* that was rolled back.
VersionsAreNumbered ==
    \A v \in DOMAIN versions :
        versions[v].number =
            Cardinality({w \in 1..v : versions[w].object = versions[v].object})

\* A run works on a version of the object its request asked for, with the context that was
\* assembled for that object, under that key (CR-63); a request whose context was rejected
\* leaves no run.
RunIsAboutItsObject ==
    \A r \in DOMAIN runs :
        LET k == runs[r].key IN
        /\ versions[runs[r].version].object = runs[r].object
        /\ operation[k].hash.object = runs[r].object
        /\ context[k] = [object |-> runs[r].object, assembled |-> TRUE]

\* No request ends in a RuntimeError: no path through the preflight, Phase A and the snapshot
\* leaves open a transaction that assemble_context (CR-37) and _ensure_no_open_transaction
\* (CR-61) refuse to run in, and _MAX_OWNERSHIP_RETRIES is never used up, as whoever loses a
\* race finds the winner's row in the next preflight.
NoRuntimeError ==
    \A p \in Proc :
        /\ pc[p] \in {"assemble", "phaseB"} => ~inTransaction[p]
        /\ round[p] <= 2 /\ result[p] # "RuntimeError"

\* request_producer_execution's docstring, step 1: the read of the preflight "SIEMPRE termina
\* en session.rollback() antes de continuar - nunca deja una transaccion abierta".
AnswersLeaveNoTransaction ==
    \A p \in Proc : pc[p] = "return" => ~inTransaction[p]

-------------------------------------------------------------------------------
\* Liveness: every request is answered, whoever it waits for.
RequestsAnswered == \A p \in Proc : pc[p] # "idle" ~> pc[p] = "idle"

-------------------------------------------------------------------------------
\* The reservations implement ExactlyOnce: what is recorded under a key is its run, or its
\* rejection.  A request that meets another one's context, before that one has decided the
\* key, is refused.
Record == [k \in Key |->
    IF operation[k] = NoOne
    THEN NoOne
    ELSE [payload |-> operation[k].hash, outcome |-> <<"run", operation[k].run>>]]

Told == [p \in Proc |->
    IF pc[p] \in {"snapshot", "phaseB", "return"}
    THEN [key |-> ask[p].key, payload |-> ask[p].identity,
          outcome |-> CASE result[p] = "IDEMPOTENCY_CONFLICT" -> <<"conflict", 0>>
                        [] result[p] = "INVALID_CONTEXT_PACKAGE" -> <<"run", Rejected>>
                        [] OTHER -> <<"run", myRun[p]>>]
    ELSE NoOne]

Once == INSTANCE ExactlyOnce WITH
    Client <- Proc, Payload <- Identity,
    Outcome <- {"run"} \X (0..Cardinality(Key)),
    Refusals <- {<<"conflict", 0>>}, Conflict <- <<"conflict", 0>>,
    Undecided <- NoOne, Nothing <- NoOne, record <- Record, told <- Told

ExactlyOnceSpec == Once!OnceSpec
===============================================================================
