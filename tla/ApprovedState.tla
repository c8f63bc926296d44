---------------------------- MODULE ApprovedState ----------------------------
(***************************************************************************)
(* commit_approved_state and initialize_approved_state_pointer             *)
(* (approved_state.py), run by concurrent requests under READ COMMITTED.   *)
(*                                                                         *)
(* A request is one transaction: the reservation of its idempotency_key,   *)
(* whose INSERT waits for an uncommitted row of the same key, the check    *)
(* of the version, the optimistic UPDATE of the pointer, and one commit.   *)
(* What a transaction writes is seen by the others when it commits, so its *)
(* writes are made by the commit; until then it only holds locks.  The     *)
(* payload hash is the payload: the two UUIDs that end the joined string   *)
(* contain no separator, so it determines its three parts.                 *)
(***************************************************************************)
EXTENDS Integers, Sequences, FiniteSetsExt

CONSTANTS
    Proc,           \* concurrent callers of commit_approved_state
    Object, Version,
    ObjectOf,       \* object_version.object_id
    Key,            \* idempotency keys
    Payload,        \* what callers ask: an object, a version, the version they expect
    MaxCrashes,     \* bound: callers that die in the middle of a request
    Null,           \* current_approved_version_id before the first approval
    NoOne           \* nobody holds the lock; no row; no request

ASSUME ObjectsAssumption ==
    /\ ObjectOf \in [Version -> Object]
    /\ Payload \subseteq [object : Object, version : Version, expected : Version \union {Null}]
    /\ MaxCrashes \in Nat
    /\ Null \notin Version
    /\ NoOne \notin Proc /\ NoOne \notin Version \union {Null}
    /\ NoOne \notin [hash : Payload, commit : Nat]
    /\ NoOne \notin [payload : Payload, outcome : {"COMMITTED"} \X [key : Key, payload : Payload]]

VARIABLES
    \* committed rows
    pointer,        \* approved_state_pointer: version, Null, or NoOne without a row
    commits,        \* approved_state_commit in commit order; an index is a commit_id
    audit,          \* commit_id of the APPROVED_STATE_COMMIT events
    operation,      \* idempotency_operation: hash and commit_id, or NoOne
    \* PostgreSQL: uncommitted rows
    keyLock,        \* who has inserted the reservation of a key
    pointerLock,    \* who has updated the pointer of an object
    \* one request
    pc,
    ask,            \* its key and payload
    result,         \* what it returns: an outcome and a commit_id, 0 for none
    crashes

rows == <<pointer, commits, audit, operation>>
locks == <<keyLock, pointerLock>>
vars == <<rows, locks, pc, ask, result, crashes>>

Refusals == {<<"STATE_CONFLICT", 0>>, <<"INVALID_OBJECT_VERSION", 0>>}
IdempotencyConflict == <<"IDEMPOTENCY_CONFLICT", 0>>
Committed(i) == <<"COMMITTED", i>>
NoResult == <<"", 0>>

\* The rows a commit may add: a foreign key ties a version to its object.
Commit == {c \in [key : Key, payload : Payload] : ObjectOf[c.payload.version] = c.payload.object}

TypeOK ==
    /\ pointer \in [Object -> Version \union {Null, NoOne}]
    /\ commits \in Seq(Commit)
    /\ audit \in SUBSET Nat
    /\ operation \in [Key -> [hash : Payload, commit : Nat] \union {NoOne}]
    /\ keyLock \in [Key -> Proc \union {NoOne}]
    /\ pointerLock \in [Object -> Proc \union {NoOne}]
    /\ pc \in [Proc -> {"idle", "reserve", "replay", "validate", "update", "commit", "return"}]
    /\ ask \in [Proc -> [key : Key, payload : Payload] \union {NoOne}]
    /\ result \in [Proc -> {"", "COMMITTED", "STATE_CONFLICT", "INVALID_OBJECT_VERSION",
                            "IDEMPOTENCY_CONFLICT"} \X Nat]
    /\ crashes \in 0..MaxCrashes

Init ==
    /\ pointer = [o \in Object |-> NoOne]
    /\ commits = << >> /\ audit = {}
    /\ operation = [k \in Key |-> NoOne]
    /\ keyLock = [k \in Key |-> NoOne]
    /\ pointerLock = [o \in Object |-> NoOne]
    /\ pc = [p \in Proc |-> "idle"]
    /\ ask = [p \in Proc |-> NoOne]
    /\ result = [p \in Proc |-> NoResult]
    /\ crashes = 0

-------------------------------------------------------------------------------
Goto(p, l) == pc' = [pc EXCEPT ![p] = l]

Return(p, outcome) ==
    /\ Goto(p, "return")
    /\ result' = [result EXCEPT ![p] = outcome]

\* COMMIT or ROLLBACK: whatever p has locked is free again.
Unlock(p) ==
    /\ keyLock' = [k \in Key |-> IF keyLock[k] = p THEN NoOne ELSE keyLock[k]]
    /\ pointerLock' = [o \in Object |-> IF pointerLock[o] = p THEN NoOne ELSE pointerLock[o]]

\* Mutant: the row is inserted again over the one that is there.
InitializeAgain(o) ==
    /\ pointerLock[o] = NoOne
    /\ pointer' = [pointer EXCEPT ![o] = Null]
    /\ UNCHANGED <<commits, audit, operation, locks, pc, ask, result, crashes>>

\* initialize_approved_state_pointer: INSERT ... ON CONFLICT DO NOTHING and its commit.
Initialize(o) ==
    /\ pointer[o] = NoOne
    /\ pointer' = [pointer EXCEPT ![o] = Null]
    /\ UNCHANGED <<commits, audit, operation, locks, pc, ask, result, crashes>>

Request(p) ==
    /\ pc[p] = "idle"
    /\ \E k \in Key, asked \in Payload :
          ask' = [ask EXCEPT ![p] = [key |-> k, payload |-> asked]]
    /\ Goto(p, "reserve")
    /\ UNCHANGED <<rows, locks, result, crashes>>

\* INSERT ... ON CONFLICT DO NOTHING RETURNING: it waits while another transaction has
\* inserted the key, and then either inserts it or finds it committed.
Reserve(p) ==
    /\ pc[p] = "reserve"
    /\ keyLock[ask[p].key] = NoOne
    /\ \/ /\ operation[ask[p].key] = NoOne
          /\ keyLock' = [keyLock EXCEPT ![ask[p].key] = p]
          /\ Goto(p, "validate")
       \/ /\ operation[ask[p].key] # NoOne
          /\ Goto(p, "replay")
          /\ UNCHANGED keyLock
    /\ UNCHANGED <<rows, pointerLock, ask, result, crashes>>

\* Mutant: the stored hash is not compared.
ReplayAnyPayload(p) ==
    /\ pc[p] = "replay"
    /\ Return(p, Committed(operation[ask[p].key].commit))
    /\ UNCHANGED <<rows, locks, ask, crashes>>

\* Mutant: another payload under the key is a reason to try again.
ReplayRetries(p) ==
    /\ pc[p] = "replay"
    /\ \/ /\ operation[ask[p].key].hash = ask[p].payload
          /\ Return(p, Committed(operation[ask[p].key].commit))
       \/ /\ operation[ask[p].key].hash # ask[p].payload
          /\ Goto(p, "reserve")
          /\ UNCHANGED result
    /\ UNCHANGED <<rows, locks, ask, crashes>>

\* The loser reads the committed row in a transaction of its own.
Replay(p) ==
    /\ pc[p] = "replay"
    /\ \/ /\ operation[ask[p].key].hash = ask[p].payload
          /\ Return(p, Committed(operation[ask[p].key].commit))
       \/ /\ operation[ask[p].key].hash # ask[p].payload
          /\ Return(p, IdempotencyConflict)
    /\ UNCHANGED <<rows, locks, ask, crashes>>

\* Mutant: the version is not checked against the object.
ValidateAnyVersion(p) ==
    /\ pc[p] = "validate"
    /\ Goto(p, "update")
    /\ UNCHANGED <<rows, locks, ask, result, crashes>>

Validate(p) ==
    /\ pc[p] = "validate"
    /\ \/ /\ ObjectOf[ask[p].payload.version] = ask[p].payload.object
          /\ Goto(p, "update")
          /\ UNCHANGED <<locks, result>>
       \/ /\ ObjectOf[ask[p].payload.version] # ask[p].payload.object
          /\ Return(p, <<"INVALID_OBJECT_VERSION", 0>>)
          /\ Unlock(p)
    /\ UNCHANGED <<rows, ask, crashes>>

\* Mutant: the UPDATE is not conditional on the version expected.
UpdateBlindly(p) ==
    /\ pc[p] = "update"
    /\ pointerLock[ask[p].payload.object] = NoOne
    /\ pointerLock' = [pointerLock EXCEPT ![ask[p].payload.object] = p]
    /\ Goto(p, "commit")
    /\ UNCHANGED <<rows, keyLock, ask, result, crashes>>

\* UPDATE ... WHERE current_approved_version_id IS NOT DISTINCT FROM :expected.  A row
\* that does not qualify is not waited for; one that does is, and it is looked at again
\* if it was updated meanwhile: the condition reads nothing but the row.
UpdatePointer(p) ==
    LET o == ask[p].payload.object IN
    /\ pc[p] = "update"
    /\ \/ /\ pointer[o] = ask[p].payload.expected
          /\ pointerLock[o] = NoOne
          /\ pointerLock' = [pointerLock EXCEPT ![o] = p]
          /\ Goto(p, "commit")
          /\ UNCHANGED <<keyLock, result>>
       \/ /\ pointer[o] # ask[p].payload.expected
          /\ Return(p, <<"STATE_CONFLICT", 0>>)
          /\ Unlock(p)
    /\ UNCHANGED <<rows, ask, crashes>>

\* Mutant: the audit event names the commit before.
CommitWrongAudit(p) ==
    LET i == Len(commits) + 1 IN
    /\ pc[p] = "commit"
    /\ pointer' = [pointer EXCEPT ![ask[p].payload.object] = ask[p].payload.version]
    /\ commits' = Append(commits, ask[p])
    /\ audit' = audit \union {i - 1}
    /\ operation' = [operation EXCEPT ![ask[p].key] =
                        [hash |-> ask[p].payload, commit |-> i]]
    /\ Return(p, Committed(i))
    /\ Unlock(p)
    /\ UNCHANGED <<ask, crashes>>

\* The approved_state_commit row, the audit event, the final reservation, the COMMIT.
CommitApproval(p) ==
    LET i == Len(commits) + 1 IN
    /\ pc[p] = "commit"
    /\ pointer' = [pointer EXCEPT ![ask[p].payload.object] = ask[p].payload.version]
    /\ commits' = Append(commits, ask[p])
    /\ audit' = audit \union {i}
    /\ operation' = [operation EXCEPT ![ask[p].key] =
                        [hash |-> ask[p].payload, commit |-> i]]
    /\ Return(p, Committed(i))
    /\ Unlock(p)
    /\ UNCHANGED <<ask, crashes>>

Leave(p) ==
    /\ ask' = [ask EXCEPT ![p] = NoOne]
    /\ result' = [result EXCEPT ![p] = NoResult]
    /\ Goto(p, "idle")

Receive(p) ==
    /\ pc[p] = "return"
    /\ Leave(p)
    /\ UNCHANGED <<rows, locks, crashes>>

\* The caller dies: PostgreSQL rolls back its transaction.  Its answer is lost.
Crash(p) ==
    /\ pc[p] # "idle"
    /\ crashes < MaxCrashes
    /\ crashes' = crashes + 1
    /\ Leave(p)
    /\ Unlock(p)
    /\ UNCHANGED rows

-------------------------------------------------------------------------------
Step(p) ==
    \/ Reserve(p) \/ Replay(p) \/ Validate(p) \/ UpdatePointer(p) \/ CommitApproval(p)
    \/ Receive(p)

Next ==
    \/ \E p \in Proc : Step(p) \/ Request(p) \/ Crash(p)
    \/ \E o \in Object : Initialize(o)

Spec == Init /\ [][Next]_vars

\* Statements return, and a waiter that finds the lock free over and over gets it:
\* PostgreSQL queues the waiters of a row and of a transaction.
FairSpec ==
    /\ Spec
    /\ \A p \in Proc : WF_vars(Step(p)) /\ SF_vars(Reserve(p)) /\ SF_vars(UpdatePointer(p))

-------------------------------------------------------------------------------
\* Safety.

\* The commits of one object, and what those before commit i have left approved for it.
Approvals(o) == {i \in DOMAIN commits : commits[i].payload.object = o}

ApprovedBefore(o, i) ==
    LET earlier == {j \in Approvals(o) : j < i} IN
    IF earlier = {} THEN Null ELSE commits[Max(earlier)].payload.version

\* No approval is lost or overwritten unseen: every commit was made by a caller that had
\* named the version approved by the one before it, and the pointer is where the last
\* one left it, also when versions come back (Null -> v1 -> v2 -> v1).
ApprovalsFormAChain ==
    \A o \in Object :
        /\ \A i \in Approvals(o) : commits[i].payload.expected = ApprovedBefore(o, i)
        /\ pointer[o] \in IF Approvals(o) = {} THEN {Null, NoOne}
                         ELSE {ApprovedBefore(o, Len(commits) + 1)}

\* A reservation that can be seen is final: it names the one commit made under its key,
\* with the payload it was reserved for, and that commit has its audit event.  Nothing
\* that was rolled back (CR-13) leaves a row of any of the three tables.
OneCommitPerKey ==
    /\ audit = DOMAIN commits
    /\ \A i \in DOMAIN commits :
          operation[commits[i].key] = [hash |-> commits[i].payload, commit |-> i]
    /\ \A k \in Key : operation[k] # NoOne =>
          /\ operation[k].commit \in DOMAIN commits
          /\ commits[operation[k].commit].key = k

\* The pointer moves only with a commit that says so, and commits are never rewritten;
\* initialising an object again does not withdraw what it has approved.
PointerFollowsCommits ==
    [][/\ SubSeq(commits', 1, Len(commits)) = commits
       /\ \A o \in Object : pointer'[o] # pointer[o] =>
             \/ pointer[o] = NoOne /\ pointer'[o] = Null
             \/ /\ Len(commits') = Len(commits) + 1
                /\ commits'[Len(commits')].payload = 
                      [object |-> o, version |-> pointer'[o], expected |-> pointer[o]]]_vars

-------------------------------------------------------------------------------
\* Liveness: every request is answered, whatever crashes and whoever else wants its key
\* or its object.
RequestsAnswered == \A p \in Proc : pc[p] # "idle" ~> pc[p] = "idle"

-------------------------------------------------------------------------------
\* The reservations implement ExactlyOnce: an outcome is seen as the commit row it names,
\* and refusals are not recorded.
Seen(outcome) ==
    IF outcome[1] = "COMMITTED" THEN <<"COMMITTED", commits[outcome[2]]>> ELSE outcome

Record == [k \in Key |->
    IF operation[k] = NoOne
    THEN NoOne
    ELSE [payload |-> operation[k].hash, outcome |-> Seen(Committed(operation[k].commit))]]

Told == [p \in Proc |->
    IF pc[p] = "return"
    THEN [key |-> ask[p].key, payload |-> ask[p].payload, outcome |-> Seen(result[p])]
    ELSE NoOne]

Once == INSTANCE ExactlyOnce WITH
    Client <- Proc, Outcome <- {"COMMITTED"} \X [key : Key, payload : Payload],
    Conflict <- IdempotencyConflict,
    Undecided <- NoOne, Nothing <- NoOne, record <- Record, told <- Told

ExactlyOnceSpec == Once!OnceSpec
=============================================================================
