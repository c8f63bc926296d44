---------------------------- MODULE ContextEngine ----------------------------
(***************************************************************************)
(* assemble_context of context_engine.py: one transaction under REPEATABLE *)
(* READ that reserves the key, reads the approved state around an object   *)
(* with the DependencyResolver and the EvidenceRetriever, and commits a    *)
(* package or a rejection, while other components change what it reads.    *)
(*                                                                         *)
(* The committed rows it reads are a content; history has every content    *)
(* there has been, so that a snapshot is a position in it.  PostgreSQL     *)
(* takes the snapshot when the INSERT of the reservation starts, before    *)
(* the INSERT waits for another transaction that has inserted the key.     *)
(* The contract is the table of context_engine_contract.py, which is       *)
(* consistent, so MAPPING_UNDEFINED is never the outcome.                  *)
(***************************************************************************)
EXTENDS Integers, FiniteSets, Sequences, SequencesExt, FiniteSetsExt

CONSTANTS
    Proc,           \* concurrent callers of assemble_context
    Object,
    Registered,     \* objects with a row in instructional_object
    TypeOf,         \* instructional_object.object_type
    Version, ObjectOf,
    Number,         \* object_version.version_number
    Link,           \* rows object_relation may have
    Source,         \* rows evidence_source may have
    Initial,        \* contents the program may start from
    Payload,        \* what is asked: an object, and a version pinned or Null
    Key,
    MaxChanges,     \* bound: commits of the other components
    MaxCrashes,     \* bound: callers that die in the middle of a request
    Null,           \* SQL's NULL; no row
    NoOne           \* nobody holds the lock; no row; no request

RequiredRelations == << [type |-> "PARENT_ACTIVITY", target |-> "ACTIVITY"],
                        [type |-> "LEARNING_OUTCOME", target |-> "LEARNING_OUTCOME"] >>
RequiredEvidence == << [class |-> "E1", level |-> "REQUIRED", blocking |-> TRUE],
                       [class |-> "E3", level |-> "OPTIONAL", blocking |-> FALSE] >>

Status == {"ELIGIBLE_PENDING", "DRAFT", "APPROVED_CONTENT"}

Content ==
    [pointer : [Object -> Version \union {Null}],      \* approved_state_pointer
     status : [Version -> Status \union {Null}],       \* object_version, Null if not inserted
     relation : SUBSET Link,                           \* object_relation
     evidence : SUBSET Source]                         \* evidence_source

\* The foreign keys and unique constraints of models.py.
Consistent(c) ==
    /\ \A o \in Object : c.pointer[o] # Null =>
          ObjectOf[c.pointer[o]] = o /\ c.status[c.pointer[o]] # Null
    /\ \A r, s \in c.relation : r.from = s.from /\ r.type = s.type => r = s

Rejections == {<<"NEWER_VERSION_AVAILABLE", 0>>, <<"INVALID_OBJECT_VERSION", 0>>}

\* What a reservation may record: a rejection, or the package it has led to.
Recorded == Rejections \union ({"COMMITTED"} \X Nat)

ASSUME ContextAssumption ==
    /\ Registered \subseteq Object
    /\ DOMAIN TypeOf = Registered
    /\ ObjectOf \in [Version -> Registered]
    /\ Number \in [Version -> Nat]
    /\ Link \subseteq [from : Registered, type : STRING, to : Registered]
    /\ \A s \in Source : s.object \in Registered
    /\ \A c \in Initial : c \in Content /\ Consistent(c)
    /\ Payload \subseteq [object : Object, pinned : Version \union {Null}]
    /\ MaxChanges \in Nat /\ MaxCrashes \in Nat
    /\ Null \notin Version \union Object \union Status
    /\ NoOne \notin Proc \union [key : Key, payload : Payload]
                \union [hash : Payload, outcome : Recorded] \union [payload : Payload, outcome : Recorded]

VARIABLES
    \* committed rows
    history,        \* every content there has been; the last one is current
    packages,       \* context_package, in commit order: an index is a context_package_id
    audits,         \* audit_event: the package and the version each one names
    operation,      \* idempotency_operation: hash and outcome, or NoOne
    \* PostgreSQL: uncommitted rows and snapshots
    keyLock,        \* who has inserted the reservation of a key
    snapshot,       \* of each transaction: its content, and the keys it sees reserved
    \* one request
    pc, ask,
    since,          \* observer: the current content when the request was made
    round,          \* of the loop of assemble_context
    draft,          \* what has been read so far
    result,
    crashes

rows == <<history, packages, audits, operation>>
request == <<ask, since, round>>
vars == <<rows, keyLock, snapshot, pc, request, draft, result, crashes>>

MaxRounds == 5      \* _MAX_OWNERSHIP_RETRIES

IdempotencyConflict == <<"IDEMPOTENCY_CONFLICT", 0>>
TaskTypeUnresolved == <<"TASK_TYPE_UNRESOLVED", 0>>
SessionInUse == <<"RuntimeError", 0>>
IntegrityError == <<"IntegrityError", 0>>
Committed(i) == <<"COMMITTED", i>>
NoResult == <<"", 0>>

Nothing == [target |-> Null, effective |-> Null, resolved |-> << >>,
            approved |-> << >>, relations |-> << >>, evidence |-> << >>, gaps |-> << >>]
NoSnapshot == [content |-> 0, keys |-> {}]

TypeOK ==
    /\ \A i \in DOMAIN history : history[i] \in Content /\ Consistent(history[i])
    /\ Len(history) \in 1..MaxChanges + 1
    /\ \A i \in DOMAIN packages : packages[i].key \in Key /\ packages[i].payload \in Payload
    /\ audits \in Seq([package : DOMAIN packages, version : Version \union {Null}])
    /\ \A k \in Key : operation[k] # NoOne =>
          /\ operation[k].hash \in Payload
          /\ operation[k].outcome \in Rejections \union ({"COMMITTED"} \X DOMAIN packages)
    /\ keyLock \in [Key -> Proc \union {NoOne}]
    /\ snapshot \in [Proc -> [content : 0..Len(history), keys : SUBSET Key]]
    /\ pc \in [Proc -> {"idle", "begin", "insert", "target", "pinned", "version", "relations",
                        "dependencies", "evidence", "commit", "reject", "replay", "return"}]
    /\ ask \in [Proc -> [key : Key, payload : Payload] \union {NoOne}]
    /\ since \in [Proc -> 0..Len(history)]
    /\ round \in [Proc -> 0..MaxRounds]
    /\ \A p \in Proc : DOMAIN draft[p] = DOMAIN Nothing
    /\ \A p \in Proc :
          result[p] \in Rejections \union ({"COMMITTED"} \X DOMAIN packages)
              \union {NoResult, IdempotencyConflict, TaskTypeUnresolved, SessionInUse, IntegrityError}
    /\ crashes \in 0..MaxCrashes

Init ==
    /\ \E c \in Initial : history = <<c>>
    /\ packages = << >>
    /\ audits = << >>
    /\ operation = [k \in Key |-> NoOne]
    /\ keyLock = [k \in Key |-> NoOne]
    /\ snapshot = [p \in Proc |-> NoSnapshot]
    /\ pc = [p \in Proc |-> "idle"]
    /\ ask = [p \in Proc |-> NoOne]
    /\ since = [p \in Proc |-> 0]
    /\ round = [p \in Proc |-> 0]
    /\ draft = [p \in Proc |-> Nothing]
    /\ result = [p \in Proc |-> NoResult]
    /\ crashes = 0

-------------------------------------------------------------------------------
\* The rest of the system, one commit at a time.
Now == Last(history)

Change(c) ==
    /\ Len(history) <= MaxChanges
    /\ history' = Append(history, c)
    /\ UNCHANGED <<packages, audits, operation, keyLock, snapshot, pc, request, draft, result, crashes>>

\* Mutant: the version to approve is not looked up.
ApproveUnseen(v) ==
    /\ Now.pointer[ObjectOf[v]] # v
    /\ Change([Now EXCEPT !.pointer[ObjectOf[v]] = v])

\* commit_approved_state approves any version of the object, whatever its status.
Approve(v) ==
    /\ Now.status[v] # Null /\ Now.pointer[ObjectOf[v]] # v
    /\ Change([Now EXCEPT !.pointer[ObjectOf[v]] = v])

\* Phase A of a producer execution inserts the next version of an object.
CreateVersion(v) ==
    /\ Now.status[v] = Null
    /\ \A w \in Version : ObjectOf[w] = ObjectOf[v] /\ Number[w] < Number[v] => Now.status[w] # Null
    /\ Change([Now EXCEPT !.status[v] = "ELIGIBLE_PENDING"])

\* The one transition workflow_transition.py enables.
Transition(v) ==
    /\ Now.status[v] = "ELIGIBLE_PENDING"
    /\ Change([Now EXCEPT !.status[v] = "DRAFT"])

\* Nothing under src inserts these two: whoever maintains the course does.
InsertRelation(r) ==
    /\ r \notin Now.relation
    /\ Consistent([Now EXCEPT !.relation = @ \union {r}])
    /\ Change([Now EXCEPT !.relation = @ \union {r}])

InsertEvidence(s) ==
    /\ s \notin Now.evidence
    /\ Change([Now EXCEPT !.evidence = @ \union {s}])

Environment ==
    \/ \E v \in Version : Approve(v) \/ CreateVersion(v) \/ Transition(v)
    \/ \E r \in Link : InsertRelation(r)
    \/ \E s \in Source : InsertEvidence(s)

-------------------------------------------------------------------------------
Goto(p, l) == pc' = [pc EXCEPT ![p] = l]
Result(p, outcome) == result' = [result EXCEPT ![p] = outcome]

\* The request is answered: what it needs no more is forgotten.
Answered(p) ==
    /\ Goto(p, "return")
    /\ since' = [since EXCEPT ![p] = 0]
    /\ round' = [round EXCEPT ![p] = 0]
    /\ UNCHANGED ask

Draft(p, d) == draft' = [draft EXCEPT ![p] = d]

\* COMMIT or ROLLBACK: the transaction's lock, its snapshot and what it has read are gone.
EndTransaction(p) ==
    /\ keyLock' = [k \in Key |-> IF keyLock[k] = p THEN NoOne ELSE keyLock[k]]
    /\ snapshot' = [snapshot EXCEPT ![p] = NoSnapshot]
    /\ Draft(p, Nothing)

Request(p) ==
    /\ pc[p] = "idle"
    /\ \E k \in Key, q \in Payload : ask' = [ask EXCEPT ![p] = [key |-> k, payload |-> q]]
    /\ since' = [since EXCEPT ![p] = Len(history)]
    /\ round' = [round EXCEPT ![p] = 1]
    /\ Goto(p, "begin")
    /\ UNCHANGED <<rows, keyLock, snapshot, draft, result, crashes>>

\* Task Intake does not know the task_type, or the session is in a transaction: an answer
\* or an exception before any table is touched.
RequestInVain(p) ==
    /\ pc[p] = "idle"
    /\ \E outcome \in {TaskTypeUnresolved, SessionInUse} : Result(p, outcome)
    /\ Goto(p, "return")
    /\ UNCHANGED <<rows, keyLock, snapshot, request, draft, crashes>>

\* SET TRANSACTION ISOLATION LEVEL REPEATABLE READ, and the start of the INSERT.
TakeSnapshot(p) ==
    /\ pc[p] = "begin"
    /\ snapshot' = [snapshot EXCEPT ![p] =
          [content |-> Len(history), keys |-> {k \in Key : operation[k] # NoOne}]]
    /\ Goto(p, "insert")
    /\ UNCHANGED <<rows, keyLock, request, draft, result, crashes>>

\* Mutant: a row that another transaction has inserted does not conflict until it commits.
WinWithoutWaiting(p) ==
    LET k == ask[p].key IN
    /\ pc[p] = "insert"
    /\ operation[k] = NoOne
    /\ keyLock' = [keyLock EXCEPT ![k] = p]
    /\ Goto(p, "target")
    /\ UNCHANGED <<rows, snapshot, request, draft, result, crashes>>

\* INSERT ... ON CONFLICT DO NOTHING, after the wait for whoever has inserted the key.
\* The waiter of a transaction that was rolled back wins, with the snapshot it took before.
WinReservation(p) ==
    LET k == ask[p].key IN
    /\ pc[p] = "insert"
    /\ keyLock[k] = NoOne /\ operation[k] = NoOne
    /\ keyLock' = [keyLock EXCEPT ![k] = p]
    /\ Goto(p, "target")
    /\ UNCHANGED <<rows, snapshot, request, draft, result, crashes>>

\* The row was there when the snapshot was taken: DO NOTHING.
FindReservation(p) ==
    LET k == ask[p].key IN
    /\ pc[p] = "insert"
    /\ keyLock[k] = NoOne /\ k \in snapshot[p].keys
    /\ EndTransaction(p)
    /\ Goto(p, "replay")
    /\ UNCHANGED <<rows, request, result, crashes>>

\* Mutant: the next round keeps the snapshot of the failed one.
RetryWithOldSnapshot(p) ==
    LET k == ask[p].key IN
    /\ pc[p] = "insert"
    /\ keyLock[k] = NoOne /\ operation[k] # NoOne /\ k \notin snapshot[p].keys
    /\ round[p] < MaxRounds
    /\ round' = [round EXCEPT ![p] = @ + 1]
    /\ Goto(p, "insert")
    /\ UNCHANGED <<rows, keyLock, snapshot, draft, ask, since, result, crashes>>

\* The row was committed since: DO NOTHING would rest on a row the snapshot does not see,
\* so PostgreSQL raises 40001 and the whole attempt is made again.
SerializationFailure(p) ==
    LET k == ask[p].key IN
    /\ pc[p] = "insert"
    /\ keyLock[k] = NoOne /\ operation[k] # NoOne /\ k \notin snapshot[p].keys
    /\ round[p] < MaxRounds
    /\ round' = [round EXCEPT ![p] = @ + 1]
    /\ EndTransaction(p)
    /\ Goto(p, "begin")
    /\ UNCHANGED <<rows, ask, since, result, crashes>>

\* The loser reads the row in a transaction of its own, under READ COMMITTED.
Replay(p) ==
    LET found == operation[ask[p].key] IN
    /\ pc[p] = "replay"
    /\ Result(p, IF found.hash = ask[p].payload THEN found.outcome ELSE IdempotencyConflict)
    /\ Answered(p)
    /\ UNCHANGED <<rows, keyLock, snapshot, draft, crashes>>

-------------------------------------------------------------------------------
\* _proceed_as_owner: the reads, each of its own statement or of the few of a helper, all
\* through the snapshot.

\* Mutant: the transaction stays under READ COMMITTED.
VisibleNow(p) == Now
Visible(p) == history[snapshot[p].content]

Reads == UNCHANGED <<rows, keyLock, snapshot, request, crashes>>

\* The pointer of the target (step 4).
ReadTarget(p) ==
    LET q == ask[p].payload
        pointer == Visible(p).pointer[q.object] IN
    /\ pc[p] = "target"
    /\ Draft(p, [draft[p] EXCEPT !.target = pointer,
                                 !.effective = IF q.pinned = Null THEN pointer ELSE Null])
    /\ Goto(p, IF q.pinned = Null THEN "version" ELSE "pinned")
    /\ UNCHANGED result
    /\ Reads

\* _resolve_pinned_version, and the comparison of the two numbers, which never change.
Foreign(p) ==
    LET q == ask[p].payload IN Visible(p).status[q.pinned] = Null \/ ObjectOf[q.pinned] # q.object
Superseded(p) ==
    draft[p].target # Null /\ Number[draft[p].target] > Number[ask[p].payload.pinned]

RejectPinned(p) ==
    /\ pc[p] = "pinned"
    /\ \/ Foreign(p) /\ Result(p, <<"INVALID_OBJECT_VERSION", 0>>)
       \/ /\ ~Foreign(p) /\ Visible(p).status[ask[p].payload.pinned] = "APPROVED_CONTENT"
          /\ Superseded(p)
          /\ Result(p, <<"NEWER_VERSION_AVAILABLE", 0>>)
    /\ Goto(p, "reject")
    /\ UNCHANGED draft
    /\ Reads

AcceptPinned(p) ==
    LET pinned == ask[p].payload.pinned
        approved == Visible(p).status[pinned] = "APPROVED_CONTENT" IN
    /\ pc[p] = "pinned"
    /\ ~Foreign(p)
    /\ \/ /\ ~approved
          /\ Draft(p, [draft[p] EXCEPT !.gaps = <<[gap |-> "APPROVAL_INSUFFICIENT", of |-> pinned]>>])
       \/ /\ approved /\ ~Superseded(p)
          /\ Draft(p, [draft[p] EXCEPT !.effective = pinned])
    /\ Goto(p, "version")
    /\ UNCHANGED result
    /\ Reads

\* An entry of approved_objects.
Entry(c, v) == [object |-> ObjectOf[v], type |-> TypeOf[ObjectOf[v]], version |-> v,
                status |-> c.status[v]]

\* The row of the effective version (step 5), or the gap it leaves.
ReadVersion(p) ==
    /\ pc[p] = "version"
    /\ Draft(p, IF draft[p].effective # Null
                THEN [draft[p] EXCEPT !.approved = <<Entry(Visible(p), draft[p].effective)>>]
                ELSE IF draft[p].gaps = << >>
                THEN [draft[p] EXCEPT
                        !.gaps = <<[gap |-> "NO_APPROVED_VERSION", of |-> ask[p].payload.object]>>]
                ELSE draft[p])
    /\ Goto(p, "relations")
    /\ UNCHANGED result
    /\ Reads

\* PostgresDependencyResolver.resolve for one required relation.
Resolution(c, object, required) ==
    LET found == {r \in c.relation : r.from = object /\ r.type = required.type}
        to == IF found = {} THEN Null ELSE (CHOOSE r \in found : TRUE).to IN
    [id |-> required.type, to |-> to,
     satisfied |-> /\ to # Null
                   /\ TypeOf[to] = required.target
                   /\ c.pointer[to] # Null]

ResolveRelation(p) ==
    LET i == Len(draft[p].resolved) + 1 IN
    /\ pc[p] = "relations"
    /\ Draft(p, [draft[p] EXCEPT !.resolved = Append(@,
          Resolution(Visible(p), ask[p].payload.object, RequiredRelations[i]))])
    /\ Goto(p, IF i = Len(RequiredRelations) THEN "dependencies" ELSE "relations")
    /\ UNCHANGED result
    /\ Reads

\* The entries of one resolution: its gap, or the related object, whose pointer is read
\* for the second time.
NoteDependency(p) ==
    LET i == Len(draft[p].relations) + 1
        r == draft[p].resolved[i]
        v == Visible(p).pointer[r.to] IN
    /\ pc[p] = "dependencies"
    /\ Draft(p, [draft[p] EXCEPT
          !.relations = Append(@, r),
          !.gaps = IF r.satisfied THEN @
                   ELSE Append(@, [gap |-> "BLOCKED_BY_DEPENDENCY", of |-> r.id]),
          !.approved = IF r.satisfied THEN Append(@, Entry(Visible(p), v)) ELSE @])
    /\ Goto(p, IF i = Len(draft[p].resolved) THEN "evidence" ELSE "dependencies")
    /\ UNCHANGED result
    /\ Reads

\* PostgresEvidenceRetriever.retrieve: the first source of the class, by source_id.
Evidence(c, object, required) ==
    LET ids == {s.id : s \in {t \in c.evidence : t.object = object /\ t.class = required.class}} IN
    [class |-> required.class, level |-> required.level, blocking |-> required.blocking,
     source |-> IF ids = {} THEN Null ELSE Min(ids)]

RetrieveEvidence(p) ==
    LET i == Len(draft[p].evidence) + 1
        e == Evidence(Visible(p), ask[p].payload.object, RequiredEvidence[i]) IN
    /\ pc[p] = "evidence"
    /\ Draft(p, [draft[p] EXCEPT
          !.evidence = Append(@, e),
          !.gaps = IF e.source # Null THEN @
                   ELSE Append(@, [gap |-> "EVIDENCE_MISSING", of |-> e.class])])
    /\ Goto(p, IF i = Len(RequiredEvidence) THEN "commit" ELSE "evidence")
    /\ UNCHANGED result
    /\ Reads

-------------------------------------------------------------------------------
Decided(p, outcome) ==
    operation' = [operation EXCEPT ![ask[p].key] =
                    [hash |-> ask[p].payload, outcome |-> outcome]]

\* The package, its audit event and the reservation, committed together.
CommitPackage(p) ==
    LET i == Len(packages) + 1 IN
    /\ pc[p] = "commit" /\ ask[p].payload.object \in Registered
    /\ packages' = Append(packages,
          [key |-> ask[p].key, payload |-> ask[p].payload, approved |-> draft[p].approved,
           relations |-> draft[p].relations, evidence |-> draft[p].evidence, gaps |-> draft[p].gaps])
    /\ audits' = Append(audits, [package |-> i, version |-> draft[p].effective])
    /\ Decided(p, Committed(i))
    /\ EndTransaction(p)
    /\ Result(p, Committed(i))
    /\ Answered(p)
    /\ UNCHANGED <<history, crashes>>

\* An unknown object: the flush of the package violates its foreign key, the exception is
\* not caught, and the transaction is aborted with its reservation.
FailToInsert(p) ==
    /\ pc[p] = "commit" /\ ask[p].payload.object \notin Registered
    /\ EndTransaction(p)
    /\ Result(p, IntegrityError)
    /\ Answered(p)
    /\ UNCHANGED <<rows, crashes>>

\* Mutant: the rejection is answered and not recorded.
RejectAndForget(p) ==
    /\ pc[p] = "reject"
    /\ EndTransaction(p)
    /\ Answered(p)
    /\ UNCHANGED <<rows, result, crashes>>

\* _reject
Reject(p) ==
    /\ pc[p] = "reject"
    /\ Decided(p, result[p])
    /\ EndTransaction(p)
    /\ Answered(p)
    /\ UNCHANGED <<history, packages, audits, result, crashes>>

Leave(p) ==
    /\ ask' = [ask EXCEPT ![p] = NoOne]
    /\ since' = [since EXCEPT ![p] = 0]
    /\ round' = [round EXCEPT ![p] = 0]
    /\ Result(p, NoResult)
    /\ Goto(p, "idle")

Receive(p) ==
    /\ pc[p] = "return"
    /\ Leave(p)
    /\ UNCHANGED <<rows, keyLock, snapshot, draft, crashes>>

Crash(p) ==
    /\ pc[p] # "idle"
    /\ crashes < MaxCrashes
    /\ crashes' = crashes + 1
    /\ Leave(p)
    /\ EndTransaction(p)
    /\ UNCHANGED rows

-------------------------------------------------------------------------------
Insert(p) == WinReservation(p) \/ FindReservation(p) \/ SerializationFailure(p)

Read(p) ==
    \/ ReadTarget(p) \/ RejectPinned(p) \/ AcceptPinned(p) \/ ReadVersion(p)
    \/ ResolveRelation(p) \/ NoteDependency(p) \/ RetrieveEvidence(p)

Step(p) ==
    \/ TakeSnapshot(p) \/ Insert(p) \/ Replay(p) \/ Read(p)
    \/ CommitPackage(p) \/ FailToInsert(p) \/ Reject(p) \/ Receive(p)

Next ==
    \/ Environment
    \/ \E p \in Proc : Request(p) \/ RequestInVain(p) \/ Step(p) \/ Crash(p)

Spec == Init /\ [][Next]_vars

-------------------------------------------------------------------------------
\* What a content says of a request, with no order of statements.

PackageAt(c, q) ==
    LET effective == IF q.pinned = Null THEN c.pointer[q.object]
                     ELSE IF c.status[q.pinned] = "APPROVED_CONTENT" THEN q.pinned ELSE Null
        resolutions == {Resolution(c, q.object, r) : r \in Range(RequiredRelations)}
        satisfied == {r \in resolutions : r.satisfied}
        evidence == {Evidence(c, q.object, r) : r \in Range(RequiredEvidence)} IN
    [approved |-> {Entry(c, v) : v \in ({effective} \ {Null}) \union {c.pointer[r.to] : r \in satisfied}},
     relations |-> resolutions,
     evidence |-> evidence,
     gaps |-> {[gap |-> "APPROVAL_INSUFFICIENT", of |-> v] : v \in {q.pinned} \ {effective, Null}}
              \union (IF q.pinned = Null /\ effective = Null
                      THEN {[gap |-> "NO_APPROVED_VERSION", of |-> q.object]} ELSE {})
              \union {[gap |-> "BLOCKED_BY_DEPENDENCY", of |-> r.id] : r \in resolutions \ satisfied}
              \union {[gap |-> "EVIDENCE_MISSING", of |-> e.class] : e \in {f \in evidence : f.source = Null}}]

OutcomeAt(c, q) ==
    IF q.pinned = Null THEN "COMMITTED"
    ELSE IF c.status[q.pinned] = Null \/ ObjectOf[q.pinned] # q.object THEN "INVALID_OBJECT_VERSION"
    ELSE IF /\ c.status[q.pinned] = "APPROVED_CONTENT"
            /\ c.pointer[q.object] # Null
            /\ Number[c.pointer[q.object]] > Number[q.pinned] THEN "NEWER_VERSION_AVAILABLE"
    ELSE "COMMITTED"

\* The canonical form compute_context_package_hash takes of a row: what the arrays hold,
\* in an order of their own.
Canonical(package) ==
    [approved |-> Range(package.approved), relations |-> Range(package.relations),
     evidence |-> Range(package.evidence), gaps |-> Range(package.gaps)]

-------------------------------------------------------------------------------
\* Safety.

\* CR-37: what a request commits, a package or a rejection, is what one content said of it,
\* and one that was current at some moment between the call and the commit, although each
\* of the statements that read it could have met another.
PackageIsOneMoment ==
    [][\A p \in Proc :
         pc[p] \in {"commit", "reject"} /\ operation'[ask[p].key] # operation[ask[p].key] =>
           \E i \in since[p]..Len(history) :
              LET outcome == operation'[ask[p].key].outcome IN
              /\ outcome[1] = OutcomeAt(history[i], ask[p].payload)
              /\ outcome[1] = "COMMITTED" =>
                    Canonical(packages'[outcome[2]]) = PackageAt(history[i], ask[p].payload)]_vars

\* A key has at most one package: the package, its one audit event and the
\* reservation that names it exist together and are about the same request.
OnePackagePerKey ==
    /\ \A i \in DOMAIN packages :
          operation[packages[i].key] = [hash |-> packages[i].payload, outcome |-> Committed(i)]
    /\ \A k \in Key : operation[k] # NoOne =>
          (operation[k].outcome \notin Rejections => packages[operation[k].outcome[2]].key = k)
    /\ \A i \in DOMAIN packages : Cardinality({j \in DOMAIN audits : audits[j].package = i}) = 1

\* The loop of assemble_context never needs its third round, so its RuntimeError is never
\* raised: after a serialization failure the snapshot of the next round sees the row.
TwoRoundsSuffice ==
    \A p \in Proc :
        /\ round[p] <= 2
        /\ pc[p] = "replay" => operation[ask[p].key] # NoOne

-------------------------------------------------------------------------------
\* The reservations implement ExactlyOnce: whoever repeats a request is given the same
\* package, not another one with the same content.
Record == [k \in Key |->
    IF operation[k] = NoOne
    THEN NoOne
    ELSE [payload |-> operation[k].hash, outcome |-> operation[k].outcome]]

Told == [p \in Proc |->
    IF pc[p] = "return" /\ ask[p] # NoOne
    THEN [key |-> ask[p].key, payload |-> ask[p].payload, outcome |-> result[p]]
    ELSE NoOne]

Once == INSTANCE ExactlyOnce WITH
    Client <- Proc, Outcome <- Rejections \union ({"COMMITTED"} \X (1..Cardinality(Key))),
    Refusals <- {IntegrityError}, Conflict <- IdempotencyConflict,
    Undecided <- NoOne, Nothing <- NoOne, record <- Record, told <- Told

ExactlyOnceSpec == Once!OnceSpec
===============================================================================
