------------------------------- MODULE AgentRun -------------------------------
(***************************************************************************)
(* One logical run of the producer, from the row Phase A committed to its  *)
(* terminal status: agent_run_manager.py, and Phases B and C and the final *)
(* poll of orchestrator.py, executed by any number of concurrent requests. *)
(*                                                                         *)
(* A step is one SQL statement or one commit, at READ COMMITTED.  A plain  *)
(* UPDATE evaluates its WHERE and its SET on the committed row before it   *)
(* waits for the row lock, and again (EvalPlanQual) only if the row was    *)
(* updated while it waited.  SELECT ... FOR UPDATE waits first.  Leases    *)
(* are kept as the time they have left, 0 once expired.                    *)
(***************************************************************************)
EXTENDS Integers, Sequences, FiniteSetsExt

CONSTANTS
    Proc,               \* concurrent executions of request_producer_execution
    WorkerId,           \* the worker_id each one is called with; they may coincide
    NoOne,              \* NULL, for claimed_by and for the row lock
    LeaseDuration,      \* LEASE_DURATION_SECONDS, in ticks
    MaxAttempts,        \* agent_run.max_attempts
    MaxGeneration,      \* bound: no reclaim starts once this generation is reached
    MaxCrashes,         \* bound: processes that die in the middle of a request
    SlowTransactions    \* may the clock advance while a transaction is open?

ASSUME ConstantsAssumption ==
    /\ LeaseDuration \in Nat \ {0}
    /\ MaxAttempts \in Nat
    /\ MaxGeneration \in Nat
    /\ MaxCrashes \in Nat
    /\ SlowTransactions \in BOOLEAN
    /\ NoOne \notin Proc
    /\ \A p \in Proc : WorkerId[p] # NoOne

VARIABLES
    \* the committed row of agent_run
    status, claimedBy, lease, generation,
    \* the other committed rows of the run
    attempts,       \* agent_run_attempt, in order of creation; an index is an attempt_id
    content,        \* produced_by_attempt_id of object_version_content, 0 if no row
    version,        \* object_version.status of the target
    transitions,    \* who wrote a workflow_transition row of the target version
    audit,          \* attempts named by PRODUCER_CONTENT_PERSISTED events
    \* PostgreSQL
    rowLock,        \* who holds the lock of the agent_run row
    superseded,     \* waiting UPDATEs whose candidate row was updated meanwhile
    \* one request
    pc, myGeneration, myAttempt,
    planned,        \* the lease its open UPDATE will write, as time left
    \* observers and bounds
    answers,        \* terminal outcomes returned to callers
    crashes

row == <<status, claimedBy, lease, generation>>
outputs == <<content, version, transitions, audit>>
locals == <<pc, myGeneration, myAttempt, planned>>
vars == <<row, attempts, outputs, rowLock, superseded, locals, answers, crashes>>

Terminal == {"SUCCEEDED", "FAILED"}
Statuses == {"PENDING", "IN_PROGRESS"} \union Terminal
Outcomes == {"open", "SUCCESS", "TECHNICAL_FAILURE", "INVALID_OUTPUT", "CLAIM_LOST"}
Attempt == [number : Nat, generation : Nat, outcome : Outcomes]

\* Where a request can be: between statements, waiting for the row lock inside a
\* plain UPDATE, or inside a transaction that holds it.
Waiting == {"acquireWait", "reclaimWait"}
Holding == {"acquireCommit", "reclaimCommit", "refreshUpdate", "refreshCommit",
            "authorizeUpdate", "finalize"}
Unlocked == {"idle", "acquire", "reclaim", "call", "refresh", "authorize",
             "closeLost", "closeRejected", "exhausted", "poll"}

\* The domains of the columns and of the local state.
Types ==
    /\ status \in Statuses
    /\ claimedBy \in {WorkerId[p] : p \in Proc} \union {NoOne}
    /\ lease \in 0..LeaseDuration
    /\ generation \in Nat
    /\ attempts \in Seq(Attempt)
    /\ content \in Nat
    /\ version \in {"ELIGIBLE_PENDING", "DRAFT"}
    /\ transitions \in SUBSET {"producer", "external"}
    /\ audit \in SUBSET Nat
    /\ rowLock \in Proc \union {NoOne}
    /\ superseded \in SUBSET Proc
    /\ pc \in [Proc -> Waiting \union Holding \union Unlocked]
    /\ myGeneration \in [Proc -> Nat]
    /\ myAttempt \in [Proc -> Nat]
    /\ planned \in [Proc -> 0..LeaseDuration]
    /\ answers \in SUBSET Terminal
    /\ crashes \in 0..MaxCrashes

\* The constraints of models.py that relate rows: uq_agent_run_attempt_logical_run_number,
\* the partial index on SUCCESS (CR-47), the foreign key produced_by_attempt_id.
ConstraintsHold ==
    /\ \A i, j \in DOMAIN attempts :
          attempts[i].number = attempts[j].number
            \/ (attempts[i].outcome = "SUCCESS" /\ attempts[j].outcome = "SUCCESS")
            => i = j
    /\ content # 0 => content \in DOMAIN attempts

\* Rows and local state have their types, and no INSERT or UPDATE of a run meets a constraint
\* of its tables, whichever workers wrote the other rows: nobody catches an IntegrityError.
TypeOK == Types /\ ConstraintsHold

\* The row create_agent_run committed in Phase A, on an ELIGIBLE_PENDING version.
Init ==
    /\ status = "PENDING" /\ claimedBy = NoOne /\ lease = 0 /\ generation = 0
    /\ attempts = << >>
    /\ content = 0 /\ version = "ELIGIBLE_PENDING" /\ transitions = {} /\ audit = {}
    /\ rowLock = NoOne /\ superseded = {}
    /\ pc = [p \in Proc |-> "idle"]
    /\ myGeneration = [p \in Proc |-> 0]
    /\ myAttempt = [p \in Proc |-> 0]
    /\ planned = [p \in Proc |-> 0]
    /\ answers = {} /\ crashes = 0

-------------------------------------------------------------------------------
\* The conditions of the UPDATEs.

LeaseIsExpired == lease = 0
\* Mutant: a safety margin of one tick taken off LEASE_IS_VALID alone.
LeaseIsValidMinusMargin == lease > 1
LeaseIsValid == lease > 0
\* Mutant: acquire() takes any run nobody is working on.
AcquirableUnlessInProgress == status # "IN_PROGRESS"
Acquirable == status = "PENDING"
\* Mutant: the status of acquire() copied into reclaim().
ReclaimableWhenPending == status = "PENDING" /\ LeaseIsExpired
Reclaimable == status = "IN_PROGRESS" /\ LeaseIsExpired
\* Mutants: ownership without the fencing token, and without LEASE_IS_VALID (CR-59).
IsOwnerByName(p) ==
    claimedBy = WorkerId[p] /\ status = "IN_PROGRESS" /\ LeaseIsValid
IsOwnerEvenExpired(p) ==
    claimedBy = WorkerId[p] /\ generation = myGeneration[p] /\ status = "IN_PROGRESS"
IsOwner(p) ==
    /\ claimedBy = WorkerId[p]
    /\ generation = myGeneration[p]
    /\ status = "IN_PROGRESS"
    /\ LeaseIsValid

\* Moves p to label l; l is where the request stands, no row is touched.
Goto(p, l) == pc' = [pc EXCEPT ![p] = l]

\* p leaves what it held (ROLLBACK, or return to the caller).
Forget(p) ==
    /\ myGeneration' = [myGeneration EXCEPT ![p] = 0]
    /\ myAttempt' = [myAttempt EXCEPT ![p] = 0]

Waiters == {q \in Proc : pc[q] \in Waiting}

\* COMMIT of a transaction that updated the agent_run row.
CommitRow ==
    /\ rowLock' = NoOne
    /\ superseded' = superseded \union Waiters

-------------------------------------------------------------------------------
\* A plain UPDATE: WHERE and SET on the committed row, then the wait for its lock.

UpdateEvaluate(p, qualifies, wait, otherwise) ==
    /\ IF qualifies
       THEN /\ Goto(p, wait)
            /\ planned' = [planned EXCEPT ![p] = LeaseDuration]
       ELSE /\ Goto(p, otherwise)
            /\ UNCHANGED planned
    /\ superseded' = superseded \ {p}
    /\ UNCHANGED <<row, attempts, outputs, rowLock, myGeneration, myAttempt, answers, crashes>>

\* Mutant: a waiting UPDATE goes ahead with what it saw, although the row was updated.
UpdateLockUnchecked(p, qualifies, commit, otherwise) ==
    /\ rowLock = NoOne
    /\ rowLock' = p
    /\ Goto(p, commit)
    /\ superseded' = superseded \ {p}
    /\ UNCHANGED <<row, attempts, outputs, myGeneration, myAttempt, planned, answers, crashes>>

UpdateLock(p, qualifies, commit, otherwise) ==
    /\ rowLock = NoOne
    /\ \/ /\ p \notin superseded
          /\ rowLock' = p
          /\ Goto(p, commit)
          /\ UNCHANGED planned
       \/ /\ p \in superseded /\ qualifies
          /\ rowLock' = p
          /\ Goto(p, commit)
          /\ planned' = [planned EXCEPT ![p] = LeaseDuration]
       \/ /\ p \in superseded /\ ~qualifies
          /\ UNCHANGED rowLock
          /\ Goto(p, otherwise)
          /\ planned' = [planned EXCEPT ![p] = 0]
    /\ superseded' = superseded \ {p}
    /\ UNCHANGED <<row, attempts, outputs, myGeneration, myAttempt, answers, crashes>>

\* Mutant: the SELECT without FOR UPDATE.
SelectAgentRunRow(p, next) ==
    /\ rowLock = NoOne
    /\ Goto(p, next)
    /\ UNCHANGED <<row, attempts, outputs, rowLock, superseded, myGeneration, myAttempt,
                   planned, answers, crashes>>

\* SELECT ... FOR UPDATE of the row: the wait, and nothing else.
LockAgentRunRowForUpdate(p, next) ==
    /\ rowLock = NoOne
    /\ rowLock' = p
    /\ Goto(p, next)
    /\ UNCHANGED <<row, attempts, outputs, superseded, myGeneration, myAttempt, planned,
                   answers, crashes>>

-------------------------------------------------------------------------------
\* Attempts.

\* Mutant: the increment made twice.
SkippedAttemptNumber(history) == Max({0} \union {history[i].number : i \in DOMAIN history}) + 2
NextAttemptNumber(history) ==
    Max({0} \union {history[i].number : i \in DOMAIN history}) + 1

CreateAttempt(history, number, gen) ==
    Append(history, [number |-> number, generation |-> gen, outcome |-> "open"])

\* Mutants: without the WHERE, and without the statement.
OverwriteAttempt(history, i, outcome) == [history EXCEPT ![i].outcome = outcome]
LeaveAbandoned(history) == history
\* UPDATE ... WHERE outcome IS NULL, of one attempt and of every attempt of the run.
CloseAttempt(history, i, outcome) ==
    IF history[i].outcome = "open"
    THEN [history EXCEPT ![i].outcome = outcome]
    ELSE history

CloseAbandoned(history) ==
    [i \in DOMAIN history |->
        IF history[i].outcome = "open"
        THEN [history[i] EXCEPT !.outcome = "CLAIM_LOST"]
        ELSE history[i]]

\* mark_failed_if_owner, called in the transaction that wrote the row: claimed_by,
\* lease_generation and status are its own, only the lease it wrote may have run out.
MarkFailedIfOwner(p) == IF planned[p] > 0 THEN "FAILED" ELSE "IN_PROGRESS"

\* Mutant: every new owner numbers its attempts from 1, as acquire's first attempt is.
RestartNumbering(p, gen, history) ==
    LET next == NextAttemptNumber(history) IN
    \/ /\ next > MaxAttempts
       /\ status' = MarkFailedIfOwner(p)
       /\ attempts' = history
       /\ Goto(p, "exhausted")
       /\ Forget(p)
    \/ /\ next <= MaxAttempts
       /\ status' = "IN_PROGRESS"
       /\ attempts' = CreateAttempt(history, 1, gen)
       /\ Goto(p, "call")
       /\ myGeneration' = [myGeneration EXCEPT ![p] = gen]
       /\ myAttempt' = [myAttempt EXCEPT ![p] = Len(history) + 1]

\* The common end of reclaim_and_create_attempt and refresh_and_create_retry_attempt,
\* on the attempts as the transaction sees them, and the caller's commit.
CreateNextAttempt(p, gen, history) ==
    LET next == NextAttemptNumber(history) IN
    \/ /\ next > MaxAttempts
       /\ status' = MarkFailedIfOwner(p)
       /\ attempts' = history
       /\ Goto(p, "exhausted")
       /\ Forget(p)
    \/ /\ next <= MaxAttempts
       /\ status' = "IN_PROGRESS"
       /\ attempts' = CreateAttempt(history, next, gen)
       /\ Goto(p, "call")
       /\ myGeneration' = [myGeneration EXCEPT ![p] = gen]
       /\ myAttempt' = [myAttempt EXCEPT ![p] = Len(history) + 1]

-------------------------------------------------------------------------------
\* Phase B.

\* A request, first or replayed, enters _phase_b_execute for this logical run.
Start(p) ==
    /\ pc[p] = "idle"
    /\ Goto(p, "acquire")
    /\ UNCHANGED <<row, attempts, outputs, rowLock, superseded, myGeneration, myAttempt,
                   planned, answers, crashes>>

AcquireEvaluate(p) ==
    /\ pc[p] = "acquire"
    /\ UpdateEvaluate(p, Acquirable, "acquireWait", "reclaim")

AcquireLock(p) ==
    /\ pc[p] = "acquireWait"
    /\ UpdateLock(p, Acquirable, "acquireCommit", "reclaim")

\* acquire_and_create_first_attempt after its UPDATE, and the commit.
AcquireCommit(p) ==
    /\ pc[p] = "acquireCommit"
    /\ status' = "IN_PROGRESS"
    /\ claimedBy' = WorkerId[p]
    /\ lease' = planned[p]
    /\ generation' = generation + 1
    /\ attempts' = CreateAttempt(attempts, 1, generation + 1)
    /\ myGeneration' = [myGeneration EXCEPT ![p] = generation + 1]
    /\ myAttempt' = [myAttempt EXCEPT ![p] = Len(attempts) + 1]
    /\ planned' = [planned EXCEPT ![p] = 0]
    /\ Goto(p, "call")
    /\ CommitRow
    /\ UNCHANGED <<outputs, answers, crashes>>

ReclaimEvaluate(p) ==
    /\ pc[p] = "reclaim"
    /\ UpdateEvaluate(p, Reclaimable /\ generation < MaxGeneration, "reclaimWait", "poll")

ReclaimLock(p) ==
    /\ pc[p] = "reclaimWait"
    /\ UpdateLock(p, Reclaimable, "reclaimCommit", "poll")

\* reclaim_and_create_attempt after its UPDATE: abandoned attempts, the next one, commit.
ReclaimCommit(p) ==
    /\ pc[p] = "reclaimCommit"
    /\ CreateNextAttempt(p, generation + 1, CloseAbandoned(attempts))
    /\ claimedBy' = WorkerId[p]
    /\ lease' = planned[p]
    /\ generation' = generation + 1
    /\ planned' = [planned EXCEPT ![p] = 0]
    /\ CommitRow
    /\ UNCHANGED <<outputs, answers, crashes>>

\* The provider answers with an error or with output that validate_structural refuses.
CallFails(p) ==
    /\ pc[p] = "call"
    /\ \E outcome \in {"TECHNICAL_FAILURE", "INVALID_OUTPUT"} :
          attempts' = CloseAttempt(attempts, myAttempt[p], outcome)
    /\ Goto(p, "refresh")
    /\ UNCHANGED <<row, outputs, rowLock, superseded, myGeneration, myAttempt, planned,
                   answers, crashes>>

CallSucceeds(p) ==
    /\ pc[p] = "call"
    /\ Goto(p, "authorize")
    /\ UNCHANGED <<row, attempts, outputs, rowLock, superseded, myGeneration, myAttempt,
                   planned, answers, crashes>>

\* refresh_and_create_retry_attempt: the lock, the conditional UPDATE, the next attempt.
RefreshLock(p) ==
    /\ pc[p] = "refresh"
    /\ LockAgentRunRowForUpdate(p, "refreshUpdate")

\* Mutant: an owner that lost its lease asks for it again instead of reclaiming it.
RefreshForever(p) ==
    /\ pc[p] = "refreshUpdate"
    /\ \/ /\ IsOwner(p)
          /\ planned' = [planned EXCEPT ![p] = LeaseDuration]
          /\ Goto(p, "refreshCommit")
          /\ UNCHANGED rowLock
       \/ /\ ~IsOwner(p)
          /\ rowLock' = NoOne
          /\ Goto(p, "refresh")
          /\ UNCHANGED planned
    /\ UNCHANGED <<row, attempts, outputs, superseded, myGeneration, myAttempt, answers, crashes>>

RefreshUpdate(p) ==
    /\ pc[p] = "refreshUpdate"
    /\ \/ /\ IsOwner(p)
          /\ planned' = [planned EXCEPT ![p] = LeaseDuration]
          /\ Goto(p, "refreshCommit")
          /\ UNCHANGED <<rowLock, myGeneration, myAttempt>>
       \/ /\ ~IsOwner(p)
          /\ rowLock' = NoOne
          /\ Goto(p, "reclaim")
          /\ Forget(p)
          /\ UNCHANGED planned
    /\ UNCHANGED <<row, attempts, outputs, superseded, answers, crashes>>

RefreshCommit(p) ==
    /\ pc[p] = "refreshCommit"
    /\ CreateNextAttempt(p, generation, attempts)
    /\ lease' = planned[p]
    /\ planned' = [planned EXCEPT ![p] = 0]
    /\ CommitRow
    /\ UNCHANGED <<claimedBy, generation, outputs, answers, crashes>>

-------------------------------------------------------------------------------
\* Phase C.

AuthorizeLock(p) ==
    /\ pc[p] = "authorize"
    /\ LockAgentRunRowForUpdate(p, "authorizeUpdate")

AuthorizeUpdate(p) ==
    /\ pc[p] = "authorizeUpdate"
    /\ \/ /\ IsOwner(p)
          /\ Goto(p, "finalize")
          /\ UNCHANGED rowLock
       \/ /\ ~IsOwner(p)
          /\ rowLock' = NoOne
          /\ Goto(p, "closeLost")
    /\ UNCHANGED <<row, attempts, outputs, superseded, myGeneration, myAttempt, planned,
                   answers, crashes>>

\* The rest of Phase C: content, lifecycle transition, attempt, audit event, commit.
\* The version's row lock, taken by the transition, makes its outcome final.
FinalizeCommit(p) ==
    /\ pc[p] = "finalize"
    /\ version = "ELIGIBLE_PENDING"
    /\ status' = "SUCCEEDED"
    /\ content' = myAttempt[p]
    /\ version' = "DRAFT"
    /\ transitions' = transitions \union {"producer"}
    /\ attempts' = CloseAttempt(attempts, myAttempt[p], "SUCCESS")
    /\ audit' = audit \union {myAttempt[p]}
    /\ Goto(p, "poll")
    /\ Forget(p)
    /\ CommitRow
    /\ UNCHANGED <<claimedBy, lease, generation, planned, answers, crashes>>

\* Mutant: the rejection commits the content row instead of rolling it back.
FinalizeRejectKeepsContent(p) ==
    /\ pc[p] = "finalize" /\ version # "ELIGIBLE_PENDING"
    /\ content' = myAttempt[p]
    /\ rowLock' = NoOne
    /\ Goto(p, "closeRejected")
    /\ UNCHANGED <<row, attempts, version, transitions, audit, superseded, myGeneration,
                   myAttempt, planned, answers, crashes>>

\* The transition finds the version in another state: everything is rolled back.
FinalizeReject(p) ==
    /\ pc[p] = "finalize"
    /\ version # "ELIGIBLE_PENDING"
    /\ rowLock' = NoOne
    /\ Goto(p, "closeRejected")
    /\ UNCHANGED <<row, attempts, outputs, superseded, myGeneration, myAttempt, planned,
                   answers, crashes>>

\* close_attempt after a rolled back Phase C, in a transaction of its own.
CloseAfterRollback(p) ==
    /\ \/ /\ pc[p] = "closeLost"
          /\ attempts' = CloseAttempt(attempts, myAttempt[p], "CLAIM_LOST")
       \/ /\ pc[p] = "closeRejected"
          /\ attempts' = CloseAttempt(attempts, myAttempt[p], "TECHNICAL_FAILURE")
    /\ Goto(p, "poll")
    /\ Forget(p)
    /\ UNCHANGED <<row, outputs, rowLock, superseded, planned, answers, crashes>>

\* _poll_terminal_result: the status it reads last, or PENDING_POLL_TIMEOUT.
Answer(p) ==
    /\ pc[p] \in {"poll", "exhausted"}
    /\ answers' = answers \union ({status} \intersect Terminal)
    /\ Goto(p, "idle")
    /\ UNCHANGED <<row, attempts, outputs, rowLock, superseded, myGeneration, myAttempt,
                   planned, crashes>>

-------------------------------------------------------------------------------
\* The environment.

\* A process dies: PostgreSQL rolls its transaction back and frees its locks.
Crash(p) ==
    /\ pc[p] # "idle"
    /\ crashes < MaxCrashes
    /\ crashes' = crashes + 1
    /\ rowLock' = IF rowLock = p THEN NoOne ELSE rowLock
    /\ superseded' = superseded \ {p}
    /\ Goto(p, "idle")
    /\ Forget(p)
    /\ planned' = [planned EXCEPT ![p] = 0]
    /\ UNCHANGED <<row, attempts, outputs, answers>>

\* clock_timestamp() advances.
Tick ==
    /\ lease > 0 \/ \E p \in Proc : planned[p] > 0
    /\ SlowTransactions \/ \A p \in Proc : pc[p] \notin Waiting \union Holding
    /\ lease' = IF lease > 0 THEN lease - 1 ELSE 0
    /\ planned' = [p \in Proc |-> IF planned[p] > 0 THEN planned[p] - 1 ELSE 0]
    /\ UNCHANGED <<status, claimedBy, generation, attempts, outputs, rowLock, superseded,
                   pc, myGeneration, myAttempt, answers, crashes>>

\* request_workflow_transition moves the target version while the run is under way.
ExternalTransition ==
    /\ version = "ELIGIBLE_PENDING"
    /\ version' = "DRAFT"
    /\ transitions' = transitions \union {"external"}
    /\ UNCHANGED <<row, attempts, content, audit, rowLock, superseded, locals, answers, crashes>>

-------------------------------------------------------------------------------
Step(p) ==
    \/ AcquireEvaluate(p) \/ AcquireLock(p) \/ AcquireCommit(p)
    \/ ReclaimEvaluate(p) \/ ReclaimLock(p) \/ ReclaimCommit(p)
    \/ CallFails(p) \/ CallSucceeds(p)
    \/ RefreshLock(p) \/ RefreshUpdate(p) \/ RefreshCommit(p)
    \/ AuthorizeLock(p) \/ AuthorizeUpdate(p) \/ FinalizeCommit(p) \/ FinalizeReject(p)
    \/ CloseAfterRollback(p) \/ Answer(p)

Next ==
    \/ \E p \in Proc : Step(p) \/ Start(p) \/ Crash(p)
    \/ Tick \/ ExternalTransition

Spec == Init /\ [][Next]_vars

\* Statements and provider calls return, callers replay the key, time passes.
FairSpec ==
    /\ Spec
    /\ \A p \in Proc : WF_vars(Step(p)) /\ WF_vars(Start(p))
    /\ WF_vars(Tick)

-------------------------------------------------------------------------------
\* Safety.

\* The run has succeeded exactly when Phase C's writes are all there, and all of them
\* name one attempt, closed SUCCESS: no crash, rollback or lost lease leaves a part of
\* them (_phase_c_finalize, one commit).
FinalisationAtomic ==
    LET Done == {i \in DOMAIN attempts : attempts[i].outcome = "SUCCESS"} IN
    /\ status = "SUCCEEDED" => content # 0 /\ version = "DRAFT"
    /\ status # "SUCCEEDED" => content = 0
    /\ Done = {content} \ {0}
    /\ audit = Done
    /\ "producer" \in transitions <=> Done # {}

\* Content is published under the last token ever granted: a worker that lost its lease
\* cannot finalise, even when another request runs under the same worker_id.
PublishedUnderCurrentToken ==
    content # 0 => attempts[content].generation = generation

\* The target version leaves ELIGIBLE_PENDING once, by one writer.
OneTransition ==
    /\ version = "DRAFT" <=> transitions # {}
    /\ transitions # {"producer", "external"}

\* reclaim()'s argument that it need not name the abandoned attempt: an open attempt is
\* the last one, of the current generation, and its run is in progress.
OpenAttemptIsCurrent ==
    \A i \in DOMAIN attempts : attempts[i].outcome = "open" =>
        /\ i = Len(attempts)
        /\ attempts[i].generation = generation
        /\ status = "IN_PROGRESS"

\* Attempts are numbered without gaps or repetitions and never exceed max_attempts,
\* whatever worker created them (max_attempts = 0 still gets the first one).
AttemptBudget ==
    /\ \A i \in DOMAIN attempts : attempts[i].number = i
    /\ Len(attempts) <= IF MaxAttempts = 0 THEN 1 ELSE MaxAttempts

\* A run is FAILED only when its attempts are used up and every one of them is closed
\* without success.
FailedMeansExhausted ==
    status = "FAILED" =>
        /\ Len(attempts) >= MaxAttempts
        /\ \A i \in DOMAIN attempts : attempts[i].outcome \notin {"open", "SUCCESS"}

\* Between authorize_terminal_success and the commit, the finaliser is the one owner:
\* its attempt is the open one and no other request can have been granted a token.
FinaliserOwnsOpenAttempt ==
    \A p \in Proc : pc[p] = "finalize" =>
        /\ status = "IN_PROGRESS"
        /\ generation = myGeneration[p]
        /\ myAttempt[p] = Len(attempts)
        /\ attempts[myAttempt[p]].outcome = "open"

\* An attempt recorded as CLAIM_LOST was lost: its generation is superseded, or its
\* lease has run out with nobody able to use it again.
ClaimLostIsTrue ==
    \A i \in DOMAIN attempts : attempts[i].outcome = "CLAIM_LOST" =>
        attempts[i].generation < generation \/ (status = "IN_PROGRESS" /\ LeaseIsExpired)

\* Callers polling the same run are never told two different endings.
AnswersAgree == answers \subseteq {status}

\* A fresh token is granted only when the previous lease has run out, although the
\* expiry was judged before the wait for the row lock (reclaim's monotonicity argument).
GrantAfterExpiry ==
    generation' # generation =>
        /\ generation' = generation + 1
        /\ generation = 0 \/ LeaseIsExpired
NoOverlappingLeases == [][GrantAfterExpiry]_vars

\* A closed attempt keeps its outcome and a terminal run its owner and its token.
KeepHistory ==
    /\ \A i \in DOMAIN attempts :
          attempts[i].outcome # "open" => attempts'[i] = attempts[i]
    /\ status \in Terminal =>
          /\ status' = status
          /\ Len(attempts') = Len(attempts)
          /\ claimedBy' = claimedBy /\ generation' = generation
HistoryIsFinal == [][KeepHistory]_vars

\* AttemptAuthorization's docstring: failed_max_attempts=True says that status became
\* FAILED in the same transaction.
ExhaustedMeansFailed ==
    \A p \in Proc : pc[p] = "exhausted" => status = "FAILED"

-------------------------------------------------------------------------------
\* Why the above holds: the inductive invariant.

\* Labels at which a request works under the token it was granted.
TokenLabels == {"call", "refresh", "refreshUpdate", "refreshCommit", "authorize",
                "authorizeUpdate", "finalize", "closeLost", "closeRejected"}
Current(p) == pc[p] \in TokenLabels /\ myGeneration[p] = generation

\* The row lock is held by the one request inside a locking transaction.
LockDiscipline == \A p \in Proc : pc[p] \in Holding <=> rowLock = p

\* What a request may rely on while it holds the lock, and what a plain UPDATE saw
\* before it waited stays true until the row is updated.
LockedFacts ==
    \A p \in Proc :
        /\ pc[p] = "acquireCommit" \/ (pc[p] = "acquireWait" /\ p \notin superseded)
              => Acquirable
        /\ pc[p] = "reclaimCommit" \/ (pc[p] = "reclaimWait" /\ p \notin superseded)
              => Reclaimable
        /\ pc[p] \in {"refreshCommit", "finalize"} => Current(p)

\* A token belongs to one request; the one that has the last token granted works on a
\* run in progress and has the last attempt, open until its call has returned.
TokenFact(p) ==
    pc[p] \in TokenLabels =>
        /\ myGeneration[p] <= generation
        /\ myAttempt[p] \in DOMAIN attempts
        /\ attempts[myAttempt[p]].generation = myGeneration[p]
        /\ \A q \in Proc : pc[q] \in TokenLabels /\ myGeneration[q] = myGeneration[p] => q = p
        /\ Current(p) =>
              /\ status = "IN_PROGRESS" /\ claimedBy = WorkerId[p]
              /\ myAttempt[p] = Len(attempts)
              /\ attempts[myAttempt[p]].outcome = "open"
                    <=> pc[p] \notin {"refresh", "refreshUpdate", "refreshCommit"}
              /\ pc[p] = "closeLost" => LeaseIsExpired
TokenFacts == \A p \in Proc : TokenFact(p)

\* No attempt of the current generation is lost while its owner still has the token.
LostFacts ==
    \A i \in DOMAIN attempts :
        /\ attempts[i].generation <= generation
        /\ attempts[i].outcome = "CLAIM_LOST" /\ attempts[i].generation = generation
              => \A p \in Proc : ~Current(p)

StartFacts == status = "PENDING" <=> attempts = << >>
FreshFacts == status = "PENDING" => generation = 0

IndInv ==
    /\ LockDiscipline /\ LockedFacts /\ TokenFacts /\ LostFacts /\ StartFacts /\ FreshFacts
    /\ FinalisationAtomic /\ PublishedUnderCurrentToken /\ OneTransition
    /\ OpenAttemptIsCurrent /\ AttemptBudget /\ FailedMeansExhausted
    /\ ClaimLostIsTrue /\ AnswersAgree

-------------------------------------------------------------------------------
\* Liveness.

\* While the key is replayed, a run whose workers crash is reclaimed and ends.
RunTerminates == <>(status \in Terminal)

\* Every request that entered Phase B is answered.
RequestsAnswered == \A p \in Proc : pc[p] # "idle" ~> pc[p] = "idle"

-------------------------------------------------------------------------------
\* The run implements the fenced lease.  A lease counts as live while its owner, having
\* been authorised under the row lock, has not yet committed or rolled back.
Authorised == \E p \in Proc : pc[p] \in {"refreshCommit", "finalize"}
Live == LeaseIsValid \/ Authorised
Published == IF content = 0 THEN 0 ELSE attempts[content].generation

Fenced == INSTANCE FencedLease WITH
    phase <- status, token <- generation, live <- Live, published <- Published

FencedLeaseSpec == Fenced!FencedSpec
===============================================================================
