# A verification project for instructional-agent-mvp

The repository is the backend of an agent that writes instructional content: PostgreSQL
keeps objects, their versions, approvals and workflow states, and an orchestrator asks an
LLM for the content of a version and records what it answers.  There is no server and no
queue.  Every operation is a Python function that is given a SQLAlchemy `Session` and runs
short transactions; concurrency is that of its callers, and every guarantee rests on row
locks, unique constraints, conditional `UPDATE`s and idempotency keys.  That is what these
modules model: **one step is one SQL statement, or one commit**, and between any two
statements of one caller any other may act, a caller may die, and time may pass.

Paths are relative to the repository; `repositories/` is `src/persistence/repositories/`.

## 1. Inventory

| component | state it keeps | operations | uses |
|---|---|---|---|
| `repositories/agent_run_manager.py` | `agent_run` (status, owner, lease, generation), `agent_run_attempt` | create, acquire, reclaim, refresh, authorise, fail, create/close attempts | PostgreSQL row locks, `clock_timestamp()` |
| `repositories/orchestrator.py` | none of its own: a session | `request_producer_execution`: preflight, context, Phases A, B, C, poll | all the others |
| `repositories/version_creation.py` | `object_version` | lock the object, reuse or create a version | `agent_run`, contents |
| `repositories/workflow_transition.py` | `object_version.status`, `workflow_transition`, reservations | `request_workflow_transition`, `apply_transition_in_transaction` | called by clients and by Phase C |
| `repositories/approved_state.py` | `approved_state_pointer`, `approved_state_commit`, reservations | initialise, `commit_approved_state` | - |
| `repositories/context_engine.py` | `context_package`, reservations | `assemble_context` under REPEATABLE READ | resolver, retriever, contract |
| `dependency_resolver.py`, `evidence_retriever.py`, `context_engine_contract.py` | reads only | resolve pointers, dependencies and evidence | called by the context engine |
| `producer_output_schema.py` | none | `validate_structural` | called by Phase B |
| `producer_executor.py` and the Anthropic adapter | none | one HTTP call | called by Phase B, outside any transaction |
| `migrations/versions`, `migrations/env.py` | the schema, `alembic_version` | four revisions, up and down | run beside the program |
| `task_intake.py`, result types, `models.py`, `db.py` | constant tables, declarations | - | all |

**How they interact.**  `request_producer_execution` reads the row of its idempotency key
(preflight), assembles a context under a derived key, and in one transaction locks the
object, chooses a version, inserts the run and reserves the key (Phase A).  Phase B takes
the run under a lease, calls the provider with no transaction open, and tries again until
the attempts are used up.  Phase C locks the run, checks the lease, inserts the content,
moves the version to DRAFT with `apply_transition_in_transaction`, and commits.  Callers
that repeat a key join the same run.  `request_workflow_transition` may move the same
version, and `commit_approved_state` the pointer of its object, at any time.  All four
idempotent operations share one table, `idempotency_operation`.

**What is hard here.**

* PostgreSQL evaluates the `WHERE` of an `UPDATE` before it waits for a row, and again only
  if the row was changed meanwhile: a condition on the clock can be stale when it is used.
* A worker comes back from the provider after its lease was given to somebody else, who may
  use the same `worker_id`.
* `INSERT ... ON CONFLICT DO NOTHING` waits for an uncommitted row of the same key; whoever
  waits must find a row, or the key free, and never both act.
* A transaction that fails half way has to undo its reservation, or record its rejection.
* A caller dies between two commits and the key is used again.
* The context is read in eight or so statements while approvals, transitions, relations and
  sources are committed; under REPEATABLE READ a conflict on the key is error 40001, and the
  snapshot of a caller that waited for the key may be older than its ownership.
* What the prompt allows the provider to answer and what the validation accepts are computed
  in two places, from a package that may be older than the approvals of the day.
* A migration counts and copies rows before its first DDL statement locks anything.

**What makes each component correct.**  A run has one owner at a time, its attempts are
numbered, bounded and never reopened, and its content is published once, under the last
token (agent_run_manager, Phase C).  A key has one run, a version has one active run, an
object's versions have distinct numbers (Phase A).  A key is decided once and everyone is
told the same (every idempotent operation).  Approvals of an object form a chain without
lost updates (approved_state).  A version moves only as enabled, by one writer, and a
remembered refusal stays true (workflow_transition).  A context package is one committed
snapshot, and the only one of its key (context_engine).  An answer is accepted if and only if
it obeys the prompt, and refers to outcomes that were approved and linked at one moment
(producer_executor, producer_output_schema).  A migration loses nothing it does not announce,
whenever it is executed (migrations).

## 2. The modules

| module | models | checked by | proved in |
|---|---|---|---|
| `FencedLease` | abstract: a lease with a fencing token | - | - |
| `AgentRun` | `agent_run_manager.py`, Phases B, C and the poll of `orchestrator.py` | `MCAgentRun` | `AgentRunProofs` |
| `ExactlyOnce` | abstract: what a row of `idempotency_operation` promises | - | - |
| `ApprovedState` | `approved_state.py` | `MCApprovedState` | `ApprovedStateProofs` |
| `WorkflowTransition` | `workflow_transition.py`, and Phase C as its second caller | `MCWorkflowTransition` | `WorkflowTransitionProofs` |
| `ProducerExecution` | the preflight, Phase A and the reservation of `orchestrator.py`, `version_creation.py` | `MCProducerExecution` | `ProducerExecutionProofs` |
| `ContextEngine` | `context_engine.py`, `dependency_resolver.py`, `evidence_retriever.py`, the contract | `MCContextEngine` | `ContextEngineProofs` |
| `ProducerOutput` | from the answer of the provider to the outcome of the attempt: `producer_executor.py`, `producer_output_schema.py`; functions, no state | with `ProducerContext` | `ProducerContextProofs` |
| `ProducerContext` | composition: the packages of `ContextEngine` as the prompt and the validation use them | `MCContextEngine` | `ProducerContextProofs` |
| `Migrations` | the four revisions, and `env.py` | `MCMigrations` | `MigrationsProofs` |
| `SequenceFacts` | lemmas on sequences that three of the proof modules share | - | itself |

`AgentRun` implements `FencedLease`; `ApprovedState`, `WorkflowTransition`,
`ProducerExecution` and `ContextEngine` each implement `ExactlyOnce`, each with a refinement
mapping of its own (`Record`, `Told`).

### AgentRun

The row of `agent_run` is `status`, `claimedBy`, `lease`, `generation`; the lease is kept as
the ticks it has left, so that the clock needs no bound.  `attempts` is the sequence of
`agent_run_attempt` rows, `content`, `transitions` and `audit` say who wrote the rows of
Phase C.  `pc[p]` is where one execution of Phase B or C stands.

A plain `UPDATE` (acquire, reclaim) is three steps: `...Evaluate` looks at the committed
row, takes the lock or queues for it; `...Lock` gets the lock later, re-evaluating only if
`superseded` says that the row was changed meanwhile (EvalPlanQual); `...Commit` writes.  What
is written was computed before the wait (`planned`), so that a lease loses time while its
`UPDATE` waits, and may be born expired.  `SELECT ... FOR UPDATE` followed by an `UPDATE`
(refresh, authorise) is `...Lock` and then `...Update`, which looks at the clock under the
lock: this difference is what CODE-CR-69 is about.  The provider call is `CallSucceeds` or
`CallFails`; the output check belongs to that choice.  Phase C is `AuthorizeLock`,
`AuthorizeUpdate`, then `FinalizeCommit` or, when somebody else has moved the version,
`FinalizeReject` and `CloseAfterRollback`.

### ApprovedState and WorkflowTransition

One request is one transaction.  What a transaction writes is seen by the others at its
commit, so the writes are made by the commit step, and until then the transaction holds
locks: on its key (`keyLock`, the uncommitted row of the reservation) and on the row it has
updated (`objectLock`, `versionLock`).  `Reserve` waits for the key as
`ON CONFLICT DO NOTHING` does; the loser goes to `Replay`, which compares payloads.
`UpdatePointer` and `Apply` are compare-and-swap `UPDATE`s, which wait and look again.  In
`ApprovedState` a failure rolls the reservation back and the key stays free; in
`WorkflowTransition` a rejected request is recorded with its reason
(`RecordRejection`) and replayed.  Phase C calls the same `Apply` without a key.

In `WorkflowTransition` a text is the sequence of its parts between the separators `|`, so
that `PayloadHash`, which joins, can be seen to identify requests or not.

### ProducerExecution

`Preflight`, `Assemble`, `Reject`, then Phase A: `LockObject`, `ChooseVersion`,
`ReserveRun`, `CommitRun`; `Snapshot`; `PhaseB`, one step for everything `AgentRun` has in
detail; `Receive`.  The loser of the race for the key rolls back (`Unlock`) and goes round
(`TryAgain`); after five rounds comes the `RuntimeError` of the code.  `inTransaction` is
`session.in_transaction()`, which two guards of the code ask about.  `assemble_context` is
one step that decides its derived key for good; whether it rejects is left open.  With the
mapping of `context_engine_contract.py` as it stands, an assembly without a pinned version
is never rejected in production; tests/integration/test_orchestrator.py exercises that
branch, and so does the model.

### ContextEngine

The committed rows that an assembly reads are one record, a *content*: the pointer of each
object, the status of each version, the relations and the sources.  `history` is every content
there has been, so that a snapshot is an index in it.  The environment appends to it, a commit
at a time: `Approve` (any version of the object: `commit_approved_state` does not look at the
status), `CreateVersion`, `Transition`, and two that nothing under `src` does, `InsertRelation`
and `InsertEvidence`.

A caller goes through `TakeSnapshot` (the start of the INSERT of the reservation: the snapshot
comes before the wait), then one of `WinReservation`, `FindReservation` (the row is in the
snapshot) and `SerializationFailure` (it was committed since: 40001, rollback, next round),
then the reads: `ReadTarget`, `RejectPinned` or `AcceptPinned`, `ReadVersion`, one
`ResolveRelation` per relation of the contract, one `NoteDependency` per resolution (which
reads a pointer for the second time), one `RetrieveEvidence` per class.  Each is a step of its
own, through `Visible(p)`, and the environment acts between any two.  `CommitPackage` writes
the package, its audit event and the reservation; `FailToInsert` is the foreign key of an
object that is not registered; `Reject` records a rejection, `Replay` repeats what is recorded.
`PackageAt` and `OutcomeAt` say what a package should be, as a function of a content and with
no order of statements.

### ProducerOutput and ProducerContext

`AllowedOutcomes` is `compute_allowed_learning_outcome_ids`; `ResponseText`,
`HasStructuredOutput` and `StructuredOutput` are the extraction; `IsValid` is
`validate_structural`, check by check; `AttemptOutcome` puts them together as the adapter and
Phase B do.  `ObeysPrompt` is the other side, what `_build_prompt` tells the provider.  A text
is a sequence of pieces (the halves of a JSON document, prose), so that a document in two
blocks, one with prose around it, one cut short and two documents differ.  `Answers` has every
output with the value of one field spoilt, in every way that some check looks at, each of them
also with a field missing or one too many, and every way to deliver a good one.  `ProducerContext`
evaluates all of them at each commit of a package.

### Migrations

`data` is the rows that a migration can lose or trip over: reservations (their type, status,
reason, and which of the reference columns is not NULL), versions, objects, and the tables of
each iteration.  `RowFits`, `KeyedOnce`, `NumberedOnce` and `AllRegistered` are the constraints
of a revision.  A command of Alembic is `Start` (guard and backfill of its first revision:
`seen` is what they read) and `Finish` (everything else, in one step: the tables are locked),
or `MeetOrphans`, or `Interrupt`.  `Executed` takes a `Step` per revision on the way, which are
four at the most; in each the guard may refuse, then the rows change (`Upgrade0002`,
`Downgrade0003`, ...), then the constraints are created over what is there.  Between `Start` and `Finish` the program commits what the
schema of the revision permits.  The program at a revision before the last one is the program
of that iteration, as far as the schema and the comments of the later revisions tell.

## 3. The runs

| run | instance | what it shows |
|---|---|---|
| `agent_run_safety` | 2 requests with one `worker_id`, lease 2, 2 attempts, 3 generations, 1 crash, the clock moves inside transactions | all safety properties, the inductive invariant, the refinement |
| `agent_run_liveness` | 2 requests, 1 crash, 4 generations, short transactions | the run ends, every request is answered |
| `agent_run_exhausted` | 2 requests, lease 1, 1 attempt | finding 1 |
| `approved_state` | 2 callers, 3 keys, right and wrong expectations, 1 crash | the chain of approvals, one commit per key, `ExactlyOnce`, every request is answered |
| `workflow_transition` | 2 clients, 1 Phase C, 2 keys, four kinds of request, 1 crash | lifecycle, decisions, truth of what is remembered, `ExactlyOnce`, every request is answered |
| `workflow_transition_hash` | requesters whose names hold a separator | finding 2 |
| `producer_execution_safety` | 2 callers, 2 keys, 2 objects, 2 configurations, 1 crash | one run per key and version, the right context, no exception of the code's own, `ExactlyOnce` |
| `producer_execution_liveness` | 2 callers, 2 keys, 1 crash | every request is answered, also when the holder of a lock dies |
| `producer_execution_open` | 2 callers, 1 key | finding 3 |
| `context_engine` | 2 callers of 1 key, 4 kinds of request, 3 registered objects and an unknown one, 2 changes of the content, 1 crash, two initial contents | packages are one moment and one per key, two rounds are enough, answers are accepted iff they obey the prompt, `ExactlyOnce` |
| `migrations` | 3 versions of 2 objects (two with one number), 2 keys, 5 commits of the program, 3 commands, from any revision | nothing is lost, guards speak before constraints |
| `migrations_downgrade` | the same, 4 commits, 2 commands, from revisions 2 to 4 | finding 4 |

**Why the bounds are enough.**  Every conflict in this code is between two transactions
about one row or one key: one holds it, the other waits and then finds it changed or not.
A second waiter does what the first does after it, and the runs have enough keys for a caller
to come back as somebody else; and what section 4 lists as proved holds for any number of
callers, keys, versions, crashes and rounds.
`MaxGeneration = 3` lets a run be reclaimed twice, so that a stale owner meets an owner that
is stale itself; a lease of 2 has a tick in which it is valid and not new.  Two keys on one
object make a rejected or lost request meet a different one; a third key in `ApprovedState`
lets a pointer return to a version it had left (Null, v1, v2, v1).  One crash is enough to
leave a lock or a half-done protocol behind; the counter `MaxCrashes` only bounds it.  Runs,
versions, commits and transitions are bounded by keys and not by a limit of their own.
In `ContextEngine` keys do not interact, so there is one; a package can mix two moments as
soon as one change falls between two reads, and the second change (`MaxChanges = 2`) lets the
snapshot lie strictly between the request and the commit; the initial contents are chosen so
that every entry and every gap of a package occurs, and the rest of the gaps can change.
`NULL` pins, right ones, superseded, unapproved and missing ones are all asked.  A migration
needs a version, an object, a row and a row after the guard to be tripped: five commits; three
commands go down, up and down again.

**Symmetry** is used for callers and keys where no liveness property is checked; in
`MCMigrations` for keys and for two versions of one object with one number.

**Fairness.**  `WF` on each caller's own step: a statement returns, and the provider call has
a timeout. (`ApprovedState` has no counter of the rounds of approved_state.py:175: an
insertion that lost finds the row of a commit, since a reservation is committed with its
outcome or not at all, so that the `RuntimeError` after the last round is out of reach.) In
`ApprovedState` and `ProducerExecution` also `SF` on the steps that wait for a lock which
others may take again and again (`Reserve`, `UpdatePointer`, `LockObject`): PostgreSQL
queues the waiters of a row and wakes the first. `WorkflowTransition` needs `WF` only. In
`AgentRun` also `WF` on `Start` (somebody repeats the key of an unfinished run: nothing else
in the code recovers one) and on `Tick`. Its liveness run has `SlowTransactions = FALSE`:
transactions are short against a lease of minutes; with it TRUE a lease can expire inside
every transaction and nothing has to end. For `ContextEngine` no liveness is stated: no step
of a request is taken more than a few times (`TwoRoundsSuffice`) and the only wait is for
the one caller that holds the key, so that the deadlock check stands for it. `Migrations`
has none either, and its deadlock check is off, because the bounded commits and commands run
out.

## 4. What is proved

`AgentRunProofs` proves, for any number of requests and workers, any lease length, any
`max_attempts`, any bound on generations and crashes, and with the clock moving anywhere:

* `Invariance`: `Spec => [](Types /\ IndInv)`; `TypeCorrect`: `Spec => []TypeOK`, the types and,
  from `IndInv`, the constraints between rows that nobody catches an error of (attempt numbers
  are unique, one attempt at the most is SUCCESS, the content names an attempt);
* `Publication`, `AttemptHistory`, `Agreement`, `ExclusiveAuthority`: each safety invariant;
* `LeasesDoNotOverlap`, `HistoryIsFinal` (`FinalHistory`): the two action properties;
* `ImplementsFencedLease`: `Spec => Fenced!FencedSpec`.

It assumes `ConstantsAssumption` alone (positive lease, natural bounds, `NoOne` is no caller).

**The argument.**  None of the safety properties is inductive by itself: that the content
carries the last token depends on the finaliser having kept the lock since it checked, and
that depends on everyone else's place in the code.  `IndInv` adds: `LockDiscipline` (exactly
the request inside a locking transaction holds the row lock); `LockedFacts` (what a waiting
`UPDATE` saw stays true while the row is not changed, and what a holder checked stays true
until its commit; this is why the early evaluation of `reclaim` is harmless: expiry is
permanent unless the row changes); `TokenFacts` (a token belongs to one request, and the
request that has the current one has the last attempt, open until its call returns);
`LostFacts`, `StartFacts`, `FreshFacts`.  There is one lemma per action (`AcquireLockStep`,
`ReclaimCommitStep`, ...), lemmas for the operators on attempts (`CloseAttemptLemma`, ...),
`NextInv` that gathers them, and then the temporal theorems.  The refinement needs one fact
more: a lease counts as live while its owner has been authorised under the row lock, even if
the clock passes its end before the commit.

`FinalisationAtomic`, `FailedMeansExhausted` and `ClaimLostIsTrue` are conjuncts of `IndInv`:
the runs check them as part of it, and `Publication` and `AttemptHistory` state them.

`ContextEngineProofs` proves, for any number of callers, objects, versions, keys, payloads,
changes and crashes, and any contents the program may start from:

* `ContextTypes`: `Spec => []TypeOK`;
* `ContextRounds`: `Spec => []TwoRoundsSuffice`, so that the `RuntimeError` of the loop is
  unreachable whoever else uses the key;
* `ContextOncePerKey`: `Spec => []OnePackagePerKey`;
* `ContextOneMoment`: `Spec => PackageIsOneMoment` (CR-37);
* `ContextExactlyOnce`: `Spec => ExactlyOnceSpec`, for a finite set of keys.

It assumes `ContextAssumption`: the columns and foreign keys of the initial contents and of the
relations, a type (or NULL) for each registered object, `Null` unlike an identifier or a status,
`NoOne` unlike a caller or a row, natural bounds.

**The argument.**  `IndInv` has five parts.  `Contents`: every content of the history is
consistent.  `Rows`: packages, audit events and decided reservations name each other.  `Locks`:
whoever reads owns its key, and an owned key is not decided; therefore a committed package is
the first of its key.  `Functions`: domains.  `Caller(p)`: the snapshot of a caller lies
between its request and now; a caller in its second round has met a committed row, so that the
snapshot it takes next sees it; and `Drafted` says what each statement has left in the draft as
a function of the snapshot alone.  The last is the point of the proof: the draft after the last
statement, as sets, is `PackageAt` of one content (`CollectedLemma`), although the module has
no order of statements in `PackageAt` and the history may have grown between any two of them.
`CallerFrame` is what makes it modular: rows and contents only grow, so that a step of anybody
else leaves `Caller(p)` true, and each action needs a lemma about its own caller only.

`ApprovedStateProofs` proves, for any number of callers, objects, versions, keys and crashes:

* `ApprovedTypes`: `Spec => []TypeOK`;
* `ApprovedChain`: `Spec => []ApprovalsFormAChain`, no approval is lost;
* `ApprovedOncePerKey`: `Spec => []OneCommitPerKey`;
* `ApprovedPointer`: `Spec => PointerFollowsCommits`;
* `ApprovedExactlyOnce`: `Spec => ExactlyOnceSpec`.

`WorkflowTransitionProofs` proves, for any number of clients and of executions of Phase C:

* `WorkflowTypes`, `WorkflowLifecycle`, `WorkflowOneDecision`: the three invariants;
* `WorkflowConflicts`: `Spec => []ConflictsStayTrue`, a STATE_CONFLICT that was recorded and is
  replayed years later is still what a new request would be told;
* `WorkflowExactlyOnce`: `Spec => ExactlyOnceSpec`, with Phase C as a second writer of versions
  that no key protects.

`ProducerExecutionProofs` proves, for any number of callers, objects, keys, configurations,
attempts of the loop and crashes:

* `ProducerTypes`, `ProducerOneRun`, `ProducerOneActive`, `ProducerNumbers`, `ProducerObject`,
  `ProducerNoRuntimeError`: the six invariants;
* `ProducerExactlyOnce`: `Spec => ExactlyOnceSpec`, for a finite set of keys.

`MigrationsProofs` proves, for any objects, versions and keys, any number of commits of the
program and of commands:

* `MigrationTypes`: `Spec => []TypeOK`, the rows always fit the constraints of the revision;
* `MigrationLosesNothing`: `Spec => NothingLost`;
* `MigrationGuardsFirst`: `Spec => GuardsSpeakFirst`.

`ProducerContextProofs` proves

* `ProducerOutputAccepted`, about every answer there is: any number of texts, some or all of them
  empty, any documents in them, whole, cut anywhere or one after the other.  With the same
  references on both sides, `AttemptOutcome` is `SUCCESS` exactly for the answers that obey the
  prompt within the length of a title;
* `ProducerGrounded`: `Spec => AcceptedIffGrounded`, with the references on both sides: what the
  white list takes from a package is what the content of its snapshot links to the object, in every
  behaviour of `ContextEngine` and under no assumption but `ContextAssumption`.

**The argument.**  The code skips empty texts and joins the others; the prompt speaks of all of
them.  That both give one text is an induction on their number (`JoinsAgree`), and so is that
the function which joins them exists at all (`JoinsExist`).  It is an induction over a *set* of
numbers: `InductionLemma` follows from `WFMin`, the least element of a nonempty set, which takes
no operator as a parameter.  The hypothesis on an answer is `WellTyped`, what `json.loads`
guarantees where the checks look (the length of a string is a natural number), and `AnswersTyped` shows that
the answers of the run satisfy it.  `ReferencesLemma` is the half about packages: an approved
object of type LEARNING_OUTCOME is the object itself or the end of its one LEARNING_OUTCOME
relation, since the other relation of the contract is satisfied by an activity only and the unique
constraint leaves nothing to choose.  It is applied to the snapshot, which `CollectedLemma`
shows the package to be.

**What they assume.**  The assumptions of each module, in the module that declares the
constants: the foreign keys of the payloads, natural bounds, and that `NoOne`, the absent row
and the absent caller, is no row and no caller.  `ProducerExactlyOnce` and `ContextExactlyOnce`
have one hypothesis more, `IsFiniteSet(Key)`: the runs and packages they promise are numbered
up to how many keys there are, and keys are texts of PostgreSQL, which are of bounded length.

**The argument of the first three.**  Each `IndInv` is a handful of parts about the shared rows
and one part, `Caller(p)` or `CallerInv(p)`, about each caller.  `Rows`: the committed rows name each other.
`Locks`: whoever holds the lock of a key is where the code reserves it, and a key with a lock
is not decided, so that nobody decides it twice; whoever has updated a pointer or a version
holds it, and what its compare-and-swap has found there is still there.  `Chain`: what a commit
or a transition starts from is what the last one before it has left.  `Numbers`: the number of
a version is the `Count` of the versions of its object up to it, which an insertion by the holder
of the object's lock keeps.  What a caller may rely on mentions its own variables
and facts about rows that only become more (`RowsGrow`); hence a frame lemma, and a step needs a
proof about the caller that takes it only.  The refinements follow from the same invariant: a
step that commits is `Decide`, one that answers from a row is `Repeat`, a rollback that answers
is `Refuse`, and everything else changes neither `Record` nor `Told`.

`RuntimeError` is unreachable in `ProducerExecution` because a caller that lost the race for its
key finds it decided in the next round, and its guards because every path to them has closed
its transaction: both are in `CallerInv`.

**The argument of Migrations.**  `TypeOK` is not enough: a run committed after the
guard of a downgrade of 0004, without a reservation that the older CHECK refuses, would be dropped.
`Sound(r, d)` adds what the constraints leave open: `Named` (each row of an operation is named by
a reservation, and the operation is one the revision knows) and `Known` (what a reservation at
revision 1 may name; that the reason of a rejection is one of its operation, which no CHECK says).
Each of the eight revisions has a lemma: from sound rows, *if the new constraints hold*, the
result is sound and `Kept` holds between the two.  `Kept` is transitive, so that `Course`, the
invariant of a command on its way, carries it from revision to revision.  That the backfill and
the guard read other rows than the constraints meet is covered, since the lemmas have `seen`
arbitrary.  For `GuardsSpeakFirst` there are lemmas in the other direction: from sound rows, if the
guard does not refuse *these* rows, the new constraints do hold, but for a `Trap`.  They say
precisely which rows each guard must count: without the rejected assemblies the lemma of the
downgrade of 0003 is false, since their reason is one the older CHECK does not know.

**Only model-checked**: liveness, and with it `ENABLED` (both outside TLAPS). Every
invariant, action property and refinement of a run that passes is stated by a theorem. The
properties of the runs that expect a violation are false.

## 5. Findings

1. `failed_max_attempts=True` may be false (`agent_run_exhausted`): the result of
   `mark_failed_if_owner` is ignored (agent_run_manager.py:555, :606), so when the lease just
   written has run out before it executes, the caller is told of a failure that did not
   happen, against the docstring of `AttemptAuthorization`.  A replay recovers the run.
2. Two requesters can be one (`workflow_transition_hash`): the hash joins fields with `|`
   (workflow_transition.py:114), so names that contain it collide, against CODE-CR-32.  The
   other workflow runs use texts without separator, where the join is injective.  An `object_id`
   that contains it could collide too; the models' object_ids do not.
   `compute_producer_request_identity_hash` joins in the same way; `ProducerExecution` takes
   its identities to be distinct.
3. The preflight may leave a transaction open (`producer_execution_open`): the row is used
   after the rollback that expires it (orchestrator.py:326-334), against the docstring of
   `request_producer_execution`.  `NoRuntimeError` shows that no guard of the code meets it:
   both paths that go on close it again, and a session used for another request is rolled
   back by its next preflight.

4. The downgrade of 0002 is done over data of its own iteration (`migrations_downgrade`).  Its
   guard refuses keys that two operation types share
   (0002_workflow_transitions_and_idempotency_generalization.py:219) and nothing else, which
   is what its own docstring announces (0002:35-41).  But
   0004_producer_execution_agent_run.py:290-291 calls its guard, "abortar si existen datos de
   Iteracion 4 antes de restrechar cualquier CHECK", the "mismo patron de 0002/0003", and 0003
   has that pattern.  The row of an applied transition passes, loses its type and its
   `transition_id`, and stays, COMMITTED and naming nothing: no row of Iteration 1.  What follows
   is in the exceptions `GuardsSpeakFirst` has to make: a later upgrade takes the row for an
   approval and fails in `ck_idempotency_operation_row_invariants`, and a *rejected* transition
   fails already on the way down, in the CHECK of the status (0002:250), where the guards of
   0003 and 0004 would have spoken.  With a guard in 0002 that counts `WORKFLOW_TRANSITION`
   rows, `DowngradesAbortOverTheirData` holds on the same instance.

Observations that contradict no document, and have no run:

* `_build_prompt` does not tell the provider of the 300 characters a title may have
  (producer_executor.py:181, producer_output_schema.py:24); `AcceptedIffGrounded` is stated
  within that length.
* `output_schema_version` is an argument of the request and goes into the prompt, while
  `validate_structural` compares with a constant: with another value every obedient answer is
  invalid.  The models take it to be the constant.
* An object resolved through the pointer need not be APPROVED_CONTENT (context_engine.py:35-38),
  as `commit_approved_state` does not look at the status of a version; an entry of
  `approved_objects` has the status that is really there.
* The downgrade of 0003 drops object types, relations and sources unless there is a package,
  and the upgrade brings the objects back without a type.
* The replay of `commit_approved_state` reads `commit_row` after the rollback that expires it
  (approved_state.py:236-242), so that the caller gets its answer with a transaction open, as in
  finding 3; no docstring promises otherwise there, and `ApprovedState` does not track it.
* A NUL character in a text of the provider passes the validation and fails at the insertion.

## 6. What is not modelled, and why

The HTTP call of the adapter (its outcome is a choice) and the fake executor of the tests; the
hash of a package beyond its canonical content; token counts, cost and audit payloads; wording
and logging; `created_at` and `updated_at`; the offline mode of `env.py`, which prints SQL; the
CHECKs of a migration on columns that no revision changes (states, evidence classes); the
copies of two modules at the root of the repository.  Deletion does not occur in the code.

## 7. Plan

Done: every component with behaviour of its own has its module, its runs and its proofs.  What is
left is a composition: `ProducerExecution` with its `PhaseB` replaced by the `FencedLease` of each
run, so that one specification covers the path from a key to the published content.
