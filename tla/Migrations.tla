----------------------------- MODULE Migrations -----------------------------
(***************************************************************************)
(* The four Alembic revisions under src/migrations/versions, up and down,  *)
(* over a database that the program of each iteration goes on writing to.  *)
(*                                                                         *)
(* env.py runs a command, of one revision or of several, in a single       *)
(* transaction, and DDL is transactional in PostgreSQL: a command is done  *)
(* or changes nothing.  What is not atomic is the beginning.  A guard      *)
(* counts rows, and 0003 copies the objects it finds, before the first DDL *)
(* statement locks the tables: until then other sessions commit.           *)
(*                                                                         *)
(* A reservation is a row of idempotency_operation: names is the table     *)
(* whose column of the row is not NULL.  Rows with status CLAIMED are      *)
(* never committed.                                                        *)
(***************************************************************************)
EXTENDS Integers, FiniteSets

CONSTANTS
    Object, Version, ObjectOf,
    Number,         \* object_version.version_number
    Key,
    Fresh,          \* revisions an empty database may start at
    MaxWrites,      \* bound: commits of the program
    MaxCommands,    \* bound: commands of Alembic
    Null            \* SQL's NULL; a column that does not exist

\* The operation types, the table each one writes, and the revision that brings them.
Since == [APPROVED_STATE_COMMIT |-> 1, WORKFLOW_TRANSITION |-> 2,
          CONTEXT_ASSEMBLY |-> 3, PRODUCER_EXECUTION |-> 4]
Operation == DOMAIN Since

\* Of the reasons of a rejection, one that each revision brings.
ReasonSince == [STATE_CONFLICT |-> 2, NEWER_VERSION_AVAILABLE |-> 3, INVALID_CONTEXT_PACKAGE |-> 4]

ASSUME MigrationsAssumption ==
    /\ ObjectOf \in [Version -> Object] /\ Number \in [Version -> Nat]
    /\ Fresh \subseteq 0..4
    /\ MaxWrites \in Nat /\ MaxCommands \in Nat
    /\ Null \notin Operation \union DOMAIN ReasonSince

VARIABLES
    revision,       \* alembic_version
    data,           \* the committed rows
    command,        \* the command under way, or Null
    last,           \* how the last command ended
    writes, commands

vars == <<revision, data, command, last, writes, commands>>

Row == [key : Key, type : Operation \union {Null}, status : {"COMMITTED", "REJECTED"},
        names : Operation \union {Null}, reason : DOMAIN ReasonSince \union {Null}]

Empty == [version |-> {},                               \* object_version
          object |-> << >>,                             \* instructional_object: its object_type
          described |-> {},                             \* objects with rows in object_relation, evidence_source
          table |-> [t \in Operation |-> {}],           \* keys of the rows each operation has written
          content |-> {},                               \* object_version_content, by the key of its run
          reservation |-> {}]                           \* idempotency_operation

-------------------------------------------------------------------------------
\* The schema of each revision.

\* Mutant: the two closed domains are not narrowed by a downgrade.
RowFitsAnyIteration(r, row) ==
    r # 1 => /\ row.type # Null
             /\ \/ row.status = "COMMITTED" /\ row.names = row.type /\ row.reason = Null
                \/ row.status = "REJECTED" /\ row.names = Null /\ row.reason # Null

\* CHECKs of idempotency_operation: the status, the two closed domains, the row invariants.
RowFits(r, row) ==
    IF r = 1 THEN row.status = "COMMITTED"
    ELSE /\ row.type # Null /\ Since[row.type] <= r
         /\ row.reason # Null => ReasonSince[row.reason] <= r
         /\ \/ row.status = "COMMITTED" /\ row.names = row.type /\ row.reason = Null
            \/ /\ row.status = "REJECTED" /\ row.type # "APPROVED_STATE_COMMIT"
               /\ row.names = Null /\ row.reason # Null

\* Its primary key: the key, from 0002 on with the operation type.
KeyedOnce(r, rows) ==
    \A x, y \in rows : x.key = y.key /\ (r >= 2 => x.type = y.type) => x = y

\* uq_object_version_object_id_version_number
NumberedOnce(versions) ==
    \A v, w \in versions : ObjectOf[v] = ObjectOf[w] /\ Number[v] = Number[w] => v = w

\* fk_object_version_instructional_object
AllRegistered(d) == \A v \in d.version : ObjectOf[v] \in DOMAIN d.object

Fits(r, d) ==
    /\ r >= 1 => (\A row \in d.reservation : RowFits(r, row)) /\ KeyedOnce(r, d.reservation)
    /\ r >= 3 => AllRegistered(d)
    /\ r >= 4 => NumberedOnce(d.version)

TypeOK ==
    /\ revision \in 0..4
    /\ data.version \subseteq Version /\ data.described \subseteq DOMAIN data.object
    /\ data.reservation \subseteq Row /\ data.content \subseteq data.table["PRODUCER_EXECUTION"]
    /\ Fits(revision, data)
    /\ revision = 0 => data = Empty
    /\ \A t \in Operation : Since[t] > revision => data.table[t] = {}
    /\ last \in {"none", "done", "refused", "failed", "interrupted"}
    /\ writes \in 0..MaxWrites /\ commands \in 0..MaxCommands

Init ==
    /\ revision \in Fresh
    /\ data = Empty
    /\ command = Null
    /\ last = "none"
    /\ writes = 0
    /\ commands = 0

-------------------------------------------------------------------------------
\* The program, as far as the schema of the revision and the code of its iteration let it.

Write(d) ==
    /\ writes < MaxWrites
    /\ writes' = writes + 1
    /\ data' = d
    /\ UNCHANGED <<revision, command, last, commands>>

Reserved(t, k) == \E row \in data.reservation : row.key = k /\ (revision >= 2 => row.type = t)

\* What an operation refers to is there: a version, an object, a package.
Ready(t) ==
    CASE t \in {"APPROVED_STATE_COMMIT", "WORKFLOW_TRANSITION"} -> data.version # {}
      [] t = "CONTEXT_ASSEMBLY" -> DOMAIN data.object # {}
      [] t = "PRODUCER_EXECUTION" -> data.version # {} /\ data.table["CONTEXT_ASSEMBLY"] # {}

Commit(t, k) ==
    /\ revision >= Since[t] /\ Ready(t) /\ ~Reserved(t, k)
    /\ Write([data EXCEPT !.table[t] = @ \union {k},
                          !.reservation = @ \union
                            {[key |-> k, type |-> IF revision = 1 THEN Null ELSE t,
                              status |-> "COMMITTED", names |-> t, reason |-> Null]}])

\* commit_approved_state never records a rejection.
Reject(t, k) ==
    /\ t # "APPROVED_STATE_COMMIT" /\ revision >= Since[t] /\ ~Reserved(t, k)
    /\ \E reason \in DOMAIN ReasonSince :
          /\ ReasonSince[reason] = Since[t]
          /\ Write([data EXCEPT !.reservation = @ \union
                      {[key |-> k, type |-> t, status |-> "REJECTED", names |-> Null,
                        reason |-> reason]}])

Publish(k) ==
    /\ k \in data.table["PRODUCER_EXECUTION"] \ data.content
    /\ Write([data EXCEPT !.content = @ \union {k}])

InsertVersion(v) ==
    /\ revision >= 1 /\ v \notin data.version
    /\ revision >= 3 => ObjectOf[v] \in DOMAIN data.object
    /\ revision >= 4 => NumberedOnce(data.version \union {v})
    /\ Write([data EXCEPT !.version = @ \union {v}])

\* CODE-CR-42: an object must be registered, with a type, before its first version.
Register(o) ==
    /\ revision >= 3 /\ o \notin DOMAIN data.object
    /\ Write([data EXCEPT !.object = [x \in DOMAIN @ \union {o} |-> IF x = o THEN "typed" ELSE @[x]]])

Describe(o) ==
    /\ o \in DOMAIN data.object \ data.described
    /\ Write([data EXCEPT !.described = @ \union {o}])

Program ==
    \/ \E k \in Key : Publish(k) \/ \E t \in Operation : Commit(t, k) \/ Reject(t, k)
    \/ \E v \in Version : InsertVersion(v)
    \/ \E o \in Object : Register(o) \/ Describe(o)

-------------------------------------------------------------------------------
\* The revisions: what each one does to the rows, and what it refuses to do it to.

Upgrade0001(d) == Empty

Upgrade0002(d) ==
    [d EXCEPT !.table["WORKFLOW_TRANSITION"] = {},
              !.reservation = {[row EXCEPT !.type = "APPROVED_STATE_COMMIT"] : row \in @}]

\* seen: the rows when the backfill was executed.
Upgrade0003(d, seen) ==
    [d EXCEPT !.object = [o \in {ObjectOf[v] : v \in seen.version} |-> Null],
              !.described = {}, !.table["CONTEXT_ASSEMBLY"] = {}]

Upgrade0004(d) == [d EXCEPT !.table["PRODUCER_EXECUTION"] = {}, !.content = {}]

Downgrade0004(d) == [d EXCEPT !.table["PRODUCER_EXECUTION"] = {}, !.content = {}]

\* Mutant: object_relation and evidence_source are not dropped.
KeepDescribed(d) == [d EXCEPT !.table["CONTEXT_ASSEMBLY"] = {}, !.object = << >>]
Downgrade0003(d) == [d EXCEPT !.table["CONTEXT_ASSEMBLY"] = {}, !.described = {}, !.object = << >>]

\* transition_id, rejected_reason and operation_type are dropped.
Downgrade0002(d) ==
    [d EXCEPT !.table["WORKFLOW_TRANSITION"] = {},
              !.reservation = {[row EXCEPT !.type = Null, !.reason = Null,
                                           !.names = IF @ = "WORKFLOW_TRANSITION" THEN Null ELSE @] :
                                 row \in @}]

Downgrade0001(d) == Empty

Changed(from, to, d, seen) ==
    CASE from < to /\ to = 1 -> Upgrade0001(d)
      [] from < to /\ to = 2 -> Upgrade0002(d)
      [] from < to /\ to = 3 -> Upgrade0003(d, seen)
      [] from < to /\ to = 4 -> Upgrade0004(d)
      [] from > to /\ from = 4 -> Downgrade0004(d)
      [] from > to /\ from = 3 -> Downgrade0003(d)
      [] from > to /\ from = 2 -> Downgrade0002(d)
      [] from > to /\ from = 1 -> Downgrade0001(d)

\* RuntimeErrors of the guards; 0001 has none, and that of 0002 up cannot fail.
OfType(d, t) == {row \in d.reservation : row.type = t}

Guard0004Up(d) == ~NumberedOnce(d.version)
Guard0003Up(counted, seen) == \E v \in counted.version : \A w \in seen.version : ObjectOf[w] # ObjectOf[v]
Guard0004Down(d) ==
    OfType(d, "PRODUCER_EXECUTION") # {} \/ d.table["PRODUCER_EXECUTION"] # {} \/ d.content # {}
\* Mutant: the rejected assemblies, which have no package, are not counted.
CountPackages(d) == d.table["CONTEXT_ASSEMBLY"] # {}
Guard0003Down(d) == OfType(d, "CONTEXT_ASSEMBLY") # {} \/ d.table["CONTEXT_ASSEMBLY"] # {}
Guard0002Down(d) == \E x, y \in d.reservation : x.key = y.key /\ x.type # y.type

Refuses(from, to, d, seen) ==
    \/ from < to /\ to = 4 /\ Guard0004Up(d)
    \/ from > to /\ from = 4 /\ Guard0004Down(seen)
    \/ from > to /\ from = 3 /\ Guard0003Down(seen)
    \/ from > to /\ from = 2 /\ Guard0002Down(seen)

\* The revision that Alembic goes to next on the way from one to another.
NextRevision(at, to) == IF at < to THEN at + 1 ELSE at - 1

\* One revision of a command, unless it has come to its end: seen is what the guard and the
\* backfill have read, d what is there when the constraints are created, over all the rows.
Step(s, to, seen) ==
    LET r == NextRevision(s.at, to)
        d == Changed(s.at, r, s.data, seen) IN
    IF s.how # "done" \/ s.at = to THEN s
    ELSE IF Refuses(s.at, r, s.data, seen) THEN [s EXCEPT !.how = "refused"]
    ELSE IF ~Fits(r, d) THEN [s EXCEPT !.how = "failed"]
    ELSE [how |-> "done", at |-> r, data |-> d]

\* The whole command, of as many revisions as there are at the most.  Once the first of them
\* has locked the tables, nobody writes.
Executed(to, seen) ==
    LET first == Step([how |-> "done", at |-> revision, data |-> data], to, seen)
        second == Step(first, to, first.data)
        third == Step(second, to, second.data) IN
    Step(third, to, third.data)

\* The command begins: guard and backfill of its first revision.
Start(to) ==
    /\ command = Null /\ commands < MaxCommands
    /\ to # revision
    /\ command' = [to |-> to, seen |-> data]
    /\ commands' = commands + 1
    /\ UNCHANGED <<revision, data, last, writes>>

Ends(how) ==
    /\ last' = how
    /\ command' = Null
    /\ UNCHANGED <<writes, commands>>

Finish ==
    /\ command # Null
    /\ LET end == Executed(command.to, command.seen) IN
       /\ Ends(end.how)
       /\ IF end.how = "done" THEN revision' = end.at /\ data' = end.data
                              ELSE UNCHANGED <<revision, data>>

\* 0003 counts the versions without an object after the backfill: it may meet some already.
MeetOrphans ==
    /\ command # Null
    /\ command.to > revision /\ revision = 2
    /\ Guard0003Up(data, command.seen)
    /\ Ends("refused")
    /\ UNCHANGED <<revision, data>>

\* The process or its connection dies: PostgreSQL rolls back what it did.
Interrupt ==
    /\ command # Null
    /\ Ends("interrupted")
    /\ UNCHANGED <<revision, data>>

Alembic == (\E to \in 0..4 : Start(to)) \/ Finish \/ MeetOrphans \/ Interrupt

Next == Program \/ Alembic

Spec == Init /\ [][Next]_vars

-------------------------------------------------------------------------------
\* What the revisions promise.

\* Whatever is committed between the guard of a command and its first lock, a command that
\* is done, to any revision but the empty one, has lost no reservation, no version, no
\* approval, no package, no run and no content, and an approval is still found, by the
\* program of the new revision, under its key.
NothingLost ==
    [][revision' # revision /\ revision' # 0 =>
         /\ data'.version = data.version
         /\ data'.content = data.content
         /\ \A t \in Operation \ {"WORKFLOW_TRANSITION"} : data'.table[t] = data.table[t]
         /\ \A k \in Key : Cardinality({row \in data'.reservation : row.key = k})
                            = Cardinality({row \in data.reservation : row.key = k})
         /\ \A k \in data.table["APPROVED_STATE_COMMIT"] :
               \E row \in data'.reservation :
                  /\ row.key = k /\ row.names = "APPROVED_STATE_COMMIT"
                  /\ row.type = IF revision' = 1 THEN Null ELSE "APPROVED_STATE_COMMIT"]_vars

\* A command ends in the error of a constraint, instead of in the diagnosis of a guard or
\* well, only if somebody wrote after its guard, or if it crosses 0002 with a rejected
\* transition going down or with what a downgrade made of a transition going up.
GuardsSpeakFirst ==
    [][command # Null /\ command' = Null /\ last' = "failed" =>
         \/ data # command.seen
         \/ \E row \in data.reservation :
               IF command.to < revision
               THEN command.to <= 1 /\ revision >= 2 /\ row.type = "WORKFLOW_TRANSITION" /\ row.status = "REJECTED"
               ELSE revision = 1 /\ row.names = Null]_vars

\* 0004:290-291: the guards of the three downgrades have one pattern, to abort if there are data
\* of their iteration before a CHECK is narrowed.  So over rows nobody has written since the
\* guard read, a downgrade that is done leaves no row of an operation that the revision it
\* comes to does not know.  (What becomes of one is then lost: Downgrade0002 makes an applied
\* transition a row no upgrade can take, the Trap of GuardsSpeakFirst.)
DowngradesAbortOverTheirData ==
    [][/\ revision' \in 1..3 /\ revision' < revision
       /\ data = command.seen
       => \A row \in data.reservation : Since[row.type] <= revision']_vars
===============================================================================
